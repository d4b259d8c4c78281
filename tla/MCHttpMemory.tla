----------------------------- MODULE MCHttpMemory -----------------------------
EXTENDS HttpMemory

Bullet(e) == [tokens |-> {e}, prose |-> {}]
Prose(e) == [tokens |-> {}, prose |-> {e}]

(* Old and fresh events; a relation whose ends are both listed, or one of  *)
(* them, or none; bullets, and running text that names an event.           *)
MCPackages ==
  {[entities |-> es, relations |-> {<<"meeting", "person">>},
    lines |-> {Bullet(e) : e \in es} \cup {Prose("meeting")}, expired |-> x] :
     es \in SUBSET {"meeting", "person"}, x \in {{}, {"meeting"}, {"meeting", "person"}}}

=============================================================================
