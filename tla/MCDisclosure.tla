----------------------------- MODULE MCDisclosure -----------------------------
EXTENDS Disclosure

(* One skill's name differs from its id. *)
MCSkillName(k) == IF k = "k1" THEN "first skill" ELSE k

=============================================================================
