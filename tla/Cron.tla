---------------------------------- MODULE Cron ----------------------------------
(***************************************************************************)
(* Reminders of jiuwenClaw: the cron tool, called in the turns of any      *)
(* session, and the CronWatcher thread share jobs.json without a lock. Each*)
(* reads the whole file, changes its copy and writes the whole file; the   *)
(* watcher runs an Agent turn per due job in between.                      *)
(*                                                                         *)
(* A tick is a minute. A job is known by its id, which is its own here     *)
(* (GenerateJobId gives two jobs of one second the same one). An interval  *)
(* is at least one tick: below one second CalculateSleepDuration would     *)
(* never end.                                                              *)
(***************************************************************************)
EXTENDS Integers, Sequences, FiniteSets, SequencesExt

CONSTANTS
  Jobs, Kind,    \* Kind[j]: "one-time", "recurring" or "cron"
  At,            \* one-time: the minute; recurring: every_seconds
  Minutes,       \* cron: the minutes CalculateNextFire finds for cron_expr
  Matching,      \* cron: those of them MatchesCronExpression accepts
  Callers,       \* turns that may call the cron tool
  Torn, NoTime,
  MaxTime, MaxCalls, MaxBusy, MaxStops, MaxFaults

ASSUME CronAssumption ==
  /\ Kind \in [Jobs -> {"one-time", "recurring", "cron"}]
  /\ At \in [Jobs -> Nat \ {0}] /\ Minutes \subseteq Nat /\ Matching \subseteq Minutes
  /\ {MaxTime, MaxCalls, MaxBusy, MaxStops, MaxFaults} \subseteq Nat
  /\ NoTime \notin Nat /\ Torn \notin Seq([id : Jobs, next : Nat])

VARIABLES
  now,
  file,        \* jobs.json: a sequence of jobs, or Torn while it is truncated
  running,
  wpc, slept,  \* the watcher: control, and whether a minute went by in its wait
  snap, i,     \* its copy of the file and the job it is at
  at,          \* the time it read at the start of the check
  modified,
  tpc, buffer, \* per caller: control, and what it will write
  busy,        \* another caller holds the __CRON__ session
  fires,       \* history, per job: times SessionManager took it, however the
               \* turn went
  scheduled,   \* history, per job: when AddReminder reported success
  removed,     \* history: jobs RemoveReminder reported as removed
  disturbed,   \* history: two of the windows above overlapped, or one was cut off
               \* or its write failed
  used         \* bounds

watcher == <<running, wpc, slept, snap, i, at, modified>>
vars == <<now, file, watcher, tpc, buffer, busy, fires, scheduled, removed, disturbed, used>>

Ids(s) == {s[k].id : k \in 1 .. Len(s)}

(* Somebody has read the file and not finished with it.                    *)
WatcherReading == wpc \notin {"wait", "ended"}
CallersReading == {p \in Callers : tpc[p] # "idle"}

-----------------------------------------------------------------------------
(* The next minute after t the expression matches, where a day matches by  *)
(* its date or its weekday when both are given; the scan of a year that    *)
(* finds none answers with the next minute.                                *)
CalculateNextFire(t) ==
  LET later == {m \in Minutes : m > t}
  IN  IF later = {} THEN t + 1 ELSE CHOOSE m \in later : \A n \in later : m <= n

FirstFire(j, t) ==
  CASE Kind[j] = "one-time" -> At[j]
    [] Kind[j] = "recurring" -> t + At[j]
    [] OTHER -> CalculateNextFire(t)

(* A file that does not parse counts as empty. A time in the past is       *)
(* refused before anything is written.                                     *)
AddReminder(p, j) ==
  /\ tpc[p] = "idle" /\ used.calls < MaxCalls /\ scheduled[j] = NoTime /\ now < MaxTime
  /\ Kind[j] = "one-time" => At[j] > now
  /\ buffer' = [buffer EXCEPT ![p] = Append(IF file = Torn THEN <<>> ELSE file,
                                            [id |-> j, next |-> FirstFire(j, now)])]
  /\ tpc' = [tpc EXCEPT ![p] = "open"]
  /\ scheduled' = [scheduled EXCEPT ![j] = now] /\ used' = [used EXCEPT !.calls = @ + 1]
  /\ disturbed' = (disturbed \/ WatcherReading \/ CallersReading # {})
  /\ UNCHANGED <<now, file, watcher, busy, fires, removed>>

RemoveReminder_Unwritten(p, j) ==
  /\ tpc[p] = "idle" /\ used.calls < MaxCalls /\ file # Torn /\ j \in Ids(file)
  /\ buffer' = [buffer EXCEPT ![p] = file]
  /\ tpc' = [tpc EXCEPT ![p] = "open"]
  /\ removed' = removed \cup {j} /\ used' = [used EXCEPT !.calls = @ + 1]
  /\ disturbed' = (disturbed \/ WatcherReading \/ CallersReading # {})
  /\ UNCHANGED <<now, file, watcher, busy, fires, scheduled>>

(* A file that does not parse, or does not hold the job, is left alone.    *)
RemoveReminder(p, j) ==
  /\ tpc[p] = "idle" /\ used.calls < MaxCalls /\ file # Torn /\ j \in Ids(file)
  /\ buffer' = [buffer EXCEPT ![p] = SelectSeq(file, LAMBDA job : job.id # j)]
  /\ tpc' = [tpc EXCEPT ![p] = "open"]
  /\ removed' = removed \cup {j} /\ used' = [used EXCEPT !.calls = @ + 1]
  /\ disturbed' = (disturbed \/ WatcherReading \/ CallersReading # {})
  /\ UNCHANGED <<now, file, watcher, busy, fires, scheduled>>

(* A failure to open or to write that nobody notices, or none.             *)
Failure(failed) ==
  /\ used.faults < MaxFaults \/ ~failed
  /\ used' = IF failed THEN [used EXCEPT !.faults = @ + 1] ELSE used
  /\ disturbed' = (disturbed \/ failed)

(* ofstream truncates when it opens; the text is there when it is closed.  *)
(* When the open fails what is written goes nowhere, and success is        *)
(* reported all the same.                                                  *)
OpenForWriting(p) ==
  /\ tpc[p] = "open"
  /\ \/ /\ Failure(FALSE) /\ file' = Torn
        /\ tpc' = [tpc EXCEPT ![p] = "close"] /\ UNCHANGED buffer
     \/ /\ Failure(TRUE) /\ UNCHANGED file
        /\ tpc' = [tpc EXCEPT ![p] = "idle"] /\ buffer' = [buffer EXCEPT ![p] = <<>>]
  /\ UNCHANGED <<now, watcher, busy, fires, scheduled, removed>>

(* A text that was written in part does not parse.                         *)
CloseFile(p) ==
  /\ tpc[p] = "close" /\ tpc' = [tpc EXCEPT ![p] = "idle"]
  /\ \/ Failure(FALSE) /\ file' = buffer[p]
     \/ Failure(TRUE) /\ UNCHANGED file
  /\ buffer' = [buffer EXCEPT ![p] = <<>>]
  /\ UNCHANGED <<now, watcher, busy, fires, scheduled, removed>>

-----------------------------------------------------------------------------
(* The watcher sleeps until the next job it knows of, at most one minute,  *)
(* and nothing the tool does wakes it.                                     *)
CalculateSleepDuration == wpc = "wait" => ~slept

Tick ==
  /\ now < MaxTime /\ CalculateSleepDuration
  /\ now' = now + 1 /\ slept' = (wpc = "wait")
  /\ UNCHANGED <<file, running, wpc, snap, i, at, modified, tpc, buffer, busy, fires, scheduled, removed, disturbed, used>>

(* The locals of a check go out of scope.                                  *)
Forget == snap' = <<>> /\ i' = 1 /\ at' = 0 /\ modified' = FALSE

(* CheckAndFireCrons reads file and clock. Without a job, or with a file   *)
(* that does not parse, it waits again.                                    *)
ReadJobs ==
  /\ wpc = "wait" /\ running
  /\ IF file \in {Torn, <<>>}
     THEN slept' = FALSE /\ UNCHANGED <<running, wpc, snap, i, at, modified, disturbed>>
     ELSE /\ wpc' = "check" /\ snap' = file /\ i' = 1 /\ at' = now /\ modified' = FALSE
          /\ disturbed' = (disturbed \/ CallersReading # {})
          /\ UNCHANGED <<running, slept>>
  /\ UNCHANGED <<now, file, tpc, buffer, busy, fires, scheduled, removed, used>>

(* The time has come; a cron job's minute must match too, in its date and  *)
(* its weekday.                                                            *)
ShouldFire(job) == at >= job.next /\ (Kind[job.id] = "cron" => at \in Matching)

(* The job at i: not due, missed (a cron job whose minute has gone by), put*)
(* off because the session is busy, or handed to the Agent.                *)
CheckJob ==
  /\ wpc = "check" /\ i <= Len(snap)
  /\ LET job == snap[i]
     IN  IF ShouldFire(job) /\ running /\ ~busy
         THEN /\ wpc' = "handling"
              /\ fires' = [fires EXCEPT ![job.id] = @ + 1]
              /\ UNCHANGED <<i, snap, modified>>
         ELSE /\ i' = i + 1
              /\ IF at >= job.next /\ ~ShouldFire(job)
                 THEN snap' = [snap EXCEPT ![i].next = CalculateNextFire(at)] /\ modified' = TRUE
                 ELSE UNCHANGED <<snap, modified>>
              /\ UNCHANGED <<wpc, fires>>
  /\ UNCHANGED <<now, file, running, slept, at, tpc, buffer, busy, scheduled, removed, disturbed, used>>

(* Invoke throws before it has a turn (FindOrCreateEntry): the check is    *)
(* given up, and what it did to its copy is not written.                   *)
CheckThrows ==
  /\ wpc = "check" /\ i <= Len(snap) /\ used.faults < MaxFaults
  /\ ShouldFire(snap[i]) /\ running /\ ~busy
  /\ wpc' = "wait" /\ slept' = FALSE /\ Forget
  /\ disturbed' = (disturbed \/ modified) /\ used' = [used EXCEPT !.faults = @ + 1]
  /\ UNCHANGED <<now, file, running, tpc, buffer, busy, fires, scheduled, removed>>

After_FromNow(job) ==
  CASE Kind[job.id] = "one-time" -> job
    [] Kind[job.id] = "recurring" -> [job EXCEPT !.next = at]
    [] OTHER -> [job EXCEPT !.next = CalculateNextFire(at)]

After_Late(job) ==
  CASE Kind[job.id] = "one-time" -> job
    [] Kind[job.id] = "recurring" -> [job EXCEPT !.next = at + 2 * At[job.id]]
    [] OTHER -> [job EXCEPT !.next = CalculateNextFire(at)]

(* A recurring job moves on by its interval, so it makes up for what it is *)
(* behind; a cron job goes to its next minute.                             *)
After(job) ==
  CASE Kind[job.id] = "one-time" -> job
    [] Kind[job.id] = "recurring" -> [job EXCEPT !.next = @ + At[job.id]]
    [] OTHER -> [job EXCEPT !.next = CalculateNextFire(at)]

(* The turn ends, well or not. During shutdown the check is given up here: *)
(* nothing of what was fired is written.                                   *)
HandleEvent ==
  /\ wpc = "handling"
  /\ IF running
     THEN /\ IF Kind[snap[i].id] = "one-time"
             THEN snap' = RemoveAt(snap, i) /\ UNCHANGED i
             ELSE snap' = [snap EXCEPT ![i] = After(snap[i])] /\ i' = i + 1
          /\ modified' = TRUE /\ wpc' = "check"
          /\ UNCHANGED disturbed
          /\ UNCHANGED at
     ELSE wpc' = "ended" /\ disturbed' = TRUE /\ Forget
  /\ UNCHANGED <<now, file, running, slept, tpc, buffer, busy, fires, scheduled, removed, used>>

(* Like the tool's writes.                                                 *)
SaveJobs ==
  /\ wpc = "check" /\ i > Len(snap)
  /\ slept' = FALSE
  /\ \/ /\ modified /\ Failure(FALSE)
        /\ wpc' = "close" /\ file' = Torn /\ UNCHANGED <<snap, i, at, modified>>
     \/ modified /\ Failure(TRUE) /\ wpc' = "wait" /\ Forget /\ UNCHANGED file
     \/ ~modified /\ wpc' = "wait" /\ Forget /\ UNCHANGED <<file, disturbed, used>>
  /\ UNCHANGED <<now, running, tpc, buffer, busy, fires, scheduled, removed>>

CloseJobs ==
  /\ wpc = "close" /\ wpc' = "wait" /\ Forget
  /\ \/ Failure(FALSE) /\ file' = snap
     \/ Failure(TRUE) /\ UNCHANGED file
  /\ UNCHANGED <<now, running, slept, tpc, buffer, busy, fires, scheduled, removed>>

Check == ReadJobs \/ CheckJob \/ CheckThrows \/ HandleEvent \/ SaveJobs \/ CloseJobs

-----------------------------------------------------------------------------
(* Somebody else talks to the __CRON__ session for a while.                *)
Occupy ==
  /\ ~busy /\ used.busy < MaxBusy /\ wpc # "handling"
  /\ busy' = TRUE /\ used' = [used EXCEPT !.busy = @ + 1]
  /\ UNCHANGED <<now, file, watcher, tpc, buffer, fires, scheduled, removed, disturbed>>

Leave ==
  /\ busy /\ busy' = FALSE
  /\ UNCHANGED <<now, file, watcher, tpc, buffer, fires, scheduled, removed, disturbed, used>>

(* ~CronWatcher *)
Stop ==
  /\ running /\ used.stops < MaxStops
  /\ running' = FALSE /\ used' = [used EXCEPT !.stops = @ + 1]
  /\ UNCHANGED <<now, file, wpc, slept, snap, i, at, modified, tpc, buffer, busy, fires, scheduled, removed, disturbed>>

(* Run leaves its loop when it finds running_ cleared.                     *)
Leaving ==
  /\ ~running /\ wpc = "wait" /\ wpc' = "ended"
  /\ UNCHANGED <<now, file, running, slept, snap, i, at, modified, tpc, buffer, busy, fires, scheduled, removed, disturbed, used>>

(* The process ends, by itself or killed, and is started again.            *)
Restart ==
  /\ wpc = "ended" \/ (used.stops < MaxStops)
  /\ running' = TRUE /\ wpc' = "wait" /\ slept' = FALSE /\ busy' = FALSE /\ Forget
  /\ tpc' = [p \in Callers |-> "idle"] /\ buffer' = [p \in Callers |-> <<>>]
  /\ disturbed' = (disturbed \/ WatcherReading \/ CallersReading # {})
  /\ used' = IF wpc = "ended" THEN used ELSE [used EXCEPT !.stops = @ + 1]
  /\ UNCHANGED <<now, file, fires, scheduled, removed>>

Tool(p) == OpenForWriting(p) \/ CloseFile(p)

Next ==
  \/ Check \/ Tick \/ Occupy \/ Leave \/ Stop \/ Leaving \/ Restart
  \/ \E p \in Callers : Tool(p) \/ \E j \in Jobs : AddReminder(p, j) \/ RemoveReminder(p, j)

Init ==
  /\ now = 0 /\ file = <<>> /\ running = TRUE
  /\ wpc = "wait" /\ slept = FALSE /\ snap = <<>> /\ i = 1 /\ at = 0 /\ modified = FALSE
  /\ tpc = [p \in Callers |-> "idle"] /\ buffer = [p \in Callers |-> <<>>]
  /\ busy = FALSE /\ fires = [j \in Jobs |-> 0]
  /\ scheduled = [j \in Jobs |-> NoTime] /\ removed = {} /\ disturbed = FALSE
  /\ used = [calls |-> 0, busy |-> 0, stops |-> 0, faults |-> 0]

(* The wait is timed, a turn ends, time passes, a visitor leaves the       *)
(* session, and a program that was shut down is started again.             *)
Spec ==
  /\ Init /\ [][Next]_vars
  /\ WF_vars(Check) /\ WF_vars(Tick) /\ WF_vars(Leave) /\ WF_vars(Leaving)
  /\ WF_vars(wpc = "ended" /\ Restart)
  /\ \A p \in Callers : WF_vars(Tool(p))

-----------------------------------------------------------------------------
TypeOK ==
  /\ now \in 0 .. MaxTime /\ at \in 0 .. now /\ {running, slept, modified, busy, disturbed} \subseteq BOOLEAN
  /\ wpc \in {"wait", "check", "handling", "close", "ended"}
  /\ file = Torn \/ \A k \in 1 .. Len(file) : file[k].id \in Jobs /\ file[k].next \in Nat
  /\ i \in 1 .. Len(snap) + 1
  /\ tpc \in [Callers -> {"idle", "open", "close"}]

(* How often a job was due since it was scheduled.                         *)
Occurrences(j, t) ==
  CASE scheduled[j] = NoTime -> 0
    [] Kind[j] = "one-time" -> IF t >= At[j] THEN 1 ELSE 0
    [] Kind[j] = "recurring" -> (t - scheduled[j]) \div At[j]
    [] OTHER -> Cardinality({m \in Matching : scheduled[j] < m /\ m <= t})

(* As long as no two users of jobs.json overlap, no check is cut off after *)
(* it has fired, and no write fails, a job is never fired more often than  *)
(* it was due: over waits, busy sessions, long turns, turns that could not *)
(* be begun and restarts.                                                  *)
NeverTooOften == ~disturbed => \A j \in Jobs : fires[j] <= Occurrences(j, now)

(* What the file holds between two users of it is what was scheduled and   *)
(* neither removed nor done, each job once.                                *)
FileIsExact ==
  ~disturbed /\ file # Torn /\ ~WatcherReading /\ CallersReading = {} =>
    /\ Len(file) = Cardinality(Ids(file))
    /\ Ids(file) = {j \in Jobs : scheduled[j] # NoTime /\ ~(Kind[j] = "one-time" /\ fires[j] > 0)} \ removed

(* The README's table of jobs: a one-time job "Fires once, then is         *)
(* removed".                                                               *)
OneTimeFiresOnce == \A j \in Jobs : Kind[j] = "one-time" => fires[j] <= 1

(* A one-time or recurring reminder that was scheduled is fired for every  *)
(* time it is due, later if need be, unless it is removed or jobs.json is  *)
(* disturbed.                                                              *)
EveryOccurrenceFires ==
  \A j \in Jobs : Kind[j] # "cron" =>
    (scheduled[j] # NoTime ~>
       (fires[j] = Occurrences(j, MaxTime) \/ j \in removed \/ disturbed))

=============================================================================
