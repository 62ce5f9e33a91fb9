----------------------------- MODULE RunPromise -----------------------------
(***************************************************************************)
(* What one `run` promises about the messages it lists, with no workers,   *)
(* retries, pauses or failures in sight.  RunPool implements it.           *)
(***************************************************************************)
CONSTANT Messages

VARIABLES
  dry,       \* --dry-run
  picked,    \* the messages of the listing
  changed,   \* those whose labels the run changed
  reported,  \* those with an audit line, or a warning in its place
  over       \* the process has ended

pvars == <<dry, picked, changed, reported, over>>

Init ==
  /\ dry \in BOOLEAN
  /\ picked = {} /\ changed = {} /\ reported = {}
  /\ over = FALSE

\* One listing decides what the run may touch; an empty one ends it.
Pick(s) ==
  /\ ~over /\ picked = {}
  /\ picked' = s /\ over' = (s = {})
  /\ UNCHANGED <<dry, changed, reported>>

\* A message can be changed as long as nothing was reported about it.
Change(m) ==
  /\ ~over /\ ~dry /\ m \in picked \ reported
  /\ changed' = changed \cup {m}
  /\ UNCHANGED <<dry, picked, reported, over>>

\* The report is the last word about a message.
Report(m) ==
  /\ ~over /\ ~dry /\ m \in picked \ reported
  /\ reported' = reported \cup {m}
  /\ UNCHANGED <<dry, picked, changed, over>>

\* The run ends, by its exit or by a crash, with any part of the work left.
Stop ==
  /\ ~over /\ over' = TRUE
  /\ UNCHANGED <<dry, picked, changed, reported>>

Next ==
  \/ \E s \in SUBSET Messages : Pick(s)
  \/ \E m \in Messages : Change(m) \/ Report(m)
  \/ Stop

Spec == Init /\ [][Next]_pvars
=============================================================================
