------------------------------ MODULE Rollback ------------------------------
(***************************************************************************)
(* `emailcleaner rollback`: read the records of a run, verify each against *)
(* the message as it is now, print the plan, wait for ENTER, apply it.     *)
(* The mailbox's owner works in Gmail all the while.                       *)
(***************************************************************************)
EXTENDS AuditLog

CONSTANTS
  Messages,  \* the messages the run has a record of, in the file's order
  Views,     \* label sets a message may have had before the run
  MaxMoves   \* bound: moves of the owner, after the run and during the rollback

ASSUME RollbackAssumption ==
  /\ Messages \subseteq Nat /\ IsFiniteSet(Messages) /\ Messages # {}
  /\ Views \subseteq SUBSET LabelIds
  /\ MaxMoves \in Nat

VARIABLES
  status,   \* "starting", "planning", "prompt", "applying", "exited", "crashed"
  code,     \* exit code, meaningful once status = "exited"
  recs,     \* the run's record of each message
  labels,   \* the mailbox
  todo,     \* records not planned yet
  plan,     \* toApply: what is left to revert
  tally,    \* reverted and skipped, as printed at the end
  moves,    \* how often the owner moved a message so far
  touched,  \* history: messages the owner moved
  seen      \* history: the labels of each planned message when it was verified

vars == <<status, code, recs, labels, todo, plan, tally, moves, touched, seen>>

exitOK == 0
exitGeneric == 1
exitUsage == 2
exitReAuth == 3

\* Records a run writes about a message in view v: applied, failed to apply, or skipped.
RecordsOf(v) ==
  [outcome : {"applied", "error"}, before : {v}, action : Actions]
    \cup [outcome : {"skipped"}, before : {v}, action : {NoAction}]

\* An "error" may be a change whose reply was lost.
Init ==
  /\ status = "starting" /\ code = exitOK
  /\ recs \in [Messages -> UNION {RecordsOf(v) : v \in Views}]
  /\ labels \in [Messages -> SUBSET LabelIds]
  /\ \A m \in Messages :
       \/ recs[m].outcome # "skipped" /\ labels[m] = Applied(recs[m])
       \/ recs[m].outcome # "applied" /\ labels[m] = recs[m].before
  /\ todo = Messages /\ plan = {}
  /\ tally = [reverted |-> 0, skipped |-> 0]
  /\ moves = 0 /\ touched = {}
  /\ seen = [m \in Messages |-> {}]

\* Bad flags or config; the token, Gmail or the audit file cannot be used.
Refuse ==
  /\ status = "starting"
  /\ status' = "exited"
  /\ code' \in {exitUsage, exitReAuth, exitGeneric}
  /\ UNCHANGED <<recs, labels, todo, plan, tally, moves, touched, seen>>

\* audit.Read or audit.LoadLatest.
ReadAudit ==
  /\ status = "starting"
  /\ status' = "planning"
  /\ UNCHANGED <<code, recs, labels, todo, plan, tally, moves, touched, seen>>

First(s, m) == m \in s /\ \A k \in s : m <= k

\* What is left to plan after m.
Rest(m) == todo \ {m}

\* The records are planned in the file's order.
PlanOne(m) ==
  /\ status = "planning" /\ First(todo, m)
  /\ todo' = Rest(m)
  /\ \/ /\ ShouldRevert(recs[m], labels[m])
        /\ plan' = plan \cup {m}
        /\ seen' = [seen EXCEPT ![m] = labels[m]]
        /\ UNCHANGED tally
     \/ \* not applied, moved since, or the message cannot be fetched
        /\ tally' = [tally EXCEPT !.skipped = @ + 1]
        /\ UNCHANGED <<plan, seen>>
  /\ UNCHANGED <<status, code, recs, labels, moves, touched>>

\* The plan is printed; with nothing to revert that is all.
ShowPlan ==
  /\ status = "planning" /\ todo = {}
  /\ status' = IF plan = {} THEN "exited" ELSE "prompt"
  /\ UNCHANGED <<code, recs, labels, todo, plan, tally, moves, touched, seen>>

\* ENTER, or the end of the input.
Enter ==
  /\ status = "prompt"
  /\ status' = "applying"
  /\ UNCHANGED <<code, recs, labels, todo, plan, tally, moves, touched, seen>>

\* How a call that reports an error is counted.
AfterFailure_Uncounted == tally
AfterFailure == [tally EXCEPT !.skipped = @ + 1]

\* One revert: done, refused, or done with its reply lost.
ApplyOne(m) ==
  /\ status = "applying" /\ First(plan, m)
  /\ plan' = plan \ {m}
  /\ \/ /\ labels' = [labels EXCEPT ![m] = Reverted(recs[m], @)]
        /\ tally' = [tally EXCEPT !.reverted = @ + 1]
     \/ /\ labels' \in {labels, [labels EXCEPT ![m] = Reverted(recs[m], @)]}
        /\ tally' = AfterFailure
  /\ UNCHANGED <<status, code, recs, todo, moves, touched, seen>>

\* Per-message failures do not change the exit code.
Report ==
  /\ status = "applying" /\ plan = {}
  /\ status' = "exited"
  /\ UNCHANGED <<code, recs, labels, todo, plan, tally, moves, touched, seen>>

Crash ==
  /\ status \notin {"exited", "crashed"}
  /\ status' = "crashed"
  /\ UNCHANGED <<code, recs, labels, todo, plan, tally, moves, touched, seen>>

UserMoves(m) ==
  /\ status \notin {"exited", "crashed"}
  /\ moves < MaxMoves /\ moves' = moves + 1
  /\ \E ids \in MovedByUser(labels[m]) : labels' = [labels EXCEPT ![m] = ids]
  /\ touched' = touched \cup {m}
  /\ UNCHANGED <<status, code, recs, todo, plan, tally, seen>>

Over ==
  /\ status \in {"exited", "crashed"}
  /\ UNCHANGED vars

Next ==
  \/ Refuse \/ ReadAudit \/ ShowPlan \/ Enter \/ Report \/ Crash \/ Over
  \/ \E m \in Messages : PlanOne(m) \/ ApplyOne(m) \/ UserMoves(m)

Spec == Init /\ [][Next]_vars

-----------------------------------------------------------------------------
(* Properties *)

\* Every variable stays in its range; a planned record is not planned again.
TypeOK ==
  /\ status \in {"starting", "planning", "prompt", "applying", "exited", "crashed"}
  /\ code \in {exitOK, exitGeneric, exitUsage, exitReAuth}
  /\ recs \in [Messages -> Record] /\ labels \in [Messages -> SUBSET LabelIds]
  /\ todo \in SUBSET Messages /\ plan \in SUBSET (Messages \ todo)
  /\ tally \in [reverted : Nat, skipped : Nat]
  /\ moves \in 0 .. MaxMoves /\ touched \in SUBSET Messages
  /\ seen \in [Messages -> SUBSET LabelIds]

\* The two totals printed at the end cover every record of the run, whatever was
\* skipped at verification and whatever failed when it was applied.
EveryRecordIsCounted ==
  tally.reverted + tally.skipped + Cardinality(todo) + Cardinality(plan) = Cardinality(Messages)

\* "rollback is exact" (design spec, Audit and Rollback), as far as it goes: a message
\* the owner left alone is, at every moment of the rollback and after a crash, either
\* as the run left it or as it was before the run, never half-way.  A run that adds
\* a label the message had already is the exception.
UntouchedIsExact ==
  \A m \in Messages \ touched :
    LET r == recs[m]
    IN  r.before \cap toLabelIDs(r.action.add) = {} /\ toLabelIDs(r.action.remove) \subseteq r.before
          => labels[m] \in {r.before, Applied(r)}

\* A revert takes off only what the run put on and puts back only what it took off,
\* also when the owner archived or relabelled the message after the plan was made.
OnlyTheRunIsUndone ==
  [][\A m \in Messages :
       \/ UserMoves(m)
       \/ /\ labels[m] \ labels'[m] \subseteq toLabelIDs(recs[m].action.add)
          /\ labels'[m] \ labels[m] \subseteq toLabelIDs(recs[m].action.remove)]_vars

\* A message the owner had moved away before it was verified is not changed any more,
\* and neither is one the run failed on or skipped: a revert needs ALL labels of
\* the action to have been in place then.
MovedBeforePlanIsLeftAlone ==
  [][\A m \in Messages :
       \/ UserMoves(m)
       \/ labels'[m] = labels[m]
       \/ /\ recs[m].outcome = "applied"
          /\ toLabelIDs(recs[m].action.add) \subseteq seen[m]
          /\ toLabelIDs(recs[m].action.remove) \cap seen[m] = {}]_vars
=============================================================================
