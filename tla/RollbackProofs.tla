--------------------------- MODULE RollbackProofs ---------------------------
(* Theorems about a rollback, for any labels, any records and any number of    *)
(* moves by the owner.                                                         *)
EXTENDS Rollback, FiniteSetTheorems, TLAPS

\* The system labels are their own IDs, and no topic label is one of them.
LEMMA SystemLabelIds ==
  /\ toLabelIDs({"TRASH"}) = {"TRASH"} /\ toLabelIDs({"INBOX"}) = {"INBOX"}
  /\ "TRASH" \notin CleanerLabels
BY LabelAssumption DEF toLabelIDs, SystemLabels

LEMMA RecordActions ==
  ASSUME NEW r \in Record
  PROVE  r.action = TrashAction \/ "TRASH" \notin r.action.add
<1>1. r.action \in Actions \cup {NoAction}
  BY DEF Record
<1>2. CASE r.action = NoAction
  BY <1>2 DEF NoAction
<1>3. ASSUME NEW s \in ((SUBSET Topics) \ {{}}) \cup {{Unclassified}},
             r.action = [add |-> s, remove |-> {}]
      PROVE  "TRASH" \notin r.action.add
  BY <1>3, SystemLabelIds DEF CleanerLabels
<1> QED
  BY <1>1, <1>2, <1>3 DEF Actions

\* The inverse of an action touches only the labels of the action.
LEMMA RevertIsLocal ==
  ASSUME NEW r \in Record, NEW ids
  PROVE  /\ ids \ Reverted(r, ids) \subseteq toLabelIDs(r.action.add)
         /\ Reverted(r, ids) \ ids \subseteq toLabelIDs(r.action.remove)
<1>1. CASE "TRASH" \in r.action.add
  <2>1. r.action.add = {"TRASH"} /\ r.action.remove = {"INBOX"}
    BY <1>1, RecordActions DEF TrashAction
  <2> QED
    BY <1>1, <2>1, SystemLabelIds DEF Reverted, Untrashed
<1>2. CASE "TRASH" \notin r.action.add
  BY <1>2 DEF Reverted, Modified
<1> QED
  BY <1>1, <1>2

\* The action added labels the message did not have and removed ones it had.
Clean(r) ==
  /\ r.before \cap toLabelIDs(r.action.add) = {}
  /\ toLabelIDs(r.action.remove) \subseteq r.before

\* Undoing a clean action once, or twice, restores labels_before.
LEMMA RevertIsExact ==
  ASSUME NEW r \in Record, Clean(r), NEW ids \in {r.before, Applied(r)}
  PROVE  Reverted(r, ids) = r.before
<1>1. CASE "TRASH" \in r.action.add
  <2>1. r.action.add = {"TRASH"} /\ r.action.remove = {"INBOX"}
    BY <1>1, RecordActions DEF TrashAction
  <2> QED
    BY <1>1, <2>1, SystemLabelIds DEF Clean, Reverted, Untrashed, Applied, Modified
<1>2. CASE "TRASH" \notin r.action.add
  BY <1>2 DEF Clean, Reverted, Applied, Modified
<1> QED
  BY <1>1, <1>2

\* What both theorems need of the types; recs is never written.
RecsOK == recs \in [Messages -> Record] /\ labels \in [Messages -> SUBSET LabelIds]

LEMMA ViewsOfRecords ==
  ASSUME NEW v \in SUBSET LabelIds
  PROVE  RecordsOf(v) \subseteq Record
BY DEF RecordsOf, Record

LEMMA MovedType ==
  ASSUME NEW ids \in SUBSET LabelIds
  PROVE  MovedByUser(ids) \subseteq SUBSET LabelIds
<1>1. {"INBOX", "TRASH"} \subseteq LabelIds
  BY LabelAssumption DEF LabelIds, LabelNames, SystemLabels
<1> QED
  BY <1>1 DEF MovedByUser, Untrashed

\* Every step writes labels in one of three ways.
LEMMA LabelSteps ==
  ASSUME [Next]_vars
  PROVE  /\ recs' = recs /\ touched \subseteq touched'
         /\ \/ labels' = labels
            \/ \E m \in Messages : labels' = [labels EXCEPT ![m] = Reverted(recs[m], @)]
            \/ \E m \in Messages : UserMoves(m)
<1>1. CASE Refuse \/ ReadAudit \/ ShowPlan \/ Enter \/ Report \/ Crash
  BY <1>1 DEF Refuse, ReadAudit, ShowPlan, Enter, Report, Crash
<1>2. CASE Over \/ UNCHANGED vars
  BY <1>2 DEF Over, vars
<1>3. ASSUME NEW m \in Messages, PlanOne(m)
      PROVE  UNCHANGED <<recs, labels, touched>>
  BY <1>3 DEF PlanOne
<1>4. ASSUME NEW m \in Messages, ApplyOne(m)
      PROVE  /\ UNCHANGED <<recs, touched>>
             /\ labels' \in {labels, [labels EXCEPT ![m] = Reverted(recs[m], @)]}
  BY <1>4 DEF ApplyOne
<1>5. ASSUME NEW m \in Messages, UserMoves(m) PROVE recs' = recs /\ touched \subseteq touched'
  BY <1>5 DEF UserMoves
<1> QED
  BY <1>1, <1>2, <1>3, <1>4, <1>5 DEF Next

LEMMA RecsInit == Init => RecsOK
<1> SUFFICES ASSUME Init PROVE RecsOK
  OBVIOUS
<1>1. \A v \in Views : RecordsOf(v) \subseteq Record
  BY RollbackAssumption, ViewsOfRecords
<1> QED
  BY <1>1 DEF Init, RecsOK

LEMMA RecsNext == RecsOK /\ [Next]_vars => RecsOK'
<1> SUFFICES ASSUME RecsOK, [Next]_vars PROVE RecsOK'
  OBVIOUS
<1>1. recs' = recs
  BY LabelSteps
<1>2. ASSUME NEW m \in Messages, labels' = [labels EXCEPT ![m] = Reverted(recs[m], @)]
      PROVE  RecsOK'
  <2>1. labels[m] \in SUBSET LabelIds /\ recs[m] \in Record
    BY DEF RecsOK
  <2>2. toLabelIDs(recs[m].action.remove) \subseteq LabelIds
    <3>1. recs[m].action.remove \subseteq LabelNames
      BY <2>1 DEF Record, Actions, TrashAction, NoAction, LabelNames, SystemLabels
    <3> QED
      BY <3>1 DEF toLabelIDs, LabelIds
  <2>3. Reverted(recs[m], labels[m]) \in SUBSET LabelIds
    BY <2>1, <2>2, RevertIsLocal
  <2> QED
    BY <1>1, <1>2, <2>3 DEF RecsOK
<1>3. ASSUME NEW m \in Messages, UserMoves(m) PROVE RecsOK'
  <2>1. MovedByUser(labels[m]) \subseteq SUBSET LabelIds
    BY MovedType DEF RecsOK
  <2> QED
    BY <1>1, <1>3, <2>1 DEF UserMoves, RecsOK
<1> QED
  BY <1>1, <1>2, <1>3, LabelSteps DEF RecsOK

LEMMA RecsAlwaysOK == Spec => []RecsOK
BY RecsInit, RecsNext, PTL DEF Spec

-----------------------------------------------------------------------------
(* The theorems *)

LEMMA UndoStep ==
  RecsOK /\ [Next]_vars =>
    [\A m \in Messages :
       \/ UserMoves(m)
       \/ /\ labels[m] \ labels'[m] \subseteq toLabelIDs(recs[m].action.add)
          /\ labels'[m] \ labels[m] \subseteq toLabelIDs(recs[m].action.remove)]_vars
<1> SUFFICES ASSUME RecsOK, [Next]_vars, NEW m \in Messages, ~UserMoves(m)
             PROVE  /\ labels[m] \ labels'[m] \subseteq toLabelIDs(recs[m].action.add)
                    /\ labels'[m] \ labels[m] \subseteq toLabelIDs(recs[m].action.remove)
  OBVIOUS
<1>1. CASE labels' = labels
  BY <1>1
<1>2. ASSUME NEW k \in Messages, labels' = [labels EXCEPT ![k] = Reverted(recs[k], @)]
      PROVE  labels'[m] = labels[m] \/ labels'[m] = Reverted(recs[m], labels[m])
  BY <1>2 DEF RecsOK
<1>3. ASSUME NEW k \in Messages, UserMoves(k) PROVE labels'[m] = labels[m]
  BY <1>3 DEF UserMoves, RecsOK
<1>4. labels'[m] = labels[m] \/ labels'[m] = Reverted(recs[m], labels[m])
  BY <1>1, <1>2, <1>3, LabelSteps
<1>5. recs[m] \in Record
  BY DEF RecsOK
<1> QED
  BY <1>4, <1>5, RevertIsLocal

\* A rollback takes off only labels the run put on and puts back only labels it took
\* off, whatever the owner does meanwhile.
THEOREM RollbackUndoesOnlyTheRun == Spec => OnlyTheRunIsUndone
BY UndoStep, RecsAlwaysOK, PTL DEF Spec, OnlyTheRunIsUndone

LEMMA ExactNext == RecsOK /\ UntouchedIsExact /\ [Next]_vars => UntouchedIsExact'
<1> SUFFICES ASSUME RecsOK, UntouchedIsExact, [Next]_vars,
                    NEW m \in Messages \ touched', Clean(recs[m])
             PROVE  labels'[m] \in {recs[m].before, Applied(recs[m])}
  BY LabelSteps DEF UntouchedIsExact, Clean
<1>1. recs[m] \in Record /\ labels[m] \in {recs[m].before, Applied(recs[m])}
  BY LabelSteps DEF RecsOK, UntouchedIsExact, Clean
<1>2. CASE labels' = labels
  BY <1>1, <1>2
<1>3. ASSUME NEW k \in Messages, labels' = [labels EXCEPT ![k] = Reverted(recs[k], @)]
      PROVE  labels'[m] = labels[m] \/ labels'[m] = Reverted(recs[m], labels[m])
  BY <1>3 DEF RecsOK
<1>4. ASSUME NEW k \in Messages, UserMoves(k) PROVE labels'[m] = labels[m]
  BY <1>4 DEF UserMoves, RecsOK
<1> QED
  BY <1>1, <1>2, <1>3, <1>4, LabelSteps, RevertIsExact

\* At every moment a message the owner left alone is as the run left it or as it was
\* before the run, provided the run's action was a clean one.
THEOREM RollbackIsExact == Spec => []UntouchedIsExact
<1>1. Init => UntouchedIsExact
  BY DEF Init, UntouchedIsExact
<1>2. RecsOK /\ UntouchedIsExact /\ [Next]_vars => UntouchedIsExact'
  BY ExactNext
<1> QED
  BY <1>1, <1>2, RecsAlwaysOK, PTL DEF Spec

-----------------------------------------------------------------------------
(* Types, totals and the plan *)

LEMMA TypesInit == Init => TypeOK
<1> SUFFICES ASSUME Init PROVE TypeOK
  OBVIOUS
<1> QED
  BY RecsInit, RollbackAssumption DEF RecsOK, Init, TypeOK, exitOK

LEMMA TypesNext == RecsOK /\ TypeOK /\ [Next]_vars => TypeOK'
<1> SUFFICES ASSUME RecsOK, TypeOK, [Next]_vars PROVE TypeOK'
  OBVIOUS
<1> USE DEF TypeOK
<1>1. recs' \in [Messages -> Record] /\ labels' \in [Messages -> SUBSET LabelIds]
  BY RecsNext DEF RecsOK
<1>2. CASE Refuse \/ ReadAudit \/ ShowPlan \/ Enter \/ Report \/ Crash
  BY <1>1, <1>2 DEF Refuse, ReadAudit, ShowPlan, Enter, Report, Crash,
                    exitUsage, exitReAuth, exitGeneric
<1>3. ASSUME NEW m \in Messages, PlanOne(m) PROVE TypeOK'
  BY <1>1, <1>3 DEF PlanOne, First, Rest
<1>4. ASSUME NEW m \in Messages, ApplyOne(m) PROVE TypeOK'
  BY <1>1, <1>4 DEF ApplyOne, AfterFailure
<1>5. ASSUME NEW m \in Messages, UserMoves(m) PROVE TypeOK'
  <2>1. moves' \in 0 .. MaxMoves
    BY <1>5, RollbackAssumption DEF UserMoves
  <2> QED
    BY <1>1, <1>5, <2>1 DEF UserMoves
<1>6. CASE UNCHANGED vars
  BY <1>1, <1>6 DEF vars
<1> QED
  BY <1>2, <1>3, <1>4, <1>5, <1>6 DEF Next, Over

\* Type correctness of a rollback; no record is planned twice.
THEOREM RollbackTypeCorrect == Spec => []TypeOK
BY TypesInit, TypesNext, RecsAlwaysOK, PTL DEF Spec

LEMMA TotalsNext == TypeOK /\ EveryRecordIsCounted /\ [Next]_vars => EveryRecordIsCounted'
<1> SUFFICES ASSUME TypeOK, EveryRecordIsCounted, [Next]_vars PROVE EveryRecordIsCounted'
  OBVIOUS
<1>1. /\ IsFiniteSet(todo) /\ Cardinality(todo) \in Nat
      /\ IsFiniteSet(plan) /\ Cardinality(plan) \in Nat /\ Cardinality(Messages) \in Nat
      /\ tally.reverted \in Nat /\ tally.skipped \in Nat
  BY RollbackAssumption, FS_Subset, FS_CardinalityType DEF TypeOK
<1>2. CASE UNCHANGED <<todo, plan, tally>>
  BY <1>2 DEF EveryRecordIsCounted
<1>3. ASSUME NEW m \in Messages, PlanOne(m) PROVE EveryRecordIsCounted'
  <2>1. m \in todo /\ m \notin plan /\ todo' = todo \ {m}
    BY <1>3 DEF PlanOne, First, Rest, TypeOK
  <2>2. Cardinality(todo') = Cardinality(todo) - 1
    BY <1>1, <2>1, FS_RemoveElement
  <2>3. CASE plan' = plan \cup {m} /\ tally' = tally
    <3>1. Cardinality(plan') = Cardinality(plan) + 1
      BY <1>1, <2>1, <2>3, FS_AddElement
    <3> QED
      BY <1>1, <2>2, <2>3, <3>1 DEF EveryRecordIsCounted
  <2>4. CASE plan' = plan /\ tally' = [tally EXCEPT !.skipped = @ + 1]
    BY <1>1, <2>2, <2>4 DEF EveryRecordIsCounted, TypeOK
  <2> QED
    BY <1>3, <2>3, <2>4 DEF PlanOne
<1>4. ASSUME NEW m \in Messages, ApplyOne(m) PROVE EveryRecordIsCounted'
  <2>1. Cardinality(plan') = Cardinality(plan) - 1
    BY <1>1, <1>4, FS_RemoveElement DEF ApplyOne, First
  <2>2. /\ todo' = todo
        /\ tally'.reverted + tally'.skipped = tally.reverted + tally.skipped + 1
    BY <1>1, <1>4 DEF ApplyOne, AfterFailure, TypeOK
  <2>3. tally'.reverted \in Nat /\ tally'.skipped \in Nat
    BY <1>1, <1>4 DEF ApplyOne, AfterFailure, TypeOK
  <2> QED
    BY <1>1, <2>1, <2>2, <2>3 DEF EveryRecordIsCounted
<1> QED
  BY <1>2, <1>3, <1>4 DEF Next, Refuse, ReadAudit, ShowPlan, Enter, Report, Crash, Over,
                          UserMoves, vars

\* The totals of a rollback cover every record, whatever is skipped and whatever fails.
THEOREM RollbackCountsEveryRecord == Spec => []EveryRecordIsCounted
<1>1. Init => EveryRecordIsCounted
  <2> SUFFICES ASSUME Init PROVE EveryRecordIsCounted
    OBVIOUS
  <2>1. Cardinality(plan) = 0 /\ Cardinality(Messages) \in Nat
    BY RollbackAssumption, FS_EmptySet, FS_CardinalityType DEF Init
  <2> QED
    BY <2>1 DEF Init, EveryRecordIsCounted
<1> QED
  BY <1>1, TotalsNext, RollbackTypeCorrect, PTL DEF Spec

\* A record in the plan was applied, and the labels its message had when it was verified
\* still showed the whole action.
Verified(m) ==
  /\ recs[m].outcome = "applied"
  /\ toLabelIDs(recs[m].action.add) \subseteq seen[m]
  /\ toLabelIDs(recs[m].action.remove) \cap seen[m] = {}

PlanInv == \A m \in plan : Verified(m)

\* ShouldRevert compares the names of the action with the IDs of the message, which tells
\* something about the action only if no label is named like the ID of another.
NoNameIsAnotherId == \A n, k \in LabelNames : IdOf[n] = k => n = k

LEMMA NamesShowTheAction ==
  ASSUME NoNameIsAnotherId, NEW r \in Record, NEW ids \in SUBSET LabelIds, ShouldRevert(r, ids)
  PROVE  /\ r.outcome = "applied" /\ toLabelIDs(r.action.add) \subseteq ids
         /\ toLabelIDs(r.action.remove) \cap ids = {}
<1>1. /\ r.outcome = "applied" /\ r.action.add \subseteq ids /\ r.action.remove \cap ids = {}
      /\ r.action.add \subseteq LabelNames
  BY DEF ShouldRevert, Record, Actions, TrashAction, NoAction, LabelNames, SystemLabels, CleanerLabels
<1>2. \A n \in LabelNames : n \in ids => IdOf[n] = n
  BY DEF NoNameIsAnotherId, LabelIds
<1>3. r.action.remove \in {{}, {"INBOX"}}
  BY DEF Record, Actions, TrashAction, NoAction
<1> QED
  BY <1>1, <1>2, <1>3, SystemLabelIds DEF toLabelIDs

LEMMA PlanNext == NoNameIsAnotherId /\ TypeOK /\ PlanInv /\ [Next]_vars => PlanInv'
<1> SUFFICES ASSUME NoNameIsAnotherId, TypeOK, PlanInv, [Next]_vars PROVE PlanInv'
  OBVIOUS
<1> USE DEF PlanInv, Verified
<1>1. ASSUME UNCHANGED <<recs, plan, seen>> PROVE PlanInv'
  BY <1>1
<1>2. ASSUME NEW m \in Messages, PlanOne(m) PROVE PlanInv'
  <2>1. CASE ShouldRevert(recs[m], labels[m]) /\ seen' = [seen EXCEPT ![m] = labels[m]]
    <3>1. /\ recs[m].outcome = "applied" /\ toLabelIDs(recs[m].action.add) \subseteq labels[m]
          /\ toLabelIDs(recs[m].action.remove) \cap labels[m] = {}
      BY <2>1, NamesShowTheAction DEF TypeOK
    <3>2. plan' \subseteq plan \cup {m} /\ recs' = recs
      BY <1>2 DEF PlanOne
    <3> QED
      BY <2>1, <3>1, <3>2 DEF TypeOK
  <2> QED
    BY <1>1, <1>2, <2>1 DEF PlanOne
<1>3. ASSUME NEW m \in Messages, ApplyOne(m) PROVE PlanInv'
  BY <1>3 DEF ApplyOne
<1> QED
  BY <1>1, <1>2, <1>3 DEF Next, Refuse, ReadAudit, ShowPlan, Enter, Report, Crash, Over,
                          UserMoves, vars

LEMMA MovedStep ==
  TypeOK /\ PlanInv /\ [Next]_vars =>
    [\A m \in Messages :
       \/ UserMoves(m)
       \/ labels'[m] = labels[m]
       \/ /\ recs[m].outcome = "applied"
          /\ toLabelIDs(recs[m].action.add) \subseteq seen[m]
          /\ toLabelIDs(recs[m].action.remove) \cap seen[m] = {}]_vars
<1> SUFFICES ASSUME TypeOK, PlanInv, [Next]_vars, NEW m \in Messages, ~UserMoves(m)
             PROVE  labels'[m] = labels[m] \/ Verified(m)
  BY DEF Verified
<1>1. ASSUME NEW k \in Messages, ApplyOne(k) PROVE labels'[m] = labels[m] \/ Verified(m)
  <2>1. k \in plan /\ labels' \in {labels, [labels EXCEPT ![k] = Reverted(recs[k], @)]}
    BY <1>1 DEF ApplyOne, First
  <2> QED
    BY <2>1 DEF PlanInv, TypeOK
<1>2. ASSUME NEW k \in Messages, UserMoves(k) PROVE labels'[m] = labels[m]
  BY <1>2 DEF UserMoves, TypeOK
<1> QED
  BY <1>1, <1>2 DEF Next, Refuse, ReadAudit, ShowPlan, Enter, Report, Crash, Over, PlanOne, vars

\* A revert changes only messages that still showed the whole of an applied action when
\* they were verified, where names and IDs cannot be taken for each other.
THEOREM MovedMessagesAreNotReverted ==
  ASSUME NoNameIsAnotherId
  PROVE  Spec => MovedBeforePlanIsLeftAlone
<1>1. Init => PlanInv
  BY DEF Init, PlanInv
<1>2. TypeOK /\ PlanInv /\ [Next]_vars => PlanInv'
  BY PlanNext
<1> QED
  BY <1>1, <1>2, MovedStep, RollbackTypeCorrect, PTL DEF Spec, MovedBeforePlanIsLeftAlone
=============================================================================
