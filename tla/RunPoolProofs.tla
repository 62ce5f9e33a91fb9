--------------------------- MODULE RunPoolProofs ---------------------------
(***************************************************************************)
(* Theorems about a run, for any mailbox, any number of messages and       *)
(* workers, and any thresholds.                                            *)
(***************************************************************************)
EXTENDS RunPool, FiniteSetTheorems, TLAPS

-----------------------------------------------------------------------------
(* The mailbox *)

LEMMA SystemIds == {"INBOX", "TRASH"} \subseteq LabelIds
BY LabelAssumption DEF LabelIds, LabelNames, SystemLabels

LEMMA IdsOfNames ==
  ASSUME NEW names \in SUBSET LabelNames
  PROVE  toLabelIDs(names) \in SUBSET LabelIds
BY DEF toLabelIDs, LabelIds

LEMMA ModifiedType ==
  ASSUME NEW ids \in SUBSET LabelIds, NEW add \in SUBSET LabelNames, NEW remove \in SUBSET LabelNames
  PROVE  Modified(ids, add, remove) \in SUBSET LabelIds
BY IdsOfNames DEF Modified

LEMMA MovedType ==
  ASSUME NEW ids \in SUBSET LabelIds
  PROVE  MovedByUser(ids) \subseteq SUBSET LabelIds
BY SystemIds DEF MovedByUser, Untrashed

LEMMA ActionType ==
  ASSUME NEW a \in Actions
  PROVE  a.add \in SUBSET LabelNames /\ a.remove \in SUBSET LabelNames /\ a.add # {}
<1>1. CASE a = TrashAction
  BY <1>1 DEF TrashAction, LabelNames, SystemLabels
<1>2. ASSUME NEW s \in ((SUBSET Topics) \ {{}}) \cup {{Unclassified}},
             a = [add |-> s, remove |-> {}]
      PROVE  a.add \in SUBSET LabelNames /\ a.remove \in SUBSET LabelNames /\ a.add # {}
  BY <1>2 DEF LabelNames, CleanerLabels
<1> QED
  BY <1>1, <1>2 DEF Actions, TagActions

-----------------------------------------------------------------------------
(* Types *)

\* Where a worker holds a message.
Holding == {"gate", "get", "predict", "modify", "settle", "paused", "reprompt", "audit", "tally"}

TypeInv ==
  /\ TypeOK
  /\ status = "starting" => listed = {}
  /\ \A w \in Workers : pc[w] \in Holding => job[w] \in listed

LEMMA BlankType == Blank \in Record
BY DEF Blank, Record, Outcomes, Reasons

LEMMA TypeInit == Init => TypeInv
<1> SUFFICES ASSUME Init PROVE TypeInv
  OBVIOUS
<1>1. labels \in [Messages -> SUBSET LabelIds]
  BY RunAssumption DEF Init
<1>2. log \in [Messages -> Seq(Line)]
  BY DEF Init
<1>3. tally \in [applied : Nat, skipped : Nat, errors : Nat]
  BY DEF Init, Zero
<1>4. /\ try \in [Workers -> 0 .. (Attempts - 1)]
      /\ rec \in [Workers -> Record]
      /\ job \in [Workers -> listed \cup {NoMessage}]
      /\ pc \in [Workers -> {"idle"}]
  BY BlankType, RunAssumption DEF Init
<1>5. TypeOK
  BY <1>1, <1>2, <1>3, <1>4 DEF Init, TypeOK, exitOK
<1> QED
  BY <1>5 DEF Init, TypeInv, Holding

LEMMA TypeNext == TypeInv /\ [Next]_vars => TypeInv'
<1> SUFFICES ASSUME TypeInv, [Next]_vars PROVE TypeInv'
  OBVIOUS
<1> USE DEF TypeInv, TypeOK, mail, queue, hand, out
<1> DEFINE HandOK == /\ rec' \in [Workers -> Record]
                     /\ try' \in [Workers -> 0 .. (Attempts - 1)]
                     /\ job' = job
           Pcs == {"idle", "gate", "get", "predict", "modify", "settle", "paused",
                   "reprompt", "audit", "tally", "done", "failed"}
           PcOK == /\ pc' \in [Workers -> Pcs]
                   /\ \A v \in Workers : pc'[v] \in Holding => pc[v] \in Holding
<1>1. CASE Refuse
  BY <1>1 DEF Refuse, exitUsage, exitReAuth, exitGeneric
<1>2. CASE List
  <2>1. listed' \in SUBSET Messages
    BY <1>2 DEF List, Newest, Matching
  <2>2. code' \in {exitOK, exitGeneric, exitUsage, exitReAuth}
    BY <1>2 DEF List
  <2>3. status' \in {"pool", "exited"} /\ feeding' \in BOOLEAN
    BY <1>2 DEF List
  <2> QED
    BY <1>2, <2>1, <2>2, <2>3 DEF List
<1>3. CASE CloseChannel
  BY <1>3 DEF CloseChannel
<1>4. CASE WindowElapses
  BY <1>4 DEF WindowElapses
<1>5. CASE Exit
  BY <1>5 DEF Exit, ExitCode
<1>6. CASE Crash
  <2>1. tally' \in [applied : Nat, skipped : Nat, errors : Nat]
    BY <1>6 DEF Crash, Zero
  <2>2. try' \in [Workers -> 0 .. (Attempts - 1)]
    BY <1>6, RunAssumption DEF Crash
  <2>3. rec' \in [Workers -> Record]
    BY <1>6, BlankType DEF Crash
  <2> QED
    BY <1>6, <2>1, <2>2, <2>3 DEF Crash, Holding
<1>7. ASSUME NEW m \in Messages, UserMoves(m) PROVE TypeInv'
  <2>1. labels' \in [Messages -> SUBSET LabelIds]
    BY <1>7, MovedType DEF UserMoves
  <2> QED
    BY <1>7, <2>1 DEF UserMoves
<1>8. ASSUME NEW w \in Workers, status = "pool", Take(w) PROVE TypeInv'
  BY <1>8 DEF Take, Rest, Holding
<1>9. ASSUME NEW w \in Workers, status = "pool", PassGate(w) PROVE TypeInv'
  BY <1>9, RunAssumption DEF PassGate, Holding
<1>10. ASSUME NEW w \in Workers, status = "pool", AbandonWait(w) PROVE TypeInv'
  BY <1>10 DEF AbandonWait, Fail, Holding
<1>11. ASSUME NEW w \in Workers, status = "pool", WorkerReturns(w) PROVE TypeInv'
  BY <1>11 DEF WorkerReturns, Holding
<1>12. ASSUME NEW w \in Workers, status = "pool", GetMessage(w) PROVE TypeInv'
  <2>1. HandOK
    <3>1. CASE /\ rec' = [rec EXCEPT ![w] = [Blank EXCEPT !.before = labels[job[w]]]]
               /\ try' = [try EXCEPT ![w] = 0] /\ job' = job
      <4>1. labels[job[w]] \in SUBSET LabelIds
        BY <1>12 DEF GetMessage, Holding
      <4>2. [Blank EXCEPT !.before = labels[job[w]]] \in Record
        BY <4>1 DEF Record, Blank, Outcomes, Reasons
      <4> QED BY <3>1, <4>2, RunAssumption
    <3>2. ASSUME NEW e \in {"gmail429", "gmail"}, Retries(w, e), TryAgain(w) PROVE HandOK
      BY <3>2, RunAssumption DEF Retries, TryAgain
    <3>3. ASSUME NEW e \in {"gmail429", "gmail"},
                 Finish(w, [rec[w] EXCEPT !.outcome = "skipped", !.reason = e])
          PROVE  HandOK
      BY <3>3 DEF Finish, Record, Outcomes, Reasons
    <3> QED
      BY <1>12, <3>1, <3>2, <3>3 DEF GetMessage, Failures
  <2>2. PcOK
    BY <1>12 DEF GetMessage, TryAgain, Finish, Holding
  <2> QED
    BY <1>12, <2>1, <2>2 DEF GetMessage
<1>13. ASSUME NEW w \in Workers, status = "pool", Predict(w) PROVE TypeInv'
  <2>1. HandOK
    <3>1. ASSUME NEW a \in Actions,
                 AfterDecide(w, [rec[w] EXCEPT !.outcome = "applied",
                                               !.add = a.add, !.remove = a.remove])
          PROVE  HandOK
      <4> DEFINE r == [rec[w] EXCEPT !.outcome = "applied", !.add = a.add, !.remove = a.remove]
      <4>1. r \in Record
        <5>1. a.add \in SUBSET LabelNames /\ a.remove \in SUBSET LabelNames
          BY ActionType
        <5>2. rec[w] \in Record
          OBVIOUS
        <5> QED
          BY <5>1, <5>2 DEF Record, Outcomes
      <4>2. /\ rec' = [rec EXCEPT ![w] = r] /\ job' = job
            /\ try' = try \/ try' = [try EXCEPT ![w] = 0]
        BY <3>1 DEF AfterDecide, AfterDecide_Always, Finish
      <4> HIDE DEF r
      <4>3. rec' \in [Workers -> Record]
        BY <4>1, <4>2
      <4>4. try' \in [Workers -> 0 .. (Attempts - 1)]
        <5>1. CASE try' = try
          BY <5>1
        <5>2. CASE try' = [try EXCEPT ![w] = 0]
          BY <5>2, RunAssumption
        <5> QED BY <4>2, <5>1, <5>2
      <4> QED
        BY <4>2, <4>3, <4>4
    <3>2. ASSUME NEW e \in Reasons, Retries(w, e), TryAgain(w) PROVE HandOK
      BY <3>2, RunAssumption DEF Retries, TryAgain
    <3>3. ASSUME NEW e \in Reasons,
                 Finish(w, [rec[w] EXCEPT !.outcome = "skipped", !.reason = e])
          PROVE  HandOK
      BY <3>3 DEF Finish, Record, Outcomes
    <3>4. Failures("model429", {"unreadable"}, "down") \subseteq Reasons
      BY DEF Failures, Reasons
    <3> QED
      BY <1>13, <3>1, <3>2, <3>3, <3>4 DEF Predict
  <2>2. PcOK
    BY <1>13 DEF Predict, AfterDecide, AfterDecide_Always, TryAgain, Finish, Holding
  <2> QED
    BY <1>13, <2>1, <2>2 DEF Predict
<1>14. ASSUME NEW w \in Workers, status = "pool", Modify(w) PROVE TypeInv'
  <2>1. HandOK
    <3>1. ASSUME NEW e \in Reasons, Retries(w, e), TryAgain(w) PROVE HandOK
      BY <3>1, RunAssumption DEF Retries, TryAgain
    <3>2. ASSUME NEW e \in Reasons, Finish(w, FailedModify(w, e)) PROVE HandOK
      BY <3>2 DEF Finish, FailedModify, Record, Outcomes
    <3>3. CASE Finish(w, rec[w])
      BY <3>3 DEF Finish
    <3>4. Failures("gmail429", {}, "gmail") \subseteq Reasons
      BY DEF Failures, Reasons
    <3> QED
      BY <1>14, <3>1, <3>2, <3>3, <3>4 DEF Modify
  <2>2. PcOK
    BY <1>14 DEF Modify, TryAgain, Finish, Holding
  <2>3. /\ labels' \in [Messages -> SUBSET LabelIds]
        /\ mutated' \in SUBSET listed /\ moved' = moved
    <3>1. job[w] \in listed
      BY <1>14 DEF Modify, Holding
    <3>2. Modified(labels[job[w]], rec[w].add, rec[w].remove) \in SUBSET LabelIds
      BY <3>1, ModifiedType DEF Record
    <3>3. CASE ApplyModify(w)
      BY <3>1, <3>2, <3>3 DEF ApplyModify
    <3> QED
      BY <1>14, <3>3 DEF Modify
  <2> QED
    BY <1>14, <2>1, <2>2, <2>3 DEF Modify
<1>15. ASSUME NEW w \in Workers, status = "pool", CountFailure(w) PROVE TypeInv'
  BY <1>15 DEF CountFailure, Holding
<1>16. ASSUME NEW w \in Workers, status = "pool", Settle(w) PROVE TypeInv'
  BY <1>16 DEF Settle, Holding
<1>17. ASSUME NEW w \in Workers, status = "pool", EnterHealthy(w) PROVE TypeInv'
  BY <1>17 DEF EnterHealthy, Holding
<1>18. ASSUME NEW w \in Workers, status = "pool", EnterUnhealthy(w) PROVE TypeInv'
  BY <1>18, RunAssumption DEF EnterUnhealthy, Holding
<1>19. ASSUME NEW w \in Workers, status = "pool", PauseFails(w) PROVE TypeInv'
  BY <1>19 DEF PauseFails, Fail, Holding
<1>20. ASSUME NEW w \in Workers, status = "pool", AppendRecord(w) PROVE TypeInv'
  <2>1. job[w] \in listed
    BY <1>20 DEF AppendRecord, Holding
  <2>2. log' \in [Messages -> Seq(Line)] /\ warned' \in SUBSET listed
    <3>1. LineOf(rec[w]) \in Line
      BY DEF LineOf, Line, Record
    <3>2. Append(log[job[w]], LineOf(rec[w])) \in Seq(Line)
      BY <2>1, <3>1
    <3> QED
      BY <1>20, <2>1, <3>2 DEF AppendRecord, Persist
  <2> QED
    BY <1>20, <2>2 DEF AppendRecord, Holding
<1>21. ASSUME NEW w \in Workers, status = "pool", Tally(w) PROVE TypeInv'
  <2>1. tally' \in [applied : Nat, skipped : Nat, errors : Nat]
    <3>1. /\ tally.applied \in Nat /\ tally.skipped \in Nat /\ tally.errors \in Nat
          /\ tally' = Counted(rec[w])
      BY <1>21 DEF Tally
    <3>2. \A n \in Nat : n + 1 \in Nat /\ n + 0 \in Nat
      OBVIOUS
    <3>3. tally' = [applied |-> tally.applied + (IF rec[w].outcome = "applied" THEN 1 ELSE 0),
                    skipped |-> tally.skipped + (IF rec[w].outcome = "skipped" THEN 1 ELSE 0),
                    errors  |-> tally.errors + (IF rec[w].outcome = "error" THEN 1 ELSE 0)]
      BY <3>1 DEF Counted
    <3> QED
      BY <3>1, <3>2, <3>3
  <2>2. rec' \in [Workers -> Record] /\ try' \in [Workers -> 0 .. (Attempts - 1)]
    BY <1>21, BlankType, RunAssumption DEF Tally
  <2>3. /\ job' = [job EXCEPT ![w] = NoMessage]
        /\ pc' \in [Workers -> Pcs] /\ cancelled' \in BOOLEAN
        /\ \A v \in Workers : pc'[v] \in Holding => pc[v] \in Holding /\ v # w
    BY <1>21 DEF Tally, Fail, Holding
  <2> QED
    BY <1>21, <2>1, <2>2, <2>3 DEF Tally
<1>22. CASE UNCHANGED vars
  BY <1>22 DEF vars
<1> QED
  BY <1>1, <1>2, <1>3, <1>4, <1>5, <1>6, <1>7, <1>8, <1>9, <1>10, <1>11, <1>12, <1>13, <1>14,
     <1>15, <1>16, <1>17, <1>18, <1>19, <1>20, <1>21, <1>22
     DEF Next, Main, Over, Worker, Work, Prompt

LEMMA TypeInvHolds == Spec => []TypeInv
<1>1. Init => TypeInv
  BY TypeInit
<1>2. TypeInv /\ [Next]_vars => TypeInv'
  BY TypeNext
<1> QED
  BY <1>1, <1>2, PTL DEF Spec

\* Type correctness of a run, the bound on attempts and "only listed messages are
\* worked on" included.
THEOREM TypeCorrect == Spec => []TypeOK
<1>1. TypeInv => TypeOK
  BY DEF TypeInv
<1> QED
  BY <1>1, TypeInvHolds, PTL

-----------------------------------------------------------------------------
(* Every message is worked on once *)

\* Where a worker holds a message it has not reported yet.
Unwritten == Holding \ {"tally"}

\* EachMessageOnce is not inductive: that AppendRecord writes the first line about a
\* message needs that nothing was written while a worker was on its way there,
\* and that List queues fresh messages needs that nothing is ever written about
\* an unlisted one.
WorkInv ==
  /\ EachMessageOnce
  /\ \A m \in Messages \ listed : ~Reported(m)
  /\ \A w \in Workers : pc[w] \in Unwritten => ~Reported(job[w])

LEMMA WorkInit == Init => WorkInv
BY RunAssumption DEF Init, WorkInv, EachMessageOnce, Reported, Unwritten, Holding

\* Steps that neither move a message nor write about one.
LEMMA WorkQuiet ==
  ASSUME WorkInv, UNCHANGED <<listed, pending, job, log, warned>>,
         \A v \in Workers : pc'[v] \in Unwritten => pc[v] \in Unwritten
  PROVE  WorkInv'
BY DEF WorkInv, EachMessageOnce, Reported

LEMMA WorkTake ==
  ASSUME TypeInv, WorkInv, NEW w \in Workers, Take(w)
  PROVE  WorkInv'
<1> USE DEF mail, queue, out
<1>1. PICK m \in pending : pending' = pending \ {m} /\ job' = [job EXCEPT ![w] = m]
  BY DEF Take, Rest
<1>2. /\ pc' = [pc EXCEPT ![w] = "gate"]
      /\ UNCHANGED <<listed, log, warned>>
  BY DEF Take
<1>3. job[w] = NoMessage \/ job[w] \in listed
  BY DEF TypeInv, TypeOK
<1>4. /\ pending \in SUBSET Messages /\ m \in Messages
      /\ job \in [Workers -> listed \cup {NoMessage}] /\ DOMAIN pc = Workers
      /\ ~Reported(m) /\ \A v \in Workers : job[v] # m
  BY DEF TypeInv, TypeOK, WorkInv, EachMessageOnce
<1>5. EachMessageOnce'
  BY <1>1, <1>2, <1>4 DEF WorkInv, EachMessageOnce, Reported
<1>6. \A v \in Workers : pc'[v] \in Unwritten => ~Reported(job'[v])
  BY <1>1, <1>2, <1>4 DEF WorkInv
<1> QED
  BY <1>2, <1>5, <1>6 DEF WorkInv, Reported

LEMMA WorkAppend ==
  ASSUME TypeInv, WorkInv, NEW w \in Workers, AppendRecord(w)
  PROVE  WorkInv'
<1> USE DEF mail, queue, hand
<1> DEFINE m == job[w]
<1>1. /\ pc[w] = "audit" /\ pc' = [pc EXCEPT ![w] = "tally"]
      /\ UNCHANGED <<listed, pending, job>>
  BY DEF AppendRecord
<1>2. m \in listed /\ m \in Messages /\ m # NoMessage /\ ~Reported(m)
  BY <1>1, RunAssumption DEF TypeInv, TypeOK, WorkInv, Holding, Unwritten
<1>3. \/ log' = [log EXCEPT ![m] = Append(@, LineOf(rec[w]))] /\ UNCHANGED warned
      \/ warned' = warned \cup {m} /\ UNCHANGED log
      \/ UNCHANGED <<log, warned>>
  BY DEF AppendRecord, Persist
<1>4. log \in [Messages -> Seq(Line)] /\ log[m] = <<>> /\ m \notin warned
  BY <1>2 DEF TypeInv, TypeOK, Reported
<1>5. /\ \A k \in Messages : k # m => log'[k] = log[k] /\ (k \in warned' <=> k \in warned)
      /\ Len(log'[m]) <= 1 /\ (m \in warned' => log'[m] = <<>>)
  <2>1. LineOf(rec[w]) \in Line
    BY DEF TypeInv, TypeOK, LineOf, Line, Record
  <2>2. CASE log' = [log EXCEPT ![m] = Append(@, LineOf(rec[w]))] /\ UNCHANGED warned
    <3>1. log'[m] = Append(<<>>, LineOf(rec[w]))
      BY <1>2, <1>4, <2>2
    <3>2. Len(log'[m]) = 1
      BY <2>1, <3>1
    <3> QED
      BY <1>4, <2>2, <3>2
  <2>3. CASE warned' = warned \cup {m} /\ UNCHANGED log
    BY <1>4, <2>3
  <2>4. CASE UNCHANGED <<log, warned>>
    BY <1>4, <2>4
  <2> QED
    BY <1>3, <2>2, <2>3, <2>4
<1>6. m \notin pending /\ \A v \in Workers : v # w => job[v] # m
  BY <1>2 DEF WorkInv, EachMessageOnce
<1>7. \A k \in Messages : k # m => (Reported(k)' <=> Reported(k))
  BY <1>5 DEF Reported
<1>8. EachMessageOnce'
  BY <1>1, <1>5, <1>6, <1>7 DEF WorkInv, EachMessageOnce, TypeInv, TypeOK
<1>9. \A v \in Workers : pc'[v] \in Unwritten => ~Reported(job[v])'
  <2> SUFFICES ASSUME NEW v \in Workers, pc'[v] \in Unwritten PROVE ~Reported(job[v])'
    OBVIOUS
  <2>1. v # w
    BY <1>1 DEF TypeInv, TypeOK, Unwritten
  <2>2. pc[v] \in Unwritten
    BY <1>1, <2>1 DEF TypeInv, TypeOK
  <2>3. job[v] \in Messages /\ job[v] # m
    BY <1>6, <2>1, <2>2 DEF TypeInv, TypeOK, Unwritten
  <2>4. ~Reported(job[v]) /\ job'[v] = job[v]
    BY <1>1, <2>2 DEF WorkInv
  <2> DEFINE k == job[v]
  <2>5. k \in Messages /\ k # m /\ ~Reported(k)
    BY <2>3, <2>4
  <2> HIDE DEF k
  <2>6. \A j \in Messages : j # m /\ ~Reported(j) => log'[j] = <<>> /\ j \notin warned'
    BY <1>7 DEF Reported
  <2> USE DEF k
  <2> QED
    BY <2>4, <2>5, <2>6 DEF Reported
<1>10. \A k \in Messages \ listed : ~Reported(k)'
  BY <1>2, <1>7 DEF WorkInv
<1> QED
  BY <1>1, <1>8, <1>9, <1>10 DEF WorkInv

LEMMA WorkNext == TypeInv /\ WorkInv /\ [Next]_vars => WorkInv'
<1> SUFFICES ASSUME TypeInv, WorkInv, [Next]_vars PROVE WorkInv'
  OBVIOUS
<1> USE DEF mail, queue, hand, out
<1>1. CASE List
  <2>1. /\ listed = {} /\ pending' = listed' /\ listed' \in SUBSET Messages
        /\ UNCHANGED <<pc, job, log, warned>>
    BY <1>1 DEF List, Newest, Matching, TypeInv
  <2>2. \A v \in Workers : job[v] = NoMessage /\ pc[v] \notin Holding
    BY <2>1, RunAssumption DEF TypeInv, TypeOK
  <2>3. \A m \in Messages : ~Reported(m)
    BY <2>1 DEF WorkInv
  <2>4. \A m \in Messages : m # NoMessage
    BY RunAssumption
  <2> QED
    BY <2>1, <2>2, <2>3, <2>4 DEF WorkInv, EachMessageOnce, Reported, Unwritten
<1>2. CASE Crash
  <2>1. /\ pending' = {} /\ UNCHANGED <<listed, log, warned>>
        /\ \A v \in Workers : pc'[v] = "done" /\ job'[v] = NoMessage
    BY <1>2 DEF Crash
  <2> QED
    BY <2>1 DEF WorkInv, EachMessageOnce, Reported, Unwritten, Holding
<1>3. ASSUME NEW w \in Workers, Tally(w) PROVE WorkInv'
  <2>1. /\ job' = [job EXCEPT ![w] = NoMessage] /\ UNCHANGED <<listed, pending, log, warned>>
        /\ \A v \in Workers : pc'[v] \in Unwritten => pc[v] \in Unwritten /\ v # w
    BY <1>3 DEF Tally, Fail, Unwritten, Holding, TypeInv, TypeOK
  <2>2. job \in [Workers -> listed \cup {NoMessage}] /\ \A m \in Messages : m # NoMessage
    BY RunAssumption DEF TypeInv, TypeOK
  <2>3. pending \subseteq Messages
    BY DEF TypeInv, TypeOK
  <2> QED
    BY <2>1, <2>2, <2>3 DEF WorkInv, EachMessageOnce, Reported
<1>4. ASSUME NEW w \in Workers, Take(w) PROVE WorkInv'
  BY <1>4, WorkTake
<1>5. ASSUME NEW w \in Workers, AppendRecord(w) PROVE WorkInv'
  BY <1>5, WorkAppend
<1>6. CASE Refuse \/ CloseChannel \/ WindowElapses \/ Exit
  BY <1>6, WorkQuiet DEF Refuse, CloseChannel, WindowElapses, Exit
<1>7. ASSUME NEW m \in Messages, UserMoves(m) PROVE WorkInv'
  BY <1>7, WorkQuiet DEF UserMoves
<1>8. ASSUME NEW w \in Workers,
             \/ PassGate(w) \/ AbandonWait(w) \/ WorkerReturns(w) \/ GetMessage(w)
             \/ Predict(w) \/ Modify(w) \/ CountFailure(w) \/ Settle(w)
             \/ EnterHealthy(w) \/ EnterUnhealthy(w) \/ PauseFails(w)
      PROVE  WorkInv'
  <2>1. UNCHANGED <<listed, pending, log, warned>>
    BY <1>8 DEF PassGate, AbandonWait, WorkerReturns, GetMessage, Predict, Modify,
                CountFailure, Settle, EnterHealthy, EnterUnhealthy, PauseFails
  <2>2. UNCHANGED job
    BY <1>8 DEF PassGate, AbandonWait, WorkerReturns, GetMessage, Predict, AfterDecide,
                AfterDecide_Always, Modify, TryAgain, Finish, Fail,
                CountFailure, Settle, EnterHealthy, EnterUnhealthy, PauseFails
  <2>3. \A v \in Workers : pc'[v] \in Unwritten => pc[v] \in Unwritten
    BY <1>8 DEF PassGate, AbandonWait, WorkerReturns, GetMessage, Predict, AfterDecide,
                AfterDecide_Always, Modify, TryAgain, Finish, Fail,
                CountFailure, Settle, EnterHealthy, EnterUnhealthy, PauseFails,
                Unwritten, Holding, TypeInv, TypeOK
  <2> QED
    BY <2>1, <2>2, <2>3, WorkQuiet
<1>9. CASE UNCHANGED vars
  BY <1>9, WorkQuiet DEF vars
<1> QED
  BY <1>1, <1>2, <1>3, <1>4, <1>5, <1>6, <1>7, <1>8, <1>9
     DEF Next, Main, Over, Worker, Work, Prompt

\* No message is worked on twice in a run, whatever the number of workers.
THEOREM MessagesAreWorkedOnOnce == Spec => []EachMessageOnce
<1>1. Init => WorkInv
  BY WorkInit
<1>2. TypeInv /\ WorkInv /\ [Next]_vars => WorkInv'
  BY WorkNext
<1>3. WorkInv => EachMessageOnce
  BY DEF WorkInv
<1> QED
  BY <1>1, <1>2, <1>3, TypeInvHolds, PTL DEF Spec

-----------------------------------------------------------------------------
(* Changes are reported, and a dry run makes none *)

\* Where a worker has not decided on an action yet.
Undecided == {"idle", "gate", "get", "predict"}

\* What the record in a worker's hand says at each place.
HandInv ==
  \A w \in Workers :
    /\ pc[w] \in Undecided => rec[w].add = {} /\ rec[w].reason = "none"
    /\ pc[w] = "modify" => rec[w].add # {} /\ rec[w].reason # "down" /\ ~flags.dryRun
    /\ pc[w] = "settle" /\ rec[w].reason = "down" => rec[w].add = {}

\* That a change still on its way survives the breaker needs HandInv: a record that
\* sends a worker into the pause carries no action.
ReportInv == HandInv /\ ChangesAreReported /\ DryRunWritesNothing

LEMMA ReportInit == Init => ReportInv
BY DEF Init, ReportInv, HandInv, Undecided, Blank, ChangesAreReported, Unreported,
       DryRunWritesNothing, Reported

\* A step that changes neither mailbox nor log keeps ReportInv if it keeps the hands
\* and every change that is on its way.
LEMMA ReportQuiet ==
  ASSUME ReportInv, HandInv', UNCHANGED <<flags, mutated, log, warned>>,
         status = "crashed" => status' = "crashed",
         status' # "crashed" =>
           \A m \in Messages, w \in Workers : OnItsWay(m, w) => OnItsWay(m, w)',
         mutated \subseteq Messages
  PROVE  ReportInv'
<1>1. Unreported' = Unreported
  BY DEF Unreported
<1>2. Unreported \subseteq Messages
  BY DEF Unreported
<1>3. ChangesAreReported'
  BY <1>1, <1>2 DEF ReportInv, ChangesAreReported
<1>4. DryRunWritesNothing'
  BY DEF ReportInv, DryRunWritesNothing, Reported
<1> QED
  BY <1>3, <1>4 DEF ReportInv

LEMMA ReportModify ==
  ASSUME TypeInv, ReportInv, NEW w \in Workers, Modify(w)
  PROVE  ReportInv'
<1> USE DEF queue, out
<1>1. /\ pc[w] = "modify" /\ rec[w].add # {} /\ rec[w].reason # "down" /\ ~flags.dryRun
      /\ UNCHANGED <<flags, status, log, warned>>
  BY DEF Modify, ReportInv, HandInv
<1>2. /\ UNCHANGED job
      /\ \A v \in Workers : v # w => pc'[v] = pc[v] /\ rec'[v] = rec[v]
      /\ \/ pc'[w] = "modify" /\ rec'[w] = rec[w]
         \/ pc'[w] = "settle" /\ rec'[w].add = rec[w].add /\ rec'[w].reason # "down"
  <2>1. CASE Finish(w, rec[w])
    BY <1>1, <2>1 DEF Finish, TypeInv, TypeOK
  <2>2. CASE TryAgain(w)
    BY <1>1, <2>2 DEF TryAgain
  <2>3. ASSUME NEW e \in {"gmail429", "gmail"}, Finish(w, FailedModify(w, e))
        PROVE  <1>2!1 /\ <1>2!2 /\ <1>2!3
    BY <2>3 DEF Finish, FailedModify, TypeInv, TypeOK, Record
  <2> QED
    BY <2>1, <2>2, <2>3 DEF Modify, Failures
<1>3. mutated' = mutated \/ mutated' = mutated \cup {job[w]}
  BY DEF Modify, ApplyModify, mail
<1>4. HandInv'
  BY <1>1, <1>2 DEF ReportInv, HandInv, Undecided
<1>5. DryRunWritesNothing'
  BY <1>1 DEF DryRunWritesNothing
<1>6. \A m \in Messages, v \in Workers : OnItsWay(m, v) => OnItsWay(m, v)'
  BY <1>1, <1>2 DEF OnItsWay
<1>7. OnItsWay(job[w], w)'
  BY <1>1, <1>2 DEF OnItsWay
<1>8. Unreported' \subseteq Unreported \cup {job[w]}
  BY <1>1, <1>3 DEF Unreported
<1>9. Unreported \subseteq Messages
  BY DEF Unreported, TypeInv, TypeOK
<1>10. ChangesAreReported'
  <2> SUFFICES ASSUME status' # "crashed", NEW m \in Unreported'
               PROVE  \E v \in Workers : OnItsWay(m, v)'
    BY DEF ChangesAreReported
  <2>1. CASE m = job[w]
    BY <1>2, <1>7, <2>1 DEF OnItsWay
  <2>2. CASE m # job[w]
    <3>1. m \in Unreported /\ m \in Messages
      BY <1>8, <1>9, <2>2
    <3>2. PICK v \in Workers : OnItsWay(m, v)
      BY <1>1, <3>1 DEF ReportInv, ChangesAreReported
    <3> QED
      BY <1>6, <3>1, <3>2
  <2> QED
    BY <2>1, <2>2
<1> QED
  BY <1>4, <1>5, <1>10 DEF ReportInv

LEMMA ReportAppend ==
  ASSUME TypeInv, ReportInv, NEW w \in Workers, AppendRecord(w)
  PROVE  ReportInv'
<1> USE DEF mail, queue, hand
<1> DEFINE m == job[w]
<1>1. /\ pc[w] = "audit" /\ pc' = [pc EXCEPT ![w] = "tally"]
      /\ UNCHANGED <<flags, status, mutated, job, rec>>
  BY DEF AppendRecord
<1>2. m \in Messages
  BY <1>1 DEF TypeInv, TypeOK, Holding
<1>3. HandInv'
  BY <1>1 DEF ReportInv, HandInv, Undecided, TypeInv, TypeOK
<1>4. CASE flags.dryRun
  <2>1. UNCHANGED <<log, warned>> /\ mutated = {}
    BY <1>4 DEF AppendRecord, ReportInv, DryRunWritesNothing
  <2>2. Unreported' = {}
    BY <1>1, <2>1 DEF Unreported
  <2>3. DryRunWritesNothing'
    BY <1>1, <2>1 DEF ReportInv, DryRunWritesNothing, Reported
  <2> QED
    BY <1>3, <2>2, <2>3 DEF ReportInv, ChangesAreReported
<1>5. CASE ~flags.dryRun
  <2>1. \/ log' = [log EXCEPT ![m] = Append(@, LineOf(rec[w]))] /\ UNCHANGED warned
        \/ warned' = warned \cup {m} /\ UNCHANGED log
    BY <1>5 DEF AppendRecord, Persist
  <2>2. log \in [Messages -> Seq(Line)] /\ LineOf(rec[w]) \in Line
    BY DEF TypeInv, TypeOK, LineOf, Line, Record
  <2>3. Unreported' \subseteq Unreported
    <3> SUFFICES ASSUME NEW k \in Unreported' PROVE k \in Unreported
      OBVIOUS
    <3>1. k \in mutated /\ k \notin warned /\ k \in Messages
      BY <1>1, <2>1 DEF Unreported, TypeInv, TypeOK
    <3>2. ASSUME NEW i \in DOMAIN log[k] PROVE log[k][i].add = {}
      <4> DEFINE s == log[k]
      <4>1. i \in DOMAIN log'[k] /\ log'[k][i] = log[k][i]
        <5>1. s \in Seq(Line) /\ i \in DOMAIN s
          BY <2>2, <3>1
        <5>2. log'[k] = s \/ log'[k] = Append(s, LineOf(rec[w]))
          BY <1>2, <2>1, <2>2, <3>1
        <5> HIDE DEF s
        <5>3. i \in DOMAIN log'[k] /\ log'[k][i] = s[i]
          BY <2>2, <5>1, <5>2
        <5> USE DEF s
        <5> QED BY <5>3
      <4> QED
        BY <4>1 DEF Unreported
    <3> QED
      BY <3>1, <3>2 DEF Unreported
  <2>4. rec[w].add # {} => m \notin Unreported'
    <3> SUFFICES ASSUME rec[w].add # {}, m \notin warned' PROVE m \notin Unreported'
      BY DEF Unreported
    <3>1. log' = [log EXCEPT ![m] = Append(@, LineOf(rec[w]))]
      BY <2>1
    <3> DEFINE s == log[m]
    <3>2. s \in Seq(Line) /\ log'[m] = Append(s, LineOf(rec[w]))
      BY <1>2, <2>2, <3>1
    <3> HIDE DEF s
    <3>3. Len(s) + 1 \in DOMAIN log'[m] /\ log'[m][Len(s) + 1] = LineOf(rec[w])
      BY <2>2, <3>2
    <3> QED
      BY <3>3 DEF Unreported, LineOf
  <2>5. \A k \in Messages, v \in Workers : OnItsWay(k, v) => OnItsWay(k, v)' \/ v = w
    BY <1>1 DEF OnItsWay, TypeInv, TypeOK
  <2>6. Unreported \subseteq Messages
    BY DEF Unreported, TypeInv, TypeOK
  <2>7. \A k \in Messages : OnItsWay(k, w) => k = m /\ rec[w].add # {}
    BY DEF OnItsWay
  <2>8. ChangesAreReported'
    BY <1>1, <2>3, <2>4, <2>5, <2>6, <2>7 DEF ReportInv, ChangesAreReported
  <2>9. DryRunWritesNothing'
    BY <1>1, <1>5 DEF DryRunWritesNothing
  <2> QED
    BY <1>3, <2>8, <2>9 DEF ReportInv
<1> QED
  BY <1>4, <1>5

LEMMA ReportNext == TypeInv /\ ReportInv /\ [Next]_vars => ReportInv'
<1> SUFFICES ASSUME TypeInv, ReportInv, [Next]_vars PROVE ReportInv'
  OBVIOUS
<1> USE DEF mail, queue, hand, out
<1> DEFINE Kept == /\ HandInv'
                   /\ \A m \in Messages, v \in Workers : OnItsWay(m, v) => OnItsWay(m, v)'
<1>1. mutated \subseteq Messages
  BY DEF TypeInv, TypeOK
<1>2. ASSUME NEW w \in Workers, Modify(w) PROVE ReportInv'
  BY <1>2, ReportModify
<1>3. ASSUME NEW w \in Workers, AppendRecord(w) PROVE ReportInv'
  BY <1>3, ReportAppend
<1>4. CASE Crash
  <2>1. HandInv'
    BY <1>4 DEF Crash, HandInv, Undecided
  <2>2. status' = "crashed" /\ UNCHANGED <<flags, mutated, log, warned>>
    BY <1>4 DEF Crash
  <2> QED
    BY <2>1, <2>2, <1>1, ReportQuiet
<1>5. CASE Refuse \/ List \/ CloseChannel \/ WindowElapses \/ Exit
  <2>1. /\ UNCHANGED <<flags, mutated, pc, job, rec, log, warned>>
        /\ status # "crashed"
    BY <1>5 DEF Refuse, List, CloseChannel, WindowElapses, Exit
  <2>2. Kept
    BY <2>1 DEF ReportInv, HandInv, OnItsWay
  <2> QED
    BY <2>1, <2>2, <1>1, ReportQuiet
<1>6. ASSUME NEW m \in Messages, UserMoves(m) PROVE ReportInv'
  <2>1. UNCHANGED <<flags, status, mutated, pc, job, rec, log, warned>>
    BY <1>6 DEF UserMoves
  <2>2. Kept
    BY <2>1 DEF ReportInv, HandInv, OnItsWay
  <2> QED
    BY <2>1, <2>2, <1>1, ReportQuiet
<1>7. ASSUME NEW w \in Workers, GetMessage(w) PROVE ReportInv'
  <2>1. UNCHANGED <<flags, status, mutated, job, log, warned>> /\ pc[w] = "get"
    BY <1>7 DEF GetMessage, TryAgain, Finish
  <2>2. /\ \A v \in Workers : v # w => pc'[v] = pc[v] /\ rec'[v] = rec[v]
        /\ pc'[w] \in {"get", "predict", "settle"} /\ rec'[w].add = {}
        /\ pc'[w] # "settle" => rec'[w].reason = "none"
    <3>1. rec[w].add = {} /\ rec[w].reason = "none" /\ rec[w] \in Record
      BY <2>1 DEF ReportInv, HandInv, Undecided, TypeInv, TypeOK
    <3>2. CASE /\ rec' = [rec EXCEPT ![w] = [Blank EXCEPT !.before = labels[job[w]]]]
               /\ pc' = [pc EXCEPT ![w] = "predict"]
      BY <3>2 DEF Blank, TypeInv, TypeOK
    <3>3. CASE TryAgain(w)
      BY <2>1, <3>1, <3>3 DEF TryAgain
    <3>4. ASSUME NEW e \in {"gmail429", "gmail"},
                 Finish(w, [rec[w] EXCEPT !.outcome = "skipped", !.reason = e])
          PROVE  <2>2!1 /\ <2>2!2 /\ <2>2!3
      BY <3>1, <3>4 DEF Finish, Record, TypeInv, TypeOK
    <3> QED
      BY <1>7, <3>2, <3>3, <3>4 DEF GetMessage, Failures
  <2>3. Kept
    BY <2>1, <2>2 DEF ReportInv, HandInv, OnItsWay, Undecided
  <2> QED
    BY <2>1, <2>3, <1>1, ReportQuiet
<1>8. ASSUME NEW w \in Workers, Predict(w) PROVE ReportInv'
  <2>1. UNCHANGED <<flags, status, mutated, job, log, warned>> /\ pc[w] = "predict"
    BY <1>8 DEF Predict, AfterDecide, AfterDecide_Always, TryAgain, Finish
  <2>2. rec[w].add = {} /\ rec[w].reason = "none" /\ rec[w] \in Record
    BY <2>1 DEF ReportInv, HandInv, Undecided, TypeInv, TypeOK
  <2>3. /\ \A v \in Workers : v # w => pc'[v] = pc[v] /\ rec'[v] = rec[v]
        /\ \/ pc'[w] = "predict" /\ rec'[w] = rec[w]
           \/ pc'[w] = "settle" /\ rec'[w].add = {}
           \/ pc'[w] = "settle" /\ rec'[w].reason = "none"
           \/ pc'[w] = "modify" /\ rec'[w].add # {} /\ rec'[w].reason = "none" /\ ~flags.dryRun
    <3>1. CASE TryAgain(w)
      BY <2>1, <3>1 DEF TryAgain
    <3>2. ASSUME NEW e \in Reasons,
                 Finish(w, [rec[w] EXCEPT !.outcome = "skipped", !.reason = e])
          PROVE  <2>3!1 /\ <2>3!2
      BY <2>2, <3>2 DEF Finish, Record, TypeInv, TypeOK
    <3>3. ASSUME NEW a \in Actions,
                 AfterDecide(w, [rec[w] EXCEPT !.outcome = "applied",
                                               !.add = a.add, !.remove = a.remove])
          PROVE  <2>3!1 /\ <2>3!2
      <4> DEFINE r == [rec[w] EXCEPT !.outcome = "applied", !.add = a.add, !.remove = a.remove]
      <4>1. r.add # {} /\ r.reason = "none"
        BY <2>2, ActionType DEF Record
      <4>2. rec' = [rec EXCEPT ![w] = r]
        BY <3>3 DEF AfterDecide, AfterDecide_Always, Finish
      <4>3. \/ pc' = [pc EXCEPT ![w] = "settle"]
            \/ pc' = [pc EXCEPT ![w] = "modify"] /\ ~flags.dryRun
        BY <3>3 DEF AfterDecide, AfterDecide_Always, Finish
      <4> HIDE DEF r
      <4> QED
        BY <4>1, <4>2, <4>3 DEF TypeInv, TypeOK
    <3>4. Failures("model429", {"unreadable"}, "down") \subseteq Reasons
      BY DEF Failures, Reasons
    <3> QED
      BY <1>8, <3>1, <3>2, <3>3, <3>4 DEF Predict
  <2>4. Kept
    BY <2>1, <2>2, <2>3 DEF ReportInv, HandInv, OnItsWay, Undecided
  <2> QED
    BY <2>1, <2>4, <1>1, ReportQuiet
<1>9. ASSUME NEW w \in Workers, Tally(w) PROVE ReportInv'
  <2>1. UNCHANGED <<flags, status, mutated, log, warned>> /\ pc[w] = "tally"
    BY <1>9 DEF Tally, Fail
  <2>2. /\ \A v \in Workers : v # w => pc'[v] = pc[v] /\ rec'[v] = rec[v] /\ job'[v] = job[v]
        /\ pc'[w] \in {"idle", "failed"} /\ rec'[w] = Blank
    BY <1>9 DEF Tally, Fail, TypeInv, TypeOK
  <2>3. Kept
    BY <2>1, <2>2 DEF ReportInv, HandInv, OnItsWay, Undecided, Blank
  <2> QED
    BY <2>1, <2>3, <1>1, ReportQuiet
<1>10. ASSUME NEW w \in Workers, Take(w) PROVE ReportInv'
  <2>1. /\ UNCHANGED <<flags, status, mutated, rec, log, warned>>
        /\ pc[w] = "idle" /\ pc' = [pc EXCEPT ![w] = "gate"]
        /\ \A v \in Workers : v # w => job'[v] = job[v]
    BY <1>10 DEF Take, TypeInv, TypeOK
  <2>2. Kept
    BY <2>1 DEF ReportInv, HandInv, OnItsWay, Undecided, TypeInv, TypeOK
  <2> QED
    BY <2>1, <2>2, <1>1, ReportQuiet
<1>11. ASSUME NEW w \in Workers,
              \/ PassGate(w) \/ AbandonWait(w) \/ WorkerReturns(w) \/ CountFailure(w)
              \/ Settle(w) \/ EnterHealthy(w) \/ EnterUnhealthy(w) \/ PauseFails(w)
       PROVE  ReportInv'
  <2>1. UNCHANGED <<flags, status, mutated, job, rec, log, warned>>
    BY <1>11 DEF PassGate, AbandonWait, WorkerReturns, CountFailure, Settle,
                 EnterHealthy, EnterUnhealthy, PauseFails, Fail
  <2>2. /\ \A v \in Workers : v # w => pc'[v] = pc[v]
        /\ \/ pc[w] \in Undecided /\ pc'[w] \in {"get", "failed", "done"}
           \/ pc[w] = "settle" /\ rec[w].reason = "down" /\ pc'[w] \in {"paused", "audit"}
           \/ pc[w] = "settle" /\ pc'[w] = "audit"
           \/ pc[w] \in {"paused", "reprompt"} /\ pc'[w] \in {"audit", "reprompt", "failed"}
    BY <1>11 DEF PassGate, AbandonWait, WorkerReturns, CountFailure, Settle,
                 EnterHealthy, EnterUnhealthy, PauseFails, Fail, Undecided, TypeInv, TypeOK
  <2>3. HandInv'
    BY <2>1, <2>2 DEF ReportInv, HandInv, Undecided
  <2>4. \A m \in Messages, v \in Workers : OnItsWay(m, v) => OnItsWay(m, v)'
    BY <2>1, <2>2 DEF ReportInv, HandInv, OnItsWay, Undecided
  <2> QED
    BY <2>1, <2>3, <2>4, <1>1, ReportQuiet
<1>12. CASE UNCHANGED vars
  <2>1. UNCHANGED <<flags, status, mutated, pc, job, rec, log, warned>>
    BY <1>12 DEF vars
  <2>2. Kept
    BY <2>1 DEF ReportInv, HandInv, OnItsWay
  <2> QED
    BY <2>1, <2>2, <1>1, ReportQuiet
<1> QED
  BY <1>2, <1>3, <1>4, <1>5, <1>6, <1>7, <1>8, <1>9, <1>10, <1>11, <1>12
     DEF Next, Main, Over, Worker, Work, Prompt

LEMMA ReportInvHolds == Spec => []ReportInv
<1>1. Init => ReportInv
  BY ReportInit
<1>2. TypeInv /\ ReportInv /\ [Next]_vars => ReportInv'
  BY ReportNext
<1> QED
  BY <1>1, <1>2, TypeInvHolds, PTL DEF Spec

\* Every change Gmail accepted ends in the audit log or in a printed warning, or its
\* worker is on the way there, unless the process dies.
THEOREM AcceptedChangesAreReported == Spec => []ChangesAreReported
<1>1. ReportInv => ChangesAreReported
  BY DEF ReportInv
<1> QED
  BY <1>1, ReportInvHolds, PTL

\* A dry run never modifies a message and never writes an audit line.
THEOREM DryRunsAreDry == Spec => []DryRunWritesNothing
<1>1. ReportInv => DryRunWritesNothing
  BY DEF ReportInv
<1> QED
  BY <1>1, ReportInvHolds, PTL

-----------------------------------------------------------------------------
(* The circuit breaker *)

LEMMA PromptedIsFinite == IsFiniteSet(Prompted) /\ Cardinality(Prompted) \in Nat
BY RunAssumption, FS_Subset, FS_CardinalityType DEF Prompted

\* The number of workers at the prompt falls only when the counter is reset.
LEMMA BreakerQuiet ==
  ASSUME TypeInv, BreakerBound, count' \in {count, 0, Threshold - 1},
         count' = 0 \/ Prompted \subseteq Prompted'
  PROVE  BreakerBound'
<1>1. IsFiniteSet(Prompted') /\ Cardinality(Prompted') \in Nat
  BY RunAssumption, FS_Subset, FS_CardinalityType DEF Prompted
<1>2. Threshold \in Nat /\ Threshold > 0 /\ count \in Nat
  BY RunAssumption DEF TypeInv, TypeOK
<1>3. CASE count' = 0
  BY <1>1, <1>2, <1>3 DEF BreakerBound
<1>4. CASE Prompted \subseteq Prompted'
  <2>1. Cardinality(Prompted) <= Cardinality(Prompted')
    BY <1>1, <1>4, FS_Subset
  <2>2. CASE count' \in {count, 0}
    BY <1>1, <1>2, <2>1, <2>2, PromptedIsFinite DEF BreakerBound
  <2>3. CASE count' = Threshold - 1
    BY <1>1, <1>2, <2>3 DEF BreakerBound
  <2> QED
    BY <2>2, <2>3
<1> QED
  BY <1>3, <1>4

LEMMA BreakerCount ==
  ASSUME TypeInv, BreakerBound, NEW w \in Workers, CountFailure(w)
  PROVE  BreakerBound'
<1>1. /\ pc[w] = "settle" /\ count' = count + 1
      /\ pc' = [pc EXCEPT ![w] = IF count' >= Threshold THEN "paused" ELSE "audit"]
  BY DEF CountFailure, Trips
<1>2. Threshold \in Nat /\ count \in Nat
  BY RunAssumption DEF TypeInv, TypeOK
<1>3. IsFiniteSet(Prompted') /\ Cardinality(Prompted') \in Nat
  BY RunAssumption, FS_Subset, FS_CardinalityType DEF Prompted
<1>4. CASE count' >= Threshold
  <2>1. w \notin Prompted /\ Prompted' = Prompted \cup {w}
    BY <1>1, <1>4 DEF Prompted, TypeInv, TypeOK
  <2>2. Cardinality(Prompted') = Cardinality(Prompted) + 1
    BY <2>1, PromptedIsFinite, FS_AddElement
  <2> QED
    BY <1>1, <1>2, <2>2, PromptedIsFinite DEF BreakerBound
<1>5. CASE ~(count' >= Threshold)
  BY <1>1, <1>2, <1>3, <1>5 DEF BreakerBound
<1> QED
  BY <1>4, <1>5

LEMMA BreakerNext == TypeInv /\ BreakerBound /\ [Next]_vars => BreakerBound'
<1> SUFFICES ASSUME TypeInv, BreakerBound, [Next]_vars PROVE BreakerBound'
  OBVIOUS
<1>1. ASSUME NEW w \in Workers, CountFailure(w) PROVE BreakerBound'
  BY <1>1, BreakerCount
<1>2. ASSUME UNCHANGED <<count, pc>> PROVE BreakerBound'
  BY <1>2 DEF BreakerBound, Prompted
<1>3. CASE Crash
  BY <1>3, BreakerQuiet DEF Crash
<1>4. CASE Refuse \/ List \/ CloseChannel \/ WindowElapses \/ Exit
  BY <1>2, <1>4 DEF Refuse, List, CloseChannel, WindowElapses, Exit
<1>5. ASSUME NEW m \in Messages, UserMoves(m) PROVE BreakerBound'
  BY <1>2, <1>5 DEF UserMoves
<1>6. ASSUME NEW w \in Workers, EnterHealthy(w) PROVE BreakerBound'
  BY <1>6, BreakerQuiet DEF EnterHealthy
<1>7. ASSUME NEW w \in Workers, EnterUnhealthy(w) PROVE BreakerBound'
  <2>1. w \in Prompted /\ Prompted \subseteq Prompted' /\ count' = Threshold - 1
    BY <1>7 DEF EnterUnhealthy, Prompted, TypeInv, TypeOK
  <2> QED
    BY <2>1, BreakerQuiet
<1>8. ASSUME NEW w \in Workers, Settle(w) PROVE BreakerBound'
  <2>1. Prompted \subseteq Prompted' /\ count' \in {0, count}
    BY <1>8 DEF Settle, Prompted, TypeInv, TypeOK
  <2> QED
    BY <2>1, BreakerQuiet
<1>9. ASSUME NEW w \in Workers,
             \/ Take(w) \/ PassGate(w) \/ AbandonWait(w) \/ WorkerReturns(w) \/ GetMessage(w)
             \/ Predict(w) \/ Modify(w) \/ AppendRecord(w) \/ Tally(w) \/ PauseFails(w)
      PROVE  BreakerBound'
  <2>1. count' = count
    BY <1>9 DEF Take, PassGate, AbandonWait, WorkerReturns, GetMessage, Predict, Modify,
                AppendRecord, Tally, PauseFails
  <2>2. Prompted \subseteq Prompted'
    BY <1>9 DEF Take, PassGate, AbandonWait, WorkerReturns, GetMessage, Predict, Modify,
                AppendRecord, Tally, PauseFails, AfterDecide, AfterDecide_Always, TryAgain,
                Finish, Fail, Prompted, TypeInv, TypeOK
  <2> QED
    BY <2>1, <2>2, BreakerQuiet
<1>10. CASE UNCHANGED vars
  BY <1>2, <1>10 DEF vars
<1> QED
  BY <1>1, <1>3, <1>4, <1>5, <1>6, <1>7, <1>8, <1>9, <1>10
     DEF Next, Main, Over, Worker, Work, Prompt

\* However many workers fail at once, the failure counter exceeds the threshold by no
\* more than the number of workers at the prompt.
THEOREM BreakerCounterIsBounded == Spec => []BreakerBound
<1>1. Init => BreakerBound
  <2> SUFFICES ASSUME Init PROVE BreakerBound
    OBVIOUS
  <2>1. Cardinality(Prompted) \in Nat
    BY RunAssumption, FS_Subset, FS_CardinalityType DEF Prompted
  <2> QED
    BY <2>1, RunAssumption DEF Init, BreakerBound
<1>2. TypeInv /\ BreakerBound /\ [Next]_vars => BreakerBound'
  BY BreakerNext
<1> QED
  BY <1>1, <1>2, TypeInvHolds, PTL DEF Spec
=============================================================================
