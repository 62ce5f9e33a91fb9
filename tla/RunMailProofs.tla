---------------------------- MODULE RunMailProofs ----------------------------
(***************************************************************************)
(* Theorems about what a run does to the mailbox and what its audit lines  *)
(* say of it, whatever the owner of the mailbox does at the same time.     *)
(***************************************************************************)
EXTENDS RunPoolProofs

-----------------------------------------------------------------------------
(* The action in a worker's hand *)

ActionOf(r) == [add |-> r.add, remove |-> r.remove]

\* What the hand of a worker says of the message it holds.  From the modify on, the
\* message is where the record says, however often the call was retried and
\* whichever of the replies was lost.
Truth(w) ==
  /\ pc[w] \in {"gate", "get", "predict"} => job[w] \notin mutated
  /\ pc[w] = "predict" /\ job[w] \notin moved => rec[w].before = labels[job[w]]
  /\ pc[w] = "modify" =>
       /\ rec[w].outcome = "applied" /\ ActionOf(rec[w]) \in Actions
       /\ job[w] \notin moved =>
            Modified(labels[job[w]], rec[w].add, rec[w].remove)
              = Modified(rec[w].before, rec[w].add, rec[w].remove)
  /\ pc[w] \in {"settle", "paused", "reprompt", "audit"} /\ job[w] \notin moved
       /\ ~flags.dryRun =>
       /\ rec[w].outcome = "applied" =>
            labels[job[w]] = Modified(rec[w].before, rec[w].add, rec[w].remove)
       /\ rec[w].outcome = "skipped" => job[w] \notin mutated

TruthInv ==
  /\ \A w \in Workers : Truth(w)
  /\ pending \cap mutated = {}
  /\ LogTellsTheTruth

LEMMA ModifiedTwice ==
  ASSUME NEW ids, NEW add, NEW remove
  PROVE  Modified(Modified(ids, add, remove), add, remove) = Modified(ids, add, remove)
BY DEF Modified

LEMMA TruthInit == Init => TruthInv
BY DEF Init, TruthInv, Truth, LogTellsTheTruth

\* A step that leaves a worker and its message alone, or whose message the owner moved.
LEMMA TruthKept ==
  ASSUME NEW v \in Workers, Truth(v), flags' = flags, moved \subseteq moved',
         pc'[v] = pc[v], job'[v] = job[v], rec'[v] = rec[v],
         pc[v] \in Holding \ {"tally"} =>
           /\ labels'[job[v]] = labels[job[v]] \/ job[v] \in moved'
           /\ job[v] \in mutated' => job[v] \in mutated
  PROVE  Truth(v)'
BY DEF Truth, Holding

\* A step that writes no line, and touches no message that has one.
LEMMA LogKept ==
  ASSUME LogTellsTheTruth, listed' = listed, log' = log, moved \subseteq moved',
         \A m \in listed \ moved' :
           log[m] # <<>> => labels'[m] = labels[m] /\ (m \in mutated' => m \in mutated)
  PROVE  LogTellsTheTruth'
<1> SUFFICES ASSUME NEW m \in listed \ moved', NEW i \in DOMAIN log[m]
             PROVE  LET r == log[m][i]
                    IN  /\ r.outcome = "applied" => labels'[m] = Modified(r.before, r.add, r.remove)
                        /\ r.outcome = "skipped" => m \notin mutated'
  BY DEF LogTellsTheTruth
<1>1. log[m] # <<>> /\ m \in listed \ moved
  OBVIOUS
<1> QED
  BY <1>1 DEF LogTellsTheTruth

\* A step of worker w that changes neither mailbox nor log.
LEMMA TruthQuiet ==
  ASSUME TypeInv, TruthInv, NEW w \in Workers, Truth(w)',
         UNCHANGED <<flags, listed, labels, mutated, moved, log>>, pending' \subseteq pending,
         \A v \in Workers \ {w} : pc'[v] = pc[v] /\ job'[v] = job[v] /\ rec'[v] = rec[v]
  PROVE  TruthInv'
<1>1. \A v \in Workers : Truth(v)'
  BY TruthKept DEF TruthInv
<1>2. LogTellsTheTruth'
  BY LogKept DEF TruthInv
<1> QED
  BY <1>1, <1>2 DEF TruthInv

LEMMA TruthModify ==
  ASSUME TypeInv, WorkInv, TruthInv, HandInv, NEW w \in Workers, Modify(w)
  PROVE  TruthInv'
<1> USE DEF mail, queue, hand, out
<1> DEFINE m == job[w]
           r == rec[w]
<1>1. /\ pc[w] = "modify" /\ UNCHANGED <<flags, listed, pending, log>>
      /\ UNCHANGED moved /\ job' = job
      /\ \/ UNCHANGED mail
         \/ ApplyModify(w)
      /\ \A v \in Workers \ {w} : pc'[v] = pc[v] /\ rec'[v] = rec[v]
  BY DEF Modify, ApplyModify, TryAgain, Finish, TypeInv, TypeOK
<1>2. m \in listed /\ m \in Messages /\ m # NoMessage /\ ~Reported(m)
  <2>1. pc[w] \in Holding /\ pc[w] \in Unwritten
    BY <1>1 DEF Unwritten, Holding
  <2>2. m \in listed /\ m \in Messages
    BY <2>1 DEF TypeInv, TypeOK
  <2> QED
    BY <2>1, <2>2, RunAssumption DEF WorkInv
<1>3. \A k \in Messages \ {m} : labels'[k] = labels[k] /\ (k \in mutated' => k \in mutated)
  BY <1>1 DEF ApplyModify, TypeInv, TypeOK
<1>4. /\ r.outcome = "applied" /\ ActionOf(r) \in Actions
      /\ m \notin moved => Modified(labels[m], r.add, r.remove)
                              = Modified(r.before, r.add, r.remove)
  BY <1>1 DEF TruthInv, Truth
<1>5. ASSUME NEW v \in Workers \ {w} PROVE Truth(v)'
  <2>1. pc[v] \in Holding \ {"tally"} => job[v] \in Messages \ {m}
    BY <1>2, RunAssumption DEF TypeInv, TypeOK, WorkInv, EachMessageOnce, Holding
  <2> QED
    BY <1>1, <1>3, <2>1, TruthKept DEF TruthInv
<1>6. ASSUME m \notin moved, ApplyModify(w)
      PROVE  /\ labels'[m] = Modified(r.before, r.add, r.remove)
             /\ Modified(labels'[m], r.add, r.remove) = Modified(r.before, r.add, r.remove)
  <2>1. labels'[m] = Modified(labels[m], r.add, r.remove)
    BY <1>2, <1>6 DEF ApplyModify, TypeInv, TypeOK
  <2> QED
    BY <1>4, <1>6, <2>1, ModifiedTwice
<1>7. Truth(w)'
  <2>1. CASE pc' = pc /\ rec' = rec
    BY <1>1, <1>4, <1>6, <2>1 DEF Truth
  <2>2. CASE pc'[w] = "settle" /\ rec'[w] = r /\ ApplyModify(w)
    BY <1>1, <1>4, <1>6, <2>2 DEF Truth
  <2>3. CASE pc'[w] = "settle" /\ rec'[w].outcome = "error"
    BY <1>1, <2>3 DEF Truth
  <2>4. \/ pc' = pc /\ rec' = rec
        \/ pc'[w] = "settle" /\ rec'[w] = r /\ ApplyModify(w)
        \/ \E e \in {"gmail429", "gmail"} : pc'[w] = "settle" /\ rec'[w] = FailedModify(w, e)
    BY DEF Modify, TryAgain, Finish, Failures, TypeInv, TypeOK
  <2>5. \A e : FailedModify(w, e).outcome = "error"
    BY DEF FailedModify, TypeInv, TypeOK, Record
  <2> QED
    BY <2>1, <2>2, <2>3, <2>4, <2>5
<1>8. LogTellsTheTruth'
  <2>1. \A k \in listed \ moved' : log[k] # <<>> => k \in Messages \ {m}
    BY <1>2 DEF TypeInv, TypeOK, Reported
  <2> QED
    BY <1>1, <1>3, <2>1, LogKept DEF TruthInv
<1>9. pending \cap mutated' = {}
  <2>1. m \notin pending
    BY <1>2 DEF WorkInv, EachMessageOnce
  <2> QED
    BY <1>3, <2>1 DEF TruthInv, TypeInv, TypeOK
<1> QED
  BY <1>1, <1>5, <1>7, <1>8, <1>9 DEF TruthInv

LEMMA TruthAppend ==
  ASSUME TypeInv, WorkInv, TruthInv, NEW w \in Workers, AppendRecord(w)
  PROVE  TruthInv'
<1> USE DEF mail, queue, hand
<1> DEFINE m == job[w]
           r == rec[w]
<1>1. /\ pc[w] = "audit" /\ pc' = [pc EXCEPT ![w] = "tally"]
      /\ UNCHANGED <<flags, labels, mutated, moved, listed, pending, job, rec>>
  BY DEF AppendRecord
<1>2. \A v \in Workers : Truth(v)'
  <2>1. Truth(w)'
    BY <1>1 DEF Truth, TypeInv, TypeOK
  <2>2. ASSUME NEW v \in Workers \ {w} PROVE Truth(v)'
    BY <1>1, TruthKept DEF TruthInv, TypeInv, TypeOK
  <2> QED
    BY <2>1, <2>2
<1>3. CASE UNCHANGED log
  BY <1>1, <1>2, <1>3, LogKept DEF TruthInv
<1>4. CASE ~flags.dryRun /\ log' = [log EXCEPT ![m] = Append(@, LineOf(r))]
  <2>1. m \in listed /\ m \in Messages /\ log[m] = <<>> /\ log \in [Messages -> Seq(Line)]
    BY <1>1 DEF TypeInv, TypeOK, WorkInv, Unwritten, Holding, Reported
  <2>2. LineOf(r) \in Line
    BY DEF TypeInv, TypeOK, LineOf, Line, Record
  <2>3. /\ log'[m] = Append(<<>>, LineOf(r))
        /\ \A k \in Messages : k # m => log'[k] = log[k]
    BY <1>4, <2>1
  <2>4. DOMAIN log'[m] = {1} /\ log'[m][1] = LineOf(r)
    BY <2>2, <2>3
  <2>5. m \notin moved =>
          /\ r.outcome = "applied" => labels[m] = Modified(r.before, r.add, r.remove)
          /\ r.outcome = "skipped" => m \notin mutated
    BY <1>1, <1>4 DEF TruthInv, Truth
  <2>6. ASSUME NEW k \in listed \ moved, NEW i \in DOMAIN log'[k]
        PROVE  /\ log'[k][i].outcome = "applied" =>
                    labels[k] = Modified(log'[k][i].before, log'[k][i].add, log'[k][i].remove)
               /\ log'[k][i].outcome = "skipped" => k \notin mutated
    <3>1. CASE k = m
      BY <2>4, <2>5, <2>6, <3>1 DEF LineOf
    <3>2. CASE k # m
      <4>1. log'[k] = log[k]
        BY <2>3, <3>2 DEF TypeInv, TypeOK
      <4> QED
        BY <2>6, <4>1 DEF TruthInv, LogTellsTheTruth
    <3> QED
      BY <3>1, <3>2
  <2>7. LogTellsTheTruth'
    BY <1>1, <2>6 DEF LogTellsTheTruth
  <2> QED
    BY <1>1, <1>2, <2>7 DEF TruthInv
<1> QED
  BY <1>3, <1>4 DEF AppendRecord, Persist

LEMMA TruthPredict ==
  ASSUME TypeInv, TruthInv, NEW w \in Workers, Predict(w)
  PROVE  TruthInv'
<1> USE DEF mail, queue, hand, out
<1>0. rec[w] \in Record /\ pc = [v \in Workers |-> pc[v]] /\ rec \in [Workers -> Record]
  BY DEF TypeInv, TypeOK
<1>1. /\ pc[w] = "predict" /\ UNCHANGED <<flags, listed, pending, labels, mutated, moved, log>>
      /\ job' = job
      /\ \A v \in Workers \ {w} : pc'[v] = pc[v] /\ rec'[v] = rec[v]
  <2>1. pc[w] = "predict" /\ UNCHANGED <<flags, listed, pending, labels, mutated, moved, log>>
    BY DEF Predict
  <2>2. \/ TryAgain(w)
        \/ \E r : Finish(w, r)
        \/ /\ UNCHANGED job
           /\ \E r, p : rec' = [rec EXCEPT ![w] = r] /\ pc' = [pc EXCEPT ![w] = p]
    BY Zenon DEF Predict, AfterDecide, AfterDecide_Always
  <2> QED
    BY <1>0, <2>1, <2>2 DEF TryAgain, Finish
<1>2. /\ job[w] \notin mutated
      /\ job[w] \notin moved => rec[w].before = labels[job[w]]
  BY <1>1 DEF TruthInv, Truth
<1>3. Truth(w)'
  <2>1. ASSUME NEW a \in Actions,
               AfterDecide(w, [rec[w] EXCEPT !.outcome = "applied",
                                             !.add = a.add, !.remove = a.remove])
        PROVE  Truth(w)'
    <3> DEFINE r == [rec[w] EXCEPT !.outcome = "applied", !.add = a.add, !.remove = a.remove]
    <3>1. /\ r.outcome = "applied" /\ r.add = a.add /\ r.remove = a.remove
          /\ r.before = rec[w].before
      BY <1>0 DEF Record
    <3>2. ActionOf(r) \in Actions
      BY <3>1 DEF ActionOf, Actions, TrashAction, TagActions
    <3> HIDE DEF r
    <3>3. CASE ~flags.dryRun /\ pc'[w] = "modify" /\ rec'[w] = r
      BY <1>1, <1>2, <3>1, <3>2, <3>3 DEF Truth
    <3>4. CASE flags.dryRun /\ pc'[w] = "settle"
      BY <1>1, <3>4 DEF Truth
    <3>5. \/ ~flags.dryRun /\ pc'[w] = "modify" /\ rec'[w] = r
          \/ flags.dryRun /\ pc'[w] = "settle"
      BY <1>0, <2>1 DEF AfterDecide, AfterDecide_Always, Finish, r
    <3> QED
      BY <3>3, <3>4, <3>5
  <2>2. ASSUME NEW e \in Reasons, TryAgain(w) PROVE Truth(w)'
    BY <1>1, <2>2 DEF TryAgain, TruthInv, Truth
  <2>3. ASSUME NEW e \in Reasons,
               Finish(w, [rec[w] EXCEPT !.outcome = "skipped", !.reason = e])
        PROVE  Truth(w)'
    <3>1. pc'[w] = "settle" /\ rec'[w].outcome = "skipped"
      BY <1>0, <2>3 DEF Finish, Record
    <3> QED
      BY <1>1, <1>2, <3>1 DEF Truth
  <2>4. Failures("model429", {"unreadable"}, "down") \subseteq Reasons
    BY DEF Failures, Reasons
  <2> QED
    BY <2>1, <2>2, <2>3, <2>4 DEF Predict
<1> QED
  BY <1>1, <1>3, TruthQuiet

LEMMA TruthGet ==
  ASSUME TypeInv, TruthInv, NEW w \in Workers, GetMessage(w)
  PROVE  TruthInv'
<1> USE DEF mail, queue, hand, out
<1>0. rec[w] \in Record /\ pc = [v \in Workers |-> pc[v]] /\ rec \in [Workers -> Record]
  BY DEF TypeInv, TypeOK
<1>1. /\ pc[w] = "get" /\ UNCHANGED <<flags, listed, pending, labels, mutated, moved, log>>
      /\ job' = job
      /\ \A v \in Workers \ {w} : pc'[v] = pc[v] /\ rec'[v] = rec[v]
  <2>1. pc[w] = "get" /\ UNCHANGED <<flags, listed, pending, labels, mutated, moved, log>>
    BY DEF GetMessage
  <2>2. \/ TryAgain(w)
        \/ \E r : Finish(w, r)
        \/ /\ UNCHANGED job
           /\ \E r, p : rec' = [rec EXCEPT ![w] = r] /\ pc' = [pc EXCEPT ![w] = p]
    BY Zenon DEF GetMessage
  <2> QED
    BY <1>0, <2>1, <2>2 DEF TryAgain, Finish
<1>2. job[w] \notin mutated
  BY <1>1 DEF TruthInv, Truth
<1>3. Truth(w)'
  <2>1. CASE /\ rec' = [rec EXCEPT ![w] = [Blank EXCEPT !.before = labels[job[w]]]]
             /\ pc' = [pc EXCEPT ![w] = "predict"]
    <3>1. pc'[w] = "predict" /\ rec'[w].before = labels[job[w]]
      BY <1>0, <2>1 DEF Blank
    <3> QED
      BY <1>1, <1>2, <3>1 DEF Truth
  <2>2. ASSUME NEW e \in Reasons, TryAgain(w) PROVE Truth(w)'
    BY <1>1, <2>2 DEF TryAgain, TruthInv, Truth
  <2>3. ASSUME NEW e \in Reasons,
               Finish(w, [rec[w] EXCEPT !.outcome = "skipped", !.reason = e])
        PROVE  Truth(w)'
    <3>1. pc'[w] = "settle" /\ rec'[w].outcome = "skipped"
      BY <1>0, <2>3 DEF Finish, Record
    <3> QED
      BY <1>1, <1>2, <3>1 DEF Truth
  <2>4. Failures("gmail429", {}, "gmail") \subseteq Reasons
    BY DEF Failures, Reasons
  <2> QED
    BY <2>1, <2>2, <2>3, <2>4 DEF GetMessage
<1> QED
  BY <1>1, <1>3, TruthQuiet

LEMMA TruthTake ==
  ASSUME TypeInv, TruthInv, NEW w \in Workers, Take(w)
  PROVE  TruthInv'
<1> USE DEF mail, queue, out
<1>1. PICK m \in pending : pending' = pending \ {m} /\ job' = [job EXCEPT ![w] = m]
  BY DEF Take, Rest
<1>2. /\ pc' = [pc EXCEPT ![w] = "gate"]
      /\ UNCHANGED <<flags, listed, labels, mutated, moved, log, rec>>
  BY DEF Take
<1>3. job'[w] = m /\ pc'[w] = "gate" /\ m \notin mutated
  BY <1>1, <1>2 DEF TypeInv, TypeOK, TruthInv
<1>4. Truth(w)'
  BY <1>2, <1>3 DEF Truth
<1> QED
  BY <1>1, <1>2, <1>4, TruthQuiet DEF TypeInv, TypeOK

LEMMA TruthNext ==
  TypeInv /\ WorkInv /\ ReportInv /\ TruthInv /\ [Next]_vars => TruthInv'
<1> SUFFICES ASSUME TypeInv, WorkInv, ReportInv, TruthInv, [Next]_vars PROVE TruthInv'
  OBVIOUS
<1> USE DEF mail, queue, hand, out
<1>1. CASE List
  <2>1. /\ listed = {} /\ mutated = {} /\ listed' \subseteq Messages
        /\ UNCHANGED <<flags, pc, job, rec, labels, mutated, moved, log, warned>>
    BY <1>1 DEF List, Newest, Matching, TypeInv, TypeOK
  <2>2. \A v \in Workers : Truth(v)'
    BY <2>1, TruthKept DEF TruthInv
  <2>3. \A m \in listed' : log[m] = <<>>
    BY <2>1 DEF WorkInv, Reported
  <2>4. LogTellsTheTruth'
    BY <2>1, <2>3 DEF LogTellsTheTruth
  <2> QED
    BY <2>1, <2>2, <2>4 DEF TruthInv
<1>2. CASE Crash
  <2>1. /\ pending' = {} /\ UNCHANGED <<labels, mutated, moved, listed, log>>
        /\ \A v \in Workers : pc'[v] = "done"
    BY <1>2 DEF Crash
  <2>2. \A v \in Workers : Truth(v)'
    BY <2>1 DEF Truth
  <2>3. LogTellsTheTruth'
    BY <2>1, LogKept DEF TruthInv
  <2> QED
    BY <2>1, <2>2, <2>3 DEF TruthInv
<1>3. ASSUME NEW m \in Messages, UserMoves(m) PROVE TruthInv'
  <2>1. /\ moved' = moved \cup {m}
        /\ \A k \in Messages \ {m} : labels'[k] = labels[k]
        /\ UNCHANGED <<flags, pending, listed, mutated, pc, job, rec, log>>
    BY <1>3 DEF UserMoves, TypeInv, TypeOK
  <2>2. ASSUME NEW v \in Workers PROVE Truth(v)'
    <3>1. pc[v] \in Holding => job[v] \in Messages
      BY DEF TypeInv, TypeOK
    <3>2. pc[v] \in Holding => labels'[job[v]] = labels[job[v]] \/ job[v] \in moved'
      BY <2>1, <3>1
    <3> QED
      BY <2>1, <3>2, TruthKept DEF TruthInv
  <2>3. \A k \in listed \ moved' : labels'[k] = labels[k]
    BY <2>1 DEF TypeInv, TypeOK
  <2>4. LogTellsTheTruth'
    BY <2>1, <2>3, LogKept DEF TruthInv
  <2> QED
    BY <2>1, <2>2, <2>4 DEF TruthInv
<1>4. ASSUME NEW w \in Workers, Take(w) PROVE TruthInv'
  BY <1>4, TruthTake
<1>5. ASSUME NEW w \in Workers, GetMessage(w) PROVE TruthInv'
  BY <1>5, TruthGet
<1>6. ASSUME NEW w \in Workers, Predict(w) PROVE TruthInv'
  BY <1>6, TruthPredict
<1>7. ASSUME NEW w \in Workers, Modify(w) PROVE TruthInv'
  BY <1>7, TruthModify DEF ReportInv
<1>8. ASSUME NEW w \in Workers, AppendRecord(w) PROVE TruthInv'
  BY <1>8, TruthAppend
<1>9. ASSUME NEW w \in Workers,
             \/ PassGate(w) \/ AbandonWait(w) \/ WorkerReturns(w) \/ CountFailure(w)
             \/ Settle(w) \/ EnterHealthy(w) \/ EnterUnhealthy(w) \/ PauseFails(w)
      PROVE  TruthInv'
  <2>1. /\ UNCHANGED <<flags, listed, pending, labels, mutated, moved, log, rec, job>>
        /\ \A v \in Workers \ {w} : pc'[v] = pc[v]
    BY <1>9 DEF PassGate, AbandonWait, WorkerReturns, CountFailure, Settle, EnterHealthy,
                EnterUnhealthy, PauseFails, Fail, TypeInv, TypeOK
  <2>2. \/ pc'[w] \in {"failed", "done"}
        \/ pc[w] = "gate" /\ pc'[w] = "get"
        \/ /\ pc[w] \in {"settle", "paused", "reprompt"}
           /\ pc'[w] \in {"paused", "reprompt", "audit"}
    BY <1>9 DEF PassGate, AbandonWait, WorkerReturns, CountFailure, Settle, EnterHealthy,
                EnterUnhealthy, PauseFails, Fail, TypeInv, TypeOK
  <2>3. Truth(w)'
    BY <2>1, <2>2 DEF TruthInv, Truth
  <2> QED
    BY <2>1, <2>3, TruthQuiet
<1>10. ASSUME NEW w \in Workers, Tally(w) PROVE TruthInv'
  <2>1. /\ UNCHANGED <<flags, listed, pending, labels, mutated, moved, log>>
        /\ pc'[w] \in {"idle", "failed"}
        /\ \A v \in Workers \ {w} : pc'[v] = pc[v] /\ job'[v] = job[v] /\ rec'[v] = rec[v]
    BY <1>10 DEF Tally, Fail, TypeInv, TypeOK
  <2>2. Truth(w)'
    BY <2>1 DEF Truth
  <2> QED
    BY <2>1, <2>2, TruthQuiet
<1>11. CASE Refuse \/ CloseChannel \/ WindowElapses \/ Exit \/ UNCHANGED vars
  <2>1. UNCHANGED <<flags, listed, pending, labels, mutated, moved, log, pc, job, rec>>
    BY <1>11 DEF Refuse, CloseChannel, WindowElapses, Exit, vars
  <2>2. \A v \in Workers : Truth(v)'
    BY <2>1, TruthKept DEF TruthInv
  <2>3. LogTellsTheTruth'
    BY <2>1, LogKept DEF TruthInv
  <2> QED
    BY <2>1, <2>2, <2>3 DEF TruthInv
<1> QED
  BY <1>1, <1>2, <1>3, <1>4, <1>5, <1>6, <1>7, <1>8, <1>9, <1>10, <1>11
     DEF Next, Main, Over, Worker, Work, Prompt

LEMMA TruthHolds == Spec => []TypeInv /\ []TruthInv
<1>1. TypeInv /\ WorkInv /\ [Next]_vars => WorkInv'
  BY WorkNext
<1>2. TypeInv /\ WorkInv /\ ReportInv /\ TruthInv /\ [Next]_vars => TruthInv'
  BY TruthNext
<1> QED
  BY <1>1, <1>2, WorkInit, TruthInit, TypeInvHolds, ReportInvHolds, PTL DEF Spec

\* The audit log, the base of every rollback, tells the truth about every message the
\* owner left alone: "applied" means the labels are what the line adds up to, "skipped"
\* means the message was not touched, for any number of workers, retries and lost replies.
THEOREM TheLogTellsTheTruth == Spec => []LogTellsTheTruth
<1>1. TruthInv => LogTellsTheTruth
  BY DEF TruthInv
<1> QED
  BY <1>1, TruthHolds, PTL

-----------------------------------------------------------------------------
(* What a modify does to the labels of a message *)

\* Every step that changes a label is a modify of an action of the policy, or the owner's.
LEMMA LabelSteps ==
  ASSUME TypeInv, TruthInv, [Next]_vars
  PROVE  \/ UNCHANGED <<labels, mutated, moved>>
         \/ \E m \in Messages : UserMoves(m)
         \/ \E w \in Workers : /\ ActionOf(rec[w]) \in Actions /\ job[w] \in listed
                               /\ ApplyModify(w) /\ listed' = listed /\ flags' = flags
<1> USE DEF mail, queue, hand, out
<1>1. CASE Refuse \/ List \/ CloseChannel \/ WindowElapses \/ Exit \/ Crash \/ UNCHANGED vars
  BY <1>1 DEF Refuse, List, CloseChannel, WindowElapses, Exit, Crash, vars
<1>2. ASSUME NEW w \in Workers, Modify(w)
      PROVE  \/ UNCHANGED <<labels, mutated, moved>>
             \/ /\ ActionOf(rec[w]) \in Actions /\ job[w] \in listed
                /\ ApplyModify(w) /\ listed' = listed /\ flags' = flags
  <2>1. pc[w] = "modify" /\ listed' = listed /\ flags' = flags
    BY <1>2 DEF Modify
  <2>2. ApplyModify(w) \/ UNCHANGED <<labels, mutated, moved>>
    BY <1>2 DEF Modify
  <2>3. ActionOf(rec[w]) \in Actions /\ job[w] \in listed
    BY <2>1 DEF TruthInv, Truth, TypeInv, Holding
  <2> QED
    BY <2>1, <2>2, <2>3
<1>3. ASSUME NEW w \in Workers,
             \/ Take(w) \/ PassGate(w) \/ AbandonWait(w) \/ WorkerReturns(w)
             \/ GetMessage(w) \/ Predict(w) \/ CountFailure(w) \/ Settle(w)
             \/ AppendRecord(w) \/ Tally(w) \/ Prompt(w)
      PROVE  UNCHANGED <<labels, mutated, moved>>
  BY <1>3 DEF Take, PassGate, AbandonWait, WorkerReturns, GetMessage, Predict, CountFailure,
              Settle, AppendRecord, Tally, Prompt, EnterHealthy, EnterUnhealthy, PauseFails
<1> QED
  BY <1>1, <1>2, <1>3 DEF Next, Main, Over, Worker, Work

\* The IDs of the cleaner's labels are neither INBOX nor TRASH.
LEMMA CleanerIds ==
  ASSUME NEW t \in CleanerLabels
  PROVE  IdOf[t] \notin {"INBOX", "TRASH"}
BY LabelAssumption DEF LabelNames, SystemLabels

\* The two kinds of action, by what they do to a set of label IDs.
LEMMA ActionEffect ==
  ASSUME NEW ids, NEW r, ActionOf(r) \in Actions
  PROVE  \/ Modified(ids, r.add, r.remove) = (ids \ {"INBOX"}) \cup {"TRASH"}
         \/ \E s \in (SUBSET CleanerLabels) \ {{}} :
              Modified(ids, r.add, r.remove) = ids \cup toLabelIDs(s)
<1>1. CASE ActionOf(r) = TrashAction
  <2>1. r.add = {"TRASH"} /\ r.remove = {"INBOX"}
    BY <1>1 DEF ActionOf, TrashAction
  <2>2. IdOf["TRASH"] = "TRASH" /\ IdOf["INBOX"] = "INBOX"
    BY LabelAssumption DEF SystemLabels
  <2> QED
    BY <2>1, <2>2 DEF Modified, toLabelIDs
<1>2. ASSUME NEW s \in ((SUBSET Topics) \ {{}}) \cup {{Unclassified}},
             ActionOf(r) = [add |-> s, remove |-> {}]
      PROVE  \E q \in (SUBSET CleanerLabels) \ {{}} :
               Modified(ids, r.add, r.remove) = ids \cup toLabelIDs(q)
  <2>1. r.add = s /\ r.remove = {}
    BY <1>2 DEF ActionOf
  <2>2. s \in (SUBSET CleanerLabels) \ {{}}
    BY <1>2 DEF CleanerLabels
  <2> QED
    BY <2>1, <2>2 DEF Modified, toLabelIDs
<1> QED
  BY <1>1, <1>2 DEF Actions, TagActions

-----------------------------------------------------------------------------
(* A run takes off no label but INBOX, and that only for the trash *)

\* No message is in the inbox and in the trash.
OnePlace == \A m \in Messages : ~({"INBOX", "TRASH"} \subseteq labels[m])

LEMMA OnePlaceNext == TypeInv /\ TruthInv /\ OnePlace /\ [Next]_vars => OnePlace'
<1> SUFFICES ASSUME TypeInv, TruthInv, OnePlace, [Next]_vars PROVE OnePlace'
  OBVIOUS
<1>1. CASE UNCHANGED <<labels, mutated, moved>>
  BY <1>1 DEF OnePlace
<1>2. ASSUME NEW m \in Messages, UserMoves(m) PROVE OnePlace'
  <2>1. PICK ids \in MovedByUser(labels[m]) : labels' = [labels EXCEPT ![m] = ids]
    BY <1>2 DEF UserMoves
  <2>2. ~({"INBOX", "TRASH"} \subseteq ids)
    BY <2>1 DEF MovedByUser, Untrashed, OnePlace
  <2> QED
    BY <2>1, <2>2 DEF OnePlace, TypeInv, TypeOK
<1>3. ASSUME NEW w \in Workers, ActionOf(rec[w]) \in Actions, ApplyModify(w) PROVE OnePlace'
  <2>1. labels' = [labels EXCEPT ![job[w]] = Modified(@, rec[w].add, rec[w].remove)]
    BY <1>3 DEF ApplyModify
  <2>2. ASSUME NEW ids, ~({"INBOX", "TRASH"} \subseteq ids)
        PROVE  ~({"INBOX", "TRASH"} \subseteq Modified(ids, rec[w].add, rec[w].remove))
    <3> DEFINE after == Modified(ids, rec[w].add, rec[w].remove)
    <3>1. CASE after = (ids \ {"INBOX"}) \cup {"TRASH"}
      BY <3>1
    <3>2. ASSUME NEW s \in (SUBSET CleanerLabels) \ {{}}, after = ids \cup toLabelIDs(s)
          PROVE  ~({"INBOX", "TRASH"} \subseteq after)
      <4>1. toLabelIDs(s) \cap {"INBOX", "TRASH"} = {}
        BY CleanerIds DEF toLabelIDs
      <4> QED
        BY <2>2, <3>2, <4>1
    <3> QED
      BY <1>3, <3>1, <3>2, ActionEffect
  <2> QED
    BY <2>1, <2>2 DEF OnePlace, TypeInv, TypeOK
<1> QED
  BY <1>1, <1>2, <1>3, LabelSteps

\* Only the owner takes a label off or brings a message back: whatever the policy says
\* and however calls are retried, the run removes INBOX only, and only into the trash.
THEOREM OnlyTheTrashEmptiesTheInbox == Spec => OnlyTrashLeavesTheInbox
<1> DEFINE Untouched(m) ==
      /\ labels[m] \ labels'[m] \subseteq {"INBOX"}
      /\ "INBOX" \in labels[m] \ labels'[m] => "TRASH" \in labels'[m] \ labels[m]
<1>1. ASSUME TypeInv, TruthInv, OnePlace, [Next]_vars, NEW m \in Messages
      PROVE  UserMoves(m) \/ Untouched(m)
  <2>1. CASE UNCHANGED <<labels, mutated, moved>>
    BY <2>1
  <2>2. ASSUME NEW k \in Messages, UserMoves(k) PROVE UserMoves(m) \/ Untouched(m)
    <3>1. k # m => labels'[m] = labels[m]
      BY <1>1, <2>2 DEF UserMoves, TypeInv, TypeOK
    <3> QED
      BY <2>2, <3>1
  <2>3. ASSUME NEW w \in Workers, ActionOf(rec[w]) \in Actions, ApplyModify(w)
        PROVE  Untouched(m)
    <3>1. \/ labels'[m] = labels[m]
          \/ labels'[m] = Modified(labels[m], rec[w].add, rec[w].remove)
      BY <1>1, <2>3 DEF ApplyModify, TypeInv, TypeOK
    <3>2. "INBOX" \in labels[m] => "TRASH" \notin labels[m]
      BY <1>1 DEF OnePlace
    <3>3. CASE labels'[m] = (labels[m] \ {"INBOX"}) \cup {"TRASH"}
      BY <3>2, <3>3
    <3>4. ASSUME NEW s, labels'[m] = labels[m] \cup s PROVE Untouched(m)
      BY <3>4
    <3>5. CASE labels'[m] = labels[m]
      BY <3>5
    <3>6. \/ Modified(labels[m], rec[w].add, rec[w].remove) = (labels[m] \ {"INBOX"}) \cup {"TRASH"}
          \/ \E s : Modified(labels[m], rec[w].add, rec[w].remove) = labels[m] \cup s
      BY <2>3, ActionEffect
    <3> QED
      BY <3>1, <3>3, <3>4, <3>5, <3>6
  <2> QED
    BY <1>1, <2>1, <2>2, <2>3, LabelSteps
<1>2. Init => OnePlace
  BY RunAssumption DEF Init, OnePlace
<1>3. TypeInv /\ TruthInv /\ OnePlace /\ [Next]_vars
        => [\A m \in Messages :
              \/ UserMoves(m)
              \/ /\ labels[m] \ labels'[m] \subseteq {"INBOX"}
                 /\ "INBOX" \in labels[m] \ labels'[m] => "TRASH" \in labels'[m] \ labels[m]]_vars
  BY <1>1
<1> QED
  BY <1>2, <1>3, OnePlaceNext, TruthHolds, PTL DEF Spec, OnlyTrashLeavesTheInbox

-----------------------------------------------------------------------------
(* The next run resumes *)

LEMMA ResumesNext == TypeInv /\ TruthInv /\ NextRunResumes /\ [Next]_vars => NextRunResumes'
<1> SUFFICES ASSUME TypeInv, TruthInv, NextRunResumes, [Next]_vars,
                    ~flags'.reprocess, Configured = CleanerLabels,
                    NEW m \in listed' \ moved'
             PROVE  MatchesUnprocessed(labels'[m]) <=> m \notin mutated'
  BY DEF NextRunResumes
<1> USE DEF mail, queue, hand, out
<1>1. CASE List
  <2>1. listed' \subseteq Matching /\ UNCHANGED <<flags, labels, mutated, moved>>
    BY <1>1 DEF List, Newest
  <2>2. mutated = {}
    BY <1>1 DEF List, TypeInv, TypeOK
  <2> QED
    BY <2>1, <2>2 DEF Matching
<1>2. flags' = flags /\ (listed' = listed \/ List)
  BY DEF Next, Main, Over, Worker, Work, Prompt, Refuse, List, CloseChannel, WindowElapses,
         Exit, Crash, UserMoves, Take, PassGate, AbandonWait, WorkerReturns, GetMessage,
         Predict, Modify, CountFailure, Settle, AppendRecord, Tally, EnterHealthy,
         EnterUnhealthy, PauseFails, vars
<1>3. CASE listed' = listed
  <2>1. CASE UNCHANGED <<labels, mutated, moved>>
    BY <1>2, <1>3, <2>1 DEF NextRunResumes
  <2>2. ASSUME NEW k \in Messages, UserMoves(k)
        PROVE  MatchesUnprocessed(labels'[m]) <=> m \notin mutated'
    <3>1. m # k /\ m \notin moved /\ labels'[m] = labels[m] /\ mutated' = mutated
      BY <1>3, <2>2 DEF UserMoves, TypeInv, TypeOK
    <3> QED
      BY <1>2, <1>3, <3>1 DEF NextRunResumes
  <2>3. ASSUME NEW w \in Workers, ActionOf(rec[w]) \in Actions, job[w] \in listed, ApplyModify(w)
        PROVE  MatchesUnprocessed(labels'[m]) <=> m \notin mutated'
    <3>1. CASE m = job[w]
      <4>1. labels'[m] = Modified(labels[m], rec[w].add, rec[w].remove) /\ m \in mutated'
        BY <1>3, <2>3, <3>1 DEF ApplyModify, TypeInv, TypeOK
      <4>2. ~MatchesUnprocessed(Modified(labels[m], rec[w].add, rec[w].remove))
        <5> DEFINE after == Modified(labels[m], rec[w].add, rec[w].remove)
        <5>1. CASE after = (labels[m] \ {"INBOX"}) \cup {"TRASH"}
          BY <5>1 DEF MatchesUnprocessed
        <5>2. ASSUME NEW s \in (SUBSET CleanerLabels) \ {{}},
                     after = labels[m] \cup toLabelIDs(s)
              PROVE  ~MatchesUnprocessed(after)
          BY <5>2 DEF MatchesUnprocessed, toLabelIDs
        <5> QED
          BY <2>3, <5>1, <5>2, ActionEffect
      <4> QED
        BY <4>1, <4>2
    <3>2. CASE m # job[w]
      <4>1. labels'[m] = labels[m] /\ (m \in mutated' <=> m \in mutated) /\ moved' = moved
        BY <1>3, <2>3, <3>2 DEF ApplyModify, TypeInv, TypeOK
      <4> QED
        BY <1>2, <1>3, <4>1 DEF NextRunResumes
    <3> QED
      BY <3>1, <3>2
  <2> QED
    BY <2>1, <2>2, <2>3, LabelSteps
<1> QED
  BY <1>1, <1>2, <1>3

\* Wherever a run stops, the query of the next one selects exactly the listed messages
\* that were not changed, if the config names every label the cleaner adds.
THEOREM TheNextRunResumes == Spec => []NextRunResumes
<1>1. Init => NextRunResumes
  BY DEF Init, NextRunResumes
<1> QED
  BY <1>1, ResumesNext, TruthHolds, PTL DEF Spec
=============================================================================
