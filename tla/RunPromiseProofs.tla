-------------------------- MODULE RunPromiseProofs --------------------------
(***************************************************************************)
(* What a run as a whole comes to, for any mailbox, any number of messages *)
(* and workers: it implements RunPromise; its totals, what a crash can     *)
(* cost and what exit code 0 says; and all of it with the terminal spelled *)
(* out, because Terminal implements RunPool.                               *)
(***************************************************************************)
EXTENDS RunPoolProofs, FunctionTheorems, Terminal

-----------------------------------------------------------------------------
(* RunPool implements RunPromise: the initial states map to initial states, and    *)
(* every step is a step of the promise or a stutter.  The strengthening is the     *)
(* inductive invariants of RunPoolProofs.                                          *)

Told == {m \in Messages : Reported(m)}

\* The variables of the promise, as the run sees them.
Seen == <<flags, listed, mutated, log, warned>>

LEMMA PromiseInit == Init => Promise!Init
BY DEF Init, Promise!Init, Reported, Ended

\* A step that leaves all of them alone is a stutter, or the end of the run.
LEMMA PromiseStutter ==
  ASSUME UNCHANGED Seen, Ended' = Ended
  PROVE  UNCHANGED Promise!pvars
BY DEF Seen, Promise!pvars, Reported

LEMMA PromiseStop ==
  ASSUME UNCHANGED Seen, ~Ended, Ended'
  PROVE  Promise!Next
BY DEF Seen, Promise!Next, Promise!Stop, Reported

LEMMA PromiseList ==
  ASSUME TypeInv, List
  PROVE  Promise!Next
<1> USE DEF mail, queue, hand, out
<1>1. /\ status = "starting" /\ listed = {} /\ listed' \in SUBSET Messages
      /\ UNCHANGED <<flags, mutated, log, warned>>
  BY DEF List, Newest, Matching, TypeInv
<1>2. ~Ended /\ (Ended' <=> listed' = {})
  BY <1>1 DEF List, Ended
<1>3. Promise!Pick(listed')
  BY <1>1, <1>2 DEF Promise!Pick, Reported, Ended
<1> QED
  BY <1>1, <1>3 DEF Promise!Next

LEMMA PromiseModify ==
  ASSUME TypeInv, WorkInv, ReportInv, status = "pool", NEW w \in Workers, Modify(w)
  PROVE  [Promise!Next]_(Promise!pvars)
<1> USE DEF mail, queue, hand, out
<1> DEFINE m == job[w]
<1>1. /\ pc[w] = "modify"
      /\ mutated' = mutated \/ mutated' = mutated \cup {m}
      /\ UNCHANGED <<flags, status, listed, log, warned>>
  BY DEF Modify, ApplyModify
<1>2. m \in listed /\ m \in Messages /\ ~Reported(m) /\ ~flags.dryRun
  BY <1>1 DEF TypeInv, TypeOK, WorkInv, ReportInv, HandInv, Unwritten, Holding
<1>3. CASE mutated' = mutated
  BY <1>1, <1>3, PromiseStutter DEF Seen, Ended
<1>4. CASE mutated' = mutated \cup {m}
  <2>1. Promise!Change(m)
    BY <1>1, <1>2, <1>4 DEF Promise!Change, Reported, Ended
  <2> QED
    BY <1>2, <2>1 DEF Promise!Next
<1> QED
  BY <1>1, <1>3, <1>4

LEMMA AppendedIsThere ==
  ASSUME NEW s \in Seq(Line), NEW r \in Line
  PROVE  Append(s, r) # <<>>
<1>1. Len(Append(s, r)) = Len(s) + 1
  OBVIOUS
<1>2. Len(s) \in Nat /\ Len(<<>>) = 0
  OBVIOUS
<1> QED
  BY <1>1, <1>2

LEMMA PromiseAppend ==
  ASSUME TypeInv, WorkInv, status = "pool", NEW w \in Workers, AppendRecord(w)
  PROVE  [Promise!Next]_(Promise!pvars)
<1> USE DEF mail, queue, hand
<1> DEFINE m == job[w]
<1>1. pc[w] = "audit" /\ UNCHANGED <<flags, status, listed, mutated>>
  BY DEF AppendRecord
<1>2. m \in listed /\ m \in Messages /\ ~Reported(m)
  BY <1>1 DEF TypeInv, TypeOK, WorkInv, Unwritten, Holding
<1>3. CASE UNCHANGED <<log, warned>>
  BY <1>1, <1>3, PromiseStutter DEF Seen, Ended
<1>4. CASE ~flags.dryRun /\ Persist(w)
  <2>1. log \in [Messages -> Seq(Line)] /\ LineOf(rec[w]) \in Line
    BY DEF TypeInv, TypeOK, LineOf, Line, Record
  <2> DEFINE OnlyM == \A k \in Messages : Reported(k)' <=> Reported(k) \/ k = m
  <2>2. ASSUME log' = [log EXCEPT ![m] = Append(@, LineOf(rec[w]))], UNCHANGED warned
        PROVE  OnlyM
    <3>1. log'[m] = Append(log[m], LineOf(rec[w])) /\ log[m] \in Seq(Line)
      BY <1>2, <2>1, <2>2
    <3>2. log'[m] # <<>>
      BY <2>1, <3>1, AppendedIsThere
    <3>3. \A k \in Messages : k # m => log'[k] = log[k]
      BY <2>1, <2>2
    <3> QED
      BY <2>2, <3>2, <3>3 DEF Reported
  <2>3. ASSUME warned' = warned \cup {m}, UNCHANGED log
        PROVE  OnlyM
    BY <2>3 DEF Reported
  <2>4. OnlyM
    BY <1>4, <2>2, <2>3 DEF Persist
  <2>5. Promise!Report(m)
    BY <1>1, <1>2, <1>4, <2>4 DEF Promise!Report, Ended
  <2> QED
    BY <1>2, <2>5 DEF Promise!Next
<1> QED
  BY <1>3, <1>4 DEF AppendRecord

LEMMA PromiseStep ==
  TypeInv /\ WorkInv /\ ReportInv /\ [Next]_vars => [Promise!Next]_(Promise!pvars)
<1> SUFFICES ASSUME TypeInv, WorkInv, ReportInv, [Next]_vars
             PROVE  [Promise!Next]_(Promise!pvars)
  OBVIOUS
<1> USE DEF mail, queue, hand, out
<1>1. CASE List
  BY <1>1, PromiseList
<1>2. CASE Refuse \/ Exit \/ Crash
  <2>1. UNCHANGED Seen /\ ~Ended /\ Ended'
    BY <1>2 DEF Refuse, Exit, Crash, Seen, Ended
  <2> QED
    BY <2>1, PromiseStop
<1>3. ASSUME NEW w \in Workers, status = "pool", Modify(w)
      PROVE  [Promise!Next]_(Promise!pvars)
  BY <1>3, PromiseModify
<1>4. ASSUME NEW w \in Workers, status = "pool", AppendRecord(w)
      PROVE  [Promise!Next]_(Promise!pvars)
  BY <1>4, PromiseAppend
<1>5. CASE CloseChannel \/ WindowElapses
  BY <1>5, PromiseStutter DEF CloseChannel, WindowElapses, Seen, Ended
<1>6. ASSUME NEW m \in Messages, UserMoves(m)
      PROVE  [Promise!Next]_(Promise!pvars)
  BY <1>6, PromiseStutter DEF UserMoves, Seen, Ended
<1>7. ASSUME NEW w \in Workers,
             \/ Take(w) \/ PassGate(w) \/ AbandonWait(w) \/ WorkerReturns(w) \/ GetMessage(w)
             \/ Predict(w) \/ CountFailure(w) \/ Settle(w) \/ Tally(w)
             \/ EnterHealthy(w) \/ EnterUnhealthy(w) \/ PauseFails(w)
      PROVE  [Promise!Next]_(Promise!pvars)
  <2>1. UNCHANGED Seen /\ UNCHANGED status
    BY <1>7 DEF Take, PassGate, AbandonWait, WorkerReturns, GetMessage, Predict, CountFailure,
                Settle, Tally, EnterHealthy, EnterUnhealthy, PauseFails, Seen
  <2> QED
    BY <2>1, PromiseStutter DEF Ended
<1>8. CASE UNCHANGED vars
  BY <1>8, PromiseStutter DEF vars, Seen, Ended
<1> QED
  BY <1>1, <1>2, <1>3, <1>4, <1>5, <1>6, <1>7, <1>8
     DEF Next, Main, Over, Worker, Work, Prompt

LEMMA WorkInvHolds == Spec => []WorkInv
<1>1. TypeInv /\ WorkInv /\ [Next]_vars => WorkInv'
  BY WorkNext
<1> QED
  BY <1>1, WorkInit, TypeInvHolds, PTL DEF Spec

\* A run keeps its promise: it changes only what it listed, never a message it has
\* reported, reports each message once, changes nothing in a dry run, and does
\* nothing once the process is gone.
THEOREM RunKeepsItsPromise == Spec => KeepsItsPromise
<1>1. TypeInv /\ WorkInv /\ ReportInv /\ [Next]_vars => [Promise!Next]_(Promise!pvars)
  BY PromiseStep
<1>2. Spec => []TypeInv /\ []WorkInv /\ []ReportInv
  BY TypeInvHolds, WorkInvHolds, ReportInvHolds
<1> QED
  BY <1>1, <1>2, PromiseInit, PTL DEF Spec, KeepsItsPromise, Promise!Spec

-----------------------------------------------------------------------------
(* The totals *)

\* A worker at the channel has nothing in its hand, and before the listing all are there.
CountInv ==
  /\ NothingUncounted
  /\ \A w \in Workers : pc[w] = "idle" => job[w] = NoMessage
  /\ status = "starting" => tally = Zero /\ \A w \in Workers : pc[w] = "idle"

LEMMA SizesAreNumbers ==
  ASSUME TypeOK
  PROVE  /\ IsFiniteSet(Busy) /\ Cardinality(Busy) \in Nat
         /\ IsFiniteSet(pending) /\ Cardinality(pending) \in Nat
         /\ IsFiniteSet(listed) /\ Cardinality(listed) \in Nat
<1>1. Busy \subseteq Workers /\ pending \subseteq Messages /\ listed \subseteq Messages
  BY DEF Busy, TypeOK
<1> QED
  BY <1>1, RunAssumption, FS_Subset, FS_CardinalityType

LEMMA CountInit == Init => CountInv
<1> SUFFICES ASSUME Init PROVE CountInv
  OBVIOUS
<1>1. Busy = {} /\ listed = {} /\ pending = {}
  BY DEF Init, Busy
<1>2. Cardinality(Busy) = 0 /\ Cardinality(listed) = 0 /\ Cardinality(pending) = 0
  BY <1>1, FS_EmptySet
<1> QED
  BY <1>2 DEF Init, CountInv, NothingUncounted, Zero

\* Steps that neither hand over a message nor count one.
LEMMA CountQuiet ==
  ASSUME CountInv, UNCHANGED <<listed, pending, job, tally>>,
         \A v \in Workers : pc'[v] = "idle" => pc[v] = "idle",
         status' = "starting" => status = "starting" /\ pc' = pc,
         status = "crashed" => status' = "crashed"
  PROVE  CountInv'
<1>1. Busy' = Busy
  BY DEF Busy
<1> QED
  BY <1>1 DEF CountInv, NothingUncounted

LEMMA CountTake ==
  ASSUME TypeInv, CountInv, status = "pool", NEW w \in Workers, Take(w)
  PROVE  CountInv'
<1> USE DEF out
<1>1. PICK m \in pending : pending' = pending \ {m} /\ job' = [job EXCEPT ![w] = m]
  BY DEF Take, Rest
<1>2. /\ pc[w] = "idle" /\ pc' = [pc EXCEPT ![w] = "gate"] /\ UNCHANGED <<status, listed, tally>>
      /\ pc = [v \in Workers |-> pc[v]] /\ job = [v \in Workers |-> job[v]]
      /\ m # NoMessage
  BY RunAssumption DEF Take, TypeInv, TypeOK
<1>3. w \notin Busy /\ Busy' = Busy \cup {w}
  BY <1>1, <1>2 DEF Busy, CountInv
<1>4. Cardinality(Busy') = Cardinality(Busy) + 1 /\ Cardinality(pending') = Cardinality(pending) - 1
  BY <1>1, <1>3, SizesAreNumbers, FS_AddElement, FS_RemoveElement DEF TypeInv
<1>5. NothingUncounted'
  BY <1>2, <1>4, SizesAreNumbers DEF CountInv, NothingUncounted, TypeInv
<1> QED
  BY <1>1, <1>2, <1>5 DEF CountInv

LEMMA CountTally ==
  ASSUME TypeInv, CountInv, status = "pool", NEW w \in Workers, Tally(w)
  PROVE  CountInv'
<1> USE DEF mail, queue
<1>1. /\ pc[w] = "tally" /\ job' = [job EXCEPT ![w] = NoMessage]
      /\ UNCHANGED <<status, listed, pending>>
      /\ pc' = [pc EXCEPT ![w] = "idle"] \/ pc' = [pc EXCEPT ![w] = "failed"]
      /\ pc = [v \in Workers |-> pc[v]] /\ job = [v \in Workers |-> job[v]]
      /\ job[w] # NoMessage
  BY RunAssumption DEF Tally, Fail, TypeInv, TypeOK, Holding
<1>2. Busy' = Busy \ {w} /\ w \in Busy
  BY <1>1 DEF Busy
<1>3. Cardinality(Busy') = Cardinality(Busy) - 1
  BY <1>2, SizesAreNumbers, FS_RemoveElement DEF TypeInv
<1>4. /\ tally'.applied + tally'.skipped + tally'.errors
           = tally.applied + tally.skipped + tally.errors + 1
  BY DEF Tally, Counted, TypeInv, TypeOK, Record, Outcomes
<1>5. NothingUncounted'
  BY <1>1, <1>3, <1>4, SizesAreNumbers DEF CountInv, NothingUncounted, TypeInv, TypeOK
<1> QED
  BY <1>1, <1>5 DEF CountInv

LEMMA CountNext == TypeInv /\ CountInv /\ [Next]_vars => CountInv'
<1> SUFFICES ASSUME TypeInv, CountInv, [Next]_vars PROVE CountInv'
  OBVIOUS
<1> USE DEF mail, queue, hand, out
<1>1. CASE List
  <2>1. /\ listed = {} /\ pending = {} /\ Busy' = {} /\ tally' = Zero
        /\ pending' = listed' /\ UNCHANGED <<pc, job>> /\ status' # "starting"
    BY <1>1 DEF List, CountInv, TypeInv, TypeOK, Busy
  <2>2. IsFiniteSet(listed')
    <3>1. listed' \subseteq Messages
      BY <1>1 DEF List, Newest, Matching
    <3> QED
      BY <3>1, RunAssumption, FS_Subset
  <2>3. Cardinality(listed') \in Nat /\ Cardinality(Busy') = 0
    BY <2>1, <2>2, FS_CardinalityType, FS_EmptySet
  <2> QED
    BY <2>1, <2>3 DEF CountInv, NothingUncounted, Zero
<1>2. ASSUME NEW w \in Workers, status = "pool", Take(w) PROVE CountInv'
  BY <1>2, CountTake
<1>3. ASSUME NEW w \in Workers, status = "pool", Tally(w) PROVE CountInv'
  BY <1>3, CountTally
<1>4. CASE Crash
  BY <1>4 DEF Crash, CountInv, NothingUncounted
<1>5. CASE Refuse \/ CloseChannel \/ WindowElapses \/ Exit
  BY <1>5, CountQuiet DEF Refuse, CloseChannel, WindowElapses, Exit
<1>6. ASSUME NEW m \in Messages, UserMoves(m) PROVE CountInv'
  BY <1>6, CountQuiet DEF UserMoves
<1>7. ASSUME NEW w \in Workers, status = "pool",
             \/ PassGate(w) \/ AbandonWait(w) \/ WorkerReturns(w) \/ GetMessage(w)
             \/ Predict(w) \/ Modify(w) \/ CountFailure(w) \/ Settle(w) \/ AppendRecord(w)
             \/ EnterHealthy(w) \/ EnterUnhealthy(w) \/ PauseFails(w)
      PROVE  CountInv'
  <2>1. UNCHANGED <<status, listed, pending, job, tally>>
    BY <1>7 DEF PassGate, AbandonWait, WorkerReturns, GetMessage, Predict, Modify,
                CountFailure, Settle, AppendRecord, EnterHealthy, EnterUnhealthy, PauseFails,
                AfterDecide, AfterDecide_Always, TryAgain, Finish
  <2>2. \A v \in Workers : pc'[v] = "idle" => pc[v] = "idle"
    BY <1>7 DEF PassGate, AbandonWait, WorkerReturns, GetMessage, Predict, Modify,
                CountFailure, Settle, AppendRecord, EnterHealthy, EnterUnhealthy, PauseFails,
                AfterDecide, AfterDecide_Always, TryAgain, Finish, Fail, TypeInv, TypeOK
  <2> QED
    BY <1>7, <2>1, <2>2, CountQuiet
<1>8. CASE UNCHANGED vars
  BY <1>8, CountQuiet DEF vars
<1> QED
  BY <1>1, <1>2, <1>3, <1>4, <1>5, <1>6, <1>7, <1>8
     DEF Next, Main, Over, Worker, Work, Prompt

\* Every listed message is queued, in a worker's hand or in exactly one of the totals,
\* whatever fails, is retried or is cancelled.
THEOREM EveryMessageIsCounted == Spec => []NothingUncounted
<1>1. CountInv => NothingUncounted
  BY DEF CountInv
<1> QED
  BY <1>1, CountInit, CountNext, TypeInvHolds, PTL DEF Spec

-----------------------------------------------------------------------------
(* What a crash can cost *)

Crashed == status = "crashed"

\* While the process lives, every unreported change is in the hand of a worker of its own.
LEMMA UnreportedAreCarried ==
  ASSUME TypeInv, ChangesAreReported, status # "crashed"
  PROVE  CrashLosesOneLinePerWorker
<1> DEFINE Carriers == {w \in Workers : job[w] \in Unreported}
           f == [w \in Carriers |-> job[w]]
<1>1. IsFiniteSet(Carriers) /\ Cardinality(Carriers) <= Cardinality(Workers)
  BY RunAssumption, FS_Subset
<1>2. f \in [Carriers -> Unreported]
  OBVIOUS
<1>3. \A m \in Unreported : \E w \in Carriers : f[w] = m
  BY DEF ChangesAreReported, OnItsWay
<1>4. f \in Surjection(Carriers, Unreported)
  BY <1>2, <1>3, Fun_IsSurj
<1>5. Cardinality(Unreported) <= Cardinality(Carriers) /\ IsFiniteSet(Unreported)
  BY <1>1, <1>4, FS_Surjection
<1>6. Cardinality(Unreported) \in Nat /\ Cardinality(Carriers) \in Nat /\ Cardinality(Workers) \in Nat
  BY <1>1, <1>5, RunAssumption, FS_CardinalityType
<1> QED
  BY <1>1, <1>5, <1>6 DEF CrashLosesOneLinePerWorker

LEMMA CrashKeeps ==
  CrashLosesOneLinePerWorker /\ [Next]_vars
    => CrashLosesOneLinePerWorker' \/ ~Crashed'
<1> SUFFICES ASSUME CrashLosesOneLinePerWorker, [Next]_vars, status' = "crashed"
             PROVE  CrashLosesOneLinePerWorker'
  BY DEF Crashed
<1>1. UNCHANGED <<mutated, log, warned>>
  BY DEF Next, Main, Over, Worker, Work, Prompt, Refuse, List, CloseChannel, WindowElapses,
         Exit, Crash, UserMoves, Take, PassGate, AbandonWait, WorkerReturns, GetMessage,
         Predict, Modify, CountFailure, Settle, AppendRecord, Tally, EnterHealthy,
         EnterUnhealthy, PauseFails, vars, mail, out, queue
<1> QED
  BY <1>1 DEF CrashLosesOneLinePerWorker, Unreported

\* A crash, at whatever moment, loses at most one audit line per worker.
THEOREM ACrashLosesOneLinePerWorker == Spec => []CrashLosesOneLinePerWorker
<1>1. TypeInv /\ ReportInv => Crashed \/ CrashLosesOneLinePerWorker
  BY UnreportedAreCarried DEF ReportInv, Crashed
<1>2. Init => ~Crashed
  BY DEF Init, Crashed
<1> QED
  BY <1>1, <1>2, CrashKeeps, TypeInvHolds, ReportInvHolds, PTL DEF Spec

-----------------------------------------------------------------------------
(* What exit code 0 says *)

\* Where each listed message is while nothing has failed for good: queued, in a worker's
\* hand, or written about (or warned about) as its record says.
Settled(m) == m \in warned \/ \E i \in DOMAIN log[m] : log[m][i].outcome # "error"

Placed(m) == m \in pending \/ (\E w \in Workers : job[w] = m) \/ Settled(m) \/ tally.errors > 0

CleanInv ==
  /\ CleanExit
  /\ status = "pool" =>
       /\ ~feeding /\ ~cancelled => pending = {}
       /\ \A w \in Workers : pc[w] = "failed" => cancelled
       /\ \A w \in Workers : pc[w] = "done" => job[w] = NoMessage
       /\ ~flags.dryRun => \A m \in listed : Placed(m)
       /\ ~flags.dryRun => \A w \in Workers :
            pc[w] = "tally" /\ rec[w].outcome # "error" => Settled(job[w])
  /\ status = "starting" => \A w \in Workers : pc[w] = "idle" /\ job[w] = NoMessage

LEMMA CleanInit == Init => CleanInv
BY DEF Init, CleanInv, CleanExit

\* Steps of the pool that move no message and end nothing.
LEMMA CleanQuiet ==
  ASSUME CleanInv, status = "pool", status' = "pool",
         UNCHANGED <<flags, listed, pending, feeding, job, log, warned, tally>>,
         cancelled' = cancelled \/ cancelled' = TRUE,
         \A v \in Workers : /\ pc'[v] = "failed" => pc[v] = "failed" \/ cancelled'
                            /\ pc'[v] = "done" => pc[v] = "done" \/ job[v] = NoMessage
                            /\ pc'[v] = "tally" => pc[v] = "tally" /\ rec'[v] = rec[v]
  PROVE  CleanInv'
BY DEF CleanInv, CleanExit, Placed, Settled

LEMMA CleanTake ==
  ASSUME TypeInv, CountInv, CleanInv, status = "pool", NEW w \in Workers, Take(w)
  PROVE  CleanInv'
<1> USE DEF out
<1>1. PICK m \in pending : pending' = pending \ {m} /\ job' = [job EXCEPT ![w] = m]
  BY DEF Take, Rest
<1>2. /\ pc[w] = "idle" /\ pc' = [pc EXCEPT ![w] = "gate"] /\ feeding
      /\ UNCHANGED <<flags, status, listed, feeding, cancelled, log, warned, tally, rec>>
      /\ pc = [v \in Workers |-> pc[v]] /\ job = [v \in Workers |-> job[v]]
  BY DEF Take, TypeInv, TypeOK
<1>3. job[w] = NoMessage /\ NoMessage \notin listed
  BY <1>2, RunAssumption DEF CountInv, TypeInv, TypeOK
<1>4. ~flags.dryRun => \A k \in listed : Placed(k)'
  BY <1>1, <1>2, <1>3 DEF CleanInv, Placed, Settled
<1>5. \A v \in Workers : pc'[v] = "tally" => pc[v] = "tally" /\ job'[v] = job[v]
  BY <1>1, <1>2
<1> QED
  BY <1>1, <1>2, <1>4, <1>5 DEF CleanInv, CleanExit, Settled

LEMMA CleanAppend ==
  ASSUME TypeInv, CleanInv, status = "pool", NEW w \in Workers, AppendRecord(w)
  PROVE  CleanInv'
<1> USE DEF mail, queue, hand
<1> DEFINE m == job[w]
<1>1. /\ pc[w] = "audit" /\ pc' = [pc EXCEPT ![w] = "tally"]
      /\ UNCHANGED <<flags, status, listed, pending, feeding, cancelled, job, rec>>
      /\ tally' = tally /\ pc = [v \in Workers |-> pc[v]]
      /\ m \in listed /\ m \in Messages
      /\ log \in [Messages -> Seq(Line)] /\ rec[w] \in Record
  BY DEF AppendRecord, TypeInv, TypeOK, Holding
<1>2. LineOf(rec[w]) \in Line /\ LineOf(rec[w]).outcome = rec[w].outcome
  BY <1>1 DEF LineOf, Line, Record
<1>3. \A k \in Messages : Settled(k) => Settled(k)'
  <2>1. CASE UNCHANGED <<log, warned>>
    BY <2>1 DEF Settled
  <2>2. CASE log' = [log EXCEPT ![m] = Append(@, LineOf(rec[w]))] /\ warned' = warned
    <3> SUFFICES ASSUME NEW k \in Messages, NEW i \in DOMAIN log[k], log[k][i].outcome # "error"
                 PROVE  Settled(k)'
      BY <2>2 DEF Settled
    <3>1. i \in DOMAIN log'[k] /\ log'[k][i] = log[k][i]
      BY <1>1, <1>2, <2>2
    <3> QED
      BY <3>1 DEF Settled
  <2>3. CASE warned' = warned \cup {m} /\ log' = log
    BY <2>3 DEF Settled
  <2> QED
    BY <2>1, <2>2, <2>3 DEF AppendRecord, Persist
<1>4. ~flags.dryRun /\ rec[w].outcome # "error" => Settled(m)'
  <2> SUFFICES ASSUME ~flags.dryRun, rec[w].outcome # "error" PROVE Settled(m)'
    OBVIOUS
  <2>1. CASE log' = [log EXCEPT ![m] = Append(@, LineOf(rec[w]))]
    <3> DEFINE s == log[m]
    <3>1. s \in Seq(Line) /\ log'[m] = Append(s, LineOf(rec[w]))
      BY <1>1, <2>1
    <3> HIDE DEF s
    <3>2. Len(s) + 1 \in DOMAIN log'[m] /\ log'[m][Len(s) + 1] = LineOf(rec[w])
      BY <1>2, <3>1
    <3> QED
      BY <1>1, <1>2, <3>2 DEF Settled
  <2>2. CASE warned' = warned \cup {m}
    BY <1>1, <2>2 DEF Settled
  <2> QED
    BY <2>1, <2>2 DEF AppendRecord, Persist
<1>5. ~flags.dryRun => \A k \in listed : Placed(k)'
  <2>1. listed \subseteq Messages
    BY DEF TypeInv, TypeOK
  <2> QED
    BY <1>1, <1>3, <2>1 DEF CleanInv, Placed
<1>6. \A v \in Workers : v # w => pc'[v] = pc[v]
  BY <1>1
<1>7. \A v \in Workers : pc[v] = "tally" => job[v] \in Messages
  BY DEF TypeInv, TypeOK, Holding
<1> QED
  BY <1>1, <1>3, <1>4, <1>5, <1>6, <1>7 DEF CleanInv, CleanExit

LEMMA CleanTally ==
  ASSUME TypeInv, CleanInv, status = "pool", NEW w \in Workers, Tally(w)
  PROVE  CleanInv'
<1> USE DEF mail, queue
<1>1. /\ pc[w] = "tally" /\ job' = [job EXCEPT ![w] = NoMessage]
      /\ UNCHANGED <<flags, status, listed, pending, feeding, log, warned>>
      /\ cancelled' = cancelled \/ cancelled' = TRUE
      /\ pc' = [pc EXCEPT ![w] = "idle"] \/ (pc' = [pc EXCEPT ![w] = "failed"] /\ cancelled')
      /\ pc = [v \in Workers |-> pc[v]] /\ job = [v \in Workers |-> job[v]]
      /\ rec = [v \in Workers |-> rec[v]] /\ rec' = [rec EXCEPT ![w] = Blank]
  BY DEF Tally, Fail, TypeInv, TypeOK
<1>2. /\ tally.errors \in Nat /\ tally'.errors \in Nat /\ tally'.errors >= tally.errors
      /\ rec[w].outcome = "error" => tally'.errors > 0
  BY DEF Tally, Counted, TypeInv, TypeOK
<1>3. ~flags.dryRun => \A k \in listed : Placed(k)'
  <2> SUFFICES ASSUME ~flags.dryRun, NEW k \in listed PROVE Placed(k)'
    OBVIOUS
  <2>1. CASE k = job[w]
    <3>1. rec[w].outcome = "error" \/ Settled(k)
      BY <1>1, <2>1 DEF CleanInv
    <3>2. Settled(k) => Settled(k)'
      BY <1>1 DEF Settled
    <3> QED
      BY <1>2, <3>1, <3>2 DEF Placed
  <2>2. CASE k # job[w]
    <3>1. \A v \in Workers : job[v] = k => job'[v] = k
      BY <1>1, <2>2
    <3>2. Placed(k)
      BY DEF CleanInv
    <3> QED
      BY <1>1, <1>2, <3>1, <3>2 DEF Placed, Settled
  <2> QED
    BY <2>1, <2>2
<1>4. \A v \in Workers : pc'[v] = "tally" => v # w
  BY <1>1
<1>5. \A v \in Workers : v # w => pc'[v] = pc[v] /\ job'[v] = job[v] /\ rec'[v] = rec[v]
  BY <1>1
<1> QED
  BY <1>1, <1>3, <1>4, <1>5 DEF CleanInv, CleanExit, Settled

LEMMA CleanPoolStep ==
  ASSUME TypeInv, CountInv, CleanInv, status = "pool", NEW w \in Workers,
         Worker(w), ~Take(w), ~AppendRecord(w), ~Tally(w)
  PROVE  CleanInv'
<1> USE DEF mail, queue, hand, out
<1>1. /\ status' = "pool"
      /\ UNCHANGED <<flags, listed, pending, feeding, job, log, warned, tally>>
      /\ cancelled' = cancelled \/ cancelled' = TRUE
  BY DEF Worker, Work, Prompt, PassGate, AbandonWait, WorkerReturns, GetMessage, Predict, Modify,
         CountFailure, Settle, EnterHealthy, EnterUnhealthy, PauseFails, AfterDecide,
         AfterDecide_Always, TryAgain, Finish, Fail
<1>2. /\ \A v \in Workers : v # w => pc'[v] = pc[v] /\ rec'[v] = rec[v]
      /\ pc'[w] = "failed" => cancelled'
      /\ pc'[w] = "done" => pc[w] = "idle"
      /\ pc'[w] # "tally"
  BY DEF Worker, Work, Prompt, PassGate, AbandonWait, WorkerReturns, GetMessage, Predict, Modify,
         CountFailure, Settle, EnterHealthy, EnterUnhealthy, PauseFails, AfterDecide,
         AfterDecide_Always, TryAgain, Finish, Fail, TypeInv, TypeOK
<1> QED
  BY <1>1, <1>2, CleanQuiet DEF CountInv

LEMMA CleanEnd ==
  ASSUME TypeInv, CleanInv, Exit
  PROVE  CleanInv'
<1> USE DEF mail, queue, hand, out
<1>1. /\ status = "pool" /\ ~feeding /\ status' = "exited" /\ code' = ExitCode
      /\ \A w \in Workers : pc[w] \in {"done", "failed"}
      /\ UNCHANGED <<flags, listed, pending, log, warned>>
  BY DEF Exit, Returned
<1>2. ASSUME code' = exitOK, ~flags.dryRun
      PROVE  pending = {} /\ \A m \in listed : Settled(m)
  <2>1. ~cancelled /\ ~(tally.errors > 0)
    BY <1>1, <1>2 DEF ExitCode, exitOK, exitGeneric
  <2>2. \A w \in Workers : job[w] = NoMessage
    BY <1>1, <2>1 DEF CleanInv
  <2>3. pending = {} /\ NoMessage \notin listed
    BY <1>1, <2>1, RunAssumption DEF CleanInv, TypeInv, TypeOK
  <2> QED
    BY <1>1, <1>2, <2>1, <2>2, <2>3 DEF CleanInv, Placed
<1> QED
  BY <1>1, <1>2 DEF CleanInv, CleanExit, Settled

LEMMA CleanNext == TypeInv /\ CountInv /\ CleanInv /\ [Next]_vars => CleanInv'
<1> SUFFICES ASSUME TypeInv, CountInv, CleanInv, [Next]_vars PROVE CleanInv'
  OBVIOUS
<1> USE DEF mail, queue, hand, out
<1>1. CASE Refuse
  BY <1>1 DEF Refuse, CleanInv, CleanExit, exitOK, exitGeneric, exitUsage, exitReAuth
<1>2. CASE List
  BY <1>2 DEF List, CleanInv, CleanExit, Placed
<1>3. CASE CloseChannel
  BY <1>3 DEF CloseChannel, AllSent, CleanInv, CleanExit, Placed, Settled
<1>4. CASE WindowElapses
  BY <1>4 DEF WindowElapses, CleanInv, CleanExit, Placed, Settled
<1>5. CASE Exit
  BY <1>5, CleanEnd
<1>6. CASE Crash
  BY <1>6 DEF Crash, CleanInv, CleanExit
<1>7. ASSUME NEW m \in Messages, UserMoves(m) PROVE CleanInv'
  BY <1>7 DEF UserMoves, CleanInv, CleanExit, Placed, Settled
<1>8. ASSUME NEW w \in Workers, Worker(w) PROVE CleanInv'
  BY <1>8, CleanTake, CleanAppend, CleanTally, CleanPoolStep DEF Worker, Work, Prompt
<1>9. CASE UNCHANGED vars
  BY <1>9 DEF vars, CleanInv, CleanExit, Placed, Settled
<1> QED
  BY <1>1, <1>2, <1>3, <1>4, <1>5, <1>6, <1>7, <1>8, <1>9 DEF Next, Main, Over

\* A run that exits 0 has been through every listed message, and each has a line that
\* says "applied" or "skipped", or a warning about the line that could not be written.
THEOREM ExitOKMeansEverythingTried == Spec => []CleanExit
<1>1. CleanInv => CleanExit
  BY DEF CleanInv
<1> QED
  BY <1>1, CountInit, CountNext, CleanInit, CleanNext, TypeInvHolds, PTL DEF Spec

-----------------------------------------------------------------------------
(* Terminal implements RunPool *)

LEMMA TerminalInit == TermInit => Init
BY DEF TermInit

\* A line that is read, from whatever prompt, answers one prompt of one worker.
LEMMA PromptStep ==
  ASSUME NEW w \in Workers, AtPrompt(w) \/ (status = "pool" /\ StdinBreaks(w))
  PROVE  [Next]_vars
<1>1. CASE UNCHANGED vars
  BY <1>1
<1>2. CASE status = "pool" /\ (EnterHealthy(w) \/ EnterUnhealthy(w) \/ PauseFails(w))
  BY <1>2 DEF Next, Worker, Prompt
<1> QED
  BY <1>1, <1>2 DEF AtPrompt, Answer, LeavePrompt, StdinBreaks

LEMMA ElsewhereStep == Elsewhere => Next
BY DEF Elsewhere, Next, Worker

LEMMA TerminalStep == [TermNext]_termVars => [Next]_vars
<1> SUFFICES ASSUME [TermNext]_termVars PROVE [Next]_vars
  OBVIOUS
<1>1. CASE Alone(Elsewhere)
  BY <1>1, ElsewhereStep DEF Alone
<1>2. ASSUME NEW w \in Workers, AtPrompt(w) \/ (status = "pool" /\ StdinBreaks(w))
      PROVE  [Next]_vars
  BY <1>2, PromptStep
<1>3. CASE OrphanReads \/ Type \/ CloseInput \/ ServiceTurns
  BY <1>3 DEF OrphanReads, Type, CloseInput, ServiceTurns
<1>4. CASE Over
  BY <1>4 DEF Over
<1>5. CASE UNCHANGED termVars
  BY <1>5 DEF termVars
<1> QED
  BY <1>1, <1>2, <1>3, <1>4, <1>5 DEF TermNext

\* With the readers, the lines typed ahead, the end of input and the server's health in
\* the state, a run still does nothing that RunPool does not: its prompts are answered,
\* fail or wait, and a reader left behind by a cancelled pause touches nothing else.
THEOREM TheTerminalImplementsTheRun == TermSpec => Spec
BY TerminalInit, TerminalStep, PTL DEF TermSpec, Spec

\* So what is proved of every run holds at a terminal: each message is worked on once,
\* accepted changes are reported, the log is exhaustive at exit 0, the breaker's counter
\* is bounded, and the promise is kept.
THEOREM ARunAtATerminalKeepsItsPromise ==
  TermSpec =>
    /\ KeepsItsPromise
    /\ [](EachMessageOnce /\ ChangesAreReported /\ CleanExit /\ BreakerBound)
<1>1. Spec => []EachMessageOnce /\ []ChangesAreReported /\ []CleanExit /\ []BreakerBound
  BY MessagesAreWorkedOnOnce, AcceptedChangesAreReported, ExitOKMeansEverythingTried,
     BreakerCounterIsBounded
<1> QED
  BY <1>1, RunKeepsItsPromise, TheTerminalImplementsTheRun, PTL
=============================================================================
