-------------------------- MODULE QuotaGateProofs --------------------------
(* Theorems about the quota gate, for any number of workers and any window.    *)
EXTENDS QuotaGate, TLAPS

LEMMA TypeNext == TypeOK /\ [Next]_vars => TypeOK'
<1> SUFFICES ASSUME TypeOK, [Next]_vars PROVE TypeOK'
  OBVIOUS
<1> USE GateAssumption DEF TypeOK
<1>1. CASE Tick
  BY <1>1 DEF Tick
<1>2. CASE Cancel
  BY <1>2 DEF Cancel
<1>3. ASSUME NEW w \in Workers, Call(w) PROVE TypeOK'
  BY <1>3 DEF Call
<1>4. ASSUME NEW w \in Workers, Trip(w) PROVE TypeOK'
  BY <1>4 DEF Trip, Extended
<1>5. ASSUME NEW w \in Workers, Finish(w) PROVE TypeOK'
  BY <1>5 DEF Finish
<1>6. ASSUME NEW w \in Workers, Waiting(w) PROVE TypeOK'
  <2>1. CASE Read(w)
    BY <2>1 DEF Read
  <2>2. CASE Pass(w) \/ Sleep(w)
    BY <2>2 DEF Pass, Sleep
  <2>3. CASE Wake(w)
    BY <2>3 DEF Wake, AfterSleep
  <2>4. CASE Abort(w)
    BY <2>4 DEF Abort
  <2> QED
    BY <1>6, <2>1, <2>2, <2>3, <2>4 DEF Waiting
<1>7. CASE UNCHANGED vars
  BY <1>7 DEF vars
<1> QED
  BY <1>1, <1>2, <1>3, <1>4, <1>5, <1>6, <1>7 DEF Next

\* Type correctness: the deadline stays within reach of a trip.
THEOREM GateTypeCorrect == Spec => []TypeOK
<1>1. Init => TypeOK
  <2> SUFFICES ASSUME Init PROVE TypeOK
    OBVIOUS
  <2>1. until \in 0 .. MaxTime
    BY GateAssumption DEF Init
  <2> QED
    BY <2>1 DEF Init, TypeOK
<1>2. TypeOK /\ [Next]_vars => TypeOK'
  BY TypeNext
<1> QED
  BY <1>1, <1>2, PTL DEF Spec

LEMMA StackNext == TypeOK /\ PausesDoNotStack /\ [Next]_vars => PausesDoNotStack'
<1> SUFFICES ASSUME TypeOK, PausesDoNotStack, [Next]_vars PROVE PausesDoNotStack'
  OBVIOUS
<1> USE GateAssumption DEF TypeOK, PausesDoNotStack
<1>1. CASE Tick
  BY <1>1 DEF Tick
<1>2. ASSUME NEW w \in Workers, Trip(w) PROVE PausesDoNotStack'
  BY <1>2 DEF Trip, Extended
<1>3. ASSUME NEW w \in Workers, Read(w) PROVE PausesDoNotStack'
  BY <1>3 DEF Read
<1>4. ASSUME UNCHANGED <<now, until, deadline>> PROVE PausesDoNotStack'
  BY <1>4
<1>5. ASSUME NEW w \in Workers,
             Call(w) \/ Finish(w) \/ Pass(w) \/ Sleep(w) \/ Wake(w) \/ Abort(w)
      PROVE  PausesDoNotStack'
  BY <1>4, <1>5 DEF Call, Finish, Pass, Sleep, Wake, Abort
<1>6. CASE Cancel \/ UNCHANGED vars
  BY <1>4, <1>6 DEF Cancel, vars
<1> QED
  BY <1>1, <1>2, <1>3, <1>5, <1>6 DEF Next, Waiting

\* Trips of several workers never add up to more than one window from now.
THEOREM GatePausesDoNotStack == Spec => []PausesDoNotStack
<1>1. Init => PausesDoNotStack
  BY GateAssumption DEF Init, PausesDoNotStack
<1>2. TypeOK /\ PausesDoNotStack /\ [Next]_vars => PausesDoNotStack'
  BY StackNext
<1> QED
  BY <1>1, <1>2, GateTypeCorrect, PTL DEF Spec

\* A worker that compares a deadline which is no longer the gate's was overtaken by
\* a trip: the pause that is running began after the worker was last awake.
ReadInv ==
  \A w \in Workers :
    /\ awake[w] <= now
    /\ pc[w] = "compare" => until = deadline[w] \/ until - Window >= awake[w]

LEMMA ReadNext == TypeOK /\ ReadInv /\ [Next]_vars => ReadInv'
<1> SUFFICES ASSUME TypeOK, ReadInv, [Next]_vars PROVE ReadInv'
  OBVIOUS
<1> USE GateAssumption DEF TypeOK, ReadInv
<1>1. CASE Tick
  BY <1>1 DEF Tick
<1>2. ASSUME NEW w \in Workers, Trip(w) PROVE ReadInv'
  <2>1. until' = until \/ until' - Window = now
    BY <1>2 DEF Trip, Extended
  <2>2. \A v \in Workers : pc'[v] = "compare" => pc[v] = "compare"
    BY <1>2 DEF Trip
  <2> QED
    BY <1>2, <2>1, <2>2 DEF Trip
<1>3. ASSUME NEW w \in Workers, Read(w) PROVE ReadInv'
  BY <1>3 DEF Read
<1>4. ASSUME NEW w \in Workers, Call(w) \/ Wake(w) PROVE ReadInv'
  BY <1>4 DEF Call, Wake, AfterSleep
<1>5. ASSUME NEW w \in Workers, Finish(w) \/ Pass(w) \/ Sleep(w) \/ Abort(w) PROVE ReadInv'
  BY <1>5 DEF Finish, Pass, Sleep, Abort
<1>6. CASE Cancel \/ UNCHANGED vars
  BY <1>6 DEF Cancel, vars
<1> QED
  BY <1>1, <1>2, <1>3, <1>4, <1>5, <1>6 DEF Next, Waiting

LEMMA PassOnlyRaces ==
  TypeOK /\ ReadInv /\ [Next]_vars =>
    [\A w \in Workers :
       pc[w] # "through" /\ pc'[w] = "through" =>
         until <= now \/ until - Window >= awake'[w]]_vars
<1> SUFFICES ASSUME TypeOK, ReadInv, [Next]_vars, NEW w \in Workers,
                    pc[w] # "through", pc'[w] = "through"
             PROVE  until <= now \/ until - Window >= awake'[w]
  OBVIOUS
<1> USE DEF TypeOK
<1>1. pc' # pc
  OBVIOUS
<1>2. PICK v \in Workers : Call(v) \/ Waiting(v) \/ Trip(v) \/ Finish(v)
  BY <1>1 DEF Next, Tick, Cancel, vars
<1>3. ~Call(v) /\ ~Trip(v) /\ ~Finish(v)
  BY DEF Call, Trip, Finish
<1>4. ~Read(v) /\ ~Sleep(v) /\ ~Wake(v) /\ ~Abort(v)
  BY DEF Read, Sleep, Wake, AfterSleep, Abort
<1>5. Pass(v) /\ v = w
  BY <1>2, <1>3, <1>4 DEF Waiting, Pass
<1> QED
  BY <1>5, GateAssumption DEF Pass, ReadInv

\* No worker outsleeps an extension of the pause: it enters a running one only if the
\* trip that began it raced with the worker's comparison.
THEOREM GateMissesOnlyRacingTrips == Spec => OnlyARacingTripIsMissed
<1>1. Init => ReadInv
  <2> SUFFICES ASSUME Init, NEW w \in Workers
               PROVE  awake[w] <= now /\ pc[w] # "compare"
    BY DEF ReadInv
  <2> QED
    BY DEF Init
<1>2. TypeOK /\ ReadInv /\ [Next]_vars => ReadInv'
  BY ReadNext
<1> QED
  BY <1>1, <1>2, PassOnlyRaces, GateTypeCorrect, PTL DEF Spec, OnlyARacingTripIsMissed
=============================================================================
