----------------------------- MODULE QuotaGate -----------------------------
(***************************************************************************)
(* quotaGate: the deadline that workers share after a rate-limited call.   *)
(* RunPool knows of it only whether it is open; here it has its clock, and *)
(* wait() is the loop it is: read the deadline under the lock, look at the *)
(* clock, sleep, read again.                                               *)
(***************************************************************************)
EXTENDS Integers

CONSTANTS
  Workers,  \* the goroutines that call wait and trip
  Window,   \* the pause one trip asks for (the code: 60 s)
  MaxTime   \* bound: where the clock stops

ASSUME GateAssumption == Window \in Nat \ {0} /\ MaxTime \in Nat

VARIABLES
  now,        \* g.now()
  until,      \* g.until; 0 is the zero time
  cancelled,  \* the context given to wait is cancelled
  pc,         \* where each worker is
  deadline,   \* wait's local copy of until
  awake       \* history: when the worker last called wait or woke up

vars == <<now, until, cancelled, pc, deadline, awake>>

Init ==
  /\ now = 1 /\ until = 0 /\ cancelled = FALSE
  /\ pc = [w \in Workers |-> "away"]
  /\ deadline = [w \in Workers |-> 0]
  /\ awake = [w \in Workers |-> 0]

Tick ==
  /\ now < MaxTime
  /\ now' = now + 1
  /\ UNCHANGED <<until, cancelled, pc, deadline, awake>>

Cancel ==
  /\ ~cancelled
  /\ cancelled' = TRUE
  /\ UNCHANGED <<now, until, pc, deadline, awake>>

Extended_Stacked == (IF until > now THEN until ELSE now) + Window
Extended == IF now + Window > until THEN now + Window ELSE until

\* A worker that is past the gate met a rate limit.  The bound leaves the window
\* room to elapse.
Trip(w) ==
  /\ pc[w] = "through"
  /\ now + Window <= MaxTime
  /\ until' = Extended
  /\ pc' = [pc EXCEPT ![w] = "away"]
  /\ UNCHANGED <<now, cancelled, deadline, awake>>

\* The message went through without one.
Finish(w) ==
  /\ pc[w] = "through"
  /\ pc' = [pc EXCEPT ![w] = "away"]
  /\ UNCHANGED <<now, until, cancelled, deadline, awake>>

Call(w) ==
  /\ pc[w] = "away"
  /\ pc' = [pc EXCEPT ![w] = "read"]
  /\ awake' = [awake EXCEPT ![w] = now]
  /\ UNCHANGED <<now, until, cancelled, deadline>>

Read(w) ==
  /\ pc[w] = "read"
  /\ deadline' = [deadline EXCEPT ![w] = until]
  /\ pc' = [pc EXCEPT ![w] = "compare"]
  /\ UNCHANGED <<now, until, cancelled, awake>>

\* The lock is released: the clock is read later than the deadline was.
Pass(w) ==
  /\ pc[w] = "compare" /\ deadline[w] <= now
  /\ pc' = [pc EXCEPT ![w] = "through"]
  /\ UNCHANGED <<now, until, cancelled, deadline, awake>>

Sleep(w) ==
  /\ pc[w] = "compare" /\ deadline[w] > now
  /\ pc' = [pc EXCEPT ![w] = "asleep"]
  /\ UNCHANGED <<now, until, cancelled, deadline, awake>>

AfterSleep_Done == "through"
AfterSleep == "read"

\* The timer fired.
Wake(w) ==
  /\ pc[w] = "asleep" /\ deadline[w] <= now
  /\ pc' = [pc EXCEPT ![w] = AfterSleep]
  /\ awake' = [awake EXCEPT ![w] = now]
  /\ UNCHANGED <<now, until, cancelled, deadline>>

\* ctx.Done: wait returns an error and the worker is gone.
Abort(w) ==
  /\ pc[w] = "asleep" /\ cancelled
  /\ pc' = [pc EXCEPT ![w] = "gone"]
  /\ UNCHANGED <<now, until, cancelled, deadline, awake>>

Waiting(w) == Read(w) \/ Pass(w) \/ Sleep(w) \/ Wake(w) \/ Abort(w)

Next ==
  \/ Tick \/ Cancel
  \/ \E w \in Workers : Call(w) \/ Waiting(w) \/ Trip(w) \/ Finish(w)

Spec == Init /\ [][Next]_vars

\* The clock advances and a goroutine whose timer fired is scheduled.
FairSpec == Spec /\ WF_vars(Tick) /\ \A w \in Workers : WF_vars(Waiting(w))

-----------------------------------------------------------------------------
(* Properties *)

\* The deadline is never later than a trip within the bound can set it.
TypeOK ==
  /\ now \in Nat /\ until \in 0 .. MaxTime /\ cancelled \in BOOLEAN
  /\ pc \in [Workers -> {"away", "read", "compare", "asleep", "through", "gone"}]
  /\ deadline \in [Workers -> Nat] /\ awake \in [Workers -> Nat]

\* However many workers trip the gate together, the pause never reaches further than
\* one window from now, and no sleeper waits longer than that (quota.go:41, "do
\* not multiply the pause").
PausesDoNotStack ==
  /\ until <= now + Window
  /\ \A w \in Workers : deadline[w] <= now + Window

\* wait re-reads the deadline after each sleep (quota.go:53): a worker gets through
\* a running pause only if that pause began after it was last awake, that is,
\* raced with the comparison it was making; it never outsleeps an extension.
OnlyARacingTripIsMissed ==
  [][\A w \in Workers :
       pc[w] # "through" /\ pc'[w] = "through" =>
         until <= now \/ until - Window >= awake'[w]]_vars

\* Nobody waits for ever: once trips stop, whoever called wait gets through, and a
\* cancelled sleeper may leave earlier.
WaitersLeave ==
  \A w \in Workers :
    pc[w] \in {"read", "compare", "asleep"} ~> pc[w] \in {"through", "gone"}
=============================================================================
