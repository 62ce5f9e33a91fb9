------------------------------ MODULE Terminal ------------------------------
(***************************************************************************)
(* RunPool with the terminal spelled out: circuitBreaker.pause reads       *)
(* stdin.  The first prompt of a pause reads in a goroutine of its own,    *)
(* which outlives a worker that leaves because gctx was cancelled; every   *)
(* prompt has a bufio.Reader of its own, which takes one line of a         *)
(* terminal but may swallow several of a pipe; and the end of input counts *)
(* as ENTER.  The server's health is a variable here, not a choice.        *)
(***************************************************************************)
EXTENDS RunPool

CONSTANT MaxTyped  \* bound: lines typed ahead

ASSUME TypedAssumption == MaxTyped \in Nat \ {0}

VARIABLES
  typed,    \* lines nobody has read yet
  closed,   \* stdin is at its end behind them
  healthy,  \* what GET /health answers
  orphans   \* reading goroutines whose worker is gone

console == <<typed, closed, healthy, orphans>>
termVars == <<vars, console>>

TermInit ==
  /\ Init
  /\ typed = 0 /\ orphans = 0
  /\ closed \in BOOLEAN /\ healthy \in BOOLEAN

-----------------------------------------------------------------------------
(* The environment *)

Type ==
  /\ ~closed /\ typed < MaxTyped
  /\ typed' = typed + 1
  /\ UNCHANGED <<vars, closed, healthy, orphans>>

CloseInput ==
  /\ ~closed
  /\ closed' = TRUE
  /\ UNCHANGED <<vars, typed, healthy, orphans>>

\* The server goes down or comes back; only somebody at a prompt looks.
AwaitsHealth == \E w \in Workers : pc[w] \in {"paused", "reprompt"}

ServiceTurns ==
  /\ AwaitsHealth
  /\ healthy' = ~healthy
  /\ UNCHANGED <<vars, typed, closed, orphans>>

-----------------------------------------------------------------------------
(* Reading *)

\* ReadString returns: a line, or what io.EOF left of one.
ReadLine_NoEOF == typed > 0 /\ typed' \in 0 .. (typed - 1)
ReadLine ==
  \/ typed > 0 /\ typed' \in 0 .. (typed - 1)
  \/ typed = 0 /\ closed /\ UNCHANGED typed

\* A line for worker w, and the health check that follows it.  The check fails on a
\* cancelled context too; the inner loop looks at the context first.
Answer(w) ==
  /\ ReadLine
  /\ \/ healthy /\ EnterHealthy(w)
     \/ (~healthy \/ cancelled) /\ EnterUnhealthy(w)
     \/ pc[w] = "reprompt" /\ ~cancelled /\ ~healthy /\ UNCHANGED vars
     \/ pc[w] = "reprompt" /\ cancelled /\ PauseFails(w)
  /\ UNCHANGED <<closed, healthy, orphans>>

\* The first prompt also waits for the context; its reader stays behind.
LeavePrompt(w) ==
  /\ pc[w] = "paused" /\ cancelled
  /\ PauseFails(w)
  /\ orphans' = orphans + 1
  /\ UNCHANGED <<typed, closed, healthy>>

\* Reading stdin fails with something else than io.EOF.
StdinBreaks(w) == PauseFails(w) /\ UNCHANGED console

\* A reader left behind takes a line that somebody typed for another prompt.
OrphanReads ==
  /\ orphans > 0
  /\ ReadLine
  /\ orphans' = orphans - 1
  /\ UNCHANGED <<vars, closed, healthy>>

AtPrompt(w) == status = "pool" /\ (Answer(w) \/ LeavePrompt(w))

\* A step that does not touch the terminal.  When the process is gone its readers are
\* gone too, and the terminal is forgotten.
Alone(A) ==
  /\ A
  /\ IF status' \in {"exited", "crashed"}
     THEN typed' = 0 /\ closed' = FALSE /\ healthy' = TRUE /\ orphans' = 0
     ELSE UNCHANGED console

Elsewhere ==
  \/ Main \/ Crash
  \/ \E w \in Workers : Work(w)
  \/ \E m \in Messages : UserMoves(m)

TermNext ==
  \/ Alone(Elsewhere)
  \/ \E w \in Workers : AtPrompt(w) \/ (status = "pool" /\ StdinBreaks(w))
  \/ status = "pool" /\ (OrphanReads \/ Type \/ CloseInput \/ ServiceTurns)
  \/ Over /\ UNCHANGED console

TermSpec == TermInit /\ [][TermNext]_termVars

-----------------------------------------------------------------------------
(* Fairness *)

\* Goroutines are scheduled, calls return (every client has a timeout), the 60 s
\* timer fires, and a read returns once there is something to read.  Nothing is
\* assumed of what a call returns.
Scheduled ==
  /\ WF_termVars(Alone(List \/ CloseChannel \/ Exit)) /\ WF_termVars(Alone(WindowElapses))
  /\ \A w \in Workers : WF_termVars(Alone(Work(w))) /\ WF_termVars(AtPrompt(w))

FairSpec == TermSpec /\ Scheduled

-----------------------------------------------------------------------------
(* Properties *)

\* With nobody at the terminal the run still gets as far as it can: it ends, or
\* every worker has returned or sits at the prompt.  A paused worker holds nothing
\* another one waits for, and a closed quota gate does not hold them for ever.
QueueDrainsAroundPauses ==
  <>(Ended \/ \A w \in Workers : pc[w] \in {"done", "failed", "paused", "reprompt"})

\* The run ends if the service comes back for good and somebody goes on typing, or
\* stdin is at its end: although prompts race for the lines, a reader may swallow
\* those meant for the others and abandoned readers take some too, every prompt is
\* left, and g.Wait returns on every path out of it.
Attended == WF_termVars(Type) /\ <>[](AwaitsHealth => healthy)

AttendedRunEnds == Attended => <>Ended
=============================================================================
