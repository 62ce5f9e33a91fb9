----------------------------- MODULE Lifecycle -----------------------------
(***************************************************************************)
(* Months of use: runs, reprocess runs and rollbacks, one after another or *)
(* two at a time, over one mailbox and one audit directory.  What stays    *)
(* between two commands is the labels and the files; commands may be       *)
(* killed, calls may fail or lose their reply, writes may be cut short.    *)
(* A run works on one message at a time here; its pool is RunPool's.       *)
(***************************************************************************)
EXTENDS AuditLog

CONSTANTS
  Messages,   \* numbered newest first
  Procs,      \* terminals, numbered; a command is started from the first free one
  Seconds,    \* bound: how far the clock runs
  Views,      \* label sets a message may start with
  MaxFaults,  \* bound: skipped or failed messages, bad appends and killed commands
  MaxAsked    \* bound: reprocess runs, rollbacks, and runs started during another command

ASSUME LifecycleAssumption ==
  /\ Messages \subseteq Nat /\ IsFiniteSet(Messages)
  /\ Procs \subseteq Nat /\ IsFiniteSet(Procs)
  /\ Seconds \in Nat \ {0}
  /\ Views \subseteq SUBSET LabelIds
  /\ MaxFaults \in Nat /\ MaxAsked \in Nat

VARIABLES
  clock,     \* the second it is
  labels,    \* the mailbox
  dir,       \* the audit directory: run ID -> what was written to its file
  pc,        \* what each command is doing, "idle" when none runs
  id,        \* its run ID
  todo,      \* the messages a run has not taken yet
  hand,      \* a run's record on its way to the file; the records a rollback read
  plan,      \* the records a rollback is going to revert
  faults,    \* what went wrong so far
  asked,     \* reprocess runs, rollbacks and overlapping runs started so far
  standing,  \* history: actions applied to each message and not reverted since
  contested  \* history: messages two commands worked on at once, or reprocessed

\* A run ID is the second the run was started in.
RunIds == 1 .. Seconds

command == <<pc, id, todo, hand, plan>>
history == <<standing, contested>>
vars == <<clock, labels, dir, command, faults, asked, history>>

Init ==
  /\ clock = 1
  /\ labels \in [Messages -> Views]
  /\ dir = [k \in {} |-> <<>>]
  /\ pc = [p \in Procs |-> "idle"] /\ id = [p \in Procs |-> 1]
  /\ todo = [p \in Procs |-> {}]
  /\ hand = [p \in Procs |-> <<>>] /\ plan = [p \in Procs |-> <<>>]
  /\ faults = 0 /\ asked = 0
  /\ standing = [m \in Messages |-> {}] /\ contested = {}

Goto(p, where) == pc' = [pc EXCEPT ![p] = where] /\ UNCHANGED id

\* The command ends.
Leave(p) == pc' = [pc EXCEPT ![p] = "idle"] /\ id' = [id EXCEPT ![p] = 1]

Free(p) == pc[p] = "idle" /\ \A q \in Procs : pc[q] = "idle" => p <= q

Fault == faults < MaxFaults /\ faults' = faults + 1

\* The last second lasts for ever, so any number of runs may share it.
Tick ==
  /\ clock + 1 \in RunIds
  /\ clock' = clock + 1
  /\ UNCHANGED <<labels, dir, command, faults, asked, history>>

-----------------------------------------------------------------------------
(* run *)

\* unprocessedQuery; nothing else says what is done.
Unprocessed_NotOnRecord ==
  {m \in Messages : /\ MatchesUnprocessed(labels[m])
                    /\ \A k \in DOMAIN dir : \A i \in DOMAIN dir[k] : dir[k][i].msg # m}
Unprocessed_InboxOnly == {m \in Messages : "INBOX" \in labels[m]}
Unprocessed == {m \in Messages : MatchesUnprocessed(labels[m])}

InWork(p) == todo[p] \cup {hand[p][i].msg : i \in DOMAIN hand[p]}

\* A run over the messages s: its ID, and the listing right after.
Begin(p, s, again) ==
  /\ Free(p) /\ s # {}
  /\ pc' = [pc EXCEPT ![p] = "run"] /\ id' = [id EXCEPT ![p] = clock]
  /\ todo' = [todo EXCEPT ![p] = s]
  /\ contested' = contested \cup
       {m \in s : again \/ \E q \in Procs \ {p} : m \in InWork(q)}
  /\ UNCHANGED <<clock, labels, dir, hand, plan, faults, standing>>

Ask == asked < MaxAsked /\ asked' = asked + 1

BeginRun(p) ==
  /\ Begin(p, Unprocessed, FALSE)
  /\ IF \A q \in Procs : pc[q] = "idle" THEN UNCHANGED asked ELSE Ask

\* "no messages to process": the run exits and leaves nothing behind, not even a file.
EmptyRun(p) ==
  /\ Free(p) /\ Unprocessed = {}
  /\ UNCHANGED vars

BeginReprocess(p) ==
  Ask /\ Begin(p, {m \in Messages : MatchesReprocess(labels[m])}, TRUE)

\* What policy.Decide may say of a message: it is trashed or gets a label.
Verdicts_KeptBare == {TrashAction, NoAction}
Verdicts == Actions

\* The record processOne fills in.  labels_before stays empty: nothing reads it back.
Hold(p, m, outcome, a) ==
  LET r == [outcome |-> outcome, before |-> {}, action |-> a]
  IN  hand' = [hand EXCEPT ![p] = <<Piece(m, r, "line")>>]

\* The next message: fetched and decided, or skipped because one of these failed.
Take(p) ==
  /\ pc[p] = "run"
  /\ \E m \in todo[p] :
       /\ \A k \in todo[p] : m <= k
       /\ todo' = [todo EXCEPT ![p] = @ \ {m}]
       /\ \/ /\ \E a \in Verdicts : Hold(p, m, "applied", a)
             /\ Goto(p, "modify") /\ UNCHANGED faults
          \/ /\ Hold(p, m, "skipped", NoAction)
             /\ Goto(p, "append") /\ Fault
  /\ UNCHANGED <<clock, labels, dir, plan, asked, history>>

\* Gmail executes the change.
Change(m, r) ==
  /\ labels' = [labels EXCEPT ![m] = Modified(@, r.action.add, r.action.remove)]
  /\ standing' = [standing EXCEPT ![m] = @ \cup {r.action}]
  /\ UNCHANGED contested

\* Acknowledged, refused, or executed with its reply lost.
Modify(p) ==
  /\ pc[p] = "modify"
  /\ LET h == hand[p][1]
     IN  \/ Change(h.msg, h.rec) /\ UNCHANGED <<hand, faults>>
         \/ /\ hand' = [hand EXCEPT ![p][1].rec.outcome = "error"]
            /\ Fault
            /\ Change(h.msg, h.rec) \/ UNCHANGED <<labels, history>>
  /\ Goto(p, "append")
  /\ UNCHANGED <<clock, dir, todo, plan, asked>>

\* The file of run k, which opening it creates.
Opened(k) == [j \in DOMAIN dir \cup {k} |-> IF j \in DOMAIN dir THEN dir[j] ELSE <<>>]

Written(p, end) ==
  LET h == hand[p][1]
  IN  [Opened(id[p]) EXCEPT ![id[p]] = Appended(@, Piece(h.msg, h.rec, end))]

\* What a write that did not succeed leaves behind.
CutShort(p) == {dir, Opened(id[p]), Written(p, "bare"), Written(p, "torn")}

\* audit.Append; when it fails, a warning is printed and the run goes on.
AppendRecord(p) ==
  /\ pc[p] = "append"
  /\ \/ dir' = Written(p, "line") /\ UNCHANGED faults
     \/ dir' \in CutShort(p) /\ Fault
  /\ hand' = [hand EXCEPT ![p] = <<>>]
  /\ IF todo[p] = {} THEN Leave(p) ELSE Goto(p, "run")
  /\ UNCHANGED <<clock, labels, todo, plan, asked, history>>

-----------------------------------------------------------------------------
(* rollback *)

\* audit.LoadLatest, or audit.Read of --run-id; a file it cannot read ends it.
BeginRollback(p) ==
  /\ Free(p) /\ DOMAIN dir # {} /\ Ask
  /\ \E k \in {LoadLatest(DOMAIN dir)} \cup DOMAIN dir :
       /\ Readable(dir[k]) /\ dir[k] # <<>>
       /\ hand' = [hand EXCEPT ![p] = dir[k]]
       /\ id' = [id EXCEPT ![p] = k]
  /\ pc' = [pc EXCEPT ![p] = "planning"]
  /\ UNCHANGED <<clock, labels, dir, todo, plan, faults, history>>

\* Verified as the message is now; what does not pass, or cannot be fetched, is skipped.
\* After the last record the plan is printed and ENTER awaited, if there is a plan.
PlanOne(p) ==
  /\ pc[p] = "planning"
  /\ LET h == Head(hand[p])
     IN  \/ ShouldRevert(h.rec, labels[h.msg]) /\ plan' = [plan EXCEPT ![p] = Append(@, h)]
         \/ UNCHANGED plan
  /\ hand' = [hand EXCEPT ![p] = Tail(@)]
  /\ CASE hand'[p] # <<>> -> Goto(p, "planning")
       [] hand'[p] = <<>> /\ plan'[p] # <<>> -> Goto(p, "reverting")
       [] OTHER -> Leave(p)
  /\ UNCHANGED <<clock, labels, dir, todo, faults, asked, history>>

\* ENTER, then one record after the other: reverted, refused, or reverted with its
\* reply lost; the loop goes on either way.
RevertOne(p) ==
  /\ pc[p] = "reverting"
  /\ LET h == Head(plan[p])
     IN  \/ /\ labels' = [labels EXCEPT ![h.msg] = Reverted(h.rec, @)]
            /\ standing' = [standing EXCEPT ![h.msg] = @ \ {h.rec.action}]
         \/ UNCHANGED <<labels, standing>>
  /\ plan' = [plan EXCEPT ![p] = Tail(@)]
  /\ IF plan'[p] = <<>> THEN Leave(p) ELSE Goto(p, "reverting")
  /\ UNCHANGED <<clock, dir, todo, hand, faults, asked, contested>>

-----------------------------------------------------------------------------
\* The command is killed, or a breaker prompt nobody can answer ends it; a write may
\* be under way.
Crash(p) ==
  /\ pc[p] # "idle" /\ Fault
  /\ dir' \in IF pc[p] = "append" THEN CutShort(p) \cup {Written(p, "line")} ELSE {dir}
  /\ Leave(p)
  /\ todo' = [todo EXCEPT ![p] = {}]
  /\ hand' = [hand EXCEPT ![p] = <<>>] /\ plan' = [plan EXCEPT ![p] = <<>>]
  /\ UNCHANGED <<clock, labels, asked, history>>

Step(p) ==
  Take(p) \/ Modify(p) \/ AppendRecord(p) \/ PlanOne(p) \/ RevertOne(p)

Next ==
  \/ Tick
  \/ \E p \in Procs :
       \/ BeginRun(p) \/ EmptyRun(p) \/ BeginReprocess(p) \/ BeginRollback(p)
       \/ Step(p) \/ Crash(p)

\* Commands get on with it and their prompts are answered; somebody, or cron, keeps
\* starting runs.  Only faults, reprocess runs and rollbacks come to an end.
Fairness ==
  /\ \A p \in Procs : WF_vars(Step(p))
  /\ WF_vars(\E p \in Procs : BeginRun(p))

Spec == Init /\ [][Next]_vars /\ Fairness

-----------------------------------------------------------------------------
(* Properties *)

\* Every variable stays in its range; a file holds whole records or prefixes of them.
Pieces == [msg : Messages, rec : Record, end : Ends]

TypeOK ==
  /\ clock \in RunIds
  /\ labels \in [Messages -> SUBSET LabelIds]
  /\ DOMAIN dir \subseteq RunIds /\ \A k \in DOMAIN dir : dir[k] \in Seq(Pieces)
  /\ pc \in [Procs -> {"idle", "run", "modify", "append", "planning", "reverting"}]
  /\ id \in [Procs -> RunIds] /\ todo \in [Procs -> SUBSET Messages]
  /\ hand \in [Procs -> Seq(Pieces)] /\ plan \in [Procs -> Seq(Pieces)]
  /\ faults \in 0 .. MaxFaults /\ asked \in 0 .. MaxAsked
  /\ standing \in [Messages -> SUBSET Actions] /\ contested \in SUBSET Messages

\* A message is never decided twice: however runs, rollbacks, lost replies and crashes
\* follow each other, at most one action stands on it, because the labels alone
\* tell the next run what is done.  Two runs at once, and --reprocess, are the exception.
OneVerdictPerMessage ==
  \A m \in Messages \ contested : Cardinality(standing[m]) <= 1

\* Every change that stands can be rolled back by run ID: a file that Read accepts
\* has an "applied" record of it, or the command that made it is still at work.
\* A fault (lost reply, failed append, crash) costs one record, or, when it cuts a line
\* short and another one follows, the file: never more, and nothing else costs any.
Recorded(m, a, k) ==
  \E i \in DOMAIN dir[k] :
    dir[k][i].msg = m /\ dir[k][i].rec.outcome = "applied" /\ dir[k][i].rec.action = a

Carried(m, a) ==
  \E p \in Procs : pc[p] = "append" /\ hand[p][1].msg = m /\ hand[p][1].rec.action = a

Lost ==
  {e \in Messages \X Actions :
     /\ e[2] \in standing[e[1]] /\ ~Carried(e[1], e[2])
     /\ \A k \in DOMAIN dir : ~Recorded(e[1], e[2], k)}

Spoiled == {k \in DOMAIN dir : ~Readable(dir[k])}

AFaultCostsOneRecord == Cardinality(Lost) + Cardinality(Spoiled) <= faults

\* What was rolled back is as if the runs had never been: a message nothing stands on has
\* the labels it had in the beginning, also after rolling back the same run twice,
\* an old run after a newer one, or while another command was at work.
RolledBackIsAsBefore ==
  \A m \in Messages : standing[m] = {} => labels[m] \in Views

\* If runs are started again and again, every message ends up with a verdict: no skip,
\* crash, lost record or rollback makes the cleaner forget a message.
EverythingGetsAVerdict ==
  <>[](\A m \in Messages : ~MatchesUnprocessed(labels[m]))
=============================================================================
