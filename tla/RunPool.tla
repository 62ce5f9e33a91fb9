------------------------------ MODULE RunPool ------------------------------
(***************************************************************************)
(* One invocation of `emailcleaner run`: the listing, the producer, the    *)
(* worker pool, processOne with its retries, the circuit breaker, the      *)
(* quota gate, the audit appends and the exit code.  Gmail, the System One *)
(* server, the terminal and the mailbox's owner are the environment.       *)
(***************************************************************************)
EXTENDS Mailbox, Sequences

CONSTANTS
  Messages,      \* message IDs, numbered newest first
  Workers,       \* the goroutines of --workers
  Limit,         \* --limit, 0 for none
  Attempts,      \* tries of a call that is rate limited (the code: 4)
  Threshold,     \* failures that trip the breaker (the code: 5)
  Ids429,        \* messages whose ID contains the text "429"
  InitialViews,  \* the label sets a message may start with
  MaxMoves,      \* bound: how many messages the owner moves during the run
  NoMessage      \* "no message in hand"

ASSUME RunAssumption ==
  /\ Messages \subseteq Nat /\ IsFiniteSet(Messages)
  /\ IsFiniteSet(Workers) /\ Workers # {}
  /\ Limit \in Nat /\ MaxMoves \in Nat
  /\ Attempts \in Nat \ {0} /\ Threshold \in Nat \ {0}
  /\ Ids429 \subseteq Messages
  /\ InitialViews \subseteq SUBSET LabelIds
  /\ \A ids \in InitialViews : ~({"INBOX", "TRASH"} \subseteq ids)
  /\ NoMessage \notin Messages

VARIABLES
  flags,      \* --dry-run and --reprocess=unclassified
  status,     \* "starting", "pool", "exited" or "crashed"
  code,       \* exit code, meaningful once status = "exited"
  labels,     \* the mailbox: label IDs of each message
  listed,     \* the IDs ListMessages returned
  pending,    \* those the producer has not handed to a worker
  feeding,    \* idCh is still open
  cancelled,  \* gctx is cancelled: a worker returned an error
  gateOpen,   \* no quota pause is running
  count,      \* circuitBreaker.count
  pc,         \* where each worker is
  job,        \* the message each worker holds
  try,        \* the attempt of the call each worker is in
  rec,        \* the audit record each worker is filling in
  log,        \* audit/<run-id>.jsonl: the lines about each message
  warned,     \* messages for which "cannot write audit" was printed
  tally,      \* applied, skipped, errorsCount
  mutated,    \* history: messages this run's modify was applied to
  moved       \* history: messages the owner moved during the run

mail  == <<labels, mutated, moved>>
queue == <<listed, pending, feeding>>
hand  == <<job, try, rec>>
out   == <<log, warned, tally>>
vars  == <<flags, status, code, mail, queue, cancelled, gateOpen, count, pc, hand, out>>

-----------------------------------------------------------------------------
(* Records and errors *)

exitOK == 0
exitGeneric == 1
exitUsage == 2
exitReAuth == 3

Outcomes == {"applied", "skipped", "error"}

\* Causes of a failed call; "none" stands for err == nil.
\* "unreadable" is the 422 and the answer that does not decode.
Reasons == {"none", "gmail429", "gmail", "model429", "unreadable", "down"}

Record == [outcome : Outcomes, reason : Reasons, before : SUBSET LabelIds,
           add : SUBSET LabelNames, remove : SUBSET LabelNames]

\* What rollback reads of a record; the reason is text for the reader.
Line == [outcome : Outcomes, before : SUBSET LabelIds,
         add : SUBSET LabelNames, remove : SUBSET LabelNames]

LineOf(r) == [outcome |-> r.outcome, before |-> r.before, add |-> r.add, remove |-> r.remove]

\* The record processOne starts from: outcome "error", no action.
Blank == [outcome |-> "error", reason |-> "none", before |-> {}, add |-> {}, remove |-> {}]

\* What the switch over policy.Decide's answer puts into rec.Action.
TrashAction_KeepsInbox == [add |-> {"TRASH"}, remove |-> {}]
TrashAction == [add |-> {"TRASH"}, remove |-> {"INBOX"}]
TagActions_Archive ==
  {[add |-> {t}, remove |-> {"INBOX"}] : t \in Topics \cup {Unclassified}}
TagActions == {[add |-> s, remove |-> {}] : s \in ((SUBSET Topics) \ {{}}) \cup {{Unclassified}}}
Actions == {TrashAction} \cup TagActions

\* The test on the error text: Gmail's wrapped errors quote the message ID.
isRateLimited(reason, m) ==
  \/ reason \in {"gmail429", "model429"}
  \/ reason = "gmail" /\ m \in Ids429

\* Once gctx is cancelled every call it is given to fails at once, with no 429.
Failures(rateLimited, others, atOnce) ==
  IF cancelled THEN {atOnce} ELSE {rateLimited, atOnce} \cup others

\* Does the attempt loop go round again?
Retries_OneTooMany(w, reason) == isRateLimited(reason, job[w]) /\ try[w] < Attempts
Retries(w, reason) == isRateLimited(reason, job[w]) /\ try[w] < Attempts - 1

Zero == [applied |-> 0, skipped |-> 0, errors |-> 0]

-----------------------------------------------------------------------------
(* Start-up and listing *)

Init ==
  /\ flags \in [dryRun : BOOLEAN, reprocess : BOOLEAN]
  /\ status = "starting" /\ code = exitOK
  /\ labels \in [Messages -> InitialViews]
  /\ listed = {} /\ pending = {} /\ feeding = FALSE
  /\ cancelled = FALSE /\ gateOpen = TRUE /\ count = 0
  /\ pc = [w \in Workers |-> "idle"]
  /\ job = [w \in Workers |-> NoMessage]
  /\ try = [w \in Workers |-> 0]
  /\ rec = [w \in Workers |-> Blank]
  /\ log = [m \in Messages |-> <<>>]
  /\ warned = {} /\ mutated = {} /\ moved = {}
  /\ tally = Zero

\* Bad flags or config, dead token, Gmail or the model client not opened, listing failed.
Refuse ==
  /\ status = "starting"
  /\ status' = "exited"
  /\ code' \in {exitUsage, exitReAuth, exitGeneric}
  /\ UNCHANGED <<flags, mail, queue, cancelled, gateOpen, count, pc, hand, out>>

Matching ==
  {m \in Messages : IF flags.reprocess THEN MatchesReprocess(labels[m])
                                 ELSE MatchesUnprocessed(labels[m])}

\* The newest Limit of them; Gmail lists newest first.
Newest(s) ==
  IF Limit = 0 THEN s ELSE {m \in s : Cardinality({k \in s : k < m}) < Limit}

List ==
  /\ status = "starting"
  /\ listed' = Newest(Matching)
  /\ pending' = listed'
  /\ IF listed' = {}
     THEN status' = "exited" /\ code' = exitOK /\ feeding' = FALSE
     ELSE status' = "pool" /\ code' = code /\ feeding' = TRUE
  /\ UNCHANGED <<flags, mail, cancelled, gateOpen, count, pc, hand, out>>

-----------------------------------------------------------------------------
(* Producer, quota gate and worker loop *)

\* What is left for the producer once m is handed over.
Rest_Requeued(m) == pending
Rest(m) == pending \ {m}

\* The producer hands the next ID to a worker that is ranging over idCh.
Take(w) ==
  /\ pc[w] = "idle" /\ feeding
  /\ \E m \in pending :
       /\ \A k \in pending : m <= k
       /\ pending' = Rest(m)
       /\ job' = [job EXCEPT ![w] = m]
  /\ pc' = [pc EXCEPT ![w] = "gate"]
  /\ UNCHANGED <<flags, status, code, mail, listed, feeding, cancelled, gateOpen, count, try, rec, out>>

AllSent_OnError == cancelled
AllSent == pending = {} \/ cancelled

\* All IDs sent, or gctx.Done: the producer returns and closes idCh.
CloseChannel ==
  /\ status = "pool" /\ feeding
  /\ AllSent
  /\ feeding' = FALSE
  /\ UNCHANGED <<flags, status, code, mail, listed, pending, cancelled, gateOpen, count, pc, hand, out>>

\* quota.wait returns nil; the limiter's wait is the time spent before GetMessage.
PassGate(w) ==
  /\ pc[w] = "gate" /\ gateOpen
  /\ pc' = [pc EXCEPT ![w] = "get"]
  /\ try' = [try EXCEPT ![w] = 0]
  /\ UNCHANGED <<flags, status, code, mail, queue, cancelled, gateOpen, count, job, rec, out>>

\* The 60 s window since the last trip has elapsed.
WindowElapses ==
  /\ status = "pool" /\ ~gateOpen
  /\ gateOpen' = TRUE
  /\ UNCHANGED <<flags, status, code, mail, queue, cancelled, count, pc, hand, out>>

\* A worker returns an error; errgroup cancels the context of the others.
Fail(w) ==
  /\ pc' = [pc EXCEPT ![w] = "failed"]
  /\ cancelled' = TRUE

\* quota.wait or limiter.Wait notices the cancelled context.
AbandonWait(w) ==
  /\ cancelled
  /\ \/ pc[w] = "gate" /\ ~gateOpen
     \/ pc[w] = "get" /\ try[w] = 0
  /\ Fail(w)
  /\ UNCHANGED <<flags, status, code, mail, queue, gateOpen, count, hand, out>>

\* idCh is closed and drained: the worker returns nil.
WorkerReturns(w) ==
  /\ status = "pool" /\ pc[w] = "idle" /\ ~feeding
  /\ pc' = [pc EXCEPT ![w] = "done"]
  /\ UNCHANGED <<flags, status, code, mail, queue, cancelled, gateOpen, count, hand, out>>

-----------------------------------------------------------------------------
(* processOne *)

\* backoffSleep, then the same call again.
TryAgain(w) ==
  /\ try' = [try EXCEPT ![w] = @ + 1]
  /\ UNCHANGED <<pc, job, rec>>

\* processOne returns the record r.
Finish(w, r) ==
  /\ rec' = [rec EXCEPT ![w] = r]
  /\ pc' = [pc EXCEPT ![w] = "settle"]
  /\ UNCHANGED <<job, try>>

GetMessage(w) ==
  /\ pc[w] = "get"
  /\ \/ /\ ~cancelled
        /\ rec' = [rec EXCEPT ![w] = [Blank EXCEPT !.before = labels[job[w]]]]
        /\ pc' = [pc EXCEPT ![w] = "predict"]
        /\ try' = [try EXCEPT ![w] = 0]
        /\ UNCHANGED job
     \/ \E e \in Failures("gmail429", {}, "gmail") :
          IF Retries(w, e)
          THEN TryAgain(w)
          ELSE Finish(w, [rec[w] EXCEPT !.outcome = "skipped", !.reason = e])
  /\ UNCHANGED <<flags, status, code, mail, queue, cancelled, gateOpen, count, out>>

\* Where the switch over the action goes: a dry run stops at the record.
AfterDecide_Always(w, r) ==
  /\ rec' = [rec EXCEPT ![w] = r]
  /\ pc' = [pc EXCEPT ![w] = "modify"]
  /\ try' = [try EXCEPT ![w] = 0]
  /\ UNCHANGED job
AfterDecide(w, r) ==
  IF flags.dryRun THEN Finish(w, r) ELSE AfterDecide_Always(w, r)

\* PredictParagraph, then policy.Decide on the answers.
Predict(w) ==
  /\ pc[w] = "predict"
  /\ \/ ~cancelled /\ \E a \in Actions :
          AfterDecide(w, [rec[w] EXCEPT !.outcome = "applied",
                                        !.add = a.add, !.remove = a.remove])
     \/ \E e \in Failures("model429", {"unreadable"}, "down") :
          IF Retries(w, e)
          THEN TryAgain(w)
          ELSE Finish(w, [rec[w] EXCEPT !.outcome = "skipped", !.reason = e])
  /\ UNCHANGED <<flags, status, code, mail, queue, cancelled, gateOpen, count, out>>

\* Gmail executes the modify request of worker w.
ApplyModify(w) ==
  LET m == job[w]
  IN  /\ labels' = [labels EXCEPT ![m] = Modified(@, rec[w].add, rec[w].remove)]
      /\ mutated' = mutated \cup {m}
      /\ UNCHANGED moved

\* The record of a modify that failed for the last time.
FailedModify_Applied(w, e) == [rec[w] EXCEPT !.reason = e]
FailedModify(w, e) == [rec[w] EXCEPT !.outcome = "error", !.reason = e]

\* Modify: acknowledged, refused, or applied with its reply lost.
Modify(w) ==
  /\ pc[w] = "modify"
  /\ \/ ~cancelled /\ ApplyModify(w) /\ Finish(w, rec[w])
     \/ \E e \in Failures("gmail429", {}, "gmail") :
          /\ \/ UNCHANGED mail
             \/ e = "gmail" /\ ApplyModify(w)
          /\ IF Retries(w, e)
             THEN TryAgain(w)
             ELSE Finish(w, FailedModify(w, e))
  /\ UNCHANGED <<flags, status, code, queue, cancelled, gateOpen, count, out>>

-----------------------------------------------------------------------------
(* After processOne: breaker, quota trip, audit, counters *)

Trips_Late(n) == n > Threshold
Trips(n) == n >= Threshold

\* shouldCountAsFailure: circuitBreaker.failure, which pauses at the threshold.
CountFailure(w) ==
  /\ pc[w] = "settle" /\ rec[w].reason = "down"
  /\ count' = count + 1
  /\ pc' = [pc EXCEPT ![w] = IF Trips(count') THEN "paused" ELSE "audit"]
  /\ UNCHANGED <<flags, status, code, mail, queue, cancelled, gateOpen, hand, out>>

\* Every other result: reset on "applied", trip the gate on a rate-limit error.
Settle(w) ==
  /\ pc[w] = "settle" /\ rec[w].reason # "down"
  /\ count' = IF rec[w].outcome = "applied" THEN 0 ELSE count
  /\ gateOpen' = (gateOpen /\ ~isRateLimited(rec[w].reason, job[w]))
  /\ pc' = [pc EXCEPT ![w] = "audit"]
  /\ UNCHANGED <<flags, status, code, mail, queue, cancelled, hand, out>>

\* ENTER (or end of input) at a prompt, and the health check, which runs under
\* gctx, passes.
EnterHealthy(w) ==
  /\ pc[w] \in {"paused", "reprompt"} /\ ~cancelled
  /\ count' = 0
  /\ pc' = [pc EXCEPT ![w] = "audit"]
  /\ UNCHANGED <<flags, status, code, mail, queue, cancelled, gateOpen, hand, out>>

\* ENTER at the first prompt, and the health check fails: the inner loop prompts
\* again.  A failing check there changes nothing, so it is a stuttering step.
EnterUnhealthy(w) ==
  /\ pc[w] = "paused"
  /\ count' = Threshold - 1
  /\ pc' = [pc EXCEPT ![w] = "reprompt"]
  /\ UNCHANGED <<flags, status, code, mail, queue, cancelled, gateOpen, hand, out>>

\* pause returns an error: stdin broke, or the context was cancelled (in the
\* inner loop that is noticed only after a line was read).
PauseFails(w) ==
  /\ pc[w] \in {"paused", "reprompt"}
  /\ Fail(w)
  /\ UNCHANGED <<flags, status, code, mail, queue, gateOpen, count, hand, out>>

\* audit.Append writes the line, or fails and a warning is printed.
Persist_Buffered(w) == UNCHANGED <<log, warned>>
Persist_AppliedOnly(w) ==
  IF rec[w].outcome = "applied"
  THEN log' = [log EXCEPT ![job[w]] = Append(@, LineOf(rec[w]))] /\ UNCHANGED warned
  ELSE UNCHANGED <<log, warned>>
Persist(w) ==
  \/ log' = [log EXCEPT ![job[w]] = Append(@, LineOf(rec[w]))] /\ UNCHANGED warned
  \/ warned' = warned \cup {job[w]} /\ UNCHANGED log

\* A dry run prints its plan line instead.
AppendRecord(w) ==
  /\ pc[w] = "audit"
  /\ IF flags.dryRun THEN UNCHANGED <<log, warned>> ELSE Persist(w)
  /\ pc' = [pc EXCEPT ![w] = "tally"]
  /\ UNCHANGED <<flags, status, code, mail, queue, cancelled, gateOpen, count, hand, tally>>

\* The switch that counts outcomes.
Counted_NoSkips(r) ==
  [tally EXCEPT !.applied = @ + (IF r.outcome = "applied" THEN 1 ELSE 0),
                !.errors  = @ + (IF r.outcome = "error" THEN 1 ELSE 0)]
Counted(r) ==
  [tally EXCEPT !.applied = @ + (IF r.outcome = "applied" THEN 1 ELSE 0),
                !.skipped = @ + (IF r.outcome = "skipped" THEN 1 ELSE 0),
                !.errors  = @ + (IF r.outcome = "error" THEN 1 ELSE 0)]

\* The counters, then the result channel; it never blocks, but once gctx is
\* cancelled the select may take the other branch.
Tally(w) ==
  /\ pc[w] = "tally"
  /\ tally' = Counted(rec[w])
  /\ job' = [job EXCEPT ![w] = NoMessage]
  /\ rec' = [rec EXCEPT ![w] = Blank]
  /\ try' = [try EXCEPT ![w] = 0]
  /\ \/ pc' = [pc EXCEPT ![w] = "idle"] /\ UNCHANGED cancelled
     \/ cancelled /\ Fail(w)
  /\ UNCHANGED <<flags, status, code, mail, queue, gateOpen, count, log, warned>>

-----------------------------------------------------------------------------
(* End of the run, crash, and the owner of the mailbox *)

ExitCode_Quiet == IF cancelled THEN exitGeneric ELSE exitOK
ExitCode ==
  IF cancelled \/ (~flags.dryRun /\ tally.errors > 0) THEN exitGeneric ELSE exitOK

Returned_AllDone(w) == pc[w] = "done"
Returned(w) == pc[w] \in {"done", "failed"}

\* g.Wait returns once the producer and every worker have returned.
Exit ==
  /\ status = "pool" /\ ~feeding
  /\ \A w \in Workers : Returned(w)
  /\ status' = "exited"
  /\ code' = ExitCode
  /\ UNCHANGED <<flags, mail, queue, cancelled, gateOpen, count, pc, hand, out>>

\* Ctrl-C, or the machine stops: the mailbox, the audit lines already written and
\* the printed warnings stay, the memory of the process is gone.
Crash ==
  /\ status \in {"starting", "pool"}
  /\ status' = "crashed"
  /\ pending' = {} /\ feeding' = FALSE /\ cancelled' = FALSE
  /\ gateOpen' = TRUE /\ count' = 0
  /\ pc' = [w \in Workers |-> "done"]
  /\ job' = [w \in Workers |-> NoMessage]
  /\ try' = [w \in Workers |-> 0]
  /\ rec' = [w \in Workers |-> Blank]
  /\ tally' = Zero
  /\ UNCHANGED <<flags, code, mail, listed, log, warned>>

UserMoves(m) ==
  /\ status \in {"starting", "pool"}
  /\ Cardinality(moved) < MaxMoves
  /\ \E ids \in MovedByUser(labels[m]) : labels' = [labels EXCEPT ![m] = ids]
  /\ moved' = moved \cup {m}
  /\ UNCHANGED <<flags, status, code, mutated, queue, cancelled, gateOpen, count, pc, hand, out>>

Over ==
  /\ status \in {"exited", "crashed"}
  /\ UNCHANGED vars

\* What worker w does on its own, and what it does once ENTER is pressed.
Work(w) ==
  /\ status = "pool"
  /\ \/ Take(w) \/ PassGate(w) \/ AbandonWait(w) \/ WorkerReturns(w)
     \/ GetMessage(w) \/ Predict(w) \/ Modify(w)
     \/ CountFailure(w) \/ Settle(w) \/ AppendRecord(w) \/ Tally(w)

Prompt(w) ==
  /\ status = "pool"
  /\ EnterHealthy(w) \/ EnterUnhealthy(w) \/ PauseFails(w)

Worker(w) == Work(w) \/ Prompt(w)

Main == Refuse \/ List \/ CloseChannel \/ WindowElapses \/ Exit

Next ==
  \/ Main \/ Crash \/ Over
  \/ \E w \in Workers : Worker(w)
  \/ \E m \in Messages : UserMoves(m)

Spec == Init /\ [][Next]_vars

-----------------------------------------------------------------------------
(* Properties *)

\* Every variable stays in its range; in particular no call is tried more than
\* Attempts times and no message is taken that the listing did not return.
TypeOK ==
  /\ flags \in [dryRun : BOOLEAN, reprocess : BOOLEAN]
  /\ status \in {"starting", "pool", "exited", "crashed"}
  /\ code \in {exitOK, exitGeneric, exitUsage, exitReAuth}
  /\ labels \in [Messages -> SUBSET LabelIds]
  /\ listed \in SUBSET Messages /\ pending \in SUBSET listed
  /\ feeding \in BOOLEAN /\ cancelled \in BOOLEAN /\ gateOpen \in BOOLEAN
  /\ count \in Nat
  /\ pc \in [Workers -> {"idle", "gate", "get", "predict", "modify", "settle", "paused",
                         "reprompt", "audit", "tally", "done", "failed"}]
  /\ job \in [Workers -> listed \cup {NoMessage}]
  /\ try \in [Workers -> 0 .. (Attempts - 1)]
  /\ rec \in [Workers -> Record]
  /\ log \in [Messages -> Seq(Line)]
  /\ warned \in SUBSET listed /\ mutated \in SUBSET listed /\ moved \in SUBSET Messages
  /\ tally \in [applied : Nat, skipped : Nat, errors : Nat]

\* No message is worked on twice in a run: a queued message is in nobody's hand, two
\* workers never hold the same one, and at most one audit line (or one warning in
\* its place) is ever written about it, never before a worker had it (the
\* producer, the unbuffered channel and the worker loop of runCmd).
Reported(m) == log[m] # <<>> \/ m \in warned

EachMessageOnce ==
  /\ \A m \in pending : ~Reported(m) /\ \A w \in Workers : job[w] # m
  /\ \A v, w \in Workers : v # w /\ job[v] # NoMessage => job[v] # job[w]
  /\ \A m \in Messages : Len(log[m]) <= 1 /\ (m \in warned => log[m] = <<>>)

\* Nothing falls between queue, workers and the totals printed at the end: what was
\* listed is queued, in a worker's hand (for good, if the worker failed), or counted.
Busy == {w \in Workers : job[w] # NoMessage}

NothingUncounted ==
  status # "crashed" =>
    tally.applied + tally.skipped + tally.errors
      = Cardinality(listed) - Cardinality(pending) - Cardinality(Busy)

\* Whatever happens after Gmail accepted a change (lost reply, breaker, another
\* worker failing), the change is in the audit log, or a warning about the lost
\* line was printed, or the worker that made it is still on its way to the append.
Unreported == {m \in mutated : m \notin warned /\ \A i \in DOMAIN log[m] : log[m][i].add = {}}

OnItsWay(m, w) == job[w] = m /\ rec[w].add # {} /\ pc[w] \in {"modify", "settle", "audit"}

ChangesAreReported ==
  status # "crashed" => \A m \in Unreported : \E w \in Workers : OnItsWay(m, w)

\* A crash between a modify and its append loses the line for good, but only the
\* one of the change each worker was making.
CrashLosesOneLinePerWorker == Cardinality(Unreported) <= Cardinality(Workers)

\* The audit log is the base of rollback: unless the owner moved it, a message whose
\* line says "applied" carries what labels_before and the action add up to, and
\* a message whose line says "skipped" was not touched, not even by a retried call.
LogTellsTheTruth ==
  \A m \in listed \ moved : \A i \in DOMAIN log[m] :
    LET r == log[m][i]
    IN  /\ r.outcome = "applied" => labels[m] = Modified(r.before, r.add, r.remove)
        /\ r.outcome = "skipped" => m \notin mutated

\* At every moment, so after a crash too, the query of the next run selects exactly
\* the listed messages that were not changed: none is lost, none comes back
\* (unprocessedQuery with no label left blank in the config).
NextRunResumes ==
  ~flags.reprocess /\ Configured = CleanerLabels =>
    \A m \in listed \ moved : MatchesUnprocessed(labels[m]) <=> m \notin mutated

\* The failure counter is at or above the threshold only while workers sit at the
\* prompt (or failed there), and never by more than their number: concurrent
\* failures do not pile up past it and no success or recovery leaves it high.
Prompted == {w \in Workers : pc[w] \in {"paused", "reprompt", "failed"}}

BreakerBound == count < Threshold + Cardinality(Prompted)

\* A run that exits 0 left no message unattempted, and the only listed messages
\* without an "applied" or "skipped" line are those it printed a warning about.
CleanExit ==
  status = "exited" /\ code = exitOK /\ ~flags.dryRun =>
    /\ pending = {}
    /\ \A m \in listed : m \in warned \/ \E i \in DOMAIN log[m] : log[m][i].outcome # "error"

\* --dry-run: whatever fails and however often it is retried, no modify is sent, no
\* audit line is written, and yet every message is counted (NothingUncounted).
DryRunWritesNothing ==
  flags.dryRun => mutated = {} /\ \A m \in Messages : ~Reported(m)

\* Only the owner takes labels off or brings a message back: a step of the run takes
\* away no label but INBOX, and INBOX only together with the move to the trash
\* (step 4 of policy.Decide, applied by processOne's modify).
OnlyTrashLeavesTheInbox ==
  [][\A m \in Messages :
       \/ UserMoves(m)
       \/ /\ labels[m] \ labels'[m] \subseteq {"INBOX"}
          /\ "INBOX" \in labels[m] \ labels'[m] => "TRASH" \in labels'[m] \ labels[m]]_vars

Ended == status \in {"exited", "crashed"}

\* The run keeps RunPromise: only listed messages are changed, one at a time, each at
\* most until its line (or the warning) is written, and nothing happens once the
\* process is gone; no retry, second worker or late reply touches a message that
\* was already reported.
Promise == INSTANCE RunPromise
  WITH dry <- flags.dryRun, picked <- listed, changed <- mutated,
       reported <- {m \in Messages : Reported(m)}, over <- Ended

KeepsItsPromise == Promise!Spec
=============================================================================
