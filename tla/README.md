# TLA+ models of systemone-email-cleaner

`emailcleaner` lists the messages of a Gmail inbox that carry none of its labels, asks a
System One model a few questions about each, and trashes, labels or marks the message
"unclassified". Every change is written to an audit file, from which `rollback` undoes a run.
This directory holds TLA+ models of that program, the TLC runs that check them on small
instances and the theorems TLAPS proves about them for all instances. Line numbers refer to
`src/`; `PROJECT.json` maps every definition to the lines it models.

## 1. Inventory

| Component | Code | State | Operations | Interacts with |
|---|---|---|---|---|
| run | `cmd/emailcleaner/run.go` | ID channel, counters, per-worker record, `gctx` | listing, producer, workers, `processOne`, exit code | all of the below |
| circuit breaker | `run.go:44` | `count`, prompt | `success`, `failure`, `pause` | workers, terminal, System One's health |
| quota gate | `quota.go` | `until` | `trip`, `wait` | workers, clock, `gctx` |
| policy | `internal/policy` | none | `Decide` and helpers | `run`, `tune` |
| tune | `tune.go` | samples, skipped | sampling loop, `printSweep`, `sweepCounts` | policy, Gmail, System One |
| rollback | `rollback.go`, `audit.ShouldRevert` | plan, totals | verify, print, ENTER, revert | audit log, Gmail, terminal |
| terminal | `run.go:90`, `rollback.go:132` | lines of stdin, readers waiting for one | ENTER at a prompt, end of input | breaker, rollback |
| audit log | `internal/audit` | one JSONL file per run | `Append`, `Read`, `ListRuns`, `LoadLatest` | written by run, read by rollback |
| listing | `gmail/client.go`, `cmd/emailcleaner/list.go` | none | `ListMessages` page loop, three queries | run, tune, list |
| labels | `gmail/labels.go` | label map cache | `EnsureLabel`, `toLabelIDs` | setup, workers, rollback |
| authorization | `internal/gmail/auth.go`, `setup.go`, `status.go` | token file, callback channels | `Authorize`, `CheckToken`, `SaveToken` | browser, every command at its start |
| System One client | `internal/systemone` | none | `PredictParagraph`, `Ping` | run, tune |
| message and extraction | `gmail/message.go`, `internal/extract` | none | MIME walk, HTML to text, what is new in a mail, language, budgets | run, tune |
| configuration | `internal/config` | none | `Load`, `validate` | every command |
| output | `progress.go`, `list.go`, `status.go` | a counter line | formatting | terminal |

**How they interact.** `runCmd` lists once, then a producer goroutine sends IDs over an unbuffered
channel to `--workers` goroutines in one errgroup. A worker waits for the quota gate and the rate
limiter, fetches the message, asks the model, decides, modifies, then feeds breaker and gate with
the result, appends the audit line under a mutex and counts. Any worker that returns an error
cancels the shared context of all others. The mailbox's owner works in Gmail at the same time.

**What is hard.** Workers interleave at every call; each of three calls per message is retried, can
fail, and a modify can succeed with its reply lost; the append can fail after the change; the
process can stop anywhere and has no checkpoint but its query; a worker may sit at a prompt for
ever; the gate's deadline is read, compared and slept on without the lock; rollback verifies
first and changes later. Nothing but labels and audit files ties one command to the next, and two
commands can run at once: they share the mailbox, the audit directory, the token file and the
account's labels. The text a model sees is cut out of a message by a chain of heuristics whose
order matters. `hazards` in `PROJECT.json` lists them at their lines.

**What makes each part correct.**

- run: each listed message is worked on at most once and counted exactly once; an accepted change is
  logged or its loss is announced; a crash loses at most one line per worker; the next run finds
  what this one left; a dry run changes nothing; it ends.
- breaker: concurrent failures do not run the counter away; a paused worker does not hold the others.
- gate: pauses overlap, they do not add up; an extension is honoured; nobody starves.
- policy and tune: junk must beat *every* affirmed topic by the margin; tables are partitions, and
  thresholds move the counts in the right direction.
- rollback: undoes what the run did, no more, to messages still as the run left them.
- audit log and the sequence of commands: no message is decided twice, a fault costs one record, what
  was rolled back is as before, and sooner or later every message has a verdict.
- listing: every match once, in order, up to the limit, however Gmail cuts its pages.
- setup, labels, authorization: exit 0 means ready; a failed authorization costs nothing; a name never
  resolves to another label's ID; setup can always be run again.
- extraction: what the model reads is the visible, new text of the message, in the right language.

## 2. Modules

| Module | Models | State |
|---|---|---|
| `Mailbox` | labels of a message, names and IDs, the queries, the owner's moves (mostly external) | constants only |
| `RunPool` | one `run` from start-up to exit code | mailbox, queue, workers, breaker, gate, log, totals |
| `RunPromise` | what a run promises, without workers | picked, changed, reported messages |
| `Terminal` | `RunPool` with stdin spelled out | lines, readers, health of the service |
| `QuotaGate` | `trip`/`wait` with the clock | deadline, local copies, program counters |
| `AuditLog` | what writes leave in a file, `Read`, `LoadLatest`, `ShouldRevert` and the inverse action | operators only |
| `Rollback` | one `rollback` of one run | records, mailbox, plan, totals |
| `Lifecycle` | runs, reprocess runs and rollbacks over one mailbox and one audit directory | clock, labels, files, commands |
| `Auth` | `Authorize`, `SaveToken`, `CheckToken`, Google | channels, token file, grants |
| `Labels` | `EnsureLabel`, `toLabelIDs` and its shared map | Gmail's labels, cache, workers |
| `Setup` | `setup` beside the start-up and the workers of another command, over `Auth` and `Labels` | both commands |
| `Policy` | `policy.Decide` | operators only |
| `Listing` | the page loop of `ListMessages`, `run`'s retry | operators only |
| `Message`, `Extract`, `SystemOne` | from the MIME tree to the request and from the reply to the answers | operators only |
| `Tune` | `tune`: listing, sampling, table; composes the five above | samples, printed rows |
| `MC*` | values for the constants, and the documents' claims that do not hold | |
| `RunPoolProofs`, `RunMailProofs`, `RunPromiseProofs` | theorems about `RunPool`; the last one also counts, refines `RunPromise`, and takes both to `Terminal` | |
| `QuotaGateProofs`, `RollbackProofs`, `LifecycleProofs`, `SetupProofs` | theorems about the module of that name | |
| `TuneProofs` | theorems about `Policy`, `Listing`, `Extract`, `SystemOne` and `Tune` | |

### RunPool and the code

A worker's `pc` is its place in the loop at `run.go:367` and in `processOne`:

| `pc` | Code | Actions that leave it |
|---|---|---|
| `idle` | receiving from `idCh` | `Take`, `WorkerReturns` |
| `gate` | `quota.wait` | `PassGate`, `AbandonWait` |
| `get` | limiter, then the `GetMessage` loop | `GetMessage`, `AbandonWait` |
| `predict` | the `PredictParagraph` loop, then `policy.Decide` | `Predict` |
| `modify` | the modify loop | `Modify` |
| `settle` | breaker and `quota.trip` | `CountFailure`, `Settle` |
| `paused`, `reprompt` | first prompt of `pause`, its inner loop | `EnterHealthy`, `EnterUnhealthy`, `PauseFails` |
| `audit` | `audit.Append`, or the plan line of a dry run | `AppendRecord` |
| `tally` | the counters and the result channel | `Tally` |
| `done`, `failed` | the goroutine returned nil, an error | |

`rec` is the `audit.Record` in a worker's hand without its wording: outcome, cause of the failure,
`labels_before` and the action. `try` is the attempt of the loop the worker is in. `job` is the
message; a worker that failed keeps it, since it is never counted. `flags` are the two flags that
change what a run does. `mutated` and `moved` are history variables. The owner's moves, the crash
and everything Gmail, the model and the terminal answer are environment actions.

Choices worth knowing:

- An error is its cause. `isRateLimited` is a test on error text, and Gmail's wrapped errors quote the
  message ID, so for a message in `Ids429` every Gmail error looks like a rate limit.
- Once `gctx` is cancelled, calls fail at once. Such a failed model call counts as "service down",
  as in the code.
- A failed `modify` may have been applied (lost reply). A 429 was not.
- The answer of the model is any action `Decide` can return; `Policy` says which answers give which.
- The rate limiter and back-off are delays, so they are steps that may take any time. The health
  check that fails in the inner loop of `pause` changes nothing and is a stuttering step.
- A line is appended whole or not at all (`Lifecycle` has lines cut short). `labels` of an unknown
  name fail like any refused modify.

`RunPool` is shown to implement `RunPromise`: `Promise` is `INSTANCE RunPromise WITH` a mapping that
takes `listed`, `mutated` and the union of logged and warned messages to `picked`, `changed` and
`reported`. `KeepsItsPromise` is the property, checked by `run_owner` and proved in
`RunPromiseProofs`.

### Terminal

`RunPool` lets a prompt answer whatever it likes. `Terminal` says where the answers come from. Every
prompt reads with a `bufio.Reader` of its own: it takes one line of a terminal, but may swallow
several of a pipe (`ReadLine`). The first prompt of a pause reads in a goroutine, which stays behind
when the worker leaves because `gctx` was cancelled (`LeavePrompt`, `OrphanReads`) and then takes a
line somebody typed for another prompt. The end of input counts as ENTER, for every reader and
for ever. Health is a variable that turns as it likes while somebody is at a prompt.

### Rollback, AuditLog and Lifecycle

`Rollback` starts from any records a run can write: applied, refused, applied with the reply lost, or
skipped, and models one rollback with the owner at work. A run always writes at least one line, so
the "no records" exit is left out. What `untrash` does is taken from `rollback.go:107`.

In `AuditLog` a file is a sequence of pieces, each a record with how its write ended: a whole line, a
record without its newline, or a torn one. A torn piece followed by anything, and a bare one
followed by another record, is a line `Read` rejects, and with it the file. A last line that is bare
is read. `LoadLatest` is the largest run ID that has a file.

`Lifecycle` composes that with the mailbox over many commands: `Procs` terminals in which runs,
reprocess runs and rollbacks are started. A run ID is the second of the start, so two runs can share
one file. Its runs take one message at a time (the pool is `RunPool`'s subject) and leave
`labels_before` empty, since no command reads it back. `faults` counts every call, write or process
that failed; `contested` are the messages two commands worked on at once, or that were
reprocessed, which is where the guarantees end (section 5).

### Setup, Auth and Labels

`Auth` has the two one-slot channels of the callback handler, the `select` that takes either, the
exchange, and `SaveToken` as truncate-then-write with a crash in between. A grant is Google's;
`unexpired` are those whose access token is still handed out without asking. `Labels` has the steps
of `toLabelIDs`: look under the lock, fetch without it, store under it, send. `Setup` runs the steps of
`setupCmd` over both, beside a second command that checks the token, opens the client
(which reads the file again) and resolves names with its workers, while the owner renames and
deletes labels and Google's hour passes. `kept`, `removed` and `held` are history variables.

### Listing, Message, Extract, SystemOne, Policy, Tune

These are the pure parts, as operators, composed by `Tune` in the order of the code. `Listing` follows
the page loop with its two limit computations over every way Gmail may page (empty pages with a
token behind them included). A MIME part is a record with its type, body, whether it decodes, a
filename and its parts; the constant `Parts` holds all of them, so that `walkParts` is a function on it; a body is a sequence
of lines, a line of words, HTML a sequence of tokens, so
that quoting, signature, hidden elements, language and budget are decided as the code decides
them but over words instead of runes. A budget is the number of the word it ends in. Where in that
word is not modelled: `truncateRunes` is the set of what may be left, the word whole or one of its
`Beginnings`, so the cut can make a Spanish word or break one up. `SystemOne` gives the language hint, the request and
what becomes of each status and shape of a reply. `Policy` uses integers (hundredths) for the
float64 scores and the margin 0.15, so the rounding of `score + 0.15` is not modelled. `Norm` is
trimming and upper-casing. A row of the table is `sweepCounts` of a pair of thresholds.

## 3. Runs

| Run | Instance | States | Shows |
|---|---|---|---|
| `run_pool` | 2 workers, 3 messages, 2 attempts, threshold 2 | 5,818,922 | `EachMessageOnce`, `NothingUncounted`, `ChangesAreReported`, `CrashLosesOneLinePerWorker`, `BreakerBound`, `CleanExit`, `DryRunWritesNothing` |
| `run_owner` | 2 workers, 2 messages (one may be archived), the owner moves one | 1,959,015 | `LogTellsTheTruth`, `NextRunResumes`, `OnlyTrashLeavesTheInbox`, `KeepsItsPromise` |
| `run_live` | 2 workers, 2 messages, threshold 1, 2 lines typed ahead | 506,198 | `QueueDrainsAroundPauses`, `AttendedRunEnds` |
| `quota_gate` | 2 workers, window 3, clock to 9 | 273,809 | `PausesDoNotStack`, `OnlyARacingTripIsMissed`, `WaitersLeave` |
| `rollback` | 2 records, 2 topics, 2 moves of the owner | 1,003,214 | `EveryRecordIsCounted`, `UntouchedIsExact`, `OnlyTheRunIsUndone`, `MovedBeforePlanIsLeftAlone` |
| `lifecycle` | 2 messages, 2 commands at once, 2 seconds, 1 fault, 2 extra commands | 878,771 | `OneVerdictPerMessage`, `AFaultCostsOneRecord`, `RolledBackIsAsBefore`, `EverythingGetsAVerdict` |
| `setup` | 2 labels, 2 workers of the other command, 2 troubles | 1,606,174 | `SetupOKMeansReady`, `FailedAuthorizationKeepsTheToken`, `NamesResolveToTheirOwnIds`, `SetupRecovers` |
| `tune` | every paging of 0..3 matches; bounded grammar of messages; 2 samples over 75 answer sets | 1,089,175 | `ListingIsExact`, `FirstPlainPartWins`, `VisibleTextOnly`, `BodyIsTheNewText`, `SpanishIsSentAsSpanish`, `RowsAddUp`, `RowsAreMonotone`, `TrashColumnIsThePolicy` |
| `claim_*` | | | the four disagreements of section 5 |

`TypeOK` is checked along with the others in `run_pool`, `quota_gate`, `lifecycle` and `setup`.

**Bounds.** Two workers are enough for every race of a pair, and three messages leave one queued while
both are busy. With 2 attempts a call is retried once and given up once; with threshold 2 the
breaker trips on the failures of one worker or of two, and a third failure can arrive while one
worker is at the prompt. The code's 4 and 5 only repeat these steps. Workers are
interchangeable, so the safety runs use symmetry; the liveness run does not. `run_live` has one
attempt and threshold 1, so that both workers reach a prompt at once and the second
can inherit, or lose, a line meant for the first. In `quota_gate` the clock allows a trip, a second
one that extends it, and the window to elapse afterwards (`Trip` is guarded by the bound so that the
last window can). `MaxMoves` bounds the owner; two moves let the owner archive a message before it
is verified and move it again after.

`lifecycle` has two messages so that a line can follow a torn one in the same file, two terminals so
that any two commands overlap, two seconds so that runs share a file or do not, and one
fault anywhere. `MaxAsked` counts reprocess runs, rollbacks and runs started during another
command; ordinary runs are unbounded, since the last second lasts for ever. In `setup` two labels let
a failure fall between them, and two troubles combine, say, a lost reply with a rename.

In `tune` the lists of up to three matches with pages of at most two give empty, full and short pages
before and after the limit is reached. Plain bodies are all sequences of up to three lines out of
nine kinds, cut in the second word or in the fourth, some of which change their sign by it; HTML bodies all sequences of up to five tokens over `head`, `style`, `p` and text that a
tokenizer can produce (two texts do not follow each other, `style` holds raw text); MIME trees
have up to three branches, one of them nested. The answers sit on, just under and over each
threshold and exactly at the margin. `VisibleTextOnly` covers documents that close their elements or
do not, in any order, but says nothing of text inside `head` (section 5 has what happens to it).

`rollback` checks an instance whose label IDs are the names, as in the repository's fakes: with
Gmail's own IDs no label action passes the verification (section 5), and the run would see trash
actions only. `lifecycle` uses Gmail's IDs.

**Fairness.** `Terminal!FairSpec` assumes `Scheduled`: weak fairness of each worker, of the main goroutine,
of the gate's timer and of a prompt's read when there is something to read. Goroutines are
scheduled, every client has a timeout, a timer fires; nothing is assumed of what calls return, nor
that anybody types. `QueueDrainsAroundPauses` holds under that alone. `AttendedRunEnds` assumes
`Attended` by name: somebody goes on typing unless stdin is at its end, and from some time on the service
is healthy whenever a worker waits for it. `QuotaGate` assumes that the clock advances and
a woken goroutine runs. `Lifecycle` assumes that a command which was started gets on
with it (its prompts are answered) and that somebody, or cron, goes on starting runs; faults are
bounded, so from some time on none occurs. `Setup` assumes that the operator starts setup again while
something is missing and consents in the browser; troubles are bounded.

Deadlock is checked everywhere except in `tune` (it prints and stops) and `quota_gate` (the clock
stops at its bound). In `RunPool`, `Terminal` and `Rollback` a finished program stutters through
`Over`, so a deadlock is a program that hangs. Every property has a mutant in `PROJECT.json`: a
plausible slip in one mapped definition under which TLC finds the property violated.

## 4. Theorems

The proofs hold for every value of the constants, under the assumptions the modules state: finite sets
of messages and workers, at least one attempt, a positive threshold, and no message that starts in
the inbox and the trash at once (`RunAssumption`); system labels are their own IDs, user labels
have distinct ones (`LabelAssumption`); a positive window (`GateAssumption`); at least one label in
the configuration, because `Config.validate` refuses an empty `labels:` (`LabelsAssumption`); integer
thresholds and scores (`TuneAssumption`), a positive page size (`ListingAssumption`), budgets
of at least one (`ToParagraph` replaces others by its defaults) and a sender domain that ends in
".mx" contains ".mx" (`ExtractAssumption`). A theorem that needs more says so in its
statement; the instances of section 3 satisfy those hypotheses too.

- `RunPoolProofs!TypeCorrect`. `TypeOK` alone is not inductive: that `GetMessage` reads the labels of
  a real message needs "a worker past `idle` holds a listed message". `TypeInv` adds that and
  "nothing is listed before the listing".
- `MessagesAreWorkedOnOnce`. `WorkInv` adds to `EachMessageOnce` that nothing was written yet about
  the message in a worker's hand before `tally`, nor about an unlisted message. The steps that
  matter are `Take`, `AppendRecord`, `Tally` and `List`; all others are covered by one lemma.
- `AcceptedChangesAreReported`, `DryRunsAreDry`. Both follow from `ReportInv`. The key is `HandInv`,
  about the record in the worker's hand: no action before the decision, an action and no "service
  down" at `modify`. So a worker sent into the breaker's pause, where it may fail and drop
  its record, never carries a change. A dry run never reaches `modify`.
- `BreakerCounterIsBounded`. Inductive with `TypeInv`: the counter passes the threshold only in the step
  that sends its worker to the prompt, and workers leave the prompt only when it is reset.
- `RunPromiseProofs!EveryMessageIsCounted`, `ACrashLosesOneLinePerWorker`, `ExitOKMeansEverythingTried`. The
  first is inductive once a worker at the channel has empty hands (`CountInv`): `Take` moves one
  message from the queue to a hand, `Tally` one from a hand to the totals. For the second, while the process
  lives, `job` maps the workers onto the unreported changes, and a crash adds none. The third follows
  each listed message through queue, hand and log until the exit (`CleanInv`); a failed worker means
  the context is cancelled, so a run that exits 0 had none.
- `RunKeepsItsPromise`, the refinement of `RunPromise`. Every action of a run is mapped: the listing to
  `Pick`, a `Modify` that Gmail executed to `Change`, `AppendRecord` to `Report`, the exit and the
  crash to `Stop`, all others to stuttering. It needs `WorkInv` (what is changed was not reported
  yet) and `ReportInv` (a dry run has nothing in hand to write).
- `TheTerminalImplementsTheRun`, the refinement of `RunPool` by `Terminal`: a read that reaches a prompt is
  the prompt's answer, a reader left behind and the lines themselves are stuttering. With it
  `ARunAtATerminalKeepsItsPromise` carries the safety results over to a run with a terminal, the
  promise included. (`Terminal` has no invariant of its own; its runs check liveness.)
- `RunMailProofs!TheLogTellsTheTruth`. The inductive invariant `TruthInv` speaks of the messages the
  owner left alone: before `modify` the run has not touched the message and `labels_before` are its
  labels; at `modify` applying the action to either gives the same, however often a reply was lost;
  after it the record says what happened; and a logged line says what the mailbox shows. It uses
  that a cleaner's action changes something of its own (`CleanerIds`, `ActionEffect`).
- `TheNextRunResumes`: that a message carries no `INBOX` and `TRASH` together (`OnePlace`) is invariant,
  and with it any executed action takes the message out of the query, and nothing else does.
- `OnlyTheTrashEmptiesTheInbox`: one lemma (`LabelSteps`) lists the ways a step can write labels.
- `QuotaGateProofs`: types, `PausesDoNotStack`, and the action property `OnlyARacingTripIsMissed` from
  `ReadInv`: a copy of the deadline that is out of date was overtaken by a trip after the read.
- `RollbackProofs`: `RollbackUndoesOnlyTheRun` and `RollbackIsExact`, from two lemmas about the inverse
  of an action (it touches only the action's labels; on a clean action it restores `labels_before`)
  and one that lists the three ways a step can write a label. `RollbackCountsEveryRecord` needs the
  types: queue and plan are disjoint. `MovedMessagesAreNotReverted` follows from `PlanInv`, what
  verification saw of each planned message, and has a hypothesis of its own: no label is named like
  the ID of another, because `ShouldRevert` compares the names of the action with the IDs of the message.
- `SetupProofs`. `SetupTypeCorrect` rests on `AuthInv`: at `create` and `write` there is a grant in
  hand. `TheOldTokenStaysInUse`: nothing writes the file before Google has
  answered. `NamesKeepTheirIds`, from `CacheInv`: every map
  in the process, stored or still in a worker's hand, was Gmail's at some moment since it started.
  `ExitOKMeansReady`, from `EnsureInv`: past the profile the token file is whole, and every label before
  the next one is there or was taken away meanwhile.
- `LifecycleProofs`. `LifecycleTypeCorrect` needs `PlaceInv`: a command at `modify` or `append` has one
  record in hand, and of which kind. On it rest three invariants, each checked with TLC before
  it was proved:
  - `FaultsCostOneRecordEach`, from `CostInv`: the changes whose record is lost or will be (`Missing`; after a
    lost reply that is before the append, so `Lost` itself is not inductive) and the files in which
    some line was cut short (`Broken`) are finite and together no more than the faults. A step
    adds at most one of either, and when it does, it is a fault that is counted.
  - `RollbackLeavesNoTrace`, from `OriginInv`: some original mailbox explains the present one. Apart from
    the cleaner's labels a message is as it was there or in the trash, a cleaner label is there
    because of an action that stands, and only what started in the inbox is worked on or
    recorded. Hypothesis `FreshViews`: no message starts in the trash or with a label of the cleaner.
    It is needed: a reprocess run that gives a message a label it already had is reverted by
    taking that label away (section 5).
  - `NoMessageIsDecidedTwice`, from `OneInv`: the action that stands on an uncontested message still shows
    in its labels, at most one command is about to change it and then nothing stands on it
    yet, and every planned revert is of a move to the trash. Hypotheses: `AllConfigured`, every label of the
    cleaner has a name in the configuration (with a blank one `unprocessedQuery` finds the message again,
    section 5), and `NoNameIsAnId`, as with Gmail's IDs. Without the second a rollback can
    take a label action back while a later run's overlapping one stands, and the statement is false.
- `TuneProofs`, in six parts.
  - *Policy*: the junk gate is the documented rule (`TrashIsThePolicy`), both thresholds are
    monotone (in opposite directions for the trash). `DecidedMessagesLeaveTheQuery` joins `Decide` to
    the next run's query (`Box` is `Mailbox` under a configuration): once a decision is applied, the
    message is out of the inbox or carries a label the query excludes. Hypothesis: every label
    has a name in the configuration; with a blank one it is false (section 5).
  - *Listing*: `TheListingIsExact`, from `ListInv`: between two pages `ids` are the newest `given`
    messages, and fewer than the limit; `EntriesKept` says that empty entries do not count.
  - *Table*: `TheRowsAddUp`, `TheRowsAreMonotone`, `TheTrashColumnIsThePolicy`, from `TableInv`
    (every printed row is `sweepCounts` of the whole sample): the three kinds partition the sample,
    and the theorems about `Decide` turn into inclusions of these sets, hence of their sizes.
  - *Paragraph*: `TheBodyIsTheNewText` and `SpanishGetsTheLongBudget`, from `ParagraphInv`
    and, word by word, what a cut leaves (`WhatACutLeaves`), wherever it falls.
    `TrimmedIsFresh` shows that cutting at the first quote and then at the first delimiter is
    cutting at the first of both. That `FlattenSeq` returns a sequence (`FlattenIsSeq`) is proved by
    taking the least line where its recursion would have no solution, or not a sequence: `WFMin`
    does what an induction theorem with an operator parameter would. `BodiesAreLines` gives the type
    of a body, from `TextsAreLines` for plain ones (an assumption of `Tune` on the constant
    `Payloads` that TLC evaluates) and from the reading of the tokens for HTML.
  - *Parts*: `TheFirstPlainPartWins`. `FirstOf` distributes over concatenation (`FirstOfBoth`),
    hence over `FlattenSeq` (`FirstBodyOfAll`), so a summary of the parts in reading order solves
    the recursion of `walkParts` (`SummariesAreAWalk`), and that has one solution (`WalksAgree`).
    Hypothesis `PartsAreNested`: the parts can be ranked, every part above its children, as in any
    message that came as JSON. It is what makes the recursions have a solution (`TreeRecursion`) and
    what they are unrolled by (`SomePartIsLowest`).
  - *Tokens*: `OnlyVisibleTextIsRead`, from three facts about every prefix of the tokens: the words
    written are those of the texts met with the flag down (`WordsShown`), the flag is up only inside
    a hiding element that nothing has ended (`HiddenMeansInside`), and it is up right after a script
    or style begins. `BodiesAreTokens`, which TLC evaluates, says what the tokenizer guarantees: the
    content of a script or style is one text; and, so that the property can tell its words from the
    visible ones, they stand in no other text.

Only model-checked: liveness under fairness (`SetupRecovers`, `WaitersLeave`, `QueueDrainsAroundPauses`,
`AttendedRunEnds` and `EverythingGetsAVerdict`), which is out of the prover's reach. Every safety
invariant and action property that a run checks is also a theorem.

## 5. Where the documents and the code disagree

Shown by runs that expect a violation:

- `claim_exit_code`: a message that could not be fetched is "skipped", and the run exits 0
  (`README.md:64`: non-zero when any message failed).
- `claim_quota_gate`: the model's 429 closes the gate meant for Gmail's quota (`quota.go:9`).
- `claim_rollback_labels`: label actions are recorded by name and verified against IDs, so with Gmail's
  IDs they are never reverted (`README.md:8`: any run can be rolled back).
- `claim_rollback_verifies`: a message moved at the ENTER prompt is changed all the same
  (design spec, lines 270-272).

Met while modelling, and visible in the models, but without a run of their own:

- The breaker's comment says "consecutive failures" (`run.go:44`); skips in between do not reset it.
  A reply of the model that lacks an answer counts as a failure of the service.
- README.md:69 says workers pause "instead of retrying into" a closed quota window; a worker
  already past the gate goes on retrying.
- A change whose reply was lost is recorded as "error" and rollback leaves it alone, although
  the message was changed (`LogTellsTheTruth` says nothing of "error" lines for this reason).
- A failed append or a crash leaves a change without a line, so the log is complete only up to
  the warnings (`ChangesAreReported`) and to one line per worker (`CrashLosesOneLinePerWorker`). A line
  cut short that another one follows makes `Read` reject the whole file (`AFaultCostsOneRecord`
  counts that file as the one loss of its fault).
- Two runs started in one second write one file, and `rollback` takes them for one run. A run that
  listed nothing leaves no file, so the default `rollback` after it reverts an older run.
- Two runs at once, and a reprocess run, can put two actions on one message (`contested`).
- `NextRunResumes` needs a name for every label: an entry of `labels:` that was left blank (one that is
  left out keeps its default) falls back to a default in `Decide` (`policy.go:107`), which
  `unprocessedQuery` does not exclude.
- A reprocess run leaves "unclassified" next to the new topic, or adds a label that was there; the
  revert then removes more than the run added (the exception in `UntouchedIsExact`).
- `CheckToken`'s comment (`auth.go:164`) says it refreshes; an access token that has not run out passes
  the check without Google being asked, so a command can start with a revoked grant.
- One flag stands for `script`, `style` and `head` (`extract.go:219`): the text of a `head` after a nested
  `</style>` is shown, and a `head` that is never closed empties the body.
- A `text/plain` part of nothing but white space hides the HTML part (`message.go:63`).
- The language is guessed on the uncut text for the budget (`extract.go:131`) and again on the cut text
  for the request (`systemone/client.go:102`), which `extract.go:176` says mirror each other; the
  word boundary in `\bde\b` lets a ".de" domain count as Spanish. They need not agree. The cut counts
  runes and may stop inside a word, so an English message whose budget ends inside "design" or
  "element" is cut to "... de" or "... el" and sent as multilingual with the short budget; and
  Spanish only beyond the long budget, or in the word it cuts, gives a long English request; and
  a ".mx" or ".es" host in the text alone, which only the second test looks for, a short
  multilingual one. The model has all three; `SpanishIsSentAsSpanish` says what holds beside them.

## 6. Plan

Done: the run and its abstract specification, terminal, quota gate, policy, audit files, rollback,
the sequence of commands, setup with authorization and labels, and the way from the query to the
table; theorems for every safety property the runs check. What would add most next:

1. That `QuotaGate` implements the gate `RunPool` assumes (closed while a pause is running, open some
   time after).
2. `Lifecycle` with more than one fault in TLC: the theorems cover it, `EverythingGetsAVerdict` does not.

**Not modelled.** Configuration and command dispatch: decoding YAML, checking it and switching over the
command name happen before anything starts, in one step without state, and end in exit code 2
(`Refuse` in `RunPool`). Progress, list and status output: formatting of what was done, read by no other
part. Of the System One client: the shims for the old State object, which no command calls, and
the capture of `routing`, which nothing reads. Below what the models distinguish: base64,
character sets, entities, dates and addresses; the token arithmetic of the rate limiter; floating
point; what OAuth's state and PKCE protect against.
