------------------------------- MODULE Setup -------------------------------
(***************************************************************************)
(* `emailcleaner setup` beside another command: setup authorizes, checks   *)
(* the token and creates the labels, while a run in a second terminal goes *)
(* through the start-up of every command, reads the same token file and    *)
(* resolves label names with its workers.                                  *)
(***************************************************************************)
EXTENDS Auth, Labels

CONSTANT MaxTrouble  \* bound: failures, crashes, stray callbacks, moves of the owner

ASSUME SetupAssumption == MaxTrouble \in Nat

VARIABLES
  spc,      \* where setup is
  scode,    \* its exit code, once it has ended
  next,     \* the label it ensures
  cpc,      \* where the other command is
  ccode,    \* its exit code, once it has ended
  trouble,  \* what went wrong so far
  kept,     \* history: the token file when the running setup was started
  removed,  \* history: names the owner took away since then
  held      \* history: the IDs each name had since the other command was started

authorize == <<flow, codeFull, errFull, file>>
setup == <<spc, scode, next>>
command == <<cpc, ccode>>
vars == <<authVars, gmailVars, cacheVars, setup, command, trouble, kept, removed, held>>

Nothing == [n \in Names |-> {}]

exitOK == 0
exitGeneric == 1
exitReAuth == 3

Init ==
  /\ AuthInit /\ LabelsInit
  /\ spc = "off" /\ scode = exitOK /\ next = 1
  /\ cpc = "off" /\ ccode = exitOK
  /\ trouble = 0
  /\ kept = NoFile /\ removed = {} /\ held = Nothing

Trouble == trouble < MaxTrouble /\ trouble' = trouble + 1

\* held follows what Gmail says while the other command runs.
Noted ==
  held' = IF cpc = "off" THEN held ELSE [n \in Names |-> held[n] \cup {idOf'[n]}]

\* What setup is there for.
Ready ==
  /\ file.state = "whole" /\ file.grant \in alive
  /\ \A n \in ConfigNames : idOf[n] # 0

-----------------------------------------------------------------------------
(* setup *)

\* The operator starts it when something is missing, now and then without need.
StartSetup ==
  /\ spc = "off"
  /\ IF Ready THEN Trouble ELSE UNCHANGED trouble
  /\ Authorize
  /\ spc' = "authorize" /\ next' = 1
  /\ scode' = exitOK /\ kept' = file
  /\ UNCHANGED <<removed, gmailVars, cacheVars, command, held>>

InAuthorize ==
  /\ spc = "authorize"
  /\ \/ AuthStep /\ UNCHANGED trouble
     \/ AuthorizeFails /\ Trouble
  /\ UNCHANGED <<setup, gmailVars, cacheVars, command, kept, removed, held>>

\* The browser comes back, with the consent or with anything else.
Browser(good) ==
  /\ spc = "authorize"
  /\ Callback(good)
  /\ IF good THEN UNCHANGED trouble ELSE Trouble
  /\ UNCHANGED <<setup, gmailVars, cacheVars, command, kept, removed, held>>

GoesOn == UNCHANGED <<kept, removed>>

ExitSetup(code) ==
  /\ spc' = "off" /\ scode' = code /\ next' = 1
  /\ kept' = NoFile /\ removed' = {}

\* Any error ends setup with the same code, the one of a dead token included.
AfterAuthorize ==
  /\ spc = "authorize" /\ flow \in {"done", "failed"}
  /\ AuthorizeEnds
  /\ \/ /\ flow = "done" /\ CheckToken = "ok"
        /\ spc' = "profile" /\ GoesOn /\ UNCHANGED <<scode, next, trouble>>
     \/ /\ flow = "done" /\ CheckToken # "ok"
        /\ ExitSetup(exitGeneric) /\ UNCHANGED trouble
     \/ flow = "failed" /\ ExitSetup(exitGeneric) /\ UNCHANGED trouble
     \/ flow = "done" /\ ExitSetup(exitGeneric) /\ Trouble
  /\ UNCHANGED <<gmailVars, cacheVars, command, held>>

\* Any call of Gmail's API fails with a dead grant, and may fail without.
CallFails == IF file.grant \in alive THEN Trouble ELSE UNCHANGED trouble

\* The client is opened and the account's profile read.
ReadProfile ==
  /\ spc = "profile"
  /\ \/ /\ file.grant \in alive /\ spc' = "ensure"
        /\ GoesOn /\ UNCHANGED <<scode, next, trouble>>
     \/ ExitSetup(exitGeneric) /\ CallFails
  /\ UNCHANGED <<authVars, gmailVars, cacheVars, command, held>>

\* The loop over the sorted names: on to the next one, or out of it.
LastName_Late == next > LabelCount
LastName_OneShort == next + 1 = LabelCount
LastName == next = LabelCount

Ensured ==
  IF LastName THEN ExitSetup(exitOK)
              ELSE spc' = "ensure" /\ next' = next + 1 /\ GoesOn /\ UNCHANGED scode

\* EnsureLabel lists the labels; a name that is there is done with.
EnsureLabel ==
  /\ spc = "ensure"
  /\ \/ /\ file.grant \in alive /\ UNCHANGED trouble
        /\ IF Missing(next) THEN spc' = "create" /\ GoesOn /\ UNCHANGED <<scode, next>>
                            ELSE Ensured
     \/ ExitSetup(exitGeneric) /\ CallFails
  /\ UNCHANGED <<authVars, gmailVars, cacheVars, command, held>>

\* It creates the label; the call may fail, also because the name has been taken
\* since, or succeed with its reply lost.
CreateMissing ==
  /\ spc = "create"
  /\ \/ file.grant \in alive /\ CreateLabel(next) /\ Ensured /\ UNCHANGED trouble
     \/ file.grant \in alive /\ CreateLabel(next) /\ ExitSetup(exitGeneric) /\ Trouble
     \/ /\ ExitSetup(exitGeneric) /\ UNCHANGED <<gmailVars, cacheVars>>
        /\ IF idOf[next] # 0 THEN UNCHANGED trouble ELSE CallFails
  /\ Noted
  /\ UNCHANGED <<authVars, command>>

CrashSetup ==
  /\ spc # "off" /\ Trouble
  /\ ExitSetup(exitGeneric)
  /\ AuthorizeEnds
  /\ UNCHANGED <<gmailVars, cacheVars, command, held>>

SetupStep == InAuthorize \/ AfterAuthorize \/ ReadProfile \/ EnsureLabel \/ CreateMissing

-----------------------------------------------------------------------------
(* Another command: checkToken, openGmail, then its workers *)

StartCommand ==
  /\ cpc = "off" /\ cpc' = "check"
  /\ ForgetMap
  /\ ccode' = exitOK
  /\ held' = [n \in Names |-> {idOf[n]}]
  /\ UNCHANGED <<authVars, setup, trouble, kept, removed>>

ExitCommand(code) == cpc' = "off" /\ ccode' = code /\ held' = Nothing

CommandTo(pc) == cpc' = pc /\ UNCHANGED <<ccode, held>>

\* isReAuth tells a dead grant from every other error.  `status` only reports it.
CheckCommand ==
  /\ cpc = "check"
  /\ \/ CheckToken = "ok" /\ CommandTo("open") /\ UNCHANGED trouble
     \/ CheckToken = "ok" /\ ExitCommand(exitOK) /\ UNCHANGED trouble
     \/ CheckToken = "dead" /\ ExitCommand(exitReAuth) /\ UNCHANGED trouble
     \/ CheckToken = "failed" /\ ExitCommand(exitGeneric) /\ UNCHANGED trouble
     \/ CheckToken # "failed" /\ ExitCommand(exitGeneric) /\ Trouble
  /\ UNCHANGED <<authVars, gmailVars, cacheVars, setup, kept, removed>>

\* openGmail reads the token file a second time.
OpenCommand ==
  /\ cpc = "open"
  /\ IF file.state = "whole" THEN CommandTo("work") ELSE ExitCommand(exitGeneric)
  /\ UNCHANGED <<authVars, gmailVars, cacheVars, setup, trouble, kept, removed>>

Work(w) ==
  /\ cpc = "work"
  /\ Resolve(w)
  /\ UNCHANGED <<authVars, setup, command, trouble, kept, removed, held>>

EndCommand ==
  /\ cpc = "work" /\ \A w \in Workers : wpc[w] = "idle"
  /\ ExitCommand(exitOK)
  /\ ForgetMap
  /\ UNCHANGED <<authVars, setup, trouble, kept, removed>>

-----------------------------------------------------------------------------
(* Environment *)

Owner(n) ==
  /\ Trouble
  /\ OwnerChanges(n) /\ Noted
  /\ removed' = IF spc = "off" THEN removed ELSE removed \cup {n}
  /\ UNCHANGED <<authVars, setup, command, kept>>

Google ==
  /\ \/ HourPasses /\ UNCHANGED trouble
     \/ Revoke /\ Trouble
  /\ UNCHANGED <<gmailVars, cacheVars, setup, command, kept, removed, held>>

Next ==
  \/ StartSetup \/ SetupStep \/ CrashSetup
  \/ \E good \in BOOLEAN : Browser(good)
  \/ StartCommand \/ CheckCommand \/ OpenCommand \/ EndCommand
  \/ \E w \in Workers : Work(w)
  \/ \E n \in Names : Owner(n)
  \/ Google

\* setup gets on with it; its operator starts it while something is missing and
\* consents in the browser.
Fairness == WF_vars(~Ready /\ StartSetup) /\ WF_vars(SetupStep) /\ WF_vars(Browser(TRUE) /\ ~codeFull)

Spec == Init /\ [][Next]_vars /\ Fairness

-----------------------------------------------------------------------------
(* Properties *)

\* Every variable stays in its range.
TypeOK ==
  /\ AuthTypeOK /\ LabelsTypeOK
  /\ spc \in {"off", "authorize", "profile", "ensure", "create"}
  /\ cpc \in {"off", "check", "open", "work"}
  /\ scode \in {exitOK, exitGeneric} /\ ccode \in {exitOK, exitGeneric, exitReAuth}
  /\ next \in 1 .. LabelCount /\ trouble \in 0 .. MaxTrouble
  /\ kept \in {NoFile, Torn} \cup {Whole(g) : g \in Grants}
  /\ removed \subseteq Names /\ held \in [Names -> SUBSET (0 .. nextId - 1)]

\* "Authorized ... with N labels ready" is true when it is printed: the token file can
\* be read back and every configured label exists, unless the owner took it away
\* while setup was running; no failure half-way through, lost reply or label made by
\* somebody else in between lets setup exit 0 with one missing (setup.go).
SetupSucceeds == spc \in {"ensure", "create"} /\ spc' = "off" /\ scode' = exitOK

SetupOKMeansReady ==
  [][SetupSucceeds =>
       file.state = "whole" /\ {n \in ConfigNames : idOf'[n] = 0} \subseteq removed]_vars

\* Until Google has answered with a token that can be refreshed, the old token stays
\* in use: a denied, stray or abandoned authorization never costs a working one.
FailedAuthorizationKeepsTheToken ==
  spc = "authorize" /\ flow \in {"waiting", "exchange", "create"} => file = kept

\* The workers' shared map is never half-filled and never mixes names up: whichever
\* worker fetched and stored last, a name resolves to an ID it had at some moment since
\* the process began (0: it had none, and Gmail will refuse the name).
NamesResolveToTheirOwnIds ==
  \A w \in Workers : wpc[w] = "send" => \A n \in Names : byName[w][n] \in held[n]

\* A user who starts setup again while something is missing, and consents, gets there:
\* no crash between truncating and writing the token, half-created label set, stray
\* callback or revoked grant leaves a state setup cannot recover from.
SetupRecovers == <>[]Ready
=============================================================================
