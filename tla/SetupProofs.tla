----------------------------- MODULE SetupProofs -----------------------------
(***************************************************************************)
(* Theorems about `setup` beside another command, for any number of labels *)
(* and workers, and however often something goes wrong.                    *)
(***************************************************************************)
EXTENDS Setup, TLAPS

-----------------------------------------------------------------------------
(* What a step does to each of the two packages *)

AuthMoves ==
  \/ Authorize \/ AuthStep \/ AuthorizeFails \/ AuthorizeEnds
  \/ \E good \in BOOLEAN : Callback(good)
  \/ HourPasses \/ Revoke

LabelsMove ==
  \/ \E n \in ConfigNames : CreateLabel(n)
  \/ \E n \in Names : OwnerChanges(n)
  \/ ForgetMap \/ \E w \in Workers : Resolve(w)

LEMMA AuthFrame == [Next]_vars => AuthMoves \/ UNCHANGED authVars
<1> USE DEF AuthMoves, google
<1>1. SetupStep => AuthMoves \/ UNCHANGED authVars
  BY DEF SetupStep, InAuthorize, AfterAuthorize, ReadProfile, EnsureLabel, CreateMissing
<1>2. StartSetup \/ CrashSetup \/ (\E good \in BOOLEAN : Browser(good)) => AuthMoves
  BY DEF StartSetup, CrashSetup, Browser
<1>3. StartCommand \/ CheckCommand \/ OpenCommand \/ EndCommand => UNCHANGED authVars
  BY DEF StartCommand, CheckCommand, OpenCommand, EndCommand
<1>4. (\E w \in Workers : Work(w)) \/ (\E n \in Names : Owner(n)) => UNCHANGED authVars
  BY DEF Work, Owner
<1>5. Google => AuthMoves
  BY DEF Google
<1> QED
  BY <1>1, <1>2, <1>3, <1>4, <1>5 DEF Next, vars

LEMMA LabelsFrame ==
  TypeOK /\ [Next]_vars => LabelsMove \/ UNCHANGED <<gmailVars, cacheVars>>
<1> SUFFICES ASSUME TypeOK, [Next]_vars
             PROVE  LabelsMove \/ UNCHANGED <<gmailVars, cacheVars>>
  OBVIOUS
<1> USE DEF LabelsMove
<1>1. CreateMissing => LabelsMove \/ UNCHANGED <<gmailVars, cacheVars>>
  BY DEF CreateMissing, TypeOK, ConfigNames
<1>2. InAuthorize \/ AfterAuthorize \/ ReadProfile \/ EnsureLabel
        => UNCHANGED <<gmailVars, cacheVars>>
  BY DEF InAuthorize, AfterAuthorize, ReadProfile, EnsureLabel
<1>3. StartSetup \/ CrashSetup \/ (\E good \in BOOLEAN : Browser(good))
        => UNCHANGED <<gmailVars, cacheVars>>
  BY DEF StartSetup, CrashSetup, Browser
<1>4. CheckCommand \/ OpenCommand \/ Google => UNCHANGED <<gmailVars, cacheVars>>
  BY DEF CheckCommand, OpenCommand, Google
<1>5. StartCommand \/ EndCommand \/ (\E w \in Workers : Work(w)) \/ (\E n \in Names : Owner(n))
        => LabelsMove
  BY DEF StartCommand, EndCommand, Work, Owner
<1> QED
  BY <1>1, <1>2, <1>3, <1>4, <1>5 DEF Next, SetupStep, vars

-----------------------------------------------------------------------------
(* Types *)

\* From the exchange on there is a token to save.
AuthInv == AuthTypeOK /\ (flow \in {"create", "write"} => token \in Grants)

LEMMA NewGrant == (CHOOSE g \in Grants : g # file.grant) \in Grants
<1>1. \E g \in Grants : g # file.grant
  BY DEF Grants
<1> QED
  BY <1>1

LEMMA AuthTypes == AuthInv /\ (AuthMoves \/ UNCHANGED authVars) => AuthInv'
<1> SUFFICES ASSUME AuthInv, AuthMoves \/ UNCHANGED authVars PROVE AuthInv'
  OBVIOUS
<1> USE DEF AuthInv, AuthTypeOK, google
<1>1. CASE Authorize \/ AuthorizeEnds \/ (\E good \in BOOLEAN : Callback(good))
  BY <1>1 DEF Authorize, Listening, AuthorizeEnds, Callback, Grants, NoFile, Torn, Whole
<1>2. CASE Receive \/ TruncateToken
  BY <1>2 DEF Receive, TruncateToken, Grants, NoFile, Torn, Whole
<1>3. CASE Exchange
  <2>1. token' \in Grants
    BY <1>3, NewGrant DEF Exchange
  <2> QED
    BY <1>3, <2>1 DEF Exchange, Grants, NoFile, Torn, Whole
<1>4. CASE WriteToken
  BY <1>4 DEF WriteToken, Grants, NoFile, Torn, Whole
<1>5. CASE AuthorizeFails
  BY <1>5 DEF AuthorizeFails, Grants, NoFile, Torn, Whole
<1>6. CASE HourPasses \/ Revoke
  BY <1>6 DEF HourPasses, Revoke, Grants, NoFile, Torn, Whole
<1>7. CASE UNCHANGED authVars
  BY <1>7 DEF authVars, Grants, NoFile, Torn, Whole
<1> QED
  BY <1>1, <1>2, <1>3, <1>4, <1>5, <1>6, <1>7 DEF AuthMoves, AuthStep

LEMMA LabelsTypes ==
  LabelsTypeOK /\ (LabelsMove \/ UNCHANGED <<gmailVars, cacheVars>>) => LabelsTypeOK'
<1> SUFFICES ASSUME LabelsTypeOK, LabelsMove \/ UNCHANGED <<gmailVars, cacheVars>>
             PROVE  LabelsTypeOK'
  OBVIOUS
<1> DEFINE Ids == 0 .. nextId - 1
<1>0. /\ idOf \in [Names -> Ids] /\ nextId \in Nat \ {0}
      /\ cache = NoMap \/ cache \in [Names -> Ids]
      /\ wpc \in [Workers -> {"idle", "list", "store", "send"}]
      /\ byName \in [Workers -> [Names -> Ids]]
  BY DEF LabelsTypeOK
<1>e. 0 \in Ids /\ Empty \in [Names -> Ids]
  BY <1>0 DEF Empty
<1> HIDE DEF Ids
<1>k. ASSUME nextId' = nextId,
             idOf' \in [Names -> Ids], cache' = NoMap \/ cache' \in [Names -> Ids],
             wpc' \in [Workers -> {"idle", "list", "store", "send"}],
             byName' \in [Workers -> [Names -> Ids]]
      PROVE  LabelsTypeOK'
  BY <1>0, <1>k DEF LabelsTypeOK, Ids, Names, ConfigNames, NoMap
<1>1. ASSUME NEW n \in ConfigNames, CreateLabel(n) PROVE LabelsTypeOK'
  <2>1. Ids \subseteq 0 .. nextId' - 1 /\ nextId \in 0 .. nextId' - 1 /\ nextId' \in Nat \ {0}
    BY <1>0, <1>1 DEF CreateLabel, Ids
  <2> DEFINE Ids2 == 0 .. nextId' - 1
  <2>2. idOf' \in [Names -> Ids2] /\ (cache' = NoMap \/ cache' \in [Names -> Ids2])
    <3> HIDE DEF Ids2
    <3> SUFFICES ASSUME Ids \subseteq Ids2, nextId \in Ids2
                 PROVE  idOf' \in [Names -> Ids2] /\ (cache' = NoMap \/ cache' \in [Names -> Ids2])
      BY <2>1 DEF Ids2
    <3> QED
      BY <1>0, <1>1 DEF CreateLabel, cacheVars
  <2>3. byName' \in [Workers -> [Names -> Ids2]] /\ wpc' = wpc
    <3> HIDE DEF Ids2
    <3> SUFFICES ASSUME Ids \subseteq Ids2
                 PROVE  byName' \in [Workers -> [Names -> Ids2]] /\ wpc' = wpc
      BY <2>1 DEF Ids2
    <3>1. \A w \in Workers : byName[w] \in [Names -> Ids2]
      BY <1>0
    <3> QED
      BY <1>0, <1>1, <3>1 DEF CreateLabel, cacheVars
  <2> QED
    BY <1>0, <2>1, <2>2, <2>3 DEF LabelsTypeOK, Names, ConfigNames, NoMap
<1>2. ASSUME NEW n \in Names, OwnerChanges(n) PROVE LabelsTypeOK'
  <2>1. idOf' \in [Names -> Ids]
    BY <1>0, <1>e, <1>2 DEF OwnerChanges
  <2> QED
    BY <1>0, <1>k, <1>2, <2>1 DEF OwnerChanges, cacheVars
<1>3. CASE ForgetMap
  BY <1>0, <1>e, <1>k, <1>3 DEF ForgetMap, gmailVars
<1>4. ASSUME NEW w \in Workers, Look(w) PROVE LabelsTypeOK'
  <2>1. byName' \in [Workers -> [Names -> Ids]]
    BY <1>0, <1>e, <1>4 DEF Look, Looked
  <2>2. wpc' \in [Workers -> {"idle", "list", "store", "send"}]
    BY <1>0, <1>4 DEF Look, Looked
  <2> QED
    BY <1>0, <1>k, <1>4, <2>1, <2>2 DEF Look, Looked, gmailVars
<1>5. ASSUME NEW w \in Workers, Fetch(w) PROVE LabelsTypeOK'
  BY <1>0, <1>k, <1>5 DEF Fetch, gmailVars
<1>6. ASSUME NEW w \in Workers, Store(w) PROVE LabelsTypeOK'
  BY <1>0, <1>k, <1>6 DEF Store, gmailVars
<1>7. ASSUME NEW w \in Workers, Return(w) PROVE LabelsTypeOK'
  BY <1>0, <1>e, <1>k, <1>7 DEF Return, gmailVars
<1>8. CASE UNCHANGED <<gmailVars, cacheVars>>
  BY <1>0, <1>k, <1>8 DEF gmailVars, cacheVars
<1> QED
  BY <1>1, <1>2, <1>3, <1>4, <1>5, <1>6, <1>7, <1>8 DEF LabelsMove, Resolve

\* Where the two commands are.
Places ==
  /\ spc \in {"off", "authorize", "profile", "ensure", "create"}
  /\ cpc \in {"off", "check", "open", "work"}
  /\ scode \in {exitOK, exitGeneric} /\ ccode \in {exitOK, exitGeneric, exitReAuth}
  /\ next \in 1 .. LabelCount /\ trouble \in 0 .. MaxTrouble

LEMMA PlacesNext == Places /\ [Next]_vars => Places'
<1> SUFFICES ASSUME Places, [Next]_vars PROVE Places'
  OBVIOUS
<1> USE LabelsAssumption, SetupAssumption
    DEF Places, setup, command, exitOK, exitGeneric, exitReAuth
<1>1. CASE StartSetup
  BY <1>1 DEF StartSetup, Trouble
<1>2. CASE InAuthorize
  BY <1>2 DEF InAuthorize, Trouble
<1>3. CASE AfterAuthorize
  BY <1>3 DEF AfterAuthorize, ExitSetup, Trouble
<1>4. CASE ReadProfile
  BY <1>4 DEF ReadProfile, ExitSetup, CallFails, Trouble
<1>5. CASE EnsureLabel
  BY <1>5 DEF EnsureLabel, Ensured, LastName, ExitSetup, CallFails, Trouble
<1>6. CASE CreateMissing
  BY <1>6 DEF CreateMissing, Ensured, LastName, ExitSetup, CallFails, Trouble
<1>7. CASE CrashSetup
  BY <1>7 DEF CrashSetup, ExitSetup, Trouble
<1>8. ASSUME NEW good \in BOOLEAN, Browser(good) PROVE Places'
  BY <1>8 DEF Browser, Trouble
<1>9. CASE StartCommand
  BY <1>9 DEF StartCommand
<1>10. CASE CheckCommand
  BY <1>10 DEF CheckCommand, CommandTo, ExitCommand, Trouble
<1>11. CASE OpenCommand \/ EndCommand
  BY <1>11 DEF OpenCommand, EndCommand, CommandTo, ExitCommand
<1>12. ASSUME NEW w \in Workers, Work(w) PROVE Places'
  BY <1>12 DEF Work
<1>13. ASSUME NEW n \in Names, Owner(n) PROVE Places'
  BY <1>13 DEF Owner, Trouble
<1>14. CASE Google
  BY <1>14 DEF Google, Trouble
<1>15. CASE UNCHANGED vars
  BY <1>15 DEF vars
<1> QED
  BY <1>1, <1>2, <1>3, <1>4, <1>5, <1>6, <1>7, <1>8, <1>9, <1>10, <1>11, <1>12, <1>13,
     <1>14, <1>15 DEF Next, SetupStep

\* The history variables.
LEMMA KeptRemoved ==
  [Next]_vars =>
    /\ kept' \in {kept, file, NoFile}
    /\ removed' = removed \/ removed' = {} \/ (\E n \in Names : removed' = removed \cup {n})
<1> SUFFICES ASSUME [Next]_vars
             PROVE  /\ kept' \in {kept, file, NoFile}
                    /\ \/ removed' = removed \/ removed' = {}
                       \/ \E n \in Names : removed' = removed \cup {n}
  OBVIOUS
<1>1. CASE StartSetup \/ InAuthorize \/ AfterAuthorize \/ ReadProfile \/ CrashSetup
  BY <1>1 DEF StartSetup, InAuthorize, AfterAuthorize, ReadProfile, CrashSetup, ExitSetup, GoesOn
<1>2. CASE EnsureLabel \/ CreateMissing
  BY <1>2 DEF EnsureLabel, CreateMissing, Ensured, ExitSetup, GoesOn
<1>3. CASE \E good \in BOOLEAN : Browser(good)
  BY <1>3 DEF Browser
<1>4. CASE StartCommand \/ CheckCommand \/ OpenCommand \/ EndCommand
  BY <1>4 DEF StartCommand, CheckCommand, OpenCommand, EndCommand
<1>5. CASE \E w \in Workers : Work(w)
  BY <1>5 DEF Work
<1>6. CASE \E n \in Names : Owner(n)
  BY <1>6 DEF Owner
<1>7. CASE Google \/ UNCHANGED vars
  BY <1>7 DEF Google, vars
<1> QED
  BY <1>1, <1>2, <1>3, <1>4, <1>5, <1>6, <1>7 DEF Next, SetupStep

\* Only while the other command runs does held change, and then it only grows, by
\* the IDs the names have after the step.
LEMMA HeldNext ==
  [Next]_vars =>
    \/ held' = held
    \/ Noted
    \/ held' = Nothing /\ cpc' = "off"
    \/ StartCommand
<1> SUFFICES ASSUME [Next]_vars
             PROVE  held' = held \/ Noted \/ (held' = Nothing /\ cpc' = "off") \/ StartCommand
  OBVIOUS
<1>1. CASE StartSetup \/ InAuthorize \/ AfterAuthorize \/ ReadProfile \/ CrashSetup \/ EnsureLabel
  BY <1>1 DEF StartSetup, InAuthorize, AfterAuthorize, ReadProfile, CrashSetup, EnsureLabel
<1>2. CASE CreateMissing \/ \E n \in Names : Owner(n)
  BY <1>2 DEF CreateMissing, Owner
<1>3. CASE \E good \in BOOLEAN : Browser(good)
  BY <1>3 DEF Browser
<1>4. CASE CheckCommand \/ OpenCommand \/ EndCommand
  BY <1>4 DEF CheckCommand, OpenCommand, EndCommand, CommandTo, ExitCommand
<1>5. CASE \E w \in Workers : Work(w)
  BY <1>5 DEF Work
<1>6. CASE Google \/ UNCHANGED vars
  BY <1>6 DEF Google, vars
<1> QED
  BY <1>1, <1>2, <1>3, <1>4, <1>5, <1>6 DEF Next, SetupStep

TypeInv == TypeOK /\ AuthInv

LEMMA RangeGrows ==
  ASSUME NEW a \in Int, NEW b \in Int, b >= a
  PROVE  0 .. a - 1 \subseteq 0 .. b - 1
OBVIOUS

LEMMA TypeInvNext == TypeInv /\ [Next]_vars => TypeInv'
<1> SUFFICES ASSUME TypeOK, AuthInv, [Next]_vars PROVE TypeInv'
  BY DEF TypeInv
<1>1. AuthInv'
  BY AuthFrame, AuthTypes
<1>2. LabelsTypeOK'
  BY LabelsFrame, LabelsTypes DEF TypeOK
<1>3. Places'
  BY PlacesNext DEF TypeOK, Places
<1>4. removed' \subseteq Names
  BY KeptRemoved DEF TypeOK
<1>5. (kept \in {NoFile, Torn} \cup {Whole(g) : g \in Grants})'
  <2>1. {kept, file, NoFile} \subseteq {NoFile, Torn} \cup {Whole(g) : g \in Grants}
    BY DEF TypeOK, AuthTypeOK
  <2> QED
    BY <2>1, KeptRemoved DEF NoFile, Torn, Whole, Grants
<1>6. (held \in [Names -> SUBSET (0 .. nextId - 1)])'
  <2> DEFINE Ids == 0 .. nextId - 1
             Ids2 == 0 .. nextId' - 1
  <2>1. nextId' >= nextId
    BY LabelsFrame DEF LabelsMove, TypeOK, LabelsTypeOK, gmailVars, cacheVars, CreateLabel,
      OwnerChanges, ForgetMap, Resolve, Look, Fetch, Store, Return
  <2>2. held \in [Names -> SUBSET Ids2]
    <3>1. Ids \subseteq Ids2
      <4>1. nextId \in Int /\ nextId' \in Int
        BY <1>2 DEF TypeOK, LabelsTypeOK
      <4> QED
        BY <2>1, <4>1, RangeGrows
    <3> HIDE DEF Ids2
    <3> QED
      BY <3>1 DEF TypeOK
  <2>3. idOf \in [Names -> Ids2] /\ idOf' \in [Names -> Ids2]
    BY <1>2, <2>1 DEF TypeOK, LabelsTypeOK, Names, ConfigNames
  <2> HIDE DEF Ids2
  <2>4. held' \in [Names -> SUBSET Ids2]
    BY <2>2, <2>3, HeldNext DEF Noted, Nothing, StartCommand
  <2> QED
    BY <2>4 DEF Ids2, Names, ConfigNames
<1> QED
  BY <1>1, <1>2, <1>3, <1>4, <1>5, <1>6
  DEF TypeInv, AuthInv, TypeOK, Places, Names, ConfigNames

LEMMA SetupTypesInit == Init => TypeInv
<1> SUFFICES ASSUME Init PROVE TypeInv
  OBVIOUS
<1>1. AuthInv
  BY DEF Init, AuthInit, AuthInv, AuthTypeOK
<1>2. LabelsTypeOK
  BY DEF Init, LabelsInit, LabelsTypeOK, Empty
<1>3. Places
  BY LabelsAssumption, SetupAssumption
  DEF Init, Places, exitOK, exitGeneric, exitReAuth
<1>4. held \in [Names -> SUBSET (0 .. nextId - 1)]
  BY DEF Init, Nothing
<1> QED
  BY <1>1, <1>2, <1>3, <1>4 DEF Init, TypeInv, AuthInv, TypeOK, Places

LEMMA SetupTyped == Spec => []TypeInv
BY SetupTypesInit, TypeInvNext, PTL DEF Spec

\* Both commands stay within their places, files and label sets, for any number of
\* labels and workers and any number of failures.
THEOREM SetupTypeCorrect == Spec => []TypeOK
<1>1. TypeInv => TypeOK
  BY DEF TypeInv
<1> QED
  BY <1>1, SetupTyped, PTL

-----------------------------------------------------------------------------
(* The token file *)

\* Outside of Authorize nothing writes the token file.
LEMMA FileFrame ==
  [Next]_vars => \/ StartSetup \/ InAuthorize
                 \/ file' = file /\ (spc' = "authorize" => UNCHANGED <<spc, flow, kept>>)
<1> SUFFICES ASSUME [Next]_vars, ~StartSetup, ~InAuthorize
             PROVE  file' = file /\ (spc' = "authorize" => UNCHANGED <<spc, flow, kept>>)
  OBVIOUS
<1> USE DEF authVars, google, setup
<1>1. CASE AfterAuthorize \/ ReadProfile \/ CrashSetup
  BY <1>1 DEF AfterAuthorize, ReadProfile, CrashSetup, AuthorizeEnds, ExitSetup
<1>2. CASE EnsureLabel \/ CreateMissing
  BY <1>2 DEF EnsureLabel, CreateMissing, Ensured, ExitSetup, GoesOn
<1>3. CASE \E good \in BOOLEAN : Browser(good)
  BY <1>3 DEF Browser, Callback
<1>4. CASE StartCommand \/ CheckCommand \/ OpenCommand \/ EndCommand
  BY <1>4 DEF StartCommand, CheckCommand, OpenCommand, EndCommand
<1>5. CASE (\E w \in Workers : Work(w)) \/ (\E n \in Names : Owner(n))
  BY <1>5 DEF Work, Owner
<1>6. CASE Google \/ UNCHANGED vars
  BY <1>6 DEF Google, HourPasses, Revoke, vars
<1> QED
  BY <1>1, <1>2, <1>3, <1>4, <1>5, <1>6 DEF Next, SetupStep

LEMMA TokenNext ==
  FailedAuthorizationKeepsTheToken /\ [Next]_vars => FailedAuthorizationKeepsTheToken'
<1> SUFFICES ASSUME FailedAuthorizationKeepsTheToken, [Next]_vars
             PROVE  FailedAuthorizationKeepsTheToken'
  OBVIOUS
<1> USE DEF FailedAuthorizationKeepsTheToken
<1>1. CASE StartSetup
  BY <1>1 DEF StartSetup, Authorize, Listening
<1>2. CASE InAuthorize
  <2>1. spc' = spc /\ kept' = kept
    BY <1>2 DEF InAuthorize, setup
  <2>2. CASE Receive \/ Exchange
    BY <1>2, <2>1, <2>2 DEF Receive, Exchange, InAuthorize
  <2>3. CASE TruncateToken \/ WriteToken \/ AuthorizeFails
    BY <2>3 DEF TruncateToken, WriteToken, AuthorizeFails
  <2> QED
    BY <1>2, <2>2, <2>3 DEF InAuthorize, AuthStep
<1> QED
  BY <1>1, <1>2, FileFrame

\* A denied, stray or abandoned authorization never costs the token in use: until Google
\* has answered, the file is the one setup found (Authorize, SaveToken).
THEOREM TheOldTokenStaysInUse == Spec => []FailedAuthorizationKeepsTheToken
<1>1. Init => FailedAuthorizationKeepsTheToken
  BY DEF Init, FailedAuthorizationKeepsTheToken
<1> QED
  BY <1>1, TokenNext, PTL DEF Spec

-----------------------------------------------------------------------------
(* Names and IDs *)

\* Whatever the other command has in its hands was true of Gmail at some moment since
\* it began; a command that does not work has nothing in its hands.
CacheInv ==
  /\ cpc # "work" => cache = NoMap /\ \A w \in Workers : wpc[w] = "idle"
  /\ cpc # "off" => \A n \in Names : idOf[n] \in held[n]
  /\ cache # NoMap => \A n \in Names : cache[n] \in held[n]
  /\ \A w \in Workers : wpc[w] \in {"store", "send"} => \A n \in Names : byName[w][n] \in held[n]

LEMMA WorkerNext ==
  ASSUME TypeOK, CacheInv, NEW w \in Workers, Work(w)
  PROVE  CacheInv'
<1> USE DEF CacheInv
<1>0. /\ cpc = "work" /\ cpc' = cpc /\ held' = held
      /\ wpc \in [Workers -> {"idle", "list", "store", "send"}]
      /\ byName = [v \in Workers |-> byName[v]]
  BY DEF Work, command, TypeOK, LabelsTypeOK
<1>1. CASE Look(w)
  BY <1>0, <1>1 DEF Look, Looked, gmailVars
<1>2. CASE Fetch(w)
  BY <1>0, <1>2 DEF Fetch, gmailVars
<1>3. CASE Store(w)
  BY <1>0, <1>3 DEF Store, gmailVars
<1>4. CASE Return(w)
  BY <1>0, <1>4 DEF Return, gmailVars
<1> QED
  BY <1>1, <1>2, <1>3, <1>4 DEF Work, Resolve

LEMMA CacheNext == TypeOK /\ CacheInv /\ [Next]_vars => CacheInv'
<1> SUFFICES ASSUME TypeOK, CacheInv, [Next]_vars PROVE CacheInv'
  OBVIOUS
<1>1. ASSUME UNCHANGED <<gmailVars, cacheVars, command, held>> PROVE CacheInv'
  BY <1>1 DEF CacheInv, gmailVars, cacheVars, command
<1>n. ASSUME UNCHANGED <<cacheVars, command>>, Noted PROVE CacheInv'
  <2>1. \A n \in Names : held[n] \subseteq held'[n] /\ (cpc # "off" => idOf'[n] \in held'[n])
    BY <1>n DEF Noted
  <2> QED
    BY <1>n, <2>1 DEF CacheInv, cacheVars, command
<1>2. CASE SetupStep
  <2>1. CASE CreateMissing
    BY <1>n, <2>1 DEF CreateMissing, CreateLabel
  <2> QED
    BY <1>1, <1>2, <2>1 DEF SetupStep, InAuthorize, AfterAuthorize, ReadProfile, EnsureLabel
<1>3. CASE StartSetup \/ CrashSetup \/ Google \/ \E good \in BOOLEAN : Browser(good)
  BY <1>1, <1>3 DEF StartSetup, CrashSetup, Google, Browser
<1>4. CASE StartCommand
  BY <1>4 DEF StartCommand, ForgetMap, CacheInv, gmailVars
<1>5. CASE CheckCommand \/ OpenCommand
  BY <1>5 DEF CheckCommand, OpenCommand, CommandTo, ExitCommand, CacheInv, gmailVars, cacheVars
<1>6. CASE EndCommand
  BY <1>6 DEF EndCommand, ForgetMap, ExitCommand, CacheInv
<1>7. ASSUME NEW w \in Workers, Work(w) PROVE CacheInv'
  BY <1>7, WorkerNext
<1>8. ASSUME NEW n \in Names, Owner(n) PROVE CacheInv'
  BY <1>n, <1>8 DEF Owner, OwnerChanges
<1>9. CASE UNCHANGED vars
  BY <1>1, <1>9 DEF vars
<1> QED
  BY <1>2, <1>3, <1>4, <1>5, <1>6, <1>7, <1>8, <1>9 DEF Next

\* However the workers race for the shared label map, whoever stores it last, and however
\* the owner renames labels meanwhile, a name resolves to an ID it had since the
\* process began (toLabelIDs).
THEOREM NamesKeepTheirIds == Spec => []NamesResolveToTheirOwnIds
<1>1. Init => CacheInv
  BY DEF Init, LabelsInit, CacheInv
<1>2. TypeInv /\ CacheInv /\ [Next]_vars => CacheInv'
  BY CacheNext DEF TypeInv
<1>3. CacheInv => NamesResolveToTheirOwnIds
  BY DEF CacheInv, NamesResolveToTheirOwnIds
<1> QED
  BY <1>1, <1>2, <1>3, SetupTyped, PTL DEF Spec

-----------------------------------------------------------------------------
(* What exit 0 promises *)

\* Once the token was checked the file can be read; the labels before the one in work
\* exist, unless the owner took them away since setup was started.
EnsureInv ==
  /\ spc \in {"profile", "ensure", "create"} => file.state = "whole"
  /\ spc \in {"authorize", "profile"} => next = 1
  /\ spc \in {"ensure", "create"} =>
       \A n \in 1 .. (next - 1) : idOf[n] = 0 => n \in removed

LEMMA EnsureNext == TypeOK /\ EnsureInv /\ [Next]_vars => EnsureInv'
<1> SUFFICES ASSUME TypeOK, EnsureInv, [Next]_vars PROVE EnsureInv'
  OBVIOUS
<1> USE DEF EnsureInv, setup, authVars, gmailVars
<1>0. /\ next \in 1 .. LabelCount /\ LabelCount \in Nat
      /\ nextId \in Nat \ {0} /\ idOf = [n \in Names |-> idOf[n]]
      /\ removed \subseteq Names
  BY LabelsAssumption DEF TypeOK, LabelsTypeOK
<1>1. CASE StartSetup
  BY <1>1 DEF StartSetup
<1>2. CASE InAuthorize
  BY <1>2 DEF InAuthorize
<1>3. CASE AfterAuthorize
  BY <1>3 DEF AfterAuthorize, AuthorizeEnds, CheckToken, ExitSetup
<1>4. CASE ReadProfile
  BY <1>4 DEF ReadProfile, ExitSetup
<1>5. CASE EnsureLabel
  BY <1>0, <1>5 DEF EnsureLabel, Missing, Ensured, ExitSetup, GoesOn
<1>6. CASE CreateMissing
  <2>1. CASE spc' = "off"
    BY <2>1
  <2>2. CASE CreateLabel(next) /\ Ensured /\ spc' # "off"
    <3>1. spc' = "ensure" /\ next' = next + 1 /\ removed' = removed /\ file' = file
      BY <1>6, <2>2 DEF CreateMissing, Ensured, ExitSetup, GoesOn
    <3>2. \A k \in 1 .. next : idOf'[k] = 0 => idOf[k] = 0 /\ k # next
      BY <1>0, <2>2 DEF CreateLabel, Names, ConfigNames
    <3> QED
      BY <1>0, <1>6, <3>1, <3>2 DEF CreateMissing
  <2> QED
    BY <1>6, <2>1, <2>2 DEF CreateMissing, ExitSetup
<1>7. CASE CrashSetup
  BY <1>7 DEF CrashSetup, ExitSetup
<1>8. ASSUME NEW good \in BOOLEAN, Browser(good) PROVE EnsureInv'
  BY <1>8 DEF Browser
<1>9. CASE StartCommand \/ CheckCommand \/ OpenCommand \/ EndCommand
  BY <1>9 DEF StartCommand, CheckCommand, OpenCommand, EndCommand, ForgetMap
<1>10. ASSUME NEW w \in Workers, Work(w) PROVE EnsureInv'
  BY <1>10 DEF Work, Resolve, Look, Fetch, Store, Return
<1>11. ASSUME NEW n \in Names, Owner(n) PROVE EnsureInv'
  <2>1. \A k \in Names : idOf'[k] = 0 => idOf[k] = 0 \/ k = n
    BY <1>0, <1>11 DEF Owner, OwnerChanges
  <2>2. spc # "off" => removed' = removed \cup {n}
    BY <1>11 DEF Owner
  <2>3. 1 .. (next - 1) \subseteq Names
    BY <1>0 DEF Names, ConfigNames
  <2> QED
    BY <1>11, <2>1, <2>2, <2>3 DEF Owner
<1>12. CASE Google
  BY <1>12 DEF Google, HourPasses, Revoke
<1>13. CASE UNCHANGED vars
  BY <1>13 DEF vars
<1> QED
  BY <1>1, <1>2, <1>3, <1>4, <1>5, <1>6, <1>7, <1>8, <1>9, <1>10, <1>11, <1>12, <1>13
  DEF Next, SetupStep

\* Of all steps, only ensuring the last label ends setup with exit code 0.
LEMMA WhoSucceeds ==
  [Next]_vars /\ SetupSucceeds => next = LabelCount /\ (EnsureLabel \/ CreateMissing)
<1> SUFFICES ASSUME [Next]_vars, SetupSucceeds
             PROVE  next = LabelCount /\ (EnsureLabel \/ CreateMissing)
  OBVIOUS
<1> USE DEF SetupSucceeds, setup, exitOK, exitGeneric
<1>1. CASE StartSetup \/ InAuthorize \/ AfterAuthorize \/ ReadProfile \/ CrashSetup
  BY <1>1 DEF StartSetup, InAuthorize, AfterAuthorize, ReadProfile, CrashSetup, ExitSetup
<1>2. CASE EnsureLabel \/ CreateMissing
  BY <1>2 DEF EnsureLabel, CreateMissing, Ensured, LastName, ExitSetup
<1>3. CASE \E good \in BOOLEAN : Browser(good)
  BY <1>3 DEF Browser
<1>4. CASE StartCommand \/ CheckCommand \/ OpenCommand \/ EndCommand
  BY <1>4 DEF StartCommand, CheckCommand, OpenCommand, EndCommand
<1>5. CASE (\E w \in Workers : Work(w)) \/ (\E n \in Names : Owner(n))
  BY <1>5 DEF Work, Owner
<1>6. CASE Google \/ UNCHANGED vars
  BY <1>6 DEF Google, vars
<1> QED
  BY <1>1, <1>2, <1>3, <1>4, <1>5, <1>6 DEF Next, SetupStep

\* However setup gets there, past failures half-way, lost replies and labels made by
\* others: when it exits 0, the token can be read back and every label is there that the
\* owner did not take away meanwhile (setupCmd, EnsureLabel).
THEOREM ExitOKMeansReady == Spec => SetupOKMeansReady
<1>1. Init => EnsureInv
  BY DEF Init, EnsureInv
<1>2. TypeInv /\ EnsureInv /\ [Next]_vars => EnsureInv'
  BY EnsureNext DEF TypeInv
<1>3. TypeInv /\ EnsureInv /\ [Next]_vars =>
        [SetupSucceeds =>
           file.state = "whole" /\ {n \in ConfigNames : idOf'[n] = 0} \subseteq removed]_vars
  <2> SUFFICES ASSUME TypeInv, EnsureInv, [Next]_vars, SetupSucceeds,
                      NEW n \in ConfigNames, idOf'[n] = 0
               PROVE  n \in removed
    BY DEF EnsureInv, SetupSucceeds
  <2>1. next = LabelCount /\ LabelCount \in Nat \ {0} /\ nextId \in Nat \ {0}
    BY WhoSucceeds, LabelsAssumption DEF TypeInv, TypeOK, LabelsTypeOK
  <2>2. idOf = [k \in Names |-> idOf[k]] /\ next \in Names
    BY <2>1 DEF TypeInv, TypeOK, LabelsTypeOK, Names, ConfigNames
  <2>3. idOf[n] = 0 /\ idOf'[next] # 0
    <3>1. CASE EnsureLabel
      BY <2>2, <3>1 DEF EnsureLabel, Missing, SetupSucceeds, gmailVars, ExitSetup, exitOK,
        exitGeneric
    <3>2. CASE CreateMissing
      BY <2>1, <2>2, <3>2 DEF CreateMissing, CreateLabel, SetupSucceeds, ExitSetup, exitOK,
        exitGeneric, Names
    <3> QED
      BY <3>1, <3>2, WhoSucceeds
  <2>4. n \in 1 .. (next - 1)
    BY <2>1, <2>3 DEF ConfigNames
  <2> QED
    BY <2>3, <2>4 DEF EnsureInv, SetupSucceeds
<1> QED
  BY <1>1, <1>2, <1>3, SetupTyped, PTL DEF Spec, SetupOKMeansReady
=============================================================================
