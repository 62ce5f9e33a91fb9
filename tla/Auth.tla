-------------------------------- MODULE Auth --------------------------------
(***************************************************************************)
(* Package gmail's authorization: the loopback flow of Authorize with its  *)
(* two one-slot channels, SaveToken and LoadToken on the token file, and   *)
(* CheckToken.  Google, the browser and the clock are the environment.     *)
(***************************************************************************)
EXTENDS Integers

VARIABLES
  flow,       \* where Authorize is
  codeFull,   \* codeCh holds an authorization code
  errFull,    \* errCh holds an error
  token,      \* the grant of the token Exchange returned, 0 before
  file,       \* the token file
  alive,      \* grants that are neither revoked nor expired
  unexpired   \* grants whose first access token has not run out

google == <<alive, unexpired>>
authVars == <<flow, codeFull, errFull, token, file, google>>

\* Google's grants; two names are enough for the file's and for a new one.
Grants == {1, 2}

\* A token file that LoadToken accepts, and those it does not.
NoFile == [state |-> "absent", grant |-> 0]
Torn == [state |-> "torn", grant |-> 0]
Whole(g) == [state |-> "whole", grant |-> g]

AuthInit ==
  /\ flow = "off" /\ codeFull = FALSE /\ errFull = FALSE
  /\ token = 0 /\ file = NoFile
  /\ alive = {} /\ unexpired = {}

AuthTypeOK ==
  /\ flow \in {"off", "waiting", "exchange", "create", "write", "done", "failed"}
  /\ codeFull \in BOOLEAN /\ errFull \in BOOLEAN
  /\ token \in Grants \cup {0}
  /\ alive \subseteq Grants /\ unexpired \subseteq Grants
  /\ file \in {NoFile, Torn} \cup {Whole(g) : g \in Grants}

-----------------------------------------------------------------------------
(* Authorize *)

\* The listener is up and the URL is printed.
Listening_FreshFile == flow' = "waiting" /\ file' = NoFile
Listening == flow' = "waiting" /\ UNCHANGED file

Authorize ==
  /\ flow = "off"
  /\ Listening
  /\ codeFull' = FALSE /\ errFull' = FALSE
  /\ UNCHANGED <<token, google>>

\* A request to /callback.  One with our state and a code fills codeCh; one with
\* another state, a denial or no code fills errCh.  A handler that finds its
\* channel full blocks.
Callback(good) ==
  /\ flow = "waiting"
  /\ codeFull' = (codeFull \/ good) /\ errFull' = (errFull \/ ~good)
  /\ UNCHANGED <<flow, token, file, google>>

\* The select of Authorize: with both channels ready either may win.
Receive ==
  /\ flow = "waiting"
  /\ \/ codeFull /\ flow' = "exchange"
     \/ errFull /\ flow' = "failed"
  /\ UNCHANGED <<codeFull, errFull, token, file, google>>

\* The code is exchanged for a token that can be refreshed.  Grants that no token
\* at hand belongs to are forgotten.
Exchange ==
  /\ flow = "exchange" /\ flow' = "create"
  /\ token' = CHOOSE g \in Grants : g # file.grant
  /\ alive' = (alive \cap {file.grant}) \cup {token'}
  /\ unexpired' = (unexpired \cap {file.grant}) \cup {token'}
  /\ UNCHANGED <<codeFull, errFull, file>>

\* SaveToken: WriteFile truncates the file, then fills it.
TruncateToken ==
  /\ flow = "create" /\ flow' = "write"
  /\ file' = Torn
  /\ UNCHANGED <<codeFull, errFull, token, google>>

WriteToken ==
  /\ flow = "write" /\ flow' = "done"
  /\ file' = Whole(token)
  /\ UNCHANGED <<codeFull, errFull, token, google>>

\* What goes wrong: no credentials, no listener, no state; an exchange that fails or
\* yields no refresh token; a file that cannot be created, filled or made private.
AuthorizeFails ==
  /\ flow \in {"waiting", "exchange", "create", "write"} /\ flow' = "failed"
  /\ file' \in IF flow = "write" THEN {Torn, Whole(token)} ELSE {file}
  /\ UNCHANGED <<codeFull, errFull, token, google>>

\* Authorize has returned, or the process is gone.
AuthorizeEnds ==
  /\ flow' = "off" /\ token' = 0 /\ codeFull' = FALSE /\ errFull' = FALSE
  /\ UNCHANGED <<file, google>>

AuthStep == Receive \/ Exchange \/ TruncateToken \/ WriteToken

-----------------------------------------------------------------------------
(* CheckToken *)

\* LoadToken, then the token source: an access token that has not run out is handed
\* out as it is, any other is refreshed, which tells whether the grant is alive.
CheckToken ==
  IF file.state # "whole" THEN "failed"
  ELSE IF file.grant \in unexpired \cup alive THEN "ok" ELSE "dead"

-----------------------------------------------------------------------------
(* Google *)

\* An hour passes: the access tokens given so far have run out.
HourPasses ==
  /\ unexpired # {} /\ unexpired' = {}
  /\ UNCHANGED <<flow, codeFull, errFull, token, file, alive>>

\* The owner revokes the cleaner's access, or Testing mode ends it after seven days.
Revoke ==
  /\ alive # {} /\ alive' = {}
  /\ UNCHANGED <<flow, codeFull, errFull, token, file, unexpired>>
=============================================================================
