------------------------------- MODULE Labels -------------------------------
(***************************************************************************)
(* Package gmail's labels: EnsureLabel, and the name -> ID map that the    *)
(* workers of one process share, fetch without a lock and never refresh.   *)
(* Gmail keeps label names unique; its owner may rename and delete labels. *)
(***************************************************************************)
EXTENDS Integers, FiniteSets

CONSTANTS
  LabelCount,  \* the labels of the config, numbered as setup takes them
  Workers      \* the goroutines of a run

\* Config.validate refuses an empty `labels:`.
ASSUME LabelsAssumption == LabelCount \in Nat \ {0} /\ IsFiniteSet(Workers)

\* Label names; 0 is one the config does not mention.
ConfigNames == 1 .. LabelCount
Names == {0} \cup ConfigNames

VARIABLES
  idOf,    \* Gmail: the ID of the label that has a name now, 0 if none has
  nextId,  \* Gmail: the ID the next label will get
  cache,   \* Client.labelIDs, NoMap until a fetch is stored
  wpc,     \* where each worker is in toLabelIDs
  byName   \* the map it resolves names with; 0 is "not in the map"

gmailVars == <<idOf, nextId>>
cacheVars == <<cache, wpc, byName>>

Empty == [n \in Names |-> 0]
NoMap == [n \in {} |-> 0]

LabelsInit ==
  /\ idOf = Empty /\ nextId = 1
  /\ cache = NoMap
  /\ wpc = [w \in Workers |-> "idle"]
  /\ byName = [w \in Workers |-> Empty]

LabelsTypeOK ==
  /\ idOf \in [Names -> 0 .. nextId - 1] /\ nextId \in Nat \ {0}
  /\ cache \in {NoMap} \cup [Names -> 0 .. nextId - 1]
  /\ wpc \in [Workers -> {"idle", "list", "store", "send"}]
  /\ byName \in [Workers -> [Names -> 0 .. nextId - 1]]

-----------------------------------------------------------------------------
(* EnsureLabel *)

\* labels.list does not show the name, so it has to be created.
Missing_Always(n) == TRUE
Missing(n) == idOf[n] = 0

\* labels.create; Gmail refuses a name that is taken.
CreateLabel(n) ==
  /\ idOf[n] = 0
  /\ idOf' = [idOf EXCEPT ![n] = nextId] /\ nextId' = nextId + 1
  /\ UNCHANGED cacheVars

-----------------------------------------------------------------------------
(* toLabelIDs *)

\* With a stored map nothing is fetched.
Looked_MarksFirst(w) ==
  /\ wpc' = [wpc EXCEPT ![w] = IF cache = NoMap THEN "list" ELSE "send"]
  /\ byName' = [byName EXCEPT ![w] = IF cache = NoMap THEN Empty ELSE cache]
  /\ cache' = IF cache = NoMap THEN Empty ELSE cache
Looked(w) ==
  /\ wpc' = [wpc EXCEPT ![w] = IF cache = NoMap THEN "list" ELSE "send"]
  /\ byName' = [byName EXCEPT ![w] = IF cache = NoMap THEN Empty ELSE cache]
  /\ UNCHANGED cache

Look(w) ==
  /\ wpc[w] = "idle"
  /\ Looked(w)
  /\ UNCHANGED gmailVars

\* labels.list, outside the lock.
Fetch(w) ==
  /\ wpc[w] = "list"
  /\ wpc' = [wpc EXCEPT ![w] = "store"]
  /\ byName' = [byName EXCEPT ![w] = idOf]
  /\ UNCHANGED <<gmailVars, cache>>

\* The last worker to store wins, with whatever it had fetched.
Store(w) ==
  /\ wpc[w] = "store"
  /\ cache' = byName[w]
  /\ wpc' = [wpc EXCEPT ![w] = "send"]
  /\ UNCHANGED <<gmailVars, byName>>

\* The modify request goes out, or labels.list failed and Modify returns its error.
Return(w) ==
  /\ wpc[w] \in {"list", "send"}
  /\ wpc' = [wpc EXCEPT ![w] = "idle"]
  /\ byName' = [byName EXCEPT ![w] = Empty]
  /\ UNCHANGED <<gmailVars, cache>>

\* A process starts, or it is gone.
ForgetMap ==
  /\ cache' = NoMap
  /\ wpc' = [w \in Workers |-> "idle"]
  /\ byName' = [w \in Workers |-> Empty]
  /\ UNCHANGED gmailVars

Resolve(w) == Look(w) \/ Fetch(w) \/ Store(w) \/ Return(w)

-----------------------------------------------------------------------------
(* The owner, in Gmail's settings *)

\* Rename a label, which keeps its ID, or delete it.
OwnerChanges(n) ==
  /\ idOf[n] # 0
  /\ \/ \E k \in Names : idOf[k] = 0 /\ idOf' = [idOf EXCEPT ![n] = 0, ![k] = idOf[n]]
     \/ idOf' = [idOf EXCEPT ![n] = 0]
  /\ UNCHANGED <<nextId, cacheVars>>
=============================================================================
