------------------------------ MODULE Listing ------------------------------
(***************************************************************************)
(* Client.ListMessages: the page loop over messages.list, and the callers' *)
(* handling of its failure.  Gmail's side is what the loop must live with: *)
(* pages shorter or longer than asked for, entries that are nil or have no *)
(* ID, and a next-page token with nothing behind it.                       *)
(***************************************************************************)
EXTENDS Integers, Sequences, FiniteSets

CONSTANTS
  Commands,     \* "list", "tune" and "run", the callers of ListMessages
  Limits,       \* values of --limit; `run` takes 0 as "no limit"
  Found,        \* how many messages may match the query
  maxPageSize   \* MaxResults of one request at most (the code: 500)

ASSUME ListingAssumption ==
  /\ Commands \subseteq {"list", "tune", "run"}
  /\ Limits \subseteq Int /\ Found \subseteq Nat
  /\ maxPageSize \in Nat \ {0}

VARIABLES
  command,   \* who is listing
  max,       \* the limit
  matching,  \* messages that match, numbered newest first
  given,     \* how many of them Gmail has returned so far
  ids,       \* what ListMessages has collected
  retried,   \* `run` has used its one retry
  listing    \* "flags", "paging", "listed", "refused", "failed" or "returned"

query == <<command, max, matching>>
listVars == <<query, given, ids, retried, listing>>

NoId == 0

ListInit ==
  /\ command \in Commands /\ max \in Limits /\ matching \in Found
  /\ given = 0 /\ ids = <<>> /\ retried = FALSE /\ listing = "flags"

\* list and tune insist on a limit; run does not.
ParseLimit ==
  /\ listing = "flags"
  /\ listing' = IF command # "run" /\ max <= 0 THEN "refused" ELSE "paging"
  /\ UNCHANGED <<query, given, ids, retried>>

\* What is still wanted, at most a page of it.
pageSize ==
  IF max > 0 /\ max - Len(ids) < maxPageSize THEN max - Len(ids) ELSE maxPageSize

\* The loop stops inside a page once the limit is reached.
Capped_Trusting(s) == s
Capped(s) == IF max > 0 /\ Len(s) > max THEN SubSeq(s, 1, max) ELSE s

\* An answer to messages.list: the next n messages, perhaps behind an empty entry.
Entries(n, hole) ==
  (IF hole THEN <<NoId>> ELSE <<>>) \o [i \in 1 .. n |-> given + i]

\* The entries with an ID, in their order.
Kept(entries) ==
  LET found == {i \in DOMAIN entries : entries[i] # NoId}
      place(i) == Cardinality({j \in found : j <= i})
  IN  [k \in 1 .. Cardinality(found) |-> entries[CHOOSE i \in found : place(i) = k]]

\* Without a next-page token there is nothing left.
Page ==
  /\ listing = "paging"
  /\ \E n \in 0 .. (pageSize + 1), hole \in BOOLEAN, token \in BOOLEAN :
       /\ given + n <= matching
       /\ token \/ given + n = matching
       /\ given' = given + n
       /\ ids' = Capped(ids \o Kept(Entries(n, hole)))
       /\ listing' = IF (max > 0 /\ Len(ids') = max) \/ ~token THEN "listed" ELSE "paging"
  /\ UNCHANGED <<query, retried>>

\* The request fails: what was collected is dropped.  `run` starts over, once, if
\* Gmail said it was the quota.
PageFails ==
  /\ listing = "paging"
  /\ ids' = <<>> /\ given' = 0
  /\ \/ command = "run" /\ ~retried /\ retried' = TRUE /\ UNCHANGED listing
     \/ listing' = "failed" /\ UNCHANGED retried
  /\ UNCHANGED query

-----------------------------------------------------------------------------
\* The caller's limit is a contract and the order is Gmail's: a listing that
\* succeeds holds the newest max matching messages, each once, none missing,
\* however the pages were cut; and no request asks for nothing or for more than a page.
ListingIsExact ==
  /\ listing = "paging" => pageSize \in 1 .. maxPageSize
  /\ listing = "listed" =>
       ids = [i \in 1 .. (IF max > 0 /\ max < matching THEN max ELSE matching) |-> i]
=============================================================================
