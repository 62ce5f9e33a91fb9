------------------------------ MODULE AuditLog ------------------------------
(***************************************************************************)
(* Package audit: the records of a run, its file of JSON lines as writes   *)
(* that may be cut short, and the check and the inverse rollback uses.     *)
(***************************************************************************)
EXTENDS Mailbox, Sequences

\* What policy.Decide's answer makes processOne put into a record.
TrashAction == [add |-> {"TRASH"}, remove |-> {"INBOX"}]
Actions ==
  {TrashAction}
    \cup {[add |-> s, remove |-> {}] : s \in ((SUBSET Topics) \ {{}}) \cup {{Unclassified}}}

NoAction == [add |-> {}, remove |-> {}]

\* labels_before and the action of a line, and its outcome.
Record == [outcome : {"applied", "skipped", "error"}, before : SUBSET LabelIds,
           action : Actions \cup {NoAction}]

Applied(r) == Modified(r.before, r.action.add, r.action.remove)

-----------------------------------------------------------------------------
(* Files *)

\* A write that succeeded is a line with its newline.  One that was cut short, by a
\* full disk or by the end of the process, left a prefix: "bare" is all but the newline.
Piece(m, r, end) == [msg |-> m, rec |-> r, end |-> end]
Ends == {"line", "bare", "torn"}

\* audit.Append opens the file for appending and writes once; what it finds there stays.
Appended_Truncates(file, piece) == <<piece>>
Appended(file, piece) == Append(file, piece)

\* audit.Read wants every physical line to be one JSON object: a bare one is
\* completed by the end of the file and spoiled by anything that follows.
Readable_UpToTheTear(file) == TRUE
Readable(file) ==
  \A i \in DOMAIN file : file[i].end = "line" \/ (file[i].end = "bare" /\ i = Len(file))

\* audit.ListRuns sorts names that are times; audit.LoadLatest takes the last.
LoadLatest_Oldest(ids) == CHOOSE r \in ids : \A k \in ids : r <= k
LoadLatest(ids) == CHOOSE r \in ids : \A k \in ids : k <= r

-----------------------------------------------------------------------------
(* Verification and inverse *)

\* audit.ShouldRevert compares the label NAMES of the record with the label IDs
\* of the message.
ShouldRevert_AnyAdded(r, current) ==
  r.outcome = "applied" /\ r.action.add \cap current # {}
ShouldRevert(r, current) ==
  /\ r.outcome = "applied"
  /\ r.action.add \subseteq current
  /\ r.action.remove \cap current = {}

\* The inverse of the action: untrash, or modify with the sides swapped.
Reverted_KeepsTrash(r, ids) == Modified(ids, r.action.remove, r.action.add \ {"TRASH"})
Reverted_ToBefore(r, ids) == r.before
Reverted(r, ids) ==
  IF "TRASH" \in r.action.add THEN Untrashed(ids)
                              ELSE Modified(ids, r.action.remove, r.action.add)
=============================================================================
