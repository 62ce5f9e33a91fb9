-------------------------- MODULE LifecycleProofs --------------------------
(***************************************************************************)
(* Theorems about months of use, for any mailbox, any number of messages,  *)
(* terminals, seconds and faults.                                          *)
(***************************************************************************)
EXTENDS Lifecycle, FiniteSetTheorems, WellFoundedInduction, TLAPS

-----------------------------------------------------------------------------
(* Labels and actions *)

LEMMA SystemIds ==
  /\ {"INBOX", "TRASH"} \subseteq LabelIds
  /\ toLabelIDs({"TRASH"}) = {"TRASH"} /\ toLabelIDs({"INBOX"}) = {"INBOX"}
  /\ toLabelIDs({}) = {}
BY LabelAssumption DEF LabelIds, LabelNames, SystemLabels, toLabelIDs

Tags == Actions \ {TrashAction}

\* What an action that is not the move to the trash looks like.
LEMMA TagShape ==
  ASSUME NEW a \in Tags
  PROVE  a.add \in SUBSET CleanerLabels /\ a.add # {} /\ a.remove = {}
BY DEF Tags, Actions, CleanerLabels

LEMMA TrashShape == TrashAction.add = {"TRASH"} /\ TrashAction.remove = {"INBOX"}
BY DEF TrashAction

LEMMA ActionLabels ==
  ASSUME NEW a \in Actions \cup {NoAction}
  PROVE  toLabelIDs(a.add) \in SUBSET LabelIds /\ toLabelIDs(a.remove) \in SUBSET LabelIds
<1>1. CASE a = TrashAction
  BY <1>1, SystemIds, TrashShape
<1>2. CASE a = NoAction
  BY <1>2, SystemIds DEF NoAction
<1>3. CASE a \in Tags
  BY <1>3, TagShape, SystemIds DEF LabelIds, LabelNames, toLabelIDs
<1> QED
  BY <1>1, <1>2, <1>3 DEF Tags

\* Modifying a message and reverting a record keep a message's labels among Gmail's.
LEMMA ChangedLabels ==
  ASSUME NEW ids \in SUBSET LabelIds, NEW r \in Record
  PROVE  /\ Modified(ids, r.action.add, r.action.remove) \in SUBSET LabelIds
         /\ Reverted(r, ids) \in SUBSET LabelIds
<1>1. toLabelIDs(r.action.add) \in SUBSET LabelIds /\ toLabelIDs(r.action.remove) \in SUBSET LabelIds
  BY ActionLabels DEF Record
<1> QED
  BY <1>1, SystemIds DEF Modified, Reverted, Untrashed

LEMMA LessThanIsWellFounded == IsWellFoundedOn({e \in Nat \X Nat : e[1] < e[2]}, Nat)
BY NatLessThanWellFounded, Zenon DEF OpToRel

\* The newest run ID is the ID of a run: audit.LoadLatest opens a file that is there.
LEMMA LatestIsARun ==
  ASSUME NEW ids \in SUBSET RunIds, ids # {}
  PROVE  LoadLatest(ids) \in ids
<1> DEFINE T == {Seconds - k : k \in ids}
<1>0. Seconds \in Nat /\ \A k \in ids : k \in Nat /\ Seconds - k \in Nat
  <2>1. Seconds \in Nat /\ \A k \in ids : k \in 1 .. Seconds
    BY LifecycleAssumption DEF RunIds
  <2> QED
    BY <2>1
<1>1. T \subseteq Nat /\ T # {}
  BY <1>0
<1>2. PICK x \in T : \A y \in T : <<y, x>> \notin {e \in Nat \X Nat : e[1] < e[2]}
  <2> HIDE DEF T
  <2> QED
    BY <1>1, LessThanIsWellFounded, WFMin
<1>3. \A y \in T : x <= y
  <2>1. \A y \in T : x \in Nat /\ y \in Nat /\ ~(y < x)
    <3> HIDE DEF T
    <3> QED
      BY <1>1, <1>2
  <2> QED
    BY <2>1
<1>4. PICK r \in ids : x = Seconds - r
  BY <1>2
<1>5. \A k \in ids : k <= r
  <2>1. \A k \in ids : Seconds - r <= Seconds - k
    BY <1>3, <1>4
  <2> QED
    BY <1>0, <2>1
<1> QED
  BY <1>4, <1>5 DEF LoadLatest

-----------------------------------------------------------------------------
(* Files, and records on their way *)

\* x is one of the pieces of s.
Has(s, x) == \E i \in DOMAIN s : x = s[i]

LEMMA HasOne ==
  ASSUME NEW S, NEW s \in Seq(S), Len(s) = 1
  PROVE  s[1] \in S /\ \A x : Has(s, x) <=> x = s[1]
BY DEF Has

LEMMA HasNone == ~(\E x : Has(<<>>, x)) /\ \A S : <<>> \in Seq(S)
BY DEF Has

LEMMA HasSingle ==
  ASSUME NEW S, NEW y \in S
  PROVE  <<y>> \in Seq(S) /\ Len(<<y>>) = 1 /\ <<y>> # <<>> /\ \A x : Has(<<y>>, x) <=> x = y
BY DEF Has

LEMMA HasAppended ==
  ASSUME NEW S, NEW s \in Seq(S), NEW y \in S
  PROVE  Append(s, y) \in Seq(S) /\ \A x : Has(Append(s, y), x) <=> Has(s, x) \/ x = y
<1>1. /\ Append(s, y) \in Seq(S) /\ Len(Append(s, y)) = Len(s) + 1
      /\ \A i \in 1 .. Len(s) : Append(s, y)[i] = s[i]
      /\ Append(s, y)[Len(s) + 1] = y
  OBVIOUS
<1>2. DOMAIN s = 1 .. Len(s) /\ DOMAIN Append(s, y) = 1 .. Len(s) + 1 /\ Len(s) \in Nat
  BY <1>1
<1> HIDE DEF Has
<1> DEFINE t == Append(s, y)
<1>3. ASSUME NEW x, Has(t, x) PROVE Has(s, x) \/ x = y
  <2>1. PICK i \in 1 .. Len(s) + 1 : x = t[i]
    BY <1>2, <1>3 DEF Has
  <2>2. CASE i = Len(s) + 1
    BY <1>1, <2>1, <2>2
  <2>3. CASE i \in 1 .. Len(s)
    BY <1>1, <1>2, <2>1, <2>3 DEF Has
  <2> QED
    BY <1>2, <2>1, <2>2, <2>3
<1>4. ASSUME NEW x, Has(s, x) PROVE Has(t, x)
  <2>1. PICK i \in 1 .. Len(s) : x = s[i]
    BY <1>2, <1>4 DEF Has
  <2>2. x = t[i] /\ i \in 1 .. Len(s) + 1
    BY <1>1, <1>2, <2>1
  <2> QED
    BY <1>2, <2>2 DEF Has
<1>5. Has(t, y)
  BY <1>1, <1>2 DEF Has
<1> QED
  BY <1>1, <1>3, <1>4, <1>5

LEMMA HasTail ==
  ASSUME NEW S, NEW s \in Seq(S), s # <<>>
  PROVE  /\ Head(s) \in S /\ Has(s, Head(s)) /\ Tail(s) \in Seq(S)
         /\ \A x : Has(Tail(s), x) => Has(s, x)
<1>1. Tail(s) \in Seq(S) /\ Head(s) \in S /\ Head(s) = s[1] /\ Len(s) >= 1 /\ Len(s) \in Nat
  OBVIOUS
<1>2. DOMAIN s = 1 .. Len(s) /\ DOMAIN Tail(s) = 1 .. Len(s) - 1
      /\ \A i \in 1 .. Len(s) - 1 : Tail(s)[i] = s[i + 1]
  OBVIOUS
<1> DEFINE t == Tail(s)
<1>3. ASSUME NEW x, Has(t, x) PROVE Has(s, x)
  <2>1. PICK i \in 1 .. Len(s) - 1 : x = t[i]
    BY <1>2, <1>3 DEF Has
  <2>2. x = s[i + 1] /\ i + 1 \in 1 .. Len(s)
    BY <1>1, <1>2, <2>1
  <2> QED
    BY <1>2, <2>2 DEF Has
<1> QED
  BY <1>1, <1>2, <1>3 DEF Has

\* Opening the file adds an empty one or nothing.
LEMMA OpenedFile ==
  ASSUME TypeOK, NEW k \in RunIds
  PROVE  /\ DOMAIN Opened(k) = DOMAIN dir \cup {k}
         /\ \A j \in DOMAIN Opened(k) :
              /\ Opened(k)[j] \in Seq(Pieces)
              /\ \A x : Has(Opened(k)[j], x) <=> j \in DOMAIN dir /\ Has(dir[j], x)
<1>1. DOMAIN Opened(k) = DOMAIN dir \cup {k}
  BY DEF Opened
<1>2. ASSUME NEW j \in DOMAIN dir \cup {k}, j \in DOMAIN dir
      PROVE  Opened(k)[j] = dir[j] /\ dir[j] \in Seq(Pieces)
  BY <1>2 DEF Opened, TypeOK
<1>3. ASSUME NEW j \in DOMAIN dir \cup {k}, j \notin DOMAIN dir
      PROVE  Opened(k)[j] = <<>>
  BY <1>3 DEF Opened
<1> QED
  BY <1>1, <1>2, <1>3, HasNone

\* The piece that the write of p leaves, whole or cut short.
Left(p, end) == Piece(hand[p][1].msg, hand[p][1].rec, end)

\* A write adds that piece to the file of the run, and nothing anywhere else.
LEMMA WrittenFile ==
  ASSUME TypeOK, NEW p \in Procs, Len(hand[p]) = 1, NEW end \in Ends
  PROVE  /\ DOMAIN Written(p, end) = DOMAIN dir \cup {id[p]}
         /\ \A j \in DOMAIN Written(p, end) :
              /\ Written(p, end)[j] \in Seq(Pieces)
              /\ \A x : Has(Written(p, end)[j], x) <=>
                          (j \in DOMAIN dir /\ Has(dir[j], x)) \/ (j = id[p] /\ x = Left(p, end))
<1> DEFINE k == id[p]
           y == Left(p, end)
           o == Opened(k)
           d == Written(p, end)
<1>1. k \in RunIds /\ hand[p] \in Seq(Pieces)
  BY DEF TypeOK
<1>2. hand[p][1] \in Pieces
  BY <1>1, HasOne
<1>3. y \in Pieces
  BY <1>2 DEF Left, Piece, Pieces
<1>4. d = [o EXCEPT ![k] = Append(o[k], y)]
  BY DEF Written, Appended, Left
<1>5. /\ DOMAIN o = DOMAIN dir \cup {k}
      /\ \A j \in DOMAIN o : /\ o[j] \in Seq(Pieces)
                             /\ \A x : Has(o[j], x) <=> j \in DOMAIN dir /\ Has(dir[j], x)
  BY <1>1, OpenedFile
<1> HIDE DEF y, o, d
<1>6. DOMAIN d = DOMAIN o /\ d[k] = Append(o[k], y) /\ \A j \in DOMAIN o \ {k} : d[j] = o[j]
  BY <1>4, <1>5
<1>7. d[k] \in Seq(Pieces) /\ \A x : Has(d[k], x) <=> Has(o[k], x) \/ x = y
  BY <1>3, <1>5, <1>6, HasAppended
<1>8. ASSUME NEW j \in DOMAIN d
      PROVE  /\ d[j] \in Seq(Pieces)
             /\ \A x : Has(d[j], x) <=> (j \in DOMAIN dir /\ Has(dir[j], x)) \/ (j = k /\ x = y)
  BY <1>5, <1>6, <1>7
<1> QED
  BY <1>5, <1>6, <1>8 DEF d, y

-----------------------------------------------------------------------------
(* Types *)

\* What a command holds follows from where it is, and a change that is sent was decided.
PlaceAt(p) ==
  /\ pc[p] \in {"modify", "append"} => Len(hand[p]) = 1
  /\ pc[p] \in {"idle", "run", "reverting"} => hand[p] = <<>>
  /\ pc[p] = "planning" => hand[p] # <<>>
  /\ pc[p] = "modify" => hand[p][1].rec.outcome = "applied" /\ hand[p][1].rec.action \in Actions
  /\ pc[p] \notin {"planning", "reverting"} => plan[p] = <<>>
  /\ pc[p] = "reverting" => plan[p] # <<>>
  /\ pc[p] \notin {"run", "modify", "append"} => todo[p] = {}

PlaceInv == \A p \in Procs : PlaceAt(p)

TypeInv == TypeOK /\ PlaceInv

LEMMA TypeInit == Init => TypeInv
<1> SUFFICES ASSUME Init PROVE TypeInv
  OBVIOUS
<1>1. labels \in [Messages -> SUBSET LabelIds]
  BY LifecycleAssumption DEF Init
<1>2. 1 \in RunIds
  BY LifecycleAssumption DEF RunIds
<1>3. dir = [k \in {} |-> <<>>] /\ DOMAIN dir = {}
  BY DEF Init
<1>4. hand \in [Procs -> Seq(Pieces)] /\ plan \in [Procs -> Seq(Pieces)]
  BY HasNone DEF Init
<1>5. TypeOK
  BY <1>1, <1>2, <1>3, <1>4, LifecycleAssumption DEF Init, TypeOK
<1> QED
  BY <1>5 DEF Init, TypeInv, PlaceInv, PlaceAt

\* A step of one command leaves what the others do and hold alone.
OnlyMoves(p) ==
  \A q \in Procs \ {p} :
    pc'[q] = pc[q] /\ todo'[q] = todo[q] /\ hand'[q] = hand[q] /\ plan'[q] = plan[q]

LEMMA OthersStay ==
  ASSUME PlaceInv, NEW p \in Procs, OnlyMoves(p), PlaceAt(p)'
  PROVE  PlaceInv'
BY DEF PlaceInv, PlaceAt, OnlyMoves

LEMMA TypeBegin ==
  ASSUME TypeInv, NEW p \in Procs, NEW s \in SUBSET Messages, NEW again \in BOOLEAN,
         Begin(p, s, again), asked' \in 0 .. MaxAsked
  PROVE  TypeInv'
<1> USE DEF TypeInv
<1>1. clock \in RunIds /\ contested' \in SUBSET Messages
  BY DEF Begin, TypeOK
<1>2. TypeOK'
  BY <1>1 DEF Begin, TypeOK
<1>3. OnlyMoves(p)
  BY DEF Begin, TypeOK, OnlyMoves
<1>4. pc[p] = "idle" /\ pc'[p] = "run" /\ hand'[p] = hand[p] /\ plan'[p] = plan[p]
  BY DEF Begin, Free, TypeOK
<1>5. PlaceInv'
  BY <1>3, <1>4, OthersStay DEF PlaceInv, PlaceAt
<1> QED
  BY <1>2, <1>5

\* What a Take leaves in the hand.
LEMMA TakenRecord ==
  ASSUME NEW m \in Messages, NEW outcome \in {"applied", "skipped"}, NEW a \in Actions \cup {NoAction}
  PROVE  LET r == [outcome |-> outcome, before |-> {}, action |-> a]
         IN  Piece(m, r, "line") \in Pieces
BY DEF Piece, Pieces, Record, Ends

\* The two ways to take a message: y is the piece in hand afterwards.
Took(p, y) ==
  /\ pc[p] = "run" /\ y.msg \in todo[p]
  /\ todo' = [todo EXCEPT ![p] = @ \ {y.msg}] /\ hand' = [hand EXCEPT ![p] = <<y>>]
  /\ \/ /\ y.rec.outcome = "applied" /\ y.rec.action \in Actions
        /\ pc' = [pc EXCEPT ![p] = "modify"] /\ UNCHANGED faults
     \/ /\ y.rec.outcome = "skipped"
        /\ pc' = [pc EXCEPT ![p] = "append"] /\ Fault
  /\ UNCHANGED <<clock, labels, dir, id, plan, asked, history>>

LEMMA TakeStep ==
  ASSUME TypeInv, NEW p \in Procs, Take(p)
  PROVE  \E y \in Pieces : Took(p, y)
<1>1. PICK m \in todo[p] :
        /\ todo' = [todo EXCEPT ![p] = @ \ {m}]
        /\ \/ /\ \E a \in Actions : Hold(p, m, "applied", a)
              /\ Goto(p, "modify") /\ UNCHANGED faults
           \/ /\ Hold(p, m, "skipped", NoAction)
              /\ Goto(p, "append") /\ Fault
  BY DEF Take, Verdicts
<1>2. m \in Messages /\ pc[p] = "run" /\ UNCHANGED <<clock, labels, dir, plan, asked, history>>
  BY DEF Take, TypeInv, TypeOK
<1>3. ASSUME NEW a \in Actions, Hold(p, m, "applied", a), Goto(p, "modify"), UNCHANGED faults
      PROVE  \E y \in Pieces : Took(p, y)
  <2> DEFINE y == Piece(m, [outcome |-> "applied", before |-> {}, action |-> a], "line")
  <2>1. y \in Pieces /\ y.msg = m /\ y.rec.outcome = "applied" /\ y.rec.action = a
    BY <1>2, TakenRecord DEF Piece
  <2>2. hand' = [hand EXCEPT ![p] = <<y>>]
    BY <1>3 DEF Hold
  <2> HIDE DEF y
  <2> QED
    BY <1>1, <1>2, <1>3, <2>1, <2>2 DEF Goto, Took
<1>4. ASSUME Hold(p, m, "skipped", NoAction), Goto(p, "append"), Fault
      PROVE  \E y \in Pieces : Took(p, y)
  <2> DEFINE y == Piece(m, [outcome |-> "skipped", before |-> {}, action |-> NoAction], "line")
  <2>1. y \in Pieces /\ y.msg = m /\ y.rec.outcome = "skipped"
    BY <1>2, TakenRecord DEF Piece
  <2>2. hand' = [hand EXCEPT ![p] = <<y>>]
    BY <1>4 DEF Hold
  <2> HIDE DEF y
  <2> QED
    BY <1>1, <1>2, <1>4, <2>1, <2>2 DEF Goto, Took
<1> QED
  BY <1>1, <1>3, <1>4

LEMMA FaultType ==
  ASSUME TypeOK, Fault
  PROVE  faults' \in 0 .. MaxFaults
BY LifecycleAssumption DEF TypeOK, Fault

LEMMA TypeTake ==
  ASSUME TypeInv, NEW p \in Procs, Take(p)
  PROVE  TypeInv'
<1> USE DEF TypeInv
<1>1. PICK y \in Pieces : Took(p, y)
  BY TakeStep
<1>2. <<y>> \in Seq(Pieces) /\ Len(<<y>>) = 1 /\ <<y>>[1] = y
  BY HasSingle
<1>3. faults' \in 0 .. MaxFaults
  BY <1>1, FaultType DEF Took, TypeOK
<1>4. TypeOK'
  BY <1>1, <1>2, <1>3 DEF Took, TypeOK, history
<1>5. OnlyMoves(p)
  BY <1>1 DEF Took, TypeOK, OnlyMoves
<1>6. /\ hand'[p] = <<y>> /\ plan'[p] = <<>>
      /\ \/ pc'[p] = "modify" /\ y.rec.outcome = "applied" /\ y.rec.action \in Actions
         \/ pc'[p] = "append"
  BY <1>1 DEF Took, TypeOK, PlaceInv, PlaceAt
<1>7. PlaceAt(p)'
  BY <1>2, <1>6 DEF PlaceAt
<1> QED
  BY <1>4, <1>5, <1>7, OthersStay

\* The three ways to send a change: acknowledged, refused, executed with its reply lost.
Sent(p, y) ==
  LET h == hand[p][1]
  IN  /\ pc[p] = "modify" /\ h \in Pieces
      /\ h.rec.outcome = "applied" /\ h.rec.action \in Actions
      /\ y.msg = h.msg /\ y.rec.action = h.rec.action
      /\ hand' = [hand EXCEPT ![p] = <<y>>] /\ pc' = [pc EXCEPT ![p] = "append"]
      /\ \/ y = h /\ Change(h.msg, h.rec) /\ UNCHANGED faults
         \/ /\ y.rec.outcome = "error" /\ Fault
            /\ Change(h.msg, h.rec) \/ UNCHANGED <<labels, history>>
      /\ UNCHANGED <<clock, dir, id, todo, plan, asked, contested>>

LEMMA ModifyStep ==
  ASSUME TypeInv, NEW p \in Procs, Modify(p)
  PROVE  \E y \in Pieces : Sent(p, y)
<1> DEFINE h == hand[p][1]
<1>1. /\ pc[p] = "modify" /\ pc' = [pc EXCEPT ![p] = "append"]
      /\ UNCHANGED <<clock, dir, id, todo, plan, asked, contested>>
  BY DEF Modify, Goto, Change, history
<1>2. hand \in [Procs -> Seq(Pieces)] /\ Len(hand[p]) = 1
  BY <1>1 DEF TypeInv, TypeOK, PlaceInv, PlaceAt
<1>3. h \in Pieces /\ hand[p] = <<h>>
  BY <1>2, HasOne
<1>4. h.rec.outcome = "applied" /\ h.rec.action \in Actions /\ h.rec \in Record
  BY <1>1, <1>3 DEF TypeInv, PlaceInv, PlaceAt, Pieces
<1>5. CASE Change(h.msg, h.rec) /\ UNCHANGED <<hand, faults>>
  <2>1. hand' = [hand EXCEPT ![p] = <<h>>]
    BY <1>2, <1>3, <1>5
  <2>2. Sent(p, h)
    BY <1>1, <1>3, <1>4, <1>5, <2>1 DEF Sent
  <2> QED
    BY <1>3, <2>2
<1>6. CASE /\ hand' = [hand EXCEPT ![p][1].rec.outcome = "error"] /\ Fault
           /\ Change(h.msg, h.rec) \/ UNCHANGED <<labels, history>>
  <2> DEFINE y == [h EXCEPT !.rec = [h.rec EXCEPT !.outcome = "error"]]
  <2>1. y \in Pieces /\ y.msg = h.msg /\ y.rec.action = h.rec.action /\ y.rec.outcome = "error"
    BY <1>3, <1>4 DEF Pieces, Record
  <2>2. [hand[p] EXCEPT ![1] = y] = <<y>>
    BY <1>3
  <2>3. hand' = [hand EXCEPT ![p] = <<y>>]
    BY <1>6, <2>2
  <2> HIDE DEF y
  <2>4. Sent(p, y)
    BY <1>1, <1>3, <1>4, <1>6, <2>1, <2>3 DEF Sent
  <2> QED
    BY <2>1, <2>4
<1> QED
  BY <1>5, <1>6 DEF Modify

\* Gmail's side of a change.
LEMMA ChangeType ==
  ASSUME TypeOK, NEW h \in Pieces, h.rec.action \in Actions, Change(h.msg, h.rec)
  PROVE  labels' \in [Messages -> SUBSET LabelIds] /\ standing' \in [Messages -> SUBSET Actions]
<1>1. h.msg \in Messages /\ h.rec \in Record
  BY DEF Pieces
<1>2. Modified(labels[h.msg], h.rec.action.add, h.rec.action.remove) \in SUBSET LabelIds
  BY <1>1, ChangedLabels DEF TypeOK
<1> QED
  BY <1>1, <1>2 DEF Change, TypeOK

LEMMA TypeModify ==
  ASSUME TypeInv, NEW p \in Procs, Modify(p)
  PROVE  TypeInv'
<1> USE DEF TypeInv
<1>1. PICK y \in Pieces : Sent(p, y)
  BY ModifyStep
<1>2. <<y>> \in Seq(Pieces) /\ Len(<<y>>) = 1
  BY HasSingle
<1>3. faults' \in 0 .. MaxFaults
  BY <1>1, FaultType DEF Sent, TypeOK
<1>4. labels' \in [Messages -> SUBSET LabelIds] /\ standing' \in [Messages -> SUBSET Actions]
  <2>1. CASE UNCHANGED <<labels, history>>
    BY <2>1 DEF TypeOK, history
  <2>2. CASE Change(hand[p][1].msg, hand[p][1].rec)
    BY <1>1, <2>2, ChangeType DEF Sent
  <2> QED
    BY <1>1, <2>1, <2>2 DEF Sent
<1>5. TypeOK'
  BY <1>1, <1>2, <1>3, <1>4 DEF Sent, TypeOK
<1>6. OnlyMoves(p)
  BY <1>1 DEF Sent, TypeOK, OnlyMoves
<1>7. hand'[p] = <<y>> /\ plan'[p] = <<>> /\ pc'[p] = "append"
  BY <1>1 DEF Sent, TypeOK, PlaceInv, PlaceAt
<1>8. PlaceAt(p)'
  BY <1>2, <1>7 DEF PlaceAt
<1> QED
  BY <1>5, <1>6, <1>8, OthersStay

\* What a command with a record in hand leaves behind when it writes, or dies writing.
AreFiles(d) == DOMAIN d \subseteq RunIds /\ \A k \in DOMAIN d : d[k] \in Seq(Pieces)

LEMMA FilesType ==
  ASSUME TypeOK, NEW p \in Procs, Len(hand[p]) = 1,
         NEW d \in CutShort(p) \cup {Written(p, "line")}
  PROVE  AreFiles(d)
<1>1. id[p] \in RunIds /\ DOMAIN dir \subseteq RunIds
  BY DEF TypeOK
<1>2. AreFiles(dir)
  BY DEF TypeOK, AreFiles
<1>3. AreFiles(Opened(id[p]))
  BY <1>1, OpenedFile DEF AreFiles
<1>4. ASSUME NEW end \in Ends PROVE AreFiles(Written(p, end))
  <2>1. /\ DOMAIN Written(p, end) = DOMAIN dir \cup {id[p]}
        /\ \A k \in DOMAIN Written(p, end) : Written(p, end)[k] \in Seq(Pieces)
    BY WrittenFile
  <2> QED
    BY <1>1, <2>1 DEF AreFiles
<1> QED
  BY <1>2, <1>3, <1>4 DEF CutShort, Ends

LEMMA TypeAppend ==
  ASSUME TypeInv, NEW p \in Procs, AppendRecord(p)
  PROVE  TypeInv'
<1> USE DEF TypeInv
<1>1. /\ pc[p] = "append" /\ hand' = [hand EXCEPT ![p] = <<>>]
      /\ dir' \in CutShort(p) \cup {Written(p, "line")}
      /\ UNCHANGED <<clock, labels, todo, plan, asked, history>>
  BY DEF AppendRecord
<1>2. Len(hand[p]) = 1 /\ <<>> \in Seq(Pieces)
  BY <1>1, HasNone DEF PlaceInv, PlaceAt
<1>3. DOMAIN dir' \subseteq RunIds /\ \A k \in DOMAIN dir' : dir'[k] \in Seq(Pieces)
  BY <1>1, <1>2, FilesType DEF AreFiles
<1>4. faults' \in 0 .. MaxFaults
  BY FaultType DEF AppendRecord, TypeOK
<1>5. 1 \in RunIds
  BY LifecycleAssumption DEF RunIds
<1>6. /\ id' \in [Procs -> RunIds]
      /\ \/ todo[p] = {} /\ pc' = [pc EXCEPT ![p] = "idle"]
         \/ pc' = [pc EXCEPT ![p] = "run"]
  BY <1>5 DEF AppendRecord, Leave, Goto, TypeOK
<1>7. TypeOK'
  BY <1>1, <1>2, <1>3, <1>4, <1>6 DEF TypeOK, history
<1>8. OnlyMoves(p)
  BY <1>1, <1>6 DEF TypeOK, OnlyMoves
<1>9. /\ hand'[p] = <<>> /\ plan'[p] = <<>>
      /\ \/ pc'[p] = "idle" /\ todo'[p] = {}
         \/ pc'[p] = "run"
  BY <1>1, <1>6 DEF TypeOK, PlaceInv, PlaceAt
<1>10. PlaceAt(p)'
  BY <1>9 DEF PlaceAt
<1> QED
  BY <1>7, <1>8, <1>10, OthersStay

\* A rollback reads a file that is there.
ReadIn(p, k) ==
  /\ k \in DOMAIN dir /\ dir[k] # <<>> /\ pc[p] = "idle"
  /\ hand' = [hand EXCEPT ![p] = dir[k]] /\ id' = [id EXCEPT ![p] = k]
  /\ pc' = [pc EXCEPT ![p] = "planning"]
  /\ UNCHANGED <<clock, labels, dir, todo, plan, faults, history>>

LEMMA ReadStep ==
  ASSUME TypeInv, NEW p \in Procs, BeginRollback(p)
  PROVE  \E k \in DOMAIN dir : ReadIn(p, k)
<1>1. LoadLatest(DOMAIN dir) \in DOMAIN dir
  BY LatestIsARun DEF BeginRollback, TypeInv, TypeOK
<1> QED
  BY <1>1 DEF BeginRollback, Free, ReadIn

LEMMA TypeRead ==
  ASSUME TypeInv, NEW p \in Procs, BeginRollback(p)
  PROVE  TypeInv'
<1> USE DEF TypeInv
<1>1. PICK k \in DOMAIN dir : ReadIn(p, k)
  BY ReadStep
<1>2. k \in RunIds /\ dir[k] \in Seq(Pieces)
  BY DEF TypeOK
<1>3. asked' \in 0 .. MaxAsked
  BY LifecycleAssumption DEF BeginRollback, Ask, TypeOK
<1>4. TypeOK'
  BY <1>1, <1>2, <1>3 DEF ReadIn, TypeOK, history
<1>5. OnlyMoves(p)
  BY <1>1 DEF ReadIn, TypeOK, OnlyMoves
<1>6. hand'[p] = dir[k] /\ plan'[p] = plan[p] /\ pc'[p] = "planning" /\ todo'[p] = todo[p]
  BY <1>1 DEF ReadIn, TypeOK
<1>7. PlaceAt(p)'
  BY <1>1, <1>6 DEF ReadIn, PlaceInv, PlaceAt
<1> QED
  BY <1>4, <1>5, <1>7, OthersStay

\* One record h is verified, and the rollback goes on, asks, or is done.
Looked(p, h) ==
  /\ pc[p] = "planning" /\ h \in Pieces /\ Has(hand[p], h)
  /\ hand' = [hand EXCEPT ![p] = Tail(@)] /\ Tail(hand[p]) \in Seq(Pieces)
  /\ \/ ShouldRevert(h.rec, labels[h.msg]) /\ plan' = [plan EXCEPT ![p] = Append(@, h)]
     \/ UNCHANGED plan
  /\ \/ hand'[p] # <<>> /\ pc' = [pc EXCEPT ![p] = "planning"] /\ UNCHANGED id
     \/ /\ hand'[p] = <<>> /\ plan'[p] # <<>>
        /\ pc' = [pc EXCEPT ![p] = "reverting"] /\ UNCHANGED id
     \/ hand'[p] = <<>> /\ plan'[p] = <<>> /\ Leave(p)
  /\ UNCHANGED <<clock, labels, dir, todo, faults, asked, history>>

LEMMA PlanStep ==
  ASSUME TypeInv, NEW p \in Procs, PlanOne(p)
  PROVE  Looked(p, Head(hand[p]))
<1>1. pc[p] = "planning" /\ hand[p] \in Seq(Pieces) /\ hand[p] # <<>>
  BY DEF PlanOne, TypeInv, TypeOK, PlaceInv, PlaceAt
<1>2. Head(hand[p]) \in Pieces /\ Has(hand[p], Head(hand[p])) /\ Tail(hand[p]) \in Seq(Pieces)
  BY <1>1, HasTail
<1> QED
  BY <1>1, <1>2 DEF PlanOne, Goto, Looked

LEMMA TypePlan ==
  ASSUME TypeInv, NEW p \in Procs, PlanOne(p)
  PROVE  TypeInv'
<1> USE DEF TypeInv
<1> DEFINE h == Head(hand[p])
<1>1. Looked(p, h)
  BY PlanStep
<1>2. plan[p] \in Seq(Pieces) /\ Append(plan[p], h) \in Seq(Pieces) /\ 1 \in RunIds
  BY <1>1, HasAppended, LifecycleAssumption DEF Looked, TypeOK, RunIds
<1> HIDE DEF h
<1>3. /\ plan' \in [Procs -> Seq(Pieces)] /\ hand' \in [Procs -> Seq(Pieces)]
      /\ id' \in [Procs -> RunIds]
      /\ pc' \in [Procs -> {"idle", "run", "modify", "append", "planning", "reverting"}]
  BY <1>1, <1>2 DEF Looked, TypeOK, Leave
<1>4. TypeOK'
  BY <1>1, <1>3 DEF Looked, TypeOK, history
<1>5. OnlyMoves(p)
  BY <1>1 DEF Looked, TypeOK, OnlyMoves, Leave
<1>6. /\ todo'[p] = {}
      /\ \/ hand'[p] # <<>> /\ pc'[p] = "planning"
         \/ hand'[p] = <<>> /\ plan'[p] # <<>> /\ pc'[p] = "reverting"
         \/ hand'[p] = <<>> /\ plan'[p] = <<>> /\ pc'[p] = "idle"
  BY <1>1 DEF Looked, TypeOK, PlaceInv, PlaceAt, Leave
<1>7. PlaceAt(p)'
  BY <1>6 DEF PlaceAt
<1> QED
  BY <1>4, <1>5, <1>7, OthersStay

\* One record h of the plan is reverted or refused.
Undid(p, h) ==
  /\ pc[p] = "reverting" /\ h \in Pieces /\ Has(plan[p], h)
  /\ \/ /\ labels' = [labels EXCEPT ![h.msg] = Reverted(h.rec, @)]
        /\ standing' = [standing EXCEPT ![h.msg] = @ \ {h.rec.action}]
     \/ UNCHANGED <<labels, standing>>
  /\ plan' = [plan EXCEPT ![p] = Tail(@)] /\ Tail(plan[p]) \in Seq(Pieces)
  /\ \/ plan'[p] = <<>> /\ Leave(p)
     \/ plan'[p] # <<>> /\ pc' = [pc EXCEPT ![p] = "reverting"] /\ UNCHANGED id
  /\ UNCHANGED <<clock, dir, todo, hand, faults, asked, contested>>

LEMMA RevertStep ==
  ASSUME TypeInv, NEW p \in Procs, RevertOne(p)
  PROVE  Undid(p, Head(plan[p]))
<1>1. pc[p] = "reverting" /\ plan[p] \in Seq(Pieces) /\ plan[p] # <<>>
  BY DEF RevertOne, TypeInv, TypeOK, PlaceInv, PlaceAt
<1>2. Head(plan[p]) \in Pieces /\ Has(plan[p], Head(plan[p])) /\ Tail(plan[p]) \in Seq(Pieces)
  BY <1>1, HasTail
<1> QED
  BY <1>1, <1>2 DEF RevertOne, Goto, Undid

LEMMA TypeRevert ==
  ASSUME TypeInv, NEW p \in Procs, RevertOne(p)
  PROVE  TypeInv'
<1> USE DEF TypeInv
<1> DEFINE h == Head(plan[p])
<1>1. Undid(p, h)
  BY RevertStep
<1> HIDE DEF h
<1>2. h.msg \in Messages /\ h.rec \in Record /\ 1 \in RunIds
  BY <1>1, LifecycleAssumption DEF Undid, Pieces, RunIds
<1>3. /\ Reverted(h.rec, labels[h.msg]) \in SUBSET LabelIds
      /\ standing[h.msg] \ {h.rec.action} \in SUBSET Actions
  BY <1>2, ChangedLabels DEF TypeOK
<1>4. labels' \in [Messages -> SUBSET LabelIds] /\ standing' \in [Messages -> SUBSET Actions]
  <2>1. labels \in [Messages -> SUBSET LabelIds] /\ standing \in [Messages -> SUBSET Actions]
    BY DEF TypeOK
  <2>2. CASE UNCHANGED <<labels, standing>>
    BY <2>1, <2>2
  <2>3. CASE /\ labels' = [labels EXCEPT ![h.msg] = Reverted(h.rec, @)]
             /\ standing' = [standing EXCEPT ![h.msg] = @ \ {h.rec.action}]
    BY <1>2, <1>3, <2>1, <2>3
  <2> QED
    BY <1>1, <2>2, <2>3 DEF Undid
<1>5. /\ plan' \in [Procs -> Seq(Pieces)] /\ id' \in [Procs -> RunIds]
      /\ pc' \in [Procs -> {"idle", "run", "modify", "append", "planning", "reverting"}]
  BY <1>1, <1>2 DEF Undid, TypeOK, Leave
<1>6. TypeOK'
  BY <1>1, <1>4, <1>5 DEF Undid, TypeOK
<1>7. OnlyMoves(p)
  BY <1>1 DEF Undid, TypeOK, OnlyMoves, Leave
<1>8. /\ todo'[p] = {} /\ hand'[p] = <<>>
      /\ \/ plan'[p] = <<>> /\ pc'[p] = "idle"
         \/ plan'[p] # <<>> /\ pc'[p] = "reverting"
  BY <1>1 DEF Undid, TypeOK, PlaceInv, PlaceAt, Leave
<1>9. PlaceAt(p)'
  BY <1>8 DEF PlaceAt
<1> QED
  BY <1>6, <1>7, <1>9, OthersStay

LEMMA TypeCrash ==
  ASSUME TypeInv, NEW p \in Procs, Crash(p)
  PROVE  TypeInv'
<1> USE DEF TypeInv
<1>1. AreFiles(dir')
  <2>1. CASE pc[p] = "append"
    <3>1. Len(hand[p]) = 1
      BY <2>1 DEF PlaceInv, PlaceAt
    <3> QED
      BY <2>1, <3>1, FilesType DEF Crash
  <2>2. CASE pc[p] # "append"
    BY <2>2 DEF Crash, TypeOK, AreFiles
  <2> QED
    BY <2>1, <2>2
<1>2. faults' \in 0 .. MaxFaults /\ 1 \in RunIds /\ <<>> \in Seq(Pieces)
  BY FaultType, HasNone, LifecycleAssumption DEF Crash, RunIds
<1>3. /\ pc' = [pc EXCEPT ![p] = "idle"] /\ id' = [id EXCEPT ![p] = 1]
      /\ todo' = [todo EXCEPT ![p] = {}] /\ hand' = [hand EXCEPT ![p] = <<>>]
      /\ plan' = [plan EXCEPT ![p] = <<>>] /\ UNCHANGED <<clock, labels, asked, history>>
  BY DEF Crash, Leave
<1>4. TypeOK'
  BY <1>1, <1>2, <1>3 DEF TypeOK, AreFiles, history
<1>5. OnlyMoves(p)
  BY <1>3 DEF TypeOK, OnlyMoves
<1>6. PlaceAt(p)'
  BY <1>3 DEF TypeOK, PlaceAt
<1> QED
  BY <1>4, <1>5, <1>6, OthersStay

\* The messages a run begins with are those its query matches.
LEMMA BeginStep ==
  ASSUME NEW p \in Procs, BeginRun(p) \/ BeginReprocess(p)
  PROVE  \E s \in SUBSET Messages, again \in BOOLEAN :
           /\ Begin(p, s, again) /\ (again \/ s = Unprocessed)
           /\ Ask \/ UNCHANGED asked
BY DEF BeginRun, BeginReprocess, Unprocessed

LEMMA TypeNext == TypeInv /\ [Next]_vars => TypeInv'
<1> SUFFICES ASSUME TypeInv, [Next]_vars PROVE TypeInv'
  OBVIOUS
<1>1. CASE UNCHANGED vars
  BY <1>1 DEF vars, command, history, TypeInv, TypeOK, PlaceInv, PlaceAt
<1>2. CASE Tick
  BY <1>2 DEF Tick, command, history, TypeInv, TypeOK, PlaceInv, PlaceAt
<1>3. ASSUME NEW p \in Procs, BeginRun(p) \/ BeginReprocess(p) PROVE TypeInv'
  <2>1. asked' \in 0 .. MaxAsked
    BY <1>3, BeginStep, LifecycleAssumption DEF Ask, TypeInv, TypeOK
  <2> QED
    BY <1>3, <2>1, BeginStep, TypeBegin
<1>4. ASSUME NEW p \in Procs, EmptyRun(p) PROVE TypeInv'
  BY <1>1, <1>4 DEF EmptyRun
<1>5. ASSUME NEW p \in Procs, BeginRollback(p) \/ Step(p) \/ Crash(p) PROVE TypeInv'
  BY <1>5, TypeRead, TypeTake, TypeModify, TypeAppend, TypePlan, TypeRevert, TypeCrash DEF Step
<1> QED
  BY <1>1, <1>2, <1>3, <1>4, <1>5 DEF Next

LEMMA TypeInvHolds == Spec => []TypeInv
BY TypeInit, TypeNext, PTL DEF Spec

\* Every variable stays in its range, over months of commands: records keep their shape
\* from a command's hand to the file and into a rollback's plan, whatever cuts a
\* write short, and a command between two messages holds nothing.
THEOREM LifecycleTypeCorrect == Spec => []TypeOK
<1>1. TypeInv => TypeOK
  BY DEF TypeInv
<1> QED
  BY <1>1, TypeInvHolds, PTL

-----------------------------------------------------------------------------
(* The cost of a fault *)

\* Some file has an "applied" record of the action; the pieces of unreadable files count,
\* because those files are counted themselves.
Kept(m, a) ==
  \E k \in DOMAIN dir, x \in Pieces :
    Has(dir[k], x) /\ x.msg = m /\ x.rec.outcome = "applied" /\ x.rec.action = a

\* Command p is about to write such a record.
Bringing(p, m, a) ==
  /\ pc[p] = "append" /\ hand[p][1].msg = m
  /\ hand[p][1].rec.outcome = "applied" /\ hand[p][1].rec.action = a

\* The records that are lost or will be, and the files in which some line was cut short.
\* A lost reply loses the record before the append: that is why Lost, which still
\* counts the command as carrying it, is not inductive.
Missing ==
  {e \in Messages \X Actions :
     /\ e[2] \in standing[e[1]] /\ ~Kept(e[1], e[2])
     /\ \A p \in Procs : ~Bringing(p, e[1], e[2])}

Broken == {k \in DOMAIN dir : \E x \in Pieces : Has(dir[k], x) /\ x.end # "line"}

CostInv ==
  /\ IsFiniteSet(Missing) /\ IsFiniteSet(Broken)
  /\ Cardinality(Missing) + Cardinality(Broken) <= faults

\* A step that costs nothing, and one that costs a record or a file.
NoMore == Missing' \subseteq Missing /\ Broken' \subseteq Broken
OneMore ==
  \/ \E e : Missing' \subseteq Missing \cup {e} /\ Broken' \subseteq Broken
  \/ \E k : Missing' \subseteq Missing /\ Broken' \subseteq Broken \cup {k}

\* One element more makes a finite set larger by one at most.
LEMMA SizeOfMore ==
  ASSUME NEW S, IsFiniteSet(S), NEW e, NEW T, T \subseteq S \cup {e}
  PROVE  /\ IsFiniteSet(T) /\ Cardinality(T) \in Nat /\ Cardinality(S) \in Nat
         /\ Cardinality(T) <= Cardinality(S) + 1
         /\ T \subseteq S => Cardinality(T) <= Cardinality(S)
<1>1. IsFiniteSet(S \cup {e}) /\ Cardinality(S \cup {e}) \in {Cardinality(S), Cardinality(S) + 1}
  BY FS_AddElement
<1>2. IsFiniteSet(T) /\ Cardinality(T) <= Cardinality(S \cup {e})
  BY <1>1, FS_Subset
<1>3. T \subseteq S => Cardinality(T) <= Cardinality(S)
  BY FS_Subset
<1>4. Cardinality(T) \in Nat /\ Cardinality(S) \in Nat /\ Cardinality(S \cup {e}) \in Nat
  BY <1>1, <1>2, FS_CardinalityType
<1> QED
  BY <1>1, <1>2, <1>3, <1>4

LEMMA CostOfNoMore ==
  ASSUME TypeOK, CostInv, NoMore, faults' = faults \/ faults' = faults + 1
  PROVE  CostInv'
<1>1. faults \in Nat
  BY LifecycleAssumption DEF TypeOK
<1>2. /\ IsFiniteSet(Missing') /\ Cardinality(Missing') <= Cardinality(Missing)
      /\ Cardinality(Missing') \in Nat /\ Cardinality(Missing) \in Nat
  BY SizeOfMore DEF CostInv, NoMore
<1>3. /\ IsFiniteSet(Broken') /\ Cardinality(Broken') <= Cardinality(Broken)
      /\ Cardinality(Broken') \in Nat /\ Cardinality(Broken) \in Nat
  BY SizeOfMore DEF CostInv, NoMore
<1>4. Cardinality(Missing') + Cardinality(Broken') <= faults'
  BY <1>1, <1>2, <1>3 DEF CostInv
<1> QED
  BY <1>2, <1>3, <1>4 DEF CostInv

LEMMA CostOfOneMore ==
  ASSUME TypeOK, CostInv, OneMore, faults' = faults + 1
  PROVE  CostInv'
<1>1. faults \in Nat
  BY LifecycleAssumption DEF TypeOK
<1>2. CASE \E e : Missing' \subseteq Missing \cup {e} /\ Broken' \subseteq Broken
  <2>1. /\ IsFiniteSet(Missing') /\ Cardinality(Missing') <= Cardinality(Missing) + 1
        /\ Cardinality(Missing') \in Nat /\ Cardinality(Missing) \in Nat
    BY <1>2, SizeOfMore DEF CostInv
  <2>2. /\ IsFiniteSet(Broken') /\ Cardinality(Broken') <= Cardinality(Broken)
        /\ Cardinality(Broken') \in Nat /\ Cardinality(Broken) \in Nat
    BY <1>2, SizeOfMore DEF CostInv
  <2>3. Cardinality(Missing') + Cardinality(Broken') <= faults'
    BY <1>1, <2>1, <2>2 DEF CostInv
  <2> QED
    BY <2>1, <2>2, <2>3 DEF CostInv
<1>3. CASE \E k : Missing' \subseteq Missing /\ Broken' \subseteq Broken \cup {k}
  <2>1. /\ IsFiniteSet(Missing') /\ Cardinality(Missing') <= Cardinality(Missing)
        /\ Cardinality(Missing') \in Nat /\ Cardinality(Missing) \in Nat
    BY <1>3, SizeOfMore DEF CostInv
  <2>2. /\ IsFiniteSet(Broken') /\ Cardinality(Broken') <= Cardinality(Broken) + 1
        /\ Cardinality(Broken') \in Nat /\ Cardinality(Broken) \in Nat
    BY <1>3, SizeOfMore DEF CostInv
  <2>3. Cardinality(Missing') + Cardinality(Broken') <= faults'
    BY <1>1, <2>1, <2>2 DEF CostInv
  <2> QED
    BY <2>1, <2>2, <2>3 DEF CostInv
<1> QED
  BY <1>2, <1>3 DEF OneMore

\* Nothing that was written is taken away.
LEMMA KeptStays ==
  ASSUME DOMAIN dir \subseteq DOMAIN dir',
         \A k \in DOMAIN dir : \A x : Has(dir[k], x) => Has(dir'[k], x)
  PROVE  \A m, a : Kept(m, a) => Kept(m, a)'
BY DEF Kept

\* A record can go missing in two ways: its action is new, or the command that carried
\* it does not carry it any more.
LEMMA WhatGoesMissing ==
  ASSUME NEW p \in Procs, OnlyMoves(p), \A m, a : Kept(m, a) => Kept(m, a)',
         NEW e \in Missing', e \notin Missing
  PROVE  e[2] \notin standing[e[1]] \/ Bringing(p, e[1], e[2])
<1>1. PICK q \in Procs : e[2] \notin standing[e[1]] \/ Bringing(q, e[1], e[2])
  BY DEF Missing
<1>2. CASE q # p /\ Bringing(q, e[1], e[2])
  <2>1. Bringing(q, e[1], e[2])'
    BY <1>2 DEF OnlyMoves, Bringing
  <2> QED
    BY <2>1 DEF Missing
<1> QED
  BY <1>1, <1>2

\* Steps of commands that are not writing, and that add no action.
LEMMA CostQuiet ==
  ASSUME NEW p \in Procs, OnlyMoves(p), pc[p] # "append", UNCHANGED dir,
         \A m \in Messages : standing'[m] \subseteq standing[m]
  PROVE  NoMore
<1>1. \A m, a : Kept(m, a) => Kept(m, a)'
  BY DEF Kept
<1>2. ASSUME NEW e \in Missing', e \notin Missing PROVE FALSE
  <2>1. e[2] \notin standing[e[1]]
    BY <1>1, <1>2, WhatGoesMissing DEF Bringing
  <2> QED
    BY <2>1 DEF Missing
<1>3. Broken' = Broken
  BY DEF Broken
<1> QED
  BY <1>2, <1>3 DEF NoMore

\* A change that is acknowledged is on its way to the file; one whose reply is lost costs
\* its record.
LEMMA CostModify ==
  ASSUME TypeInv, CostInv, NEW p \in Procs, Modify(p)
  PROVE  CostInv'
<1> USE DEF TypeInv
<1> DEFINE h == hand[p][1]
<1>1. PICK y \in Pieces : Sent(p, y)
  BY ModifyStep
<1>2. OnlyMoves(p) /\ hand'[p] = <<y>> /\ pc'[p] = "append" /\ pc[p] = "modify" /\ UNCHANGED dir
      /\ <<y>>[1] = y
  BY <1>1, HasSingle DEF Sent, TypeOK, OnlyMoves
<1>3. \A m, a : Kept(m, a) => Kept(m, a)'
  BY <1>2 DEF Kept
<1>4. Broken' = Broken
  BY <1>2 DEF Broken
<1>5. ASSUME NEW e \in Missing', e \notin Missing
      PROVE  Change(h.msg, h.rec) /\ e = <<h.msg, h.rec.action>>
  <2>1. e[2] \notin standing[e[1]] /\ e[2] \in standing'[e[1]] /\ e \in Messages \X Actions
    BY <1>2, <1>3, <1>5, WhatGoesMissing DEF Bringing, Missing
  <2>2. Change(h.msg, h.rec)
    BY <1>1, <2>1 DEF Sent, history
  <2>3. e[1] = h.msg /\ e[2] = h.rec.action
    BY <2>1, <2>2 DEF Change, TypeOK
  <2> QED
    BY <2>1, <2>2, <2>3
<1>6. CASE y = h /\ UNCHANGED faults
  <2>1. ASSUME NEW e \in Missing', e \notin Missing PROVE FALSE
    <3>1. e = <<h.msg, h.rec.action>>
      BY <1>5, <2>1
    <3>2. Bringing(p, e[1], e[2])'
      BY <1>1, <1>2, <1>6, <3>1 DEF Sent, Bringing
    <3> QED
      BY <3>2 DEF Missing
  <2>2. NoMore
    BY <1>4, <2>1 DEF NoMore
  <2> QED
    BY <1>6, <2>2, CostOfNoMore
<1>7. CASE Fault
  <2>1. OneMore
    BY <1>4, <1>5 DEF OneMore
  <2> QED
    BY <1>7, <2>1, CostOfOneMore DEF Fault
<1> QED
  BY <1>1, <1>6, <1>7 DEF Sent

\* A write that fails costs the record, when nothing of it is there, or the file, when it
\* was cut short; a whole line costs nothing.
LEMMA CostOfWrite ==
  ASSUME TypeInv, NEW p \in Procs, OnlyMoves(p), pc[p] = "append",
         dir' \in CutShort(p) \cup {Written(p, "line")}, UNCHANGED standing
  PROVE  /\ OneMore
         /\ dir' = Written(p, "line") => NoMore
<1> USE DEF TypeInv
<1> DEFINE h == hand[p][1]
<1>1. Len(hand[p]) = 1 /\ hand[p] \in Seq(Pieces) /\ id[p] \in RunIds
  BY DEF PlaceInv, PlaceAt, TypeOK
<1>2. h \in Pieces
  BY <1>1, HasOne
<1>3. ASSUME \A m, a : Kept(m, a) => Kept(m, a)',
             NEW e \in Missing', e \notin Missing
      PROVE  e = <<h.msg, h.rec.action>> /\ h.rec.outcome = "applied"
  <2>1. e[2] \notin standing[e[1]] \/ Bringing(p, e[1], e[2])
    BY <1>3, WhatGoesMissing
  <2>2. e \in Messages \X Actions /\ e[2] \in standing[e[1]]
    BY DEF Missing
  <2> QED
    BY <2>1, <2>2 DEF Bringing
<1>4. ASSUME NEW end \in Ends, dir' = Written(p, end)
      PROVE  /\ OneMore
             /\ end = "line" => NoMore
  <2> DEFINE d == Written(p, end)
             y == Left(p, end)
  <2>1. /\ DOMAIN d = DOMAIN dir \cup {id[p]}
        /\ \A k \in DOMAIN d : \A x :
             Has(d[k], x) <=> (k \in DOMAIN dir /\ Has(dir[k], x)) \/ (k = id[p] /\ x = y)
    BY <1>1, WrittenFile
  <2>2. y \in Pieces /\ y.msg = h.msg /\ y.rec = h.rec /\ y.end = end
    BY <1>2 DEF Left, Piece, Pieces
  <2> HIDE DEF d, y
  <2>3. dir' = d
    BY <1>4 DEF d
  <2>4. \A m, a : Kept(m, a) => Kept(m, a)'
    BY <2>1, <2>3, KeptStays
  <2>5. Missing' \subseteq Missing
    <3>1. SUFFICES ASSUME NEW e \in Missing', e \notin Missing PROVE FALSE
      OBVIOUS
    <3>2. e = <<h.msg, h.rec.action>> /\ h.rec.outcome = "applied"
      BY <1>3, <2>4, <3>1
    <3>3. Has(dir'[id[p]], y) /\ id[p] \in DOMAIN dir'
      BY <2>1, <2>3
    <3>4. e[1] = y.msg /\ e[2] = y.rec.action /\ y.rec.outcome = "applied"
      BY <2>2, <3>2
    <3>5. Kept(e[1], e[2])'
      BY <2>2, <3>3, <3>4 DEF Kept
    <3> QED
      BY <3>5 DEF Missing
  <2>6. ASSUME NEW k \in Broken', k \notin Broken PROVE k = id[p] /\ end # "line"
    <3>1. PICK x \in Pieces : k \in DOMAIN dir' /\ Has(dir'[k], x) /\ x.end # "line"
      BY <2>6 DEF Broken
    <3>2. k = id[p] /\ x = y
      BY <2>1, <2>3, <2>6, <3>1 DEF Broken
    <3> QED
      BY <2>2, <3>1, <3>2
  <2> QED
    BY <2>5, <2>6 DEF OneMore, NoMore
<1>5. ASSUME dir' = dir \/ dir' = Opened(id[p])
      PROVE  OneMore
  <2>1. /\ DOMAIN dir \subseteq DOMAIN dir'
        /\ \A k \in DOMAIN dir : \A x : Has(dir[k], x) => Has(dir'[k], x)
        /\ \A k \in DOMAIN dir' : \A x : Has(dir'[k], x) => k \in DOMAIN dir /\ Has(dir[k], x)
    <3>1. CASE dir' = dir
      BY <3>1
    <3>2. CASE dir' = Opened(id[p])
      <4> DEFINE o == Opened(id[p])
      <4>1. /\ DOMAIN o = DOMAIN dir \cup {id[p]}
            /\ \A k \in DOMAIN o : \A x : Has(o[k], x) <=> k \in DOMAIN dir /\ Has(dir[k], x)
        BY <1>1, OpenedFile
      <4> HIDE DEF o
      <4>2. dir' = o
        BY <3>2 DEF o
      <4> QED
        BY <4>1, <4>2
    <3> QED
      BY <1>5, <3>1, <3>2
  <2>2. Broken' \subseteq Broken
    BY <2>1 DEF Broken
  <2>3. \A m, a : Kept(m, a) => Kept(m, a)'
    BY <2>1, KeptStays
  <2> QED
    BY <1>3, <2>2, <2>3 DEF OneMore
<1>6. CASE dir' = Written(p, "line")
  BY <1>4, <1>6 DEF Ends
<1>7. CASE dir' # Written(p, "line")
  BY <1>4, <1>5, <1>7 DEF CutShort, Ends
<1> QED
  BY <1>6, <1>7

LEMMA CostAppend ==
  ASSUME TypeInv, CostInv, NEW p \in Procs, AppendRecord(p)
  PROVE  CostInv'
<1>1. /\ pc[p] = "append" /\ UNCHANGED standing
      /\ \/ dir' = Written(p, "line") /\ UNCHANGED faults
         \/ dir' \in CutShort(p) /\ Fault
  BY DEF AppendRecord, history
<1>2. OnlyMoves(p)
  BY DEF AppendRecord, Leave, Goto, TypeInv, TypeOK, OnlyMoves
<1>3. OneMore /\ (dir' = Written(p, "line") => NoMore)
  BY <1>1, <1>2, CostOfWrite
<1> QED
  BY <1>1, <1>3, CostOfNoMore, CostOfOneMore DEF Fault, TypeInv

LEMMA CostCrash ==
  ASSUME TypeInv, CostInv, NEW p \in Procs, Crash(p)
  PROVE  CostInv'
<1>1. OnlyMoves(p) /\ UNCHANGED standing /\ faults' = faults + 1
  BY DEF Crash, Leave, Fault, history, TypeInv, TypeOK, OnlyMoves
<1>2. CASE pc[p] = "append"
  <2>1. OneMore
    BY <1>1, <1>2, CostOfWrite DEF Crash
  <2> QED
    BY <1>1, <2>1, CostOfOneMore DEF TypeInv
<1>3. CASE pc[p] # "append"
  <2>1. NoMore
    BY <1>1, <1>3, CostQuiet DEF Crash
  <2> QED
    BY <1>1, <2>1, CostOfNoMore DEF TypeInv
<1> QED
  BY <1>2, <1>3

LEMMA CostNext == TypeInv /\ CostInv /\ [Next]_vars => CostInv'
<1> SUFFICES ASSUME TypeInv, CostInv, [Next]_vars PROVE CostInv'
  OBVIOUS
<1>1. ASSUME UNCHANGED <<dir, pc, hand, standing, faults>> PROVE CostInv'
  BY <1>1 DEF CostInv, Missing, Broken, Kept, Bringing
<1>2. ASSUME NEW p \in Procs, OnlyMoves(p), pc[p] # "append", UNCHANGED dir,
             \A m \in Messages : standing'[m] \subseteq standing[m],
             faults' = faults \/ faults' = faults + 1
      PROVE  CostInv'
  BY <1>2, CostQuiet, CostOfNoMore DEF TypeInv
<1>3. CASE Tick \/ UNCHANGED vars
  BY <1>1, <1>3 DEF Tick, vars, command, history
<1>4. ASSUME NEW p \in Procs, EmptyRun(p) PROVE CostInv'
  BY <1>1, <1>4 DEF EmptyRun, vars, command, history
<1>5. ASSUME NEW p \in Procs, BeginRun(p) \/ BeginReprocess(p) PROVE CostInv'
  <2>1. PICK s \in SUBSET Messages, again \in BOOLEAN : Begin(p, s, again)
    BY <1>5, BeginStep
  <2>2. OnlyMoves(p) /\ pc[p] # "append" /\ UNCHANGED <<dir, standing, faults>>
    BY <2>1 DEF Begin, Free, TypeInv, TypeOK, OnlyMoves
  <2> QED
    BY <1>2, <2>2
<1>6. ASSUME NEW p \in Procs, BeginRollback(p) PROVE CostInv'
  <2>1. PICK k \in DOMAIN dir : ReadIn(p, k)
    BY <1>6, ReadStep
  <2>2. OnlyMoves(p) /\ pc[p] # "append" /\ UNCHANGED <<dir, standing, faults>>
    BY <2>1 DEF ReadIn, TypeInv, TypeOK, OnlyMoves, history
  <2> QED
    BY <1>2, <2>2
<1>7. ASSUME NEW p \in Procs, Take(p) PROVE CostInv'
  <2>1. PICK y \in Pieces : Took(p, y)
    BY <1>7, TakeStep
  <2>2. OnlyMoves(p) /\ pc[p] # "append" /\ UNCHANGED <<dir, standing>>
    BY <2>1 DEF Took, TypeInv, TypeOK, OnlyMoves, history
  <2> QED
    BY <1>2, <2>1, <2>2 DEF Took, Fault
<1>8. ASSUME NEW p \in Procs, PlanOne(p) PROVE CostInv'
  <2>1. Looked(p, Head(hand[p]))
    BY <1>8, PlanStep
  <2>2. OnlyMoves(p) /\ pc[p] # "append" /\ UNCHANGED <<dir, standing, faults>>
    BY <2>1 DEF Looked, Leave, TypeInv, TypeOK, OnlyMoves, history
  <2> QED
    BY <1>2, <2>2
<1>9. ASSUME NEW p \in Procs, RevertOne(p) PROVE CostInv'
  <2>1. Undid(p, Head(plan[p]))
    BY <1>9, RevertStep
  <2>2. OnlyMoves(p) /\ pc[p] # "append" /\ UNCHANGED <<dir, faults>>
    BY <2>1 DEF Undid, Leave, TypeInv, TypeOK, OnlyMoves
  <2>3. \A m \in Messages : standing'[m] \subseteq standing[m]
    BY <2>1 DEF Undid, TypeInv, TypeOK
  <2> QED
    BY <1>2, <2>2, <2>3
<1>10. ASSUME NEW p \in Procs, Modify(p) \/ AppendRecord(p) \/ Crash(p) PROVE CostInv'
  BY <1>10, CostModify, CostAppend, CostCrash
<1> QED
  BY <1>3, <1>4, <1>5, <1>6, <1>7, <1>8, <1>9, <1>10 DEF Next, Step

LEMMA CostInit == Init => CostInv
<1> SUFFICES ASSUME Init PROVE CostInv
  OBVIOUS
<1>1. Missing = {} /\ Broken = {}
  BY DEF Init, Missing, Broken
<1>2. faults = 0 /\ IsFiniteSet({}) /\ Cardinality({}) = 0
  BY FS_EmptySet DEF Init
<1> QED
  BY <1>1, <1>2 DEF CostInv

\* What is lost is missing, and a file Read refuses has a line that was cut short.
LEMMA CostBoundsLoss ==
  ASSUME TypeInv, CostInv
  PROVE  AFaultCostsOneRecord
<1>1. Lost \subseteq Missing
  <2>1. SUFFICES ASSUME NEW e \in Lost PROVE e \in Missing
    OBVIOUS
  <2>2. ~Kept(e[1], e[2])
    BY DEF Lost, Recorded, Kept, Has
  <2>3. ASSUME NEW p \in Procs PROVE ~Bringing(p, e[1], e[2])
    BY DEF Lost, Carried, Bringing
  <2> QED
    BY <2>2, <2>3 DEF Lost, Missing
<1>2. Spoiled \subseteq Broken
  <2>1. SUFFICES ASSUME NEW k \in Spoiled PROVE k \in Broken
    OBVIOUS
  <2>2. k \in DOMAIN dir /\ dir[k] \in Seq(Pieces)
    BY DEF Spoiled, TypeInv, TypeOK
  <2>3. PICK i \in DOMAIN dir[k] : dir[k][i].end # "line"
    BY DEF Spoiled, Readable
  <2>4. dir[k][i] \in Pieces /\ Has(dir[k], dir[k][i])
    BY <2>2 DEF Has
  <2> QED
    BY <2>2, <2>3, <2>4 DEF Broken
<1>3. /\ Cardinality(Lost) <= Cardinality(Missing)
      /\ Cardinality(Lost) \in Nat /\ Cardinality(Missing) \in Nat
  BY <1>1, SizeOfMore DEF CostInv
<1>4. /\ Cardinality(Spoiled) <= Cardinality(Broken)
      /\ Cardinality(Spoiled) \in Nat /\ Cardinality(Broken) \in Nat
  BY <1>2, SizeOfMore DEF CostInv
<1>5. faults \in Nat
  BY LifecycleAssumption DEF TypeInv, TypeOK
<1> QED
  BY <1>3, <1>4, <1>5 DEF CostInv, AFaultCostsOneRecord

\* However many runs, rollbacks, lost replies, short writes and crashes follow each other,
\* on any mailbox: a fault costs the record of one change or one file, and nothing
\* else costs any, so all other changes that stand can be rolled back by run ID.
THEOREM FaultsCostOneRecordEach == Spec => []AFaultCostsOneRecord
<1>1. TypeInv /\ CostInv => AFaultCostsOneRecord
  BY CostBoundsLoss
<1> QED
  BY <1>1, TypeInvHolds, CostInit, CostNext, PTL DEF Spec

-----------------------------------------------------------------------------
(* Where records come from *)

\* The record x is about a message of S and, unless it says "skipped", holds a decision.
MayBe(x, S) == x.msg \in S /\ (x.rec.outcome = "skipped" \/ x.rec.action \in Actions)

\* Runs work on messages of S only, and so all records, on their way, written or planned
\* for a revert, are about messages of S.
Within(S) ==
  /\ \A p \in Procs : /\ todo[p] \subseteq S
                      /\ \A x : Has(hand[p], x) \/ Has(plan[p], x) => MayBe(x, S)
  /\ \A k \in DOMAIN dir : \A x : Has(dir[k], x) => MayBe(x, S)

\* It is enough to look at the command that moves, unless it writes.
LEMMA WithinMove ==
  ASSUME NEW S, Within(S), NEW p \in Procs, OnlyMoves(p), UNCHANGED dir, todo'[p] \subseteq S,
         \A x : Has(hand'[p], x) \/ Has(plan'[p], x) => MayBe(x, S)
  PROVE  Within(S)'
BY DEF Within, OnlyMoves, MayBe

\* A write adds the record in hand.
LEMMA WithinWrite ==
  ASSUME TypeInv, NEW S, Within(S), NEW p \in Procs, pc[p] = "append", OnlyMoves(p),
         dir' \in CutShort(p) \cup {Written(p, "line")},
         todo'[p] \subseteq todo[p], hand'[p] = <<>>, plan'[p] = <<>>
  PROVE  Within(S)'
<1> USE DEF TypeInv
<1>1. Len(hand[p]) = 1 /\ hand[p] \in Seq(Pieces) /\ id[p] \in RunIds
  BY DEF PlaceInv, PlaceAt, TypeOK
<1>2. MayBe(hand[p][1], S)
  BY <1>1, HasOne DEF Within
<1>3. \A k \in DOMAIN dir' : \A x : Has(dir'[k], x) => MayBe(x, S)
  <2>1. CASE dir' = dir
    BY <2>1 DEF Within
  <2>2. CASE dir' = Opened(id[p])
    <3> DEFINE o == Opened(id[p])
    <3>1. \A k \in DOMAIN o : \A x : Has(o[k], x) => k \in DOMAIN dir /\ Has(dir[k], x)
      BY <1>1, OpenedFile
    <3> HIDE DEF o
    <3>2. dir' = o
      BY <2>2 DEF o
    <3> QED
      BY <3>1, <3>2 DEF Within
  <2>3. ASSUME NEW end \in Ends, dir' = Written(p, end)
        PROVE  \A k \in DOMAIN dir' : \A x : Has(dir'[k], x) => MayBe(x, S)
    <3> DEFINE d == Written(p, end)
    <3>1. \A k \in DOMAIN d : \A x :
            Has(d[k], x) => (k \in DOMAIN dir /\ Has(dir[k], x)) \/ x = Left(p, end)
      BY <1>1, WrittenFile
    <3>2. MayBe(Left(p, end), S)
      BY <1>2 DEF MayBe, Left, Piece
    <3> HIDE DEF d
    <3>3. dir' = d
      BY <2>3 DEF d
    <3> QED
      BY <3>1, <3>2, <3>3 DEF Within
  <2> QED
    BY <2>1, <2>2, <2>3 DEF CutShort, Ends
<1>4. todo'[p] \subseteq S
  BY DEF Within
<1>5. \A q \in Procs : \A x : Has(hand'[q], x) \/ Has(plan'[q], x) => MayBe(x, S)
  BY HasNone DEF Within, OnlyMoves
<1>6. \A q \in Procs : todo'[q] \subseteq S
  BY <1>4 DEF Within, OnlyMoves
<1> QED
  BY <1>3, <1>5, <1>6 DEF Within, MayBe

LEMMA WithinNext ==
  ASSUME TypeInv, NEW S, Within(S), [Next]_vars, \A p \in Procs : todo'[p] \subseteq S
  PROVE  Within(S)'
<1>1. ASSUME UNCHANGED <<dir, todo, hand, plan>> PROVE Within(S)'
  BY <1>1 DEF Within, MayBe
<1>2. CASE Tick \/ UNCHANGED vars
  BY <1>1, <1>2 DEF Tick, vars, command
<1>3. ASSUME NEW p \in Procs, EmptyRun(p) PROVE Within(S)'
  BY <1>1, <1>3 DEF EmptyRun, vars, command
<1>4. ASSUME NEW p \in Procs, BeginRun(p) \/ BeginReprocess(p) PROVE Within(S)'
  <2>1. PICK s \in SUBSET Messages, again \in BOOLEAN : Begin(p, s, again)
    BY <1>4, BeginStep
  <2>2. OnlyMoves(p) /\ UNCHANGED <<dir, hand, plan>>
    BY <2>1 DEF Begin, TypeInv, TypeOK, OnlyMoves
  <2> QED
    BY <2>2, WithinMove DEF Within
<1>5. ASSUME NEW p \in Procs, BeginRollback(p) PROVE Within(S)'
  <2>1. PICK k \in DOMAIN dir : ReadIn(p, k)
    BY <1>5, ReadStep
  <2>2. OnlyMoves(p) /\ UNCHANGED <<dir, plan>> /\ hand'[p] = dir[k]
    BY <2>1 DEF ReadIn, TypeInv, TypeOK, OnlyMoves
  <2> QED
    BY <2>2, WithinMove DEF Within
<1>6. ASSUME NEW p \in Procs, Take(p) PROVE Within(S)'
  <2>1. PICK y \in Pieces : Took(p, y)
    BY <1>6, TakeStep
  <2>2. OnlyMoves(p) /\ UNCHANGED <<dir, plan>> /\ hand'[p] = <<y>> /\ MayBe(y, S)
    BY <2>1 DEF Took, TypeInv, TypeOK, OnlyMoves, Within, MayBe
  <2>3. \A x : Has(hand'[p], x) => x = y
    BY <2>2, HasSingle
  <2> QED
    BY <2>2, <2>3, WithinMove DEF Within
<1>7. ASSUME NEW p \in Procs, Modify(p) PROVE Within(S)'
  <2>1. PICK y \in Pieces : Sent(p, y)
    BY <1>7, ModifyStep
  <2>2. OnlyMoves(p) /\ UNCHANGED <<dir, plan>> /\ hand'[p] = <<y>>
    BY <2>1 DEF Sent, TypeInv, TypeOK, OnlyMoves
  <2>3. hand[p] \in Seq(Pieces) /\ Len(hand[p]) = 1
    BY <2>1 DEF Sent, TypeInv, TypeOK, PlaceInv, PlaceAt
  <2>4. MayBe(hand[p][1], S)
    BY <2>3, HasOne DEF Within
  <2>5. MayBe(y, S)
    BY <2>1, <2>4 DEF Sent, MayBe
  <2>6. \A x : Has(hand'[p], x) => x = y
    BY <2>2, HasSingle
  <2> QED
    BY <2>2, <2>5, <2>6, WithinMove DEF Within
<1>8. ASSUME NEW p \in Procs, AppendRecord(p) PROVE Within(S)'
  <2>1. /\ pc[p] = "append" /\ dir' \in CutShort(p) \cup {Written(p, "line")}
        /\ OnlyMoves(p) /\ todo' = todo /\ hand'[p] = <<>> /\ plan'[p] = <<>>
    BY <1>8 DEF AppendRecord, Leave, Goto, TypeInv, TypeOK, OnlyMoves, PlaceInv, PlaceAt
  <2> QED
    BY <2>1, WithinWrite
<1>9. ASSUME NEW p \in Procs, PlanOne(p) PROVE Within(S)'
  <2> DEFINE h == Head(hand[p])
  <2>1. Looked(p, h)
    BY <1>9, PlanStep
  <2>2. /\ hand[p] \in Seq(Pieces) /\ hand[p] # <<>> /\ plan[p] \in Seq(Pieces)
        /\ OnlyMoves(p) /\ UNCHANGED dir /\ hand'[p] = Tail(hand[p])
        /\ plan'[p] \in {plan[p], Append(plan[p], h)}
    BY <2>1 DEF Looked, Leave, TypeInv, TypeOK, OnlyMoves, PlaceInv, PlaceAt
  <2>3. h \in Pieces /\ MayBe(h, S) /\ \A x : Has(hand'[p], x) => Has(hand[p], x)
    BY <2>2, HasTail DEF Within
  <2> HIDE DEF h
  <2>4. \A x : Has(Append(plan[p], h), x) <=> Has(plan[p], x) \/ x = h
    BY <2>2, <2>3, HasAppended
  <2>5. \A x : Has(plan'[p], x) => Has(plan[p], x) \/ x = h
    BY <2>2, <2>4
  <2> QED
    BY <2>2, <2>3, <2>5, WithinMove DEF Within
<1>10. ASSUME NEW p \in Procs, RevertOne(p) PROVE Within(S)'
  <2>1. Undid(p, Head(plan[p]))
    BY <1>10, RevertStep
  <2>2. /\ plan[p] \in Seq(Pieces) /\ plan[p] # <<>>
        /\ OnlyMoves(p) /\ UNCHANGED <<dir, hand>> /\ plan'[p] = Tail(plan[p])
    BY <2>1 DEF Undid, Leave, TypeInv, TypeOK, OnlyMoves, PlaceInv, PlaceAt
  <2>3. \A x : Has(plan'[p], x) => Has(plan[p], x)
    BY <2>2, HasTail
  <2> QED
    BY <2>2, <2>3, WithinMove DEF Within
<1>11. ASSUME NEW p \in Procs, Crash(p) PROVE Within(S)'
  <2>1. OnlyMoves(p) /\ todo'[p] = {} /\ hand'[p] = <<>> /\ plan'[p] = <<>>
    BY <1>11 DEF Crash, Leave, TypeInv, TypeOK, OnlyMoves
  <2>2. CASE pc[p] = "append"
    BY <1>11, <2>1, <2>2, WithinWrite DEF Crash
  <2>3. CASE pc[p] # "append"
    BY <1>11, <2>1, <2>3, HasNone, WithinMove DEF Crash
  <2> QED
    BY <2>2, <2>3
<1> QED
  BY <1>2, <1>3, <1>4, <1>5, <1>6, <1>7, <1>8, <1>9, <1>10, <1>11 DEF Next, Step

LEMMA WithinInit ==
  ASSUME Init, NEW S
  PROVE  Within(S)
<1>1. \A p \in Procs : todo[p] = {} /\ hand[p] = <<>> /\ plan[p] = <<>>
  BY DEF Init
<1>2. DOMAIN dir = {}
  BY DEF Init
<1> QED
  BY <1>1, <1>2, HasNone DEF Within

-----------------------------------------------------------------------------
(* A rollback leaves nothing behind *)

CleanerIds == toLabelIDs(CleanerLabels)

\* Messages no cleaner has looked at yet, and that are not in the trash.
FreshViews == \A v \in Views : "TRASH" \notin v /\ v \cap CleanerIds = {}

\* Apart from the cleaner's own labels a message has the labels of the beginning, o, or it
\* was moved to the trash since, from the inbox; and a cleaner label is there because
\* of an action that stands.
MailOf(o) ==
  \A m \in Messages :
    /\ labels[m] \ CleanerIds =
         IF TrashAction \in standing[m] THEN (o[m] \ {"INBOX"}) \cup {"TRASH"} ELSE o[m]
    /\ \A n \in CleanerLabels :
         IdOf[n] \in labels[m] => \E a \in standing[m] : n \in a.add
    /\ TrashAction \in standing[m] => "INBOX" \in o[m]

FromInbox(o) == {m \in Messages : "INBOX" \in o[m]}

OriginOf(o) == MailOf(o) /\ Within(FromInbox(o))

OriginInv == \E o \in [Messages -> Views] : OriginOf(o)

\* The IDs of the cleaner's labels are none of Gmail's own.
LEMMA CleanerIdsApart ==
  /\ "INBOX" \notin CleanerIds /\ "TRASH" \notin CleanerIds
  /\ \A n \in CleanerLabels, s \in SUBSET CleanerLabels : IdOf[n] \in toLabelIDs(s) <=> n \in s
BY LabelAssumption DEF CleanerIds, toLabelIDs, CleanerLabels, LabelNames, SystemLabels

\* What is in the inbox now was there in the beginning.
LEMMA InboxThen ==
  ASSUME NEW o, MailOf(o), NEW m \in Messages, "INBOX" \in labels[m]
  PROVE  m \in FromInbox(o)
<1>1. "INBOX" \in labels[m] \ CleanerIds
  BY CleanerIdsApart
<1>2. labels[m] \ CleanerIds \in {o[m], (o[m] \ {"INBOX"}) \cup {"TRASH"}}
  BY DEF MailOf
<1> QED
  BY <1>1, <1>2 DEF FromInbox

\* A run takes its messages from the inbox.
LEMMA TakenFromInbox ==
  ASSUME TypeInv, NEW o, OriginOf(o), [Next]_vars, NEW p \in Procs
  PROVE  todo'[p] \subseteq FromInbox(o)
<1>1. todo[p] \subseteq FromInbox(o)
  BY DEF OriginOf, Within
<1>2. CASE todo'[p] \subseteq todo[p]
  BY <1>1, <1>2
<1>3. ASSUME NEW q \in Procs, BeginRun(q) \/ BeginReprocess(q)
      PROVE  todo'[p] \subseteq FromInbox(o)
  <2>1. PICK s \in SUBSET Messages : /\ todo' = [todo EXCEPT ![q] = s]
                                     /\ \A m \in s : "INBOX" \in labels[m]
    BY <1>3 DEF BeginRun, BeginReprocess, Begin, Unprocessed, MatchesUnprocessed, MatchesReprocess
  <2>2. s \subseteq FromInbox(o)
    BY <2>1, InboxThen DEF OriginOf
  <2> QED
    BY <1>1, <2>1, <2>2 DEF TypeInv, TypeOK
<1>4. ASSUME NEW q \in Procs, BeginRollback(q) \/ Step(q) \/ Crash(q) \/ EmptyRun(q)
      PROVE  todo'[p] \subseteq todo[p]
  BY <1>4 DEF BeginRollback, Step, Take, Modify, AppendRecord, PlanOne, RevertOne, Crash, EmptyRun,
              TypeInv, TypeOK, vars, command
<1>5. CASE Tick \/ UNCHANGED vars
  BY <1>2, <1>5 DEF Tick, vars, command
<1> QED
  BY <1>2, <1>3, <1>4, <1>5 DEF Next

\* Gmail executes a change.
LEMMA MailOfChange ==
  ASSUME TypeInv, NEW o, MailOf(o), NEW h \in Pieces, h.rec.action \in Actions,
         h.msg \in FromInbox(o), Change(h.msg, h.rec)
  PROVE  MailOf(o)'
<1> DEFINE m == h.msg
           a == h.rec.action
<1>1. /\ m \in Messages /\ "INBOX" \in o[m]
      /\ labels'[m] = (labels[m] \ toLabelIDs(a.remove)) \cup toLabelIDs(a.add)
      /\ standing'[m] = standing[m] \cup {a}
      /\ \A k \in Messages \ {m} : labels'[k] = labels[k] /\ standing'[k] = standing[k]
  BY DEF Change, Modified, TypeInv, TypeOK, FromInbox
<1> HIDE DEF m, a
<1>2. a \in Actions
  BY DEF a
<1>3. CASE a = TrashAction
  <2>1. labels'[m] = (labels[m] \ {"INBOX"}) \cup {"TRASH"}
    BY <1>1, <1>3, SystemIds, TrashShape
  <2>2. labels'[m] \ CleanerIds = (o[m] \ {"INBOX"}) \cup {"TRASH"}
    BY <1>1, <2>1, CleanerIdsApart DEF MailOf
  <2>3. \A n \in CleanerLabels : IdOf[n] \in labels'[m] => IdOf[n] \in labels[m]
    BY <2>1, CleanerIdsApart DEF CleanerIds, toLabelIDs
  <2> QED
    BY <1>1, <1>3, <2>2, <2>3 DEF MailOf
<1>4. CASE a # TrashAction
  <2>1. a.add \in SUBSET CleanerLabels /\ a.remove = {}
    BY <1>2, <1>4, TagShape DEF Tags
  <2>2. labels'[m] = labels[m] \cup toLabelIDs(a.add) /\ toLabelIDs(a.add) \subseteq CleanerIds
    BY <1>1, <2>1, SystemIds DEF CleanerIds, toLabelIDs
  <2>3. labels'[m] \ CleanerIds = labels[m] \ CleanerIds
    BY <2>2
  <2>4. \A n \in CleanerLabels : IdOf[n] \in labels'[m] => IdOf[n] \in labels[m] \/ n \in a.add
    BY <2>1, <2>2, CleanerIdsApart
  <2> QED
    BY <1>1, <1>4, <2>3, <2>4 DEF MailOf
<1> QED
  BY <1>3, <1>4

\* A record is reverted: a message that was trashed gets back what it had in the inbox,
\* and any other loses the labels of the action and no more.
LEMMA MailOfRevert ==
  ASSUME FreshViews, TypeInv, NEW o \in [Messages -> Views], MailOf(o),
         NEW h \in Pieces, h.msg \in FromInbox(o),
         labels' = [labels EXCEPT ![h.msg] = Reverted(h.rec, @)],
         standing' = [standing EXCEPT ![h.msg] = @ \ {h.rec.action}]
  PROVE  MailOf(o)'
<1> DEFINE m == h.msg
           a == h.rec.action
<1>1. /\ m \in Messages /\ "INBOX" \in o[m] /\ "TRASH" \notin o[m]
      /\ labels'[m] = Reverted(h.rec, labels[m])
      /\ standing'[m] = standing[m] \ {a}
      /\ \A k \in Messages \ {m} : labels'[k] = labels[k] /\ standing'[k] = standing[k]
  BY DEF FreshViews, TypeInv, TypeOK, FromInbox
<1>2. a \in Actions \cup {NoAction}
  BY DEF Pieces, Record
<1>3. CASE a = TrashAction
  <2>1. labels'[m] = (labels[m] \ {"TRASH"}) \cup {"INBOX"}
    BY <1>1, <1>3, TrashShape DEF Reverted, Untrashed
  <2>2. labels'[m] \ CleanerIds = ((labels[m] \ CleanerIds) \ {"TRASH"}) \cup {"INBOX"}
    BY <2>1, CleanerIdsApart
  <2>3. labels'[m] \ CleanerIds = o[m]
    BY <1>1, <2>2 DEF MailOf
  <2>4. TrashAction \notin standing'[m]
    BY <1>1, <1>3
  <2>5. ASSUME NEW n \in CleanerLabels, IdOf[n] \in labels'[m]
        PROVE  \E b \in standing'[m] : n \in b.add
    <3>1. IdOf[n] \in labels[m]
      BY <2>1, <2>5, CleanerIdsApart DEF CleanerIds, toLabelIDs
    <3>2. PICK b \in standing[m] : n \in b.add
      BY <1>1, <3>1 DEF MailOf
    <3>3. b # a
      BY <1>3, <3>2, TrashShape, LabelAssumption DEF SystemLabels
    <3> QED
      BY <1>1, <3>2, <3>3
  <2> HIDE DEF m, a
  <2> QED
    BY <1>1, <2>3, <2>4, <2>5 DEF MailOf
<1>4. CASE a # TrashAction
  <2>1. a.add \in SUBSET CleanerLabels /\ a.remove = {}
    BY <1>2, <1>4, TagShape DEF Tags, NoAction
  <2>2. "TRASH" \notin a.add
    BY <2>1, LabelAssumption DEF SystemLabels
  <2>3. labels'[m] = labels[m] \ toLabelIDs(a.add)
    BY <1>1, <2>1, <2>2, SystemIds DEF Reverted, Modified
  <2>4. labels'[m] \ CleanerIds = labels[m] \ CleanerIds
    BY <2>1, <2>3 DEF CleanerIds, toLabelIDs
  <2>5. TrashAction \in standing'[m] <=> TrashAction \in standing[m]
    BY <1>1, <1>4
  <2>6. ASSUME NEW n \in CleanerLabels, IdOf[n] \in labels'[m]
        PROVE  \E b \in standing'[m] : n \in b.add
    <3>1. IdOf[n] \in labels[m] /\ n \notin a.add
      BY <2>1, <2>3, <2>6, CleanerIdsApart
    <3>2. PICK b \in standing[m] : n \in b.add
      BY <1>1, <3>1 DEF MailOf
    <3> QED
      BY <1>1, <3>1, <3>2
  <2> HIDE DEF m, a
  <2> QED
    BY <1>1, <2>4, <2>5, <2>6 DEF MailOf
<1> QED
  BY <1>3, <1>4

LEMMA MailOfNext ==
  ASSUME FreshViews, TypeInv, NEW o \in [Messages -> Views], OriginOf(o), [Next]_vars
  PROVE  MailOf(o)'
<1>1. ASSUME UNCHANGED <<labels, standing>> PROVE MailOf(o)'
  BY <1>1 DEF OriginOf, MailOf
<1>2. ASSUME NEW p \in Procs, Modify(p) PROVE MailOf(o)'
  <2> DEFINE h == hand[p][1]
  <2>1. PICK y \in Pieces : Sent(p, y)
    BY <1>2, ModifyStep
  <2>2. h \in Pieces /\ h.rec.action \in Actions
    BY <2>1 DEF Sent
  <2>3. h.msg \in FromInbox(o)
    <3>1. hand[p] \in Seq(Pieces) /\ Len(hand[p]) = 1
      BY <2>1 DEF Sent, TypeInv, TypeOK, PlaceInv, PlaceAt
    <3> QED
      BY <3>1, HasOne DEF OriginOf, Within, MayBe
  <2>4. Change(h.msg, h.rec) \/ UNCHANGED <<labels, standing>>
    BY <2>1 DEF Sent, history
  <2> QED
    BY <1>1, <2>2, <2>3, <2>4, MailOfChange DEF OriginOf
<1>3. ASSUME NEW p \in Procs, RevertOne(p) PROVE MailOf(o)'
  <2> DEFINE h == Head(plan[p])
  <2>1. Undid(p, h)
    BY <1>3, RevertStep
  <2>2. h \in Pieces /\ h.msg \in FromInbox(o)
    BY <2>1 DEF Undid, OriginOf, Within, MayBe
  <2> HIDE DEF h
  <2> QED
    BY <1>1, <2>1, <2>2, MailOfRevert DEF Undid, OriginOf
<1>4. ASSUME NEW p \in Procs,
             \/ BeginRun(p) \/ EmptyRun(p) \/ BeginReprocess(p) \/ BeginRollback(p)
             \/ Take(p) \/ AppendRecord(p) \/ PlanOne(p) \/ Crash(p)
      PROVE  UNCHANGED <<labels, standing>>
  BY <1>4 DEF BeginRun, EmptyRun, BeginReprocess, Begin, BeginRollback, Take, AppendRecord, PlanOne,
              Crash, vars, history
<1>5. CASE Tick \/ UNCHANGED vars
  BY <1>1, <1>5 DEF Tick, vars, history
<1> QED
  BY <1>1, <1>2, <1>3, <1>4, <1>5 DEF Next, Step

LEMMA OriginNext == FreshViews /\ TypeInv /\ OriginInv /\ [Next]_vars => OriginInv'
<1> SUFFICES ASSUME FreshViews, TypeInv, [Next]_vars, NEW o \in [Messages -> Views], OriginOf(o)
             PROVE  OriginOf(o)'
  BY DEF OriginInv
<1>1. MailOf(o)'
  BY MailOfNext
<1>2. Within(FromInbox(o))'
  BY TakenFromInbox, WithinNext DEF OriginOf
<1> QED
  BY <1>1, <1>2 DEF OriginOf, FromInbox

LEMMA OriginInit == FreshViews /\ Init => OriginInv
<1> SUFFICES ASSUME FreshViews, Init PROVE OriginOf(labels)
  BY DEF Init, OriginInv
<1>1. ASSUME NEW m \in Messages
      PROVE  labels[m] \cap CleanerIds = {} /\ standing[m] = {}
  BY DEF Init, FreshViews
<1>2. \A n \in CleanerLabels : IdOf[n] \in CleanerIds
  BY DEF CleanerIds, toLabelIDs
<1>3. MailOf(labels)
  BY <1>1, <1>2 DEF MailOf
<1> QED
  BY <1>3, WithinInit DEF OriginOf

\* A message nothing stands on is as it was in the beginning, if the cleaner had not
\* looked at it before: rollbacks of any runs in any order, twice over or while runs
\* are at work, with lost replies and crashes in between, leave no trace.
THEOREM RollbackLeavesNoTrace ==
  ASSUME FreshViews
  PROVE  Spec => []RolledBackIsAsBefore
<1>1. OriginInv => RolledBackIsAsBefore
  <2>1. SUFFICES ASSUME NEW o \in [Messages -> Views], OriginOf(o),
                        NEW m \in Messages, standing[m] = {}
                 PROVE  labels[m] = o[m]
    BY DEF OriginInv, RolledBackIsAsBefore
  <2>2. labels[m] \ CleanerIds = o[m]
    BY <2>1 DEF OriginOf, MailOf
  <2>3. labels[m] \cap CleanerIds = {}
    BY <2>1 DEF OriginOf, MailOf, CleanerIds, toLabelIDs
  <2> QED
    BY <2>2, <2>3
<1> QED
  BY <1>1, OriginInit, OriginNext, TypeInvHolds, PTL DEF Spec

-----------------------------------------------------------------------------
(* One verdict per message *)

\* The config names every label the policy can add (none is left blank), and no label has
\* the ID of a label for its name: audit.ShouldRevert, which compares names with IDs,
\* then sees the move to the trash and nothing else.
AllConfigured == Configured = CleanerLabels
NoNameIsAnId == CleanerLabels \cap LabelIds = {}

\* Command p is going to decide about m, or has decided and not sent it.
AtModify(p, m) == pc[p] = "modify" /\ hand[p][1].msg = m
Due(p, m) == m \in todo[p] \/ AtModify(p, m)

\* What stands on a message hides it from the next run, and what a run is going to decide
\* about has no verdict and is in no other command's work.
OneAt(m) ==
  /\ \A a, b \in standing[m] : a = b
  /\ TrashAction \in standing[m] => "INBOX" \notin labels[m]
  /\ \A a \in standing[m] \ {TrashAction} : toLabelIDs(a.add) \subseteq labels[m]
  /\ \A p \in Procs : Due(p, m) => standing[m] = {} /\ ~(m \in todo[p] /\ AtModify(p, m))
  /\ \A p, q \in Procs : Due(p, m) /\ Due(q, m) => p = q

\* Only moves to the trash are planned for a revert.
PlansTrash == \A p \in Procs : \A x : Has(plan[p], x) => x.rec.action = TrashAction

OneInv == Within(Messages) /\ PlansTrash /\ \A m \in Messages \ contested : OneAt(m)

\* A step that decides about nothing new.
LEMMA OneQuiet ==
  ASSUME NEW m, OneAt(m), labels'[m] = labels[m], standing'[m] = standing[m],
         \A p \in Procs : /\ m \in todo'[p] => m \in todo[p]
                          /\ AtModify(p, m)' => AtModify(p, m)
  PROVE  OneAt(m)'
BY DEF OneAt, Due

\* What has a verdict does not match the query of a run.
LEMMA VerdictsHide ==
  ASSUME AllConfigured, TypeInv, NEW m \in Messages, OneAt(m), m \in Unprocessed
  PROVE  standing[m] = {}
<1>1. SUFFICES ASSUME NEW a \in standing[m] PROVE FALSE
  OBVIOUS
<1>2. "INBOX" \in labels[m] /\ labels[m] \cap toLabelIDs(CleanerLabels) = {}
  BY DEF AllConfigured, Unprocessed, MatchesUnprocessed
<1>3. a \in Actions
  BY DEF TypeInv, TypeOK
<1>4. a # TrashAction
  BY <1>2 DEF OneAt
<1>5. a.add \in SUBSET CleanerLabels /\ a.add # {} /\ toLabelIDs(a.add) \subseteq labels[m]
  BY <1>3, <1>4, TagShape DEF Tags, OneAt
<1> QED
  BY <1>2, <1>5 DEF toLabelIDs

LEMMA OneBegin ==
  ASSUME AllConfigured, TypeInv, OneInv, NEW p \in Procs, BeginRun(p) \/ BeginReprocess(p),
         NEW m \in Messages \ contested'
  PROVE  OneAt(m)'
<1>1. PICK s \in SUBSET Messages, again \in BOOLEAN :
        Begin(p, s, again) /\ (again \/ s = Unprocessed)
  BY BeginStep
<1>2. /\ pc[p] = "idle" /\ pc' = [pc EXCEPT ![p] = "run"] /\ todo' = [todo EXCEPT ![p] = s]
      /\ contested' = contested \cup {k \in s : again \/ \E q \in Procs \ {p} : k \in InWork(q)}
      /\ UNCHANGED <<labels, hand, standing>>
  BY <1>1 DEF Begin, Free
<1>3. m \in Messages \ contested /\ OneAt(m)
  BY <1>2 DEF OneInv
<1>4. \A q \in Procs : AtModify(q, m)' => AtModify(q, m)
  BY <1>2 DEF AtModify, TypeInv, TypeOK
<1>5. CASE m \notin s
  <2>1. \A q \in Procs : m \in todo'[q] => m \in todo[q]
    BY <1>2, <1>5 DEF TypeInv, TypeOK
  <2> QED
    BY <1>2, <1>3, <1>4, <2>1, OneQuiet
<1>6. CASE m \in s
  <2>1. ~again /\ \A q \in Procs \ {p} : m \notin InWork(q)
    BY <1>2, <1>6
  <2>2. standing[m] = {}
    BY <1>1, <1>3, <1>6, <2>1, VerdictsHide
  <2>3. ASSUME NEW q \in Procs, q # p PROVE ~Due(q, m)'
    <3>1. m \notin todo'[q]
      BY <1>2, <2>1, <2>3 DEF InWork, TypeInv, TypeOK
    <3>2. ~AtModify(q, m)
      <4>1. SUFFICES ASSUME pc[q] = "modify" PROVE hand[q][1].msg # m
        BY DEF AtModify
      <4>2. hand[q] \in Seq(Pieces) /\ Len(hand[q]) = 1
        BY <4>1 DEF TypeInv, TypeOK, PlaceInv, PlaceAt
      <4>3. 1 \in DOMAIN hand[q]
        BY <4>2
      <4> QED
        BY <2>1, <2>3, <4>3 DEF InWork
    <3> QED
      BY <1>4, <3>1, <3>2 DEF Due
  <2>4. ~AtModify(p, m)'
    BY <1>2 DEF AtModify, TypeInv, TypeOK
  <2> QED
    BY <1>2, <2>2, <2>3, <2>4 DEF OneAt, Due
<1> QED
  BY <1>5, <1>6

LEMMA OneTake ==
  ASSUME TypeInv, OneInv, NEW p \in Procs, Take(p), NEW m \in Messages \ contested'
  PROVE  OneAt(m)'
<1>1. PICK y \in Pieces : Took(p, y)
  BY TakeStep
<1>2. /\ y.msg \in todo[p] /\ todo' = [todo EXCEPT ![p] = @ \ {y.msg}]
      /\ pc[p] = "run" /\ hand' = [hand EXCEPT ![p] = <<y>>]
      /\ pc' \in {[pc EXCEPT ![p] = "modify"], [pc EXCEPT ![p] = "append"]}
      /\ UNCHANGED <<labels, standing, contested>>
  BY <1>1 DEF Took, history
<1>3. m \in Messages \ contested /\ OneAt(m)
  BY <1>2 DEF OneInv
<1>4. \A q \in Procs \ {p} : /\ m \in todo'[q] <=> m \in todo[q]
                             /\ AtModify(q, m)' <=> AtModify(q, m)
  BY <1>2 DEF AtModify, TypeInv, TypeOK
<1>5. <<y>>[1] = y
  BY HasSingle
<1>6. /\ ~AtModify(p, m)
      /\ AtModify(p, m)' => m = y.msg
      /\ m \in todo'[p] <=> m \in todo[p] /\ m # y.msg
  BY <1>2, <1>5 DEF AtModify, TypeInv, TypeOK
<1>7. ASSUME NEW q \in Procs
      PROVE  /\ Due(q, m)' => Due(q, m)
             /\ m \in todo'[q] /\ AtModify(q, m)' => m \in todo[q] /\ AtModify(q, m)
  <2>1. CASE q = p
    BY <1>2, <1>6, <2>1 DEF Due
  <2>2. CASE q # p
    BY <1>4, <2>2 DEF Due
  <2> QED
    BY <2>1, <2>2
<1> QED
  BY <1>2, <1>3, <1>7 DEF OneAt

LEMMA OneModify ==
  ASSUME TypeInv, OneInv, NEW p \in Procs, Modify(p), NEW m \in Messages \ contested'
  PROVE  OneAt(m)'
<1> DEFINE h == hand[p][1]
           a == h.rec.action
<1>1. PICK y \in Pieces : Sent(p, y)
  BY ModifyStep
<1>2. /\ pc[p] = "modify" /\ h \in Pieces /\ a \in Actions
      /\ hand' = [hand EXCEPT ![p] = <<y>>] /\ pc' = [pc EXCEPT ![p] = "append"]
      /\ Change(h.msg, h.rec) \/ UNCHANGED <<labels, standing>>
      /\ UNCHANGED <<todo, contested>>
  BY <1>1 DEF Sent, history
<1>3. m \in Messages \ contested /\ OneAt(m)
  BY <1>2 DEF OneInv
<1>4. \A q \in Procs : /\ m \in todo'[q] <=> m \in todo[q]
                       /\ AtModify(q, m)' => AtModify(q, m) /\ q # p
  BY <1>2 DEF AtModify, TypeInv, TypeOK
<1>5. CASE UNCHANGED <<labels, standing>> \/ h.msg # m
  <2>1. labels'[m] = labels[m] /\ standing'[m] = standing[m]
    BY <1>2, <1>5 DEF Change, TypeInv, TypeOK
  <2> QED
    BY <1>3, <1>4, <2>1, OneQuiet
<1>6. CASE Change(h.msg, h.rec) /\ h.msg = m
  <2>1. AtModify(p, m) /\ standing[m] = {} /\ m \notin todo[p] /\ \A q \in Procs : Due(q, m) => q = p
    BY <1>2, <1>3, <1>6 DEF AtModify, OneAt, Due
  <2>2. \A q \in Procs : ~Due(q, m)'
    BY <1>4, <2>1 DEF Due
  <2>3. /\ labels'[m] = (labels[m] \ toLabelIDs(a.remove)) \cup toLabelIDs(a.add)
        /\ standing'[m] = {a}
    BY <1>3, <1>6, <2>1 DEF Change, Modified, TypeInv, TypeOK
  <2>4. a = TrashAction => "INBOX" \notin labels'[m]
    <3>1. a = TrashAction => labels'[m] = (labels[m] \ {"INBOX"}) \cup {"TRASH"}
      BY <2>3, SystemIds, TrashShape
    <3> QED
      BY <3>1
  <2> HIDE DEF a
  <2> QED
    BY <2>2, <2>3, <2>4 DEF OneAt
<1> QED
  BY <1>2, <1>5, <1>6

LEMMA OneRevert ==
  ASSUME TypeInv, OneInv, NEW p \in Procs, RevertOne(p), NEW m \in Messages \ contested'
  PROVE  OneAt(m)'
<1> DEFINE h == Head(plan[p])
<1>1. Undid(p, h)
  BY RevertStep
<1>2. /\ h \in Pieces /\ h.rec.action = TrashAction /\ UNCHANGED <<todo, hand, contested>>
      /\ \/ /\ labels' = [labels EXCEPT ![h.msg] = Reverted(h.rec, @)]
            /\ standing' = [standing EXCEPT ![h.msg] = @ \ {h.rec.action}]
         \/ UNCHANGED <<labels, standing>>
      /\ pc'[p] # "modify" /\ \A q \in Procs \ {p} : pc'[q] = pc[q]
  BY <1>1 DEF Undid, Leave, OneInv, PlansTrash, TypeInv, TypeOK
<1> HIDE DEF h
<1>3. m \in Messages \ contested /\ OneAt(m)
  BY <1>2 DEF OneInv
<1>4. \A q \in Procs : /\ m \in todo'[q] <=> m \in todo[q]
                       /\ AtModify(q, m)' => AtModify(q, m)
  BY <1>2 DEF AtModify
<1>5. CASE labels'[m] = labels[m] /\ standing'[m] = standing[m]
  BY <1>3, <1>4, <1>5, OneQuiet
<1>6. CASE /\ labels'[m] = (labels[m] \ {"TRASH"}) \cup {"INBOX"}
           /\ standing'[m] = standing[m] \ {TrashAction}
  <2>1. ASSUME NEW a \in standing'[m]
        PROVE  toLabelIDs(a.add) \subseteq labels'[m]
    <3>1. a \in Tags /\ toLabelIDs(a.add) \subseteq labels[m]
      BY <1>3, <1>6, <2>1 DEF OneAt, Tags, TypeInv, TypeOK
    <3>2. "TRASH" \notin toLabelIDs(a.add)
      BY <3>1, TagShape, CleanerIdsApart DEF CleanerIds, toLabelIDs
    <3> QED
      BY <1>6, <3>1, <3>2
  <2>2. standing'[m] \subseteq standing[m] /\ TrashAction \notin standing'[m]
    BY <1>6
  <2> QED
    BY <1>3, <1>4, <2>1, <2>2 DEF OneAt, Due
<1>7. CASE h.msg = m
  <2>1. Reverted(h.rec, labels[m]) = (labels[m] \ {"TRASH"}) \cup {"INBOX"}
    BY <1>2, TrashShape DEF Reverted, Untrashed
  <2> QED
    BY <1>2, <1>3, <1>5, <1>6, <1>7, <2>1 DEF TypeInv, TypeOK
<1>8. CASE h.msg # m
  BY <1>2, <1>5, <1>8 DEF TypeInv, TypeOK
<1> QED
  BY <1>7, <1>8

\* Labels never pass the comparison of names with IDs.
LEMMA OnlyTrashIsPlanned ==
  ASSUME NoNameIsAnId, TypeInv, NEW x \in Pieces, MayBe(x, Messages), ShouldRevert(x.rec, labels[x.msg])
  PROVE  x.rec.action = TrashAction
<1>1. x.rec.action \in Actions /\ x.rec.action.add \subseteq labels[x.msg] /\ x.msg \in Messages
  BY DEF MayBe, ShouldRevert
<1>2. labels[x.msg] \subseteq LabelIds
  BY <1>1 DEF TypeInv, TypeOK
<1>3. CASE x.rec.action \in Tags
  <2>1. x.rec.action.add \in SUBSET CleanerLabels /\ x.rec.action.add # {}
    BY <1>3, TagShape
  <2> QED
    BY <1>1, <1>2, <2>1 DEF NoNameIsAnId
<1> QED
  BY <1>1, <1>3 DEF Tags

LEMMA PlansNext ==
  ASSUME NoNameIsAnId, TypeInv, OneInv, [Next]_vars
  PROVE  PlansTrash'
<1>1. ASSUME UNCHANGED plan PROVE PlansTrash'
  BY <1>1 DEF OneInv, PlansTrash
<1>2. ASSUME NEW p \in Procs, PlanOne(p) PROVE PlansTrash'
  <2> DEFINE h == Head(hand[p])
  <2>1. Looked(p, h)
    BY <1>2, PlanStep
  <2>2. CASE ShouldRevert(h.rec, labels[h.msg]) /\ plan' = [plan EXCEPT ![p] = Append(@, h)]
    <3>1. h \in Pieces /\ h.rec.action = TrashAction
      BY <2>1, <2>2, OnlyTrashIsPlanned DEF Looked, OneInv, Within
    <3> HIDE DEF h
    <3>2. \A x : Has(Append(plan[p], h), x) <=> Has(plan[p], x) \/ x = h
      BY <3>1, HasAppended DEF TypeInv, TypeOK
    <3> QED
      BY <2>2, <3>1, <3>2 DEF OneInv, PlansTrash, TypeInv, TypeOK
  <2> QED
    BY <1>1, <2>1, <2>2 DEF Looked
<1>3. ASSUME NEW p \in Procs, RevertOne(p) PROVE PlansTrash'
  <2>1. plan' = [plan EXCEPT ![p] = Tail(@)] /\ plan[p] \in Seq(Pieces) /\ plan[p] # <<>>
    BY <1>3 DEF RevertOne, TypeInv, TypeOK, PlaceInv, PlaceAt
  <2>2. \A x : Has(Tail(plan[p]), x) => Has(plan[p], x)
    BY <2>1, HasTail
  <2> QED
    BY <2>1, <2>2 DEF OneInv, PlansTrash, TypeInv, TypeOK
<1>4. ASSUME NEW p \in Procs, Crash(p) PROVE PlansTrash'
  <2>1. plan' = [plan EXCEPT ![p] = <<>>]
    BY <1>4 DEF Crash
  <2> QED
    BY <2>1, HasNone DEF OneInv, PlansTrash, TypeInv, TypeOK
<1>5. ASSUME NEW p \in Procs,
             \/ BeginRun(p) \/ EmptyRun(p) \/ BeginReprocess(p) \/ BeginRollback(p)
             \/ Take(p) \/ Modify(p) \/ AppendRecord(p)
      PROVE  PlansTrash'
  <2>1. UNCHANGED plan
    BY <1>5 DEF BeginRun, EmptyRun, BeginReprocess, Begin, BeginRollback, Take, Modify,
                AppendRecord, vars, command
  <2> QED
    BY <1>1, <2>1
<1>6. CASE Tick \/ UNCHANGED vars
  BY <1>1, <1>6 DEF Tick, vars, command
<1> QED
  BY <1>2, <1>3, <1>4, <1>5, <1>6 DEF Next, Step

LEMMA OneNext == AllConfigured /\ NoNameIsAnId /\ TypeInv /\ OneInv /\ [Next]_vars => OneInv'
<1> SUFFICES ASSUME AllConfigured, NoNameIsAnId, TypeInv, OneInv, [Next]_vars PROVE OneInv'
  OBVIOUS
<1>1. Within(Messages)'
  <2>1. \A p \in Procs : todo'[p] \subseteq Messages
    BY TypeNext DEF TypeInv, TypeOK
  <2> QED
    BY <2>1, WithinNext DEF OneInv
<1>2. ASSUME NEW m \in Messages \ contested' PROVE OneAt(m)'
  <2>1. ASSUME UNCHANGED <<labels, standing, contested>>,
               \A p \in Procs : /\ m \in todo'[p] => m \in todo[p]
                                /\ AtModify(p, m)' => AtModify(p, m)
        PROVE  OneAt(m)'
    BY <2>1, OneQuiet DEF OneInv
  <2>2. ASSUME NEW p \in Procs, OnlyMoves(p), pc'[p] # "modify", UNCHANGED <<labels, history>>,
               todo'[p] \subseteq todo[p]
        PROVE  OneAt(m)'
    BY <2>1, <2>2 DEF OnlyMoves, AtModify, history
  <2>3. ASSUME NEW p \in Procs, BeginRun(p) \/ BeginReprocess(p) PROVE OneAt(m)'
    BY <2>3, OneBegin
  <2>4. ASSUME NEW p \in Procs, Take(p) \/ Modify(p) \/ RevertOne(p) PROVE OneAt(m)'
    BY <2>4, OneTake, OneModify, OneRevert
  <2>5. ASSUME NEW p \in Procs, BeginRollback(p) PROVE OneAt(m)'
    BY <2>2, <2>5 DEF BeginRollback, OnlyMoves, TypeInv, TypeOK
  <2>6. ASSUME NEW p \in Procs, AppendRecord(p) PROVE OneAt(m)'
    BY <2>2, <2>6 DEF AppendRecord, Leave, Goto, OnlyMoves, TypeInv, TypeOK
  <2>7. ASSUME NEW p \in Procs, PlanOne(p) PROVE OneAt(m)'
    BY <2>2, <2>7 DEF PlanOne, Leave, Goto, OnlyMoves, TypeInv, TypeOK
  <2>8. ASSUME NEW p \in Procs, Crash(p) PROVE OneAt(m)'
    BY <2>2, <2>8 DEF Crash, Leave, OnlyMoves, TypeInv, TypeOK
  <2>9. ASSUME Tick \/ UNCHANGED vars \/ \E p \in Procs : EmptyRun(p) PROVE OneAt(m)'
    BY <2>1, <2>9 DEF Tick, EmptyRun, vars, command, history, AtModify
  <2> QED
    BY <2>3, <2>4, <2>5, <2>6, <2>7, <2>8, <2>9 DEF Next, Step
<1> QED
  BY <1>1, <1>2, PlansNext DEF OneInv

LEMMA OneInit == Init => OneInv
<1> SUFFICES ASSUME Init PROVE OneInv
  OBVIOUS
<1>1. PlansTrash
  BY HasNone DEF Init, PlansTrash
<1>2. \A m \in Messages : OneAt(m)
  BY DEF Init, OneAt, Due, AtModify
<1> QED
  BY <1>1, <1>2, WithinInit DEF OneInv

\* No message is decided twice, for any number of messages, terminals and faults, as long
\* as no two commands work on it at once and it is not reprocessed: the labels alone
\* tell the next run what is done, whatever a rollback reverts, or seems to.
THEOREM NoMessageIsDecidedTwice ==
  ASSUME AllConfigured, NoNameIsAnId
  PROVE  Spec => []OneVerdictPerMessage
<1>1. OneInv => OneVerdictPerMessage
  <2>1. SUFFICES ASSUME NEW m \in Messages, \A a, b \in standing[m] : a = b
                 PROVE  Cardinality(standing[m]) <= 1
    BY DEF OneInv, OneAt, OneVerdictPerMessage
  <2>2. CASE standing[m] = {}
    BY <2>2, FS_EmptySet
  <2>3. ASSUME NEW a \in standing[m] PROVE Cardinality(standing[m]) <= 1
    BY <2>1, <2>3, FS_Singleton, standing[m] = {a}
  <2> QED
    BY <2>2, <2>3
<1> QED
  BY <1>1, OneInit, OneNext, TypeInvHolds, PTL DEF Spec
=============================================================================
