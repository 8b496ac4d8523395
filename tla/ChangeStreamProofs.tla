-------------------------- MODULE ChangeStreamProofs --------------------------
(***************************************************************************)
(* Subscribers of the change journal, for any items, subscribers, batch    *)
(* size, writes, forgets and lost responses.  The invariant says what a    *)
(* copy may be when its subscriber has read the journal up to a position,  *)
(* also of the copies it will have after the batch that is on its way.     *)
(***************************************************************************)
EXTENDS ChangeStream, TLAPS

\* Event n is the last one of item i.
IsLast(i, n) == n \in EventsOf(i) /\ \A k \in EventsOf(i) : k <= n

Dated == \A i \in Items : EventsOf(i) # {} => \E n \in Indices : IsLast(i, n)

\* The content of an item, were it not revoked.
Memory(i) == IF mem[i] \in Shown THEN mem[i] ELSE Nothing

Owing(i) == \E e \in owed : e.target = i

\* What was erased is absent or revoked until it is restored.
Gone(i) == mem[i] = Absent \/ i \in blocked \/ i \in restored

Erased ==
    /\ \A i \in Items : Erasures(i) # {} => Gone(i)
    /\ \A e \in owed : e.kind = "erase" => mem[e.target] = Absent
    /\ \A p \in Procs : \A n \in todo[p] : journal[n].target \in blocked \cup restored

\* What was withdrawn last has no content.
Withdrawn ==
    /\ \A e \in owed : e.kind = "withdraw" => mem[e.target] \notin Shown
    /\ \A i \in Items, n \in Indices :
        IsLast(i, n) /\ journal[n].kind = "withdraw" /\ ~Owing(i) => mem[i] \notin Shown

\* x may be the copy of item i at a subscriber that has read p events.
CopyHolds(s, i, p, x) ==
    /\ x # Nothing => i \in Known(s)
    /\ \A n \in Indices : IsLast(i, n) /\ n <= p =>
        /\ journal[n].kind = "erase" => x = Nothing
        /\ Owing(i) \/ x = Memory(i) \/ (x = Nothing /\ i \in restored \cup blocked)

Entry == [item: Items, memory: 0..MaxRevision]

EntriesOf(b, i) == {k \in 1..Len(b) : b[k].item = i}

LastEntry(b, i) == CHOOSE k \in EntriesOf(b, i) : \A l \in EntriesOf(b, i) : l <= k

BatchDated(b) == \A i \in Items :
    EntriesOf(b, i) # {} => \E k \in EntriesOf(b, i) : \A l \in EntriesOf(b, i) : l <= k

Sub(s) ==
    /\ \A i \in Items : CopyHolds(s, i, cursor[s], copy[s][i])
    /\ pc[s] \in {"polling", "sent"} =>
        \A i \in Items : CopyHolds(s, i, pos[s], Applied(copy[s], batch[s])[i])
    /\ pc[s] \in {"idle", "reconciling"} => batch[s] = <<>>
    /\ BatchDated(batch[s])
    /\ \A i \in Items : Holds(s, i) =>
        i \in Known(s) /\ (i \in restored \/ acks[s] \cap Erasures(i) = {})

IInv == TypeOK /\ Dated /\ Erased /\ Withdrawn /\ \A s \in Subs : Sub(s)

-----------------------------------------------------------------------------
(* The operators of the model.                                             *)

LEMMA Levels ==
    /\ Absent \notin Shown /\ Hidden \notin Shown /\ Nothing \notin Shown
    /\ Shown \subseteq 0..MaxRevision /\ 0..MaxRevision \subseteq 0..Unmatched
    /\ {Absent, Hidden, 1} \subseteq 0..Unmatched /\ Nothing \in 0..MaxRevision
  BY StreamAssumption DEF Absent, Hidden, Nothing, Shown, Unmatched

LEMMA Names == Verifier \in Procs /\ Subs \subseteq Procs /\ Verifier \notin Subs /\ Nobody \notin Subs
  BY ProcsAssumption, Zenon DEF Procs

\* The last event is what Latest chooses.
LEMMA LatestFacts ==
    ASSUME Dated, NEW i \in Items, EventsOf(i) # {}
    PROVE  Latest(i) \in Indices /\ IsLast(i, Latest(i)) /\ journal[Latest(i)].target = i
<1>1. PICK n \in Indices : IsLast(i, n)
  BY Zenon DEF Dated
<1>2. Latest(i) \in EventsOf(i) /\ \A k \in EventsOf(i) : k <= Latest(i)
  BY <1>1, Zenon DEF Latest, IsLast
<1> QED
  BY <1>2, Zenon DEF IsLast, EventsOf

\* A published event is the last one of its item, and of no other.
LEMMA Grown ==
    ASSUME TypeOK, NEW e \in Events, journal' = Append(journal, e)
    PROVE  /\ journal' \in Seq(Events) /\ Len(journal) \in Nat
           /\ Len(journal') = Len(journal) + 1
           /\ Indices' = Indices \cup {Len(journal) + 1} /\ Len(journal) + 1 \notin Indices
           /\ journal'[Len(journal) + 1] = e
           /\ \A n \in Indices : journal'[n] = journal[n]
<1>1. journal \in Seq(Events)
  BY Zenon DEF TypeOK
<1>2. /\ journal' \in Seq(Events) /\ Len(journal) \in Nat
      /\ Len(journal') = Len(journal) + 1
      /\ journal'[Len(journal) + 1] = e
      /\ \A n \in 1..Len(journal) : journal'[n] = journal[n]
  <2> HIDE DEF Events
  <2> QED
    BY <1>1
<1> QED
  BY <1>2 DEF Indices

LEMMA GrownEvents ==
    ASSUME TypeOK, NEW e \in Events, journal' = Append(journal, e), NEW i \in Items
    PROVE  /\ EventsOf(i)' = IF e.target = i THEN EventsOf(i) \cup {Len(journal) + 1} ELSE EventsOf(i)
           /\ Erasures(i)' = IF e.target = i /\ e.kind = "erase"
                             THEN Erasures(i) \cup {Len(journal) + 1} ELSE Erasures(i)
<1>1. EventsOf(i)' = IF e.target = i THEN EventsOf(i) \cup {Len(journal) + 1} ELSE EventsOf(i)
  BY Grown, ZenonT(30) DEF EventsOf
<1>2. \A n \in EventsOf(i) : n \in Indices
  BY Zenon DEF EventsOf
<1> QED
  BY <1>1, <1>2, Grown, ZenonT(30) DEF Erasures

LEMMA GrownLast ==
    ASSUME TypeOK, NEW e \in Events, journal' = Append(journal, e), NEW i \in Items
    PROVE  /\ e.target = i => \A n \in Indices' : n = Len(journal) + 1 => IsLast(i, n)'
           /\ e.target = i => \A n \in Indices' : IsLast(i, n)' => n = Len(journal) + 1
           /\ e.target # i => \A n \in Indices : IsLast(i, n) => IsLast(i, n)'
           /\ e.target # i => \A n \in Indices' : IsLast(i, n)' => n \in Indices /\ IsLast(i, n)
<1>1. \A n \in EventsOf(i) : n \in Indices
  BY Zenon DEF EventsOf
<1>2. Len(journal) \in Nat /\ \A n \in Indices : n \in Nat /\ n < Len(journal) + 1
  BY Grown DEF Indices
<1>3. CASE e.target = i
  <2>1. EventsOf(i)' = EventsOf(i) \cup {Len(journal) + 1}
    BY <1>3, GrownEvents, Zenon
  <2>2. Indices' = Indices \cup {Len(journal) + 1}
    BY Grown, Zenon
  <2>3. ASSUME NEW n \in Indices', n = Len(journal) + 1 PROVE IsLast(i, n)'
    <3>1. \A k \in EventsOf(i)' : k <= n
      BY <2>1, <2>3, <1>1, <1>2
    <3> QED
      BY <3>1, <2>1, <2>3, Zenon DEF IsLast
  <2>4. \A n \in Indices' : IsLast(i, n)' => n = Len(journal) + 1
    BY <2>1, <2>2, <1>2 DEF IsLast
  <2> QED
    BY <2>3, <2>4, <1>3, Zenon
<1>4. CASE e.target # i
  <2>1. EventsOf(i)' = EventsOf(i)
    BY <1>4, GrownEvents, Zenon
  <2> QED
    BY <2>1, <1>1, <1>4, Zenon DEF IsLast
<1> QED
  BY <1>3, <1>4, Zenon

LEMMA GrownDated ==
    ASSUME TypeOK, Dated, NEW e \in Events, journal' = Append(journal, e)
    PROVE  Dated'
<1> SUFFICES ASSUME NEW i \in Items, EventsOf(i)' # {}
             PROVE  \E n \in Indices' : IsLast(i, n)'
  BY Zenon DEF Dated
<1>1. CASE e.target = i
  <2>1. PICK n \in Indices' : n = Len(journal) + 1
    BY Grown, Zenon
  <2> QED
    BY <1>1, <2>1, GrownLast, Zenon
<1>2. CASE e.target # i
  <2>1. EventsOf(i) # {}
    BY <1>2, GrownEvents, Zenon
  <2>2. PICK n \in Indices : IsLast(i, n)
    BY <2>1, Zenon DEF Dated
  <2> QED
    BY <1>2, <2>2, GrownLast, Grown, Zenon
<1> QED
  BY <1>1, <1>2, Zenon

\* An entry decides its item; without entries the copies stay.
LEMMA AppliedNone == ASSUME NEW c \in [Items -> 0..MaxRevision] PROVE Applied(c, <<>>) = c
  BY DEF Applied

LEMMA AppliedAt ==
    ASSUME NEW c, NEW b, NEW i \in Items
    PROVE  Applied(c, b)[i] = IF EntriesOf(b, i) = {} THEN c[i] ELSE b[LastEntry(b, i)].memory
  BY Zenon DEF Applied, EntriesOf, LastEntry

LEMMA LastEntryIn ==
    ASSUME NEW b, BatchDated(b), NEW i \in Items, EntriesOf(b, i) # {}
    PROVE  LastEntry(b, i) \in EntriesOf(b, i)
  BY Zenon DEF BatchDated, LastEntry

LEMMA AppliedAppend ==
    ASSUME NEW c, NEW b \in Seq(Entry), NEW x \in Entry, BatchDated(b)
    PROVE  /\ BatchDated(Append(b, x))
           /\ \A i \in Items : Applied(c, Append(b, x))[i] =
                IF x.item = i THEN x.memory ELSE Applied(c, b)[i]
<1> DEFINE d == Append(b, x)
<1>1. /\ Len(b) \in Nat /\ Len(d) = Len(b) + 1
      /\ d[Len(b) + 1] = x /\ \A k \in 1..Len(b) : d[k] = b[k]
  OBVIOUS
<1> HIDE DEF d
<1>2. \A i \in Items : EntriesOf(d, i) =
        IF x.item = i THEN EntriesOf(b, i) \cup {Len(b) + 1} ELSE EntriesOf(b, i)
  BY <1>1 DEF EntriesOf
<1>3. ASSUME NEW i \in Items, x.item = i
      PROVE  /\ Len(b) + 1 \in EntriesOf(d, i) /\ \A l \in EntriesOf(d, i) : l <= Len(b) + 1
             /\ LastEntry(d, i) = Len(b) + 1
  <2>1. /\ Len(b) + 1 \in EntriesOf(d, i) /\ \A l \in EntriesOf(d, i) : l \in Nat /\ l <= Len(b) + 1
    BY <1>1, <1>2, <1>3 DEF EntriesOf
  <2> QED
    BY <2>1, <1>1 DEF LastEntry
<1>4. BatchDated(d)
  BY <1>2, <1>3, Zenon DEF BatchDated
<1>5. ASSUME NEW i \in Items
      PROVE  Applied(c, d)[i] = IF x.item = i THEN x.memory ELSE Applied(c, b)[i]
  <2>1. CASE x.item = i
    <3>1. EntriesOf(d, i) # {} /\ LastEntry(d, i) = Len(b) + 1
      BY <1>3, <2>1, Zenon
    <3> QED
      BY <2>1, <1>1, <3>1, AppliedAt
  <2>2. CASE x.item # i
    <3>1. EntriesOf(d, i) = EntriesOf(b, i)
      BY <1>2, <2>2, Zenon
    <3>2. CASE EntriesOf(b, i) = {}
      BY <3>1, <3>2, <2>2, AppliedAt
    <3>3. CASE EntriesOf(b, i) # {}
      <4>1. LastEntry(d, i) = LastEntry(b, i) /\ LastEntry(b, i) \in EntriesOf(b, i)
        BY <3>1, <3>3, LastEntryIn, Zenon DEF LastEntry
      <4>2. d[LastEntry(b, i)] = b[LastEntry(b, i)]
        BY <4>1, <1>1, Zenon DEF EntriesOf
      <4> QED
        BY <3>1, <3>3, <4>1, <4>2, <2>2, AppliedAt
    <3> QED
      BY <3>2, <3>3, Zenon
  <2> QED
    BY <2>1, <2>2, Zenon
<1> QED
  BY <1>4, <1>5, Zenon DEF d

-----------------------------------------------------------------------------
(* Type correctness, one lemma per kind of step.                           *)

LEMMA CommitType ==
    ASSUME TypeOK, NEW i \in Items, NEW v \in 0..Unmatched, Commit(i, v),
           undoing' \subseteq Items, restored' \subseteq Items
    PROVE  TypeOK'
<1>1. Kind(mem[i], v) \in {"assert", "withdraw", "erase"}
  BY Zenon DEF Kind
<1>2. owed' \subseteq Events
  BY <1>1 DEF Commit, Events
<1>3. mem' \in [Items -> 0..Unmatched] /\ writes' \in Nat
  BY DEF Commit, TypeOK
<1> HIDE DEF Events
<1> QED
  BY <1>2, <1>3, ZenonT(30) DEF Commit, TypeOK, subscriber, Indices

LEMMA LedgerType ==
    ASSUME TypeOK, NEW i \in Items, Forget(i) \/ UndoLedger(i)
    PROVE  TypeOK'
<1>1. blocked' \subseteq Items /\ undoing' \subseteq Items /\ restored' \subseteq Items /\ forgets' \in Nat
  BY SMTT(30) DEF Forget, UndoLedger, TypeOK, bounds
<1> HIDE DEF Events
<1> QED
  BY <1>1, ZenonT(30) DEF Forget, UndoLedger, TypeOK, subscriber, bounds, Indices

\* The journal only grows: positions in it stay positions.
LEMMA GrownType ==
    ASSUME TypeOK, NEW e \in Events, journal' = Append(journal, e),
           owed' \subseteq owed, todo' \in [Procs -> SUBSET Indices],
           UNCHANGED <<canonical, lock, pc, subscriber, due, receipts, bounds>>
    PROVE  TypeOK'
<1>1. journal' \in Seq(Events) /\ Indices \subseteq Indices' /\ 0..Len(journal) \subseteq 0..Len(journal')
  BY Grown
<1>2. /\ todo' \in [Procs -> SUBSET (Indices')]
      /\ deliveries' \in [Subs -> SUBSET (Indices')] /\ acks' \in [Subs -> SUBSET (Indices')]
  BY <1>1, Zenon DEF TypeOK, subscriber
<1>3. /\ pos' \in [Subs -> 0..Len(journal')] /\ cursor' \in [Subs -> 0..Len(journal')]
      /\ due' \in 0..Len(journal')
  BY <1>1, Zenon DEF TypeOK, subscriber
<1> HIDE DEF Events
<1> QED
  BY <1>1, <1>2, <1>3, ZenonT(30) DEF TypeOK, canonical, subscriber, bounds

LEMMA PublishType == TypeOK /\ Publish => TypeOK'
<1> SUFFICES ASSUME TypeOK, Publish PROVE TypeOK'
  BY Zenon
<1>1. PICK e \in owed : journal' = Append(journal, e) /\ owed' = owed \ {e}
  BY Zenon DEF Publish
<1>2. e \in Events /\ todo' \in [Procs -> SUBSET Indices]
  BY Zenon DEF TypeOK, Publish
<1> QED
  BY <1>1, <1>2, GrownType, Zenon DEF Publish

LEMMA ExpireType == TypeOK /\ Expire => TypeOK'
<1> SUFFICES ASSUME TypeOK, Expire PROVE TypeOK'
  BY Zenon
<1>1. due' \in 0..Len(journal')
  BY DEF TypeOK, Expire
<1> HIDE DEF Events
<1> QED
  BY <1>1, ZenonT(30) DEF TypeOK, Expire, canonical, subscriber, bounds, Indices

\* What reconcile_revocations reads are the last events of revoked items.
LEMMA RecoverReads ==
    ASSUME TypeOK, Dated, NEW p \in Procs, RecoverRead(p)
    PROVE  \A n \in todo'[p] : n \in Indices /\ journal[n].target \in blocked
<1> SUFFICES ASSUME NEW n \in todo'[p] PROVE n \in Indices /\ journal[n].target \in blocked
  BY Zenon
<1>1. PICK i \in UNION {Known(s) : s \in Subs} : i \in blocked /\ n = Latest(i)
  BY Zenon DEF RecoverRead, TypeOK
<1>2. PICK s \in Subs : i \in Known(s)
  BY <1>1, Zenon
<1>3. PICK k \in Indices : journal[k].target = i
  BY <1>2, Zenon DEF Known, TypeOK
<1>4. i \in Items /\ EventsOf(i) # {}
  BY <1>1, <1>3, Zenon DEF EventsOf, TypeOK
<1> QED
  BY <1>1, <1>4, LatestFacts, Zenon

LEMMA RecoverType ==
    ASSUME TypeOK, Dated, NEW p \in Procs, RecoverRead(p)
    PROVE  TypeOK'
<1>1. todo'[p] \subseteq Indices /\ todo' = [todo EXCEPT ![p] = todo'[p]]
  BY RecoverReads, ZenonT(30) DEF RecoverRead, TypeOK
<1>2. todo' \in [Procs -> SUBSET Indices]
  BY <1>1, ZenonT(30) DEF TypeOK
<1>3. pc' \in [Procs -> {"idle", "reconciling", "polling", "sent"}]
  BY Zenon DEF RecoverRead, TypeOK
<1>4. \A s \in Subs : pc'[s] = "polling" <=> lock = s
  BY Names, Zenon DEF RecoverRead, TypeOK
<1> HIDE DEF Events
<1> QED
  BY <1>2, <1>3, <1>4, ZenonT(30) DEF TypeOK, RecoverRead, canonical, subscriber, bounds, Indices

\* A reconciled revocation is published once.
LEMMA ReconcileCases ==
    ASSUME TypeOK, NEW p \in Procs, Reconcile(p)
    PROVE  \E n \in todo[p] :
             /\ todo' = [todo EXCEPT ![p] = @ \ {n}] /\ todo' \in [Procs -> SUBSET Indices]
             /\ \/ journal' = journal
                \/ \E e \in Events : /\ e.kind = "erase" /\ e.target = journal[n].target
                                     /\ journal' = Append(journal, e)
<1>1. PICK n \in todo[p] :
        /\ journal' = IF \E k \in Indices : journal[k] = [kind |-> "erase", target |-> journal[n].target, cause |-> n]
                      THEN journal ELSE Append(journal, [kind |-> "erase", target |-> journal[n].target, cause |-> n])
        /\ todo' = [todo EXCEPT ![p] = @ \ {n}]
  BY ZenonT(30) DEF Reconcile
<1>2. n \in Indices /\ n \in Nat /\ journal[n] \in Events
  BY <1>1 DEF TypeOK, Indices
<1>3. [kind |-> "erase", target |-> journal[n].target, cause |-> n] \in Events
  BY <1>2, Zenon DEF Events
<1>4. todo' \in [Procs -> SUBSET Indices]
  BY <1>1, Zenon DEF TypeOK
<1> QED
  BY <1>1, <1>3, <1>4, ZenonT(30)

LEMMA ReconcileType ==
    ASSUME TypeOK, NEW p \in Procs, Reconcile(p)
    PROVE  TypeOK'
<1>1. PICK n \in todo[p] :
             /\ todo' \in [Procs -> SUBSET Indices]
             /\ \/ journal' = journal
                \/ \E e \in Events : journal' = Append(journal, e)
  BY ReconcileCases, Zenon
<1>2. CASE journal' = journal
  <2> HIDE DEF Events
  <2> QED
    BY <1>1, <1>2, ZenonT(30) DEF TypeOK, Reconcile, canonical, subscriber, bounds, Indices
<1>3. CASE \E e \in Events : journal' = Append(journal, e)
  <2>1. PICK e \in Events : journal' = Append(journal, e)
    BY <1>3, Zenon
  <2> QED
    BY <1>1, <2>1, GrownType, Zenon DEF Reconcile
<1> QED
  BY <1>1, <1>2, <1>3, Zenon

\* What one event puts into the batch.
Matched(i, k) == View(i) # Nothing /\ k \notin Removal
EntryOf(e) == [item |-> e.target, memory |-> IF Matched(e.target, e.kind) THEN View(e.target) ELSE Nothing]

LEMMA PollEventCases ==
    ASSUME TypeOK, NEW s \in Subs, PollEvent(s)
    PROVE  /\ pos[s] + 1 \in Indices /\ pos' = [pos EXCEPT ![s] = pos[s] + 1]
           /\ journal[pos[s] + 1] \in Events /\ EntryOf(journal[pos[s] + 1]) \in Entry
           /\ \/ /\ batch' = [batch EXCEPT ![s] = Append(batch[s], EntryOf(journal[pos[s] + 1]))]
                 /\ deliveries' = [deliveries EXCEPT ![s] = @ \cup {pos[s] + 1}]
              \/ /\ ~Matched(journal[pos[s] + 1].target, journal[pos[s] + 1].kind)
                 /\ journal[pos[s] + 1].target \notin Known(s)
                 /\ UNCHANGED <<batch, deliveries>>
<1>1. pos[s] + 1 \in Indices
  BY DEF TypeOK, PollEvent, PollEnd, Indices
<1>2. journal[pos[s] + 1] \in Events
  BY <1>1, SMTT(30) DEF TypeOK, Indices
<1>3. View(journal[pos[s] + 1].target) \in 0..MaxRevision
  BY Levels, ZenonT(30) DEF View
<1>4. EntryOf(journal[pos[s] + 1]) \in Entry
  BY <1>2, <1>3, Levels, Zenon DEF EntryOf, Entry, Events
<1>5. \/ /\ batch' = [batch EXCEPT ![s] = Append(batch[s], EntryOf(journal[pos[s] + 1]))]
         /\ deliveries' = [deliveries EXCEPT ![s] = @ \cup {pos[s] + 1}]
      \/ /\ ~Matched(journal[pos[s] + 1].target, journal[pos[s] + 1].kind)
         /\ journal[pos[s] + 1].target \notin Known(s)
         /\ UNCHANGED <<batch, deliveries>>
  BY Zenon DEF PollEvent, EntryOf, Matched, TypeOK
<1> QED
  BY <1>1, <1>2, <1>4, <1>5, Zenon DEF PollEvent

LEMMA PollEventType ==
    ASSUME TypeOK, NEW s \in Subs, PollEvent(s)
    PROVE  TypeOK'
<1>1. pos' \in [Subs -> 0..Len(journal)]
  <2>1. pos[s] + 1 \in 0..Len(journal) /\ pos' = [pos EXCEPT ![s] = pos[s] + 1]
    BY PollEventCases DEF Indices
  <2> QED
    BY <2>1, Zenon DEF TypeOK
<1>3. deliveries' \in [Subs -> SUBSET Indices]
  <2>1. /\ pos[s] + 1 \in Indices
        /\ \/ deliveries' = [deliveries EXCEPT ![s] = @ \cup {pos[s] + 1}]
           \/ deliveries' = deliveries
    BY PollEventCases, Zenon
  <2>2. deliveries[s] \cup {pos[s] + 1} \in SUBSET Indices /\ deliveries \in [Subs -> SUBSET Indices]
    BY <2>1, Zenon DEF TypeOK
  <2> QED
    BY <2>1, <2>2, Zenon
<1>2. batch' \in [Subs -> Seq(Entry)]
  <2>1. batch \in [Subs -> Seq(Entry)]
    BY ZenonT(30) DEF TypeOK, Entry
  <2>2. ASSUME NEW x \in Entry, batch' = [batch EXCEPT ![s] = Append(batch[s], x)]
        PROVE  batch' \in [Subs -> Seq(Entry)]
    <3>1. Append(batch[s], x) \in Seq(Entry)
      BY <2>1
    <3> QED
      BY <3>1, <2>1, <2>2, Zenon
  <2> QED
    BY <2>1, <2>2, PollEventCases, Zenon
<1> HIDE DEF Events
<1> QED
  BY <1>1, <1>2, <1>3, ZenonT(30) DEF TypeOK, PollEvent, Entry, canonical, bounds, Indices

LEMMA PollLockType ==
    ASSUME TypeOK, NEW s \in Subs, PollLock(s) \/ PollReturn(s)
    PROVE  TypeOK'
<1>1. /\ pc' \in [Procs -> {"idle", "reconciling", "polling", "sent"}]
      /\ pos' \in [Subs -> 0..Len(journal)] /\ lock' \in Subs \cup {Nobody}
  BY ZenonT(30) DEF TypeOK, PollLock, PollReturn, subscriber
<1>2. \A t \in Subs : pc'[t] = "polling" <=> lock' = t
  BY Names, ZenonT(30) DEF TypeOK, PollLock, PollReturn
<1> HIDE DEF Events
<1> QED
  BY <1>1, <1>2, ZenonT(30) DEF TypeOK, PollLock, PollReturn, canonical, subscriber, bounds, Indices

\* The copies after a batch are copies.
LEMMA AppliedType ==
    ASSUME NEW c \in [Items -> 0..MaxRevision], NEW b \in Seq(Entry), BatchDated(b)
    PROVE  Applied(c, b) \in [Items -> 0..MaxRevision]
<1>1. ASSUME NEW i \in Items PROVE Applied(c, b)[i] \in 0..MaxRevision
  <2>1. CASE EntriesOf(b, i) = {}
    BY <2>1, AppliedAt, Zenon
  <2>2. CASE EntriesOf(b, i) # {}
    <3>1. LastEntry(b, i) \in 1..Len(b)
      BY <2>2, LastEntryIn, Zenon DEF EntriesOf
    <3>2. b[LastEntry(b, i)] \in Entry
      BY <3>1
    <3> QED
      BY <3>2, <2>2, AppliedAt, SMTT(30) DEF Entry
  <2> QED
    BY <2>1, <2>2, Zenon
<1>2. Applied(c, b) = [i \in Items |-> Applied(c, b)[i]]
  BY DEF Applied
<1> QED
  BY <1>1, <1>2, Zenon

LEMMA ReceiveType ==
    ASSUME TypeOK, NEW s \in Subs, BatchDated(batch[s]), Receive(s) \/ Lose(s)
    PROVE  TypeOK'
<1>1. pc' \in [Procs -> {"idle", "reconciling", "polling", "sent"}]
  BY ZenonT(30) DEF TypeOK, Receive, Lose
<1>7. lost' \in Nat
  BY DEF TypeOK, Receive, Lose, bounds
<1>6. cursor' \in [Subs -> 0..Len(journal)]
  BY ZenonT(30) DEF TypeOK, Receive, Lose
<1>5. pos' \in [Subs -> 0..Len(journal)]
  <2>1. Len(journal) \in Nat
    BY DEF TypeOK
  <2>2. 0 \in 0..Len(journal) /\ pos' = [pos EXCEPT ![s] = 0]
    BY <2>1 DEF Receive, Lose, ForgetBatch
  <2> QED
    BY <2>2, Zenon DEF TypeOK
<1>2. batch' \in [Subs -> Seq(Entry)]
  <2>1. <<>> \in Seq(Entry) /\ batch \in [Subs -> Seq(Entry)]
    <3>1. batch \in [Subs -> Seq(Entry)]
      BY ZenonT(30) DEF TypeOK, Entry
    <3> QED
      BY <3>1
  <2> QED
    BY <2>1, ZenonT(30) DEF Receive, Lose, ForgetBatch
<1>3. copy' \in [Subs -> [Items -> 0..MaxRevision]]
  <2>1. Applied(copy[s], batch[s]) \in [Items -> 0..MaxRevision]
    BY AppliedType, ZenonT(30) DEF TypeOK, Entry
  <2> QED
    BY <2>1, ZenonT(30) DEF TypeOK, Receive, Lose
<1>4. \A t \in Subs : pc'[t] = "polling" <=> lock = t
  BY Names, Zenon DEF TypeOK, Receive, Lose
<1> HIDE DEF Events
<1> QED
  BY <1>1, <1>2, <1>3, <1>4, <1>5, <1>6, <1>7, ZenonT(30) DEF TypeOK, Receive, Lose, Entry, canonical, bounds, Indices

LEMMA AcknowledgeType ==
    ASSUME TypeOK, NEW s \in Subs, NEW n \in Indices, acknowledge(s, n)
    PROVE  TypeOK'
<1>1. copy' \in [Subs -> [Items -> 0..MaxRevision]] /\ acks' \in [Subs -> SUBSET Indices]
  BY Levels, ZenonT(30) DEF TypeOK, acknowledge
<1> HIDE DEF Events
<1> QED
  BY <1>1, ZenonT(30) DEF TypeOK, acknowledge, canonical, bounds, Indices

LEMMA VerifyType ==
    ASSUME TypeOK, NEW i \in Items, verify(i)
    PROVE  TypeOK'
<1>1. /\ pc' \in [Procs -> {"idle", "reconciling", "polling", "sent"}] /\ receipts' \subseteq Items
      /\ \A t \in Subs : pc'[t] = "polling" <=> lock = t
  BY Names, Zenon DEF TypeOK, verify
<1> HIDE DEF Events
<1> QED
  BY <1>1, ZenonT(30) DEF TypeOK, verify, canonical, subscriber, bounds, Indices

-----------------------------------------------------------------------------
(* What the canonical side and the journal may do to a subscriber.         *)

Frame(s) ==
    /\ \A j \in Items : \A n \in Indices' : IsLast(j, n)' /\ n <= Len(journal) =>
        /\ n \in Indices /\ IsLast(j, n) /\ journal'[n] = journal[n]
        /\ Owing(j) => Owing(j)'
    /\ \A j \in Items : Owing(j)' \/ Memory(j)' = Memory(j)
    /\ restored \subseteq restored' /\ restored \cup blocked \subseteq restored' \cup blocked'
    /\ Known(s) \subseteq Known(s)'
    /\ \A j \in Items : \A n \in Indices : n \in Erasures(j)' => n \in Erasures(j)

LEMMA StillFrame ==
    ASSUME NEW s \in Subs, TypeOK, UNCHANGED <<canonical, owed, journal>>,
           deliveries[s] \subseteq deliveries'[s]
    PROVE  Frame(s)
  BY Zenon DEF Frame, canonical, Indices, IsLast, EventsOf, Owing, Memory, Known, Erasures

\* A state of subscriber s survives the steps of the others.
LEMMA SubFrame ==
    ASSUME NEW s \in Subs, TypeOK, Sub(s), Frame(s),
           pc'[s] = pc[s] \/ ({pc[s], pc'[s]} \subseteq {"idle", "reconciling"})
             \/ ({pc[s], pc'[s]} \subseteq {"polling", "sent"}),
           pos'[s] = pos[s], batch'[s] = batch[s], cursor'[s] = cursor[s],
           copy'[s] = copy[s], acks'[s] = acks[s]
    PROVE  Sub(s)'
<1>1. cursor[s] \in 0..Len(journal) /\ pos[s] \in 0..Len(journal) /\ Len(journal) \in Nat
      /\ acks[s] \subseteq Indices
  BY DEF TypeOK
<1>2. \A n \in Indices' : n \in Nat
  BY SMTT(30) DEF Indices
<1>3. ASSUME NEW i \in Items PROVE CopyHolds(s, i, cursor[s], copy[s][i])'
  <2>1. CopyHolds(s, i, cursor[s], copy[s][i])
    BY Zenon DEF Sub
  <2> QED
    BY <1>1, <1>2, <2>1 DEF CopyHolds, Frame
<1>4. ASSUME NEW i \in Items, pc'[s] \in {"polling", "sent"}
      PROVE  CopyHolds(s, i, pos[s], Applied(copy[s], batch[s])[i])'
  <2>1. CopyHolds(s, i, pos[s], Applied(copy[s], batch[s])[i])
    BY <1>4, ZenonT(30) DEF Sub
  <2>2. Applied(copy'[s], batch'[s]) = Applied(copy[s], batch[s])
    BY Zenon
  <2> QED
    BY <1>1, <1>2, <2>1, <2>2 DEF CopyHolds, Frame
<1>5. ASSUME NEW i \in Items, Holds(s, i)'
      PROVE  (i \in Known(s) /\ (i \in restored \/ acks[s] \cap Erasures(i) = {}))'
  <2>1. Holds(s, i)
    BY <1>5, Zenon DEF Holds
  <2>2. i \in Known(s) /\ (i \in restored \/ acks[s] \cap Erasures(i) = {})
    BY <2>1, Zenon DEF Sub
  <2> QED
    BY <1>1, <2>2, Zenon DEF Frame
<1>6. (pc[s] \in {"idle", "reconciling"} => batch[s] = <<>>)' /\ BatchDated(batch[s])'
  BY Zenon DEF Sub
<1> QED
  BY <1>3, <1>4, <1>5, <1>6, Zenon DEF Sub

\* A committed write owes an event for its item, so it says nothing of its copies yet.
LEMMA CommitFrame ==
    ASSUME NEW s \in Subs, TypeOK, NEW i \in Items, NEW v \in 0..Unmatched, Commit(i, v),
           restored \subseteq restored'
    PROVE  Frame(s)
<1>1. \A j \in Items : ~Owing(j)
  BY Zenon DEF Commit, Owing
<1>2. Owing(i)'
  BY Zenon DEF Commit, Owing
<1>3. \A j \in Items : j # i => mem'[j] = mem[j]
  BY Zenon DEF Commit, TypeOK
<1>4. \A j \in Items : Owing(j)' \/ Memory(j)' = Memory(j)
  BY <1>2, <1>3, Zenon DEF Memory
<1>5. journal' = journal /\ deliveries' = deliveries /\ blocked' = blocked
  BY Zenon DEF Commit, subscriber
<1> QED
  BY <1>1, <1>4, <1>5, Zenon DEF Frame, Indices, IsLast, EventsOf, Known, Erasures

LEMMA LedgerFrame ==
    ASSUME NEW s \in Subs, TypeOK, NEW i \in Items, Forget(i) \/ UndoLedger(i)
    PROVE  Frame(s)
<1>1. UNCHANGED <<mem, owed, journal, deliveries>>
  BY Zenon DEF Forget, UndoLedger, subscriber
<1>2. restored \subseteq restored' /\ restored \cup blocked \subseteq restored' \cup blocked'
  BY Zenon DEF Forget, UndoLedger
<1> QED
  BY <1>1, <1>2, Zenon DEF Frame, Indices, IsLast, EventsOf, Owing, Memory, Known, Erasures

\* A published event is beyond what anybody has read.
LEMMA GrownFrame ==
    ASSUME NEW s \in Subs, TypeOK, NEW e \in Events, journal' = Append(journal, e),
           owed \subseteq owed' \cup {e}, owed' \subseteq owed,
           UNCHANGED <<canonical, deliveries>>
    PROVE  Frame(s)
<1>1. ASSUME NEW j \in Items, NEW n \in Indices', IsLast(j, n)', n <= Len(journal)
      PROVE  /\ n \in Indices /\ IsLast(j, n) /\ journal'[n] = journal[n]
             /\ Owing(j) => Owing(j)'
  <2>1. e.target # j
    BY <1>1, Grown, GrownLast
  <2>2. n \in Indices /\ IsLast(j, n) /\ journal'[n] = journal[n]
    BY <2>1, <1>1, Grown, GrownLast, ZenonT(30)
  <2>3. Owing(j) => Owing(j)'
    BY <2>1, Zenon DEF Owing
  <2> QED
    BY <2>2, <2>3, Zenon
<1>2. Known(s) \subseteq Known(s)'
  <2>1. \A n \in deliveries[s] : n \in Indices
    BY Zenon DEF TypeOK
  <2> QED
    BY <2>1, Grown, ZenonT(30) DEF Known
<1>3. \A j \in Items : \A n \in Indices : n \in Erasures(j)' => n \in Erasures(j)
  BY Grown, GrownEvents, Zenon
<1>4. \A j \in Items : Memory(j)' = Memory(j)
  BY Zenon DEF Memory, canonical
<1>5. restored' = restored /\ blocked' = blocked
  BY Zenon DEF canonical
<1> QED
  BY <1>1, <1>2, <1>3, <1>4, <1>5, ZenonT(30) DEF Frame

-----------------------------------------------------------------------------
(* What a subscriber's own steps do to it.                                 *)

LEMMA PollLockSub ==
    ASSUME NEW s \in Subs, TypeOK, Sub(s), PollLock(s)
    PROVE  Sub(s)'
<1>1. Frame(s)
  BY StillFrame, Zenon DEF PollLock
<1>2. CASE cut_off(s)
  BY <1>1, <1>2, SubFrame, ZenonT(30) DEF PollLock, TypeOK, Procs
<1>3. CASE ~cut_off(s)
  <2>1. /\ pc'[s] = "polling" /\ pos'[s] = cursor[s] /\ batch[s] = <<>>
        /\ UNCHANGED <<canonical, owed, journal, batch, cursor, copy, deliveries, acks>>
    BY <1>3, Zenon DEF PollLock, TypeOK, Sub, Procs
  <2>2. Applied(copy'[s], batch'[s]) = copy[s]
    BY <2>1, AppliedNone, Zenon DEF TypeOK
  <2>3. \A i \in Items : CopyHolds(s, i, cursor[s], copy[s][i])'
    BY <2>1, ZenonT(30) DEF Sub, CopyHolds, canonical, Indices, IsLast, EventsOf, Owing, Memory, Known
  <2>4. \A i \in Items : CopyHolds(s, i, pos[s], Applied(copy[s], batch[s])[i])'
    BY <2>1, <2>2, <2>3, Zenon DEF CopyHolds
  <2>5. BatchDated(batch[s])'
    BY <2>1, ZenonT(30) DEF Sub
  <2>6. \A i \in Items : Holds(s, i)' =>
          (i \in Known(s) /\ (i \in restored \/ acks[s] \cap Erasures(i) = {}))'
    BY <2>1, ZenonT(30) DEF Sub, Holds, canonical, Known, Erasures, EventsOf, Indices
  <2> QED
    BY <2>1, <2>3, <2>4, <2>5, <2>6, ZenonT(30) DEF Sub
<1> QED
  BY <1>2, <1>3, Zenon

\* What the batch carries of the item whose event was just read: its content, or
\* nothing when the item is gone, withdrawn or unknown.
LEMMA EntrySound ==
    ASSUME NEW s \in Subs, TypeOK, Erased, Withdrawn,
           NEW n \in Indices, NEW i \in Items, i = journal[n].target, IsLast(i, n), ~Owing(i),
           NEW x, x = IF Matched(i, journal[n].kind) THEN View(i) ELSE Nothing
    PROVE  x = Memory(i) \/ (x = Nothing /\ i \in restored \cup blocked)
<1>0. journal[n] \in Events
  BY SMTT(30) DEF TypeOK, Indices
<1>1. CASE Matched(i, journal[n].kind)
  BY <1>1, Zenon DEF Matched, View, Memory
<1>2. CASE View(i) = Nothing
  <2>1. mem[i] \notin Shown \/ i \in blocked
    BY <1>2, Levels, Zenon DEF View
  <2> QED
    BY <1>2, <2>1, Zenon DEF Matched, Memory
<1>3. CASE journal[n].kind = "withdraw"
  <2>1. mem[i] \notin Shown
    BY <1>3, Zenon DEF Withdrawn
  <2> QED
    BY <1>3, <2>1, Zenon DEF Matched, Memory, Removal
<1>4. CASE journal[n].kind = "erase"
  <2>1. n \in Erasures(i)
    BY <1>4, Zenon DEF Erasures, IsLast
  <2>2. mem[i] = Absent \/ i \in blocked \/ i \in restored
    BY <2>1, Zenon DEF Erased, Gone
  <2> QED
    BY <1>4, <2>2, Levels, Zenon DEF Matched, Memory, Removal
<1> QED
  BY <1>1, <1>2, <1>3, <1>4, Zenon DEF Matched, Removal

LEMMA PollEventSub ==
    ASSUME NEW s \in Subs, TypeOK, Erased, Withdrawn, Sub(s), PollEvent(s)
    PROVE  Sub(s)'
<1> DEFINE n == pos[s] + 1
           e == journal[n]
           x == EntryOf(e)
           A == Applied(copy[s], batch[s])
           B == Applied(copy[s], batch'[s])
<1>1. /\ n \in Indices /\ pos'[s] = n /\ e \in Events /\ x \in Entry
      /\ \/ batch'[s] = Append(batch[s], x) /\ deliveries'[s] = deliveries[s] \cup {n}
         \/ /\ ~Matched(e.target, e.kind) /\ e.target \notin Known(s)
            /\ batch'[s] = batch[s] /\ deliveries'[s] = deliveries[s]
  <2>1. pos \in [Subs -> 0..Len(journal)] /\ DOMAIN batch = Subs /\ DOMAIN deliveries = Subs
    BY Zenon DEF TypeOK
  <2> HIDE DEF x
  <2>2. x = EntryOf(journal[pos[s] + 1])
    BY Zenon DEF x
  <2> QED
    BY <2>1, <2>2, PollEventCases
<1>2. /\ pc'[s] = "polling" /\ pc[s] = "polling"
      /\ UNCHANGED <<canonical, owed, journal, cursor, copy, acks>>
  BY Zenon DEF PollEvent
<1>3. Frame(s)
  BY <1>1, <1>2, StillFrame, Zenon
<1>4. e.target \in Items /\ e.kind \in {"assert", "withdraw", "erase"}
  BY <1>1, Zenon DEF Events
<1>5. x.item = e.target /\ x.memory = IF Matched(e.target, e.kind) THEN View(e.target) ELSE Nothing
  BY Zenon DEF EntryOf
<1>6. batch[s] \in Seq(Entry) /\ BatchDated(batch[s])
  BY ZenonT(30) DEF TypeOK, Entry, Sub
<1>7. \A i \in Items : CopyHolds(s, i, pos[s], A[i])
  BY <1>2, ZenonT(30) DEF Sub
<1> HIDE DEF n, e, x, A, B
<1>8. BatchDated(batch'[s]) /\ \A i \in Items : B[i] = IF e.target = i THEN x.memory ELSE A[i]
  <2>1. CASE batch'[s] = Append(batch[s], x)
    <3>1. /\ BatchDated(Append(batch[s], x))
          /\ \A i \in Items : Applied(copy[s], Append(batch[s], x))[i] =
                IF x.item = i THEN x.memory ELSE Applied(copy[s], batch[s])[i]
      BY <1>1, <1>6, AppliedAppend, ZenonT(60)
    <3> QED
      BY <2>1, <3>1, <1>5, Zenon DEF A, B
  <2>2. CASE batch'[s] = batch[s] /\ ~Matched(e.target, e.kind) /\ e.target \notin Known(s)
    <3>1. A[e.target] = Nothing
      BY <2>2, <1>4, <1>7, Zenon DEF CopyHolds
    <3> QED
      BY <2>2, <3>1, <1>5, <1>6, Zenon DEF A, B
  <2> QED
    BY <1>1, <2>1, <2>2, ZenonT(30)
<1>9. \A k \in Indices : k \in Nat
  BY DEF Indices
<1>10. pos[s] \in Nat /\ n = pos[s] + 1
  BY DEF TypeOK, n
<1>11. ASSUME NEW i \in Items, e.target # i
       PROVE  CopyHolds(s, i, pos[s], Applied(copy[s], batch[s])[i])'
  <2>1. \A k \in Indices : IsLast(i, k) => k # n
    BY <1>11, Zenon DEF IsLast, EventsOf, e
  <2>2. \A k \in Indices : IsLast(i, k) /\ k <= n => k <= pos[s]
    BY <2>1, <1>9, <1>10
  <2>3. CopyHolds(s, i, pos[s], A[i]) /\ B[i] = A[i]
    BY <1>7, <1>8, <1>11, ZenonT(30)
  <2>4. \A k \in Indices : IsLast(i, k) /\ k <= n =>
          /\ journal[k].kind = "erase" => B[i] = Nothing
          /\ Owing(i) \/ B[i] = Memory(i) \/ (B[i] = Nothing /\ i \in restored \cup blocked)
    BY <2>2, <2>3, ZenonT(30) DEF CopyHolds
  <2>5. B[i] # Nothing => i \in Known(s)'
    BY <2>3, <1>3, ZenonT(30) DEF CopyHolds, Frame
  <2> QED
    BY <2>4, <2>5, <1>1, <1>2, ZenonT(30) DEF CopyHolds, B, canonical, Indices, IsLast, EventsOf, Owing, Memory
<1>12. ASSUME NEW i \in Items, e.target = i
       PROVE  CopyHolds(s, i, pos[s], Applied(copy[s], batch[s])[i])'
  <2>1. \A k \in Indices : IsLast(i, k) /\ k <= n => k = n
    BY <1>12, <1>1, <1>9, SMTT(30) DEF IsLast, EventsOf, e
  <2>2. B[i] = IF Matched(i, e.kind) THEN View(i) ELSE Nothing
    BY <1>8, <1>12, <1>5, Zenon
  <2>3. e.kind = "erase" => B[i] = Nothing
    BY <2>2, Zenon DEF Matched, Removal
  <2>4. IsLast(i, n) => Owing(i) \/ B[i] = Memory(i) \/ (B[i] = Nothing /\ i \in restored \cup blocked)
    BY <2>2, <1>1, <1>12, EntrySound, ZenonT(30) DEF e
  <2>5. B[i] # Nothing => i \in Known(s)'
    <3> SUFFICES ASSUME B[i] # Nothing PROVE i \in Known(s)'
      BY Zenon
    <3>1. Matched(i, e.kind)
      BY <2>2, Zenon
    <3>2. n \in deliveries'[s]
      BY <3>1, <1>1, <1>12, Zenon
    <3> QED
      BY <3>2, <1>2, <1>12, Zenon DEF Known, e
  <2>6. \A k \in Indices : IsLast(i, k) /\ k <= n =>
          /\ journal[k].kind = "erase" => B[i] = Nothing
          /\ Owing(i) \/ B[i] = Memory(i) \/ (B[i] = Nothing /\ i \in restored \cup blocked)
    BY <2>1, <2>3, <2>4, Zenon DEF e
  <2> QED
    BY <2>6, <2>5, <1>1, <1>2, ZenonT(30) DEF CopyHolds, B, canonical, Indices, IsLast, EventsOf, Owing, Memory
<1>13. \A i \in Items : CopyHolds(s, i, cursor[s], copy[s][i])'
  <2>1. \A i \in Items : CopyHolds(s, i, cursor[s], copy[s][i])
    BY ZenonT(30) DEF Sub
  <2> QED
    BY <2>1, <1>2, <1>3, SMTT(30) DEF CopyHolds, Frame, canonical, Indices, IsLast, EventsOf, Owing, Memory
<1>14. ASSUME NEW i \in Items, Holds(s, i)'
       PROVE  (i \in Known(s) /\ (i \in restored \/ acks[s] \cap Erasures(i) = {}))'
  <2>1. CASE Holds(s, i)
    <3>1. i \in Known(s) /\ (i \in restored \/ acks[s] \cap Erasures(i) = {}) /\ acks[s] \subseteq Indices
      BY <2>1, Zenon DEF Sub, TypeOK
    <3> QED
      BY <3>1, <1>2, <1>3, Zenon DEF Frame, canonical
  <2>2. CASE ~Holds(s, i)
    <3>1. x.item = i /\ x.memory # Nothing /\ deliveries'[s] = deliveries[s] \cup {n}
      <4>1. batch'[s] = Append(batch[s], x) /\ deliveries'[s] = deliveries[s] \cup {n}
        BY <1>1, <1>2, <2>2, <1>14, Zenon DEF Holds
      <4>2. /\ Len(batch'[s]) = Len(batch[s]) + 1 /\ Len(batch[s]) \in Nat
            /\ batch'[s][Len(batch[s]) + 1] = x
            /\ \A k \in 1..Len(batch[s]) : batch'[s][k] = batch[s][k]
        BY <4>1, <1>6, <1>1
      <4>3. PICK k \in 1..Len(batch'[s]) : batch'[s][k].item = i /\ batch'[s][k].memory # Nothing
        BY <1>2, <2>2, <1>14, Zenon DEF Holds
      <4>4. k = Len(batch[s]) + 1
        BY <4>2, <4>3, <2>2, SMTT(30) DEF Holds
      <4> QED
        BY <4>1, <4>2, <4>3, <4>4, ZenonT(30)
    <3>2. e.target = i /\ View(i) # Nothing
      BY <3>1, <1>5, Zenon DEF Matched
    <3>3. i \in Known(s)'
      BY <3>1, <3>2, <1>2, Zenon DEF Known, e
    <3>4. mem[i] \in Shown /\ i \notin blocked
      BY <3>2, Zenon DEF View
    <3>5. i \in restored \/ Erasures(i) = {}
      BY <3>4, Levels, Zenon DEF Erased, Gone
    <3> QED
      BY <3>3, <3>5, <1>2, Zenon DEF canonical, Erasures, EventsOf, Indices
  <2> QED
    BY <2>1, <2>2, Zenon
<1> QED
  BY <1>2, <1>8, <1>11, <1>12, <1>13, <1>14, ZenonT(30) DEF Sub

LEMMA ReceiveSub ==
    ASSUME NEW s \in Subs, TypeOK, Sub(s), Receive(s)
    PROVE  Sub(s)'
<1> DEFINE A == Applied(copy[s], batch[s])
<1>1. /\ pc[s] = "sent" /\ pc'[s] = "idle" /\ batch'[s] = <<>> /\ cursor'[s] = pos[s]
      /\ copy'[s] = A /\ UNCHANGED <<canonical, owed, journal, deliveries, acks>>
  BY Zenon DEF Receive, ForgetBatch, TypeOK, Procs
<1>2. \A i \in Items : CopyHolds(s, i, pos[s], A[i])
  BY <1>1, ZenonT(30) DEF Sub
<1>3. batch[s] \in Seq(Entry) /\ BatchDated(batch[s])
  BY ZenonT(30) DEF TypeOK, Entry, Sub
<1>4. ASSUME NEW i \in Items, A[i] # Nothing PROVE Holds(s, i)
  <2>1. CASE EntriesOf(batch[s], i) = {}
    BY <2>1, <1>4, AppliedAt, Zenon DEF Holds
  <2>2. CASE EntriesOf(batch[s], i) # {}
    <3>1. LastEntry(batch[s], i) \in EntriesOf(batch[s], i) /\ A[i] = batch[s][LastEntry(batch[s], i)].memory
      BY <2>2, <1>3, LastEntryIn, AppliedAt, SMTT(30)
    <3> QED
      BY <3>1, <1>4, Zenon DEF Holds, EntriesOf
  <2> QED
    BY <2>1, <2>2, Zenon
<1> HIDE DEF A
<1>5. \A i \in Items : CopyHolds(s, i, cursor[s], copy[s][i])'
  BY <1>1, <1>2, ZenonT(30) DEF CopyHolds, canonical, Indices, IsLast, EventsOf, Owing, Memory, Known
<1>6. BatchDated(batch'[s])
  BY <1>1 DEF BatchDated, EntriesOf
<1>7. ASSUME NEW i \in Items, Holds(s, i)'
      PROVE  (i \in Known(s) /\ (i \in restored \/ acks[s] \cap Erasures(i) = {}))'
  <2>1. A[i] # Nothing
    BY <1>1, <1>7 DEF Holds
  <2>2. i \in Known(s) /\ (i \in restored \/ acks[s] \cap Erasures(i) = {})
    BY <2>1, <1>4, Zenon DEF Sub
  <2> QED
    BY <2>2, <1>1, ZenonT(30) DEF canonical, Known, Erasures, EventsOf, Indices
<1> QED
  BY <1>1, <1>5, <1>6, <1>7, ZenonT(30) DEF Sub

LEMMA LoseSub ==
    ASSUME NEW s \in Subs, TypeOK, Sub(s), Lose(s)
    PROVE  Sub(s)'
<1>1. /\ pc'[s] = "idle" /\ batch'[s] = <<>>
      /\ UNCHANGED <<canonical, owed, journal, cursor, copy, deliveries, acks>>
  BY Zenon DEF Lose, ForgetBatch, TypeOK, Procs
<1>2. \A i \in Items : CopyHolds(s, i, cursor[s], copy[s][i])
  BY ZenonT(30) DEF Sub
<1>3. \A i \in Items : CopyHolds(s, i, cursor[s], copy[s][i])'
  BY <1>1, <1>2, ZenonT(30) DEF CopyHolds, canonical, Indices, IsLast, EventsOf, Owing, Memory, Known
<1>4. BatchDated(batch'[s])
  BY <1>1, SMTT(30) DEF BatchDated, EntriesOf
<1>5. ASSUME NEW i \in Items, Holds(s, i)'
      PROVE  (i \in Known(s) /\ (i \in restored \/ acks[s] \cap Erasures(i) = {}))'
  <2>1. Holds(s, i)
    BY <1>1, <1>5, SMTT(30) DEF Holds
  <2>2. i \in Known(s) /\ (i \in restored \/ acks[s] \cap Erasures(i) = {})
    BY <2>1, Zenon DEF Sub
  <2> QED
    BY <2>2, <1>1, Zenon DEF canonical, Known, Erasures, EventsOf, Indices
<1> QED
  BY <1>1, <1>3, <1>4, <1>5, ZenonT(30) DEF Sub

\* The copy of an erased item may go: it is absent, revoked or restored.
LEMMA AcknowledgeSub ==
    ASSUME NEW s \in Subs, TypeOK, Erased, Sub(s), NEW n \in Indices, acknowledge(s, n)
    PROVE  Sub(s)'
<1> DEFINE t == journal[n].target
<1>1. /\ pc[s] = "idle" /\ pc'[s] = "idle" /\ batch'[s] = <<>> /\ batch[s] = <<>>
      /\ UNCHANGED <<canonical, owed, journal, cursor, deliveries>>
  BY Zenon DEF acknowledge, Sub
<1>2. PICK i \in Items : n \in Erasures(i)
  BY Zenon DEF acknowledge, PendingErasures
<1>3. t = i /\ t \in Items
  BY <1>2, Zenon DEF Erasures, EventsOf
<1>4. /\ copy'[s][t] = Nothing /\ \A j \in Items : j # t => copy'[s][j] = copy[s][j]
      /\ acks'[s] = acks[s] \cup {n}
  BY <1>3, Zenon DEF acknowledge, TypeOK
<1> HIDE DEF t
<1>5. mem[t] = Absent \/ t \in blocked \/ t \in restored
  BY <1>2, <1>3, Zenon DEF Erased, Gone
<1>6. \A j \in Items : CopyHolds(s, j, cursor[s], copy[s][j])
  BY ZenonT(30) DEF Sub
<1>7. ASSUME NEW j \in Items PROVE CopyHolds(s, j, cursor[s], copy[s][j])'
  <2>1. CASE j = t
    <3>1. Memory(t) = Nothing \/ t \in restored \cup blocked
      BY <1>5, Levels, Zenon DEF Memory
    <3> QED
      BY <2>1, <3>1, <1>1, <1>4, Zenon DEF CopyHolds, canonical, Owing, Memory
  <2>2. CASE j # t
    BY <2>2, <1>1, <1>4, <1>6, ZenonT(30) DEF CopyHolds, canonical, Indices, IsLast, EventsOf, Owing, Memory, Known
  <2> QED
    BY <2>1, <2>2, ZenonT(30)
<1>8. BatchDated(batch'[s])
  BY <1>1 DEF BatchDated, EntriesOf
<1>9. ASSUME NEW j \in Items, Holds(s, j)'
      PROVE  (j \in Known(s) /\ (j \in restored \/ acks[s] \cap Erasures(j) = {}))'
  <2>1. j # t /\ Holds(s, j)
    BY <1>1, <1>4, <1>9 DEF Holds
  <2>2. j \in Known(s) /\ (j \in restored \/ acks[s] \cap Erasures(j) = {})
    BY <2>1, ZenonT(30) DEF Sub
  <2>3. n \notin Erasures(j)
    BY <2>1, Zenon DEF Erasures, EventsOf, t
  <2>4. Known(s)' = Known(s) /\ Erasures(j)' = Erasures(j) /\ restored' = restored
    BY <1>1, Zenon DEF canonical, Known, Erasures, EventsOf, Indices
  <2> QED
    BY <2>2, <2>3, <2>4, <1>4, ZenonT(30)
<1> QED
  BY <1>1, <1>7, <1>8, <1>9, ZenonT(30) DEF Sub

-----------------------------------------------------------------------------
(* What was erased is gone, what was withdrawn is not shown.               *)

LEMMA CommitErased ==
    ASSUME TypeOK, Erased, Withdrawn, NEW i \in Items, NEW v \in 0..Unmatched, Commit(i, v),
           restored \subseteq restored',
           mem[i] = Absent /\ Erasures(i) # {} => i \in restored'
    PROVE  Erased' /\ Withdrawn'
<1>1. /\ owed = {} /\ owed' = {[kind |-> Kind(mem[i], v), target |-> i, cause |-> 0]}
      /\ mem'[i] = v /\ \A j \in Items : j # i => mem'[j] = mem[j]
      /\ UNCHANGED <<blocked, journal, todo>>
  BY Zenon DEF Commit, TypeOK
<1>2. (Kind(mem[i], v) = "erase" => v = Absent) /\ (Kind(mem[i], v) = "withdraw" => v = Hidden)
  BY Zenon DEF Kind
<1>3. \A j \in Items : Erasures(j)' # {} => Gone(j)'
  <2> SUFFICES ASSUME NEW j \in Items, Erasures(j) # {} PROVE Gone(j)'
    BY <1>1, Zenon DEF Erasures, EventsOf, Indices
  <2>1. Gone(j)
    BY Zenon DEF Erased
  <2> QED
    BY <2>1, <1>1, ZenonT(30) DEF Gone
<1>4. \A e \in owed' : (e.kind = "erase" => mem'[e.target] = Absent) /\ (e.kind = "withdraw" => mem'[e.target] \notin Shown)
  BY <1>1, <1>2, Levels, SMTT(30)
<1>5. \A p \in Procs : \A n \in todo'[p] : journal'[n].target \in blocked' \cup restored'
  BY <1>1, Zenon DEF Erased
<1>6. ASSUME NEW j \in Items, NEW n \in Indices', IsLast(j, n)', journal'[n].kind = "withdraw", ~Owing(j)'
      PROVE  mem'[j] \notin Shown
  <2>1. j # i
    BY <1>1, <1>6, ZenonT(30) DEF Owing
  <2>2. n \in Indices /\ IsLast(j, n) /\ ~Owing(j)
    BY <1>1, <1>6, Zenon DEF Indices, IsLast, EventsOf, Owing
  <2> QED
    BY <2>1, <2>2, <1>1, <1>6, ZenonT(30) DEF Withdrawn
<1> QED
  BY <1>3, <1>4, <1>5, <1>6, ZenonT(30) DEF Erased, Withdrawn

LEMMA LedgerErased ==
    ASSUME TypeOK, Erased, Withdrawn, NEW i \in Items, Forget(i) \/ UndoLedger(i)
    PROVE  Erased' /\ Withdrawn'
<1>1. UNCHANGED <<mem, owed, journal, todo>>
  BY Zenon DEF Forget, UndoLedger
<1>2. blocked \cup restored \subseteq blocked' \cup restored'
  BY Zenon DEF Forget, UndoLedger
<1>3. Erased'
  BY <1>1, <1>2, Zenon DEF Erased, Gone, Erasures, EventsOf, Indices
<1>4. Withdrawn'
  BY <1>1, ZenonT(30) DEF Withdrawn, IsLast, EventsOf, Indices, Owing
<1> QED
  BY <1>3, <1>4, Zenon

\* An erasure is published of an item that is gone, a withdrawal of one not shown.
LEMMA GrownErased ==
    ASSUME TypeOK, Erased, Withdrawn, NEW e \in Events, journal' = Append(journal, e),
           e.kind = "erase" => Gone(e.target),
           e.kind = "withdraw" => mem[e.target] \notin Shown,
           owed \subseteq owed' \cup {e}, owed' \subseteq owed, UNCHANGED canonical,
           \A p \in Procs : todo'[p] \subseteq todo[p]
    PROVE  Erased' /\ Withdrawn'
<1>1. UNCHANGED <<mem, blocked, restored>>
  BY Zenon DEF canonical
<1>2. ASSUME NEW j \in Items, Erasures(j)' # {} PROVE Gone(j)'
  <2>1. Gone(j)
    BY <1>2, GrownEvents, Zenon DEF Erased
  <2> QED
    BY <1>1, <2>1, Zenon DEF Gone
<1>3. ASSUME NEW p \in Procs, NEW n \in todo'[p] PROVE journal'[n].target \in blocked' \cup restored'
  <2>1. n \in todo[p] /\ n \in Indices
    BY <1>3, Zenon DEF TypeOK
  <2> QED
    BY <2>1, <1>1, Grown, ZenonT(30) DEF Erased
<1>4. ASSUME NEW j \in Items, NEW n \in Indices', IsLast(j, n)', journal'[n].kind = "withdraw", ~Owing(j)'
      PROVE  mem'[j] \notin Shown
  <2>1. CASE e.target = j
    BY <2>1, <1>1, <1>4, Grown, GrownLast, Zenon
  <2>2. CASE e.target # j
    <3>1. n \in Indices /\ IsLast(j, n) /\ journal[n].kind = "withdraw"
      BY <2>2, <1>4, Grown, GrownLast, ZenonT(30)
    <3>2. ~Owing(j)
      BY <2>2, <1>4, Zenon DEF Owing
    <3> QED
      BY <3>1, <3>2, <1>1, ZenonT(30) DEF Withdrawn
  <2> QED
    BY <2>1, <2>2, Zenon
<1> QED
  BY <1>1, <1>2, <1>3, <1>4, ZenonT(30) DEF Erased, Withdrawn

LEMMA StillErased ==
    ASSUME Erased, Withdrawn, UNCHANGED <<canonical, owed, journal>>,
           \A p \in Procs : \A n \in todo'[p] : journal[n].target \in blocked \cup restored
    PROVE  Erased' /\ Withdrawn'
<1>1. Erased'
  BY Zenon DEF Erased, canonical, Gone, Erasures, EventsOf, Indices
<1>2. Withdrawn'
  BY Zenon DEF Withdrawn, canonical, IsLast, EventsOf, Indices, Owing
<1> QED
  BY <1>1, <1>2, Zenon

LEMMA StillDated == ASSUME Dated, journal' = journal PROVE Dated'
  BY Zenon DEF Dated, IsLast, EventsOf, Indices

-----------------------------------------------------------------------------
(* The invariant.                                                          *)

LEMMA InvInit == Init => IInv
<1> SUFFICES ASSUME Init PROVE IInv
  BY Zenon
<1>1. Indices = {} /\ Len(journal) = 0
  BY DEF Init, Indices
<1>2. <<>> \in Seq(Entry) /\ <<>> \in Seq(Events)
  <2> HIDE DEF Entry, Events
  <2> QED
    OBVIOUS
<1>3. journal \in Seq(Events) /\ batch \in [Subs -> Seq(Entry)]
  BY <1>2, Zenon DEF Init
<1>4. mem \in [Items -> 0..Unmatched] /\ copy \in [Subs -> [Items -> 0..MaxRevision]]
  <2>1. {Absent, 1} \subseteq 0..Unmatched /\ Nothing \in 0..MaxRevision
    BY Levels, Zenon
  <2> QED
    BY <2>1, Zenon DEF Init
<1>5. /\ pc \in [Procs -> {"idle", "reconciling", "polling", "sent"}] /\ todo \in [Procs -> SUBSET Indices]
      /\ \A s \in Subs : pc[s] = "idle" /\ lock # s
  BY Names, Zenon DEF Init
<1>6. /\ pos \in [Subs -> 0..Len(journal)] /\ cursor \in [Subs -> 0..Len(journal)]
      /\ deliveries \in [Subs -> SUBSET Indices] /\ acks \in [Subs -> SUBSET Indices]
  BY <1>1, SMTT(30) DEF Init
<1>7. TypeOK
  <2> HIDE DEF Events
  <2> QED
    BY <1>1, <1>3, <1>4, <1>5, <1>6, SMTT(30) DEF Init, TypeOK, Entry
<1>8. Dated /\ Erased /\ Withdrawn
  BY <1>1, Names, ZenonT(30) DEF Init, Dated, Erased, Withdrawn, EventsOf, Erasures
<1>9. ASSUME NEW s \in Subs PROVE Sub(s)
  <2>1. copy[s] = [i \in Items |-> Nothing] /\ batch[s] = <<>> /\ pc[s] = "idle"
    BY Names, Zenon DEF Init
  <2>2. \A i \in Items : CopyHolds(s, i, cursor[s], copy[s][i])
    BY <2>1, <1>1, ZenonT(30) DEF CopyHolds
  <2>3. BatchDated(batch[s]) /\ \A i \in Items : ~Holds(s, i)
    BY <2>1 DEF BatchDated, EntriesOf, Holds
  <2> QED
    BY <2>1, <2>2, <2>3, Zenon DEF Sub
<1> QED
  BY <1>7, <1>8, <1>9, Zenon DEF IInv

\* What leaves canonical, owed and journal alone.
LEMMA StillStep ==
    ASSUME IInv, TypeOK', UNCHANGED <<canonical, owed, journal>>,
           \A p \in Procs : \A n \in todo'[p] : journal[n].target \in blocked \cup restored,
           \A s \in Subs : Sub(s)'
    PROVE  IInv'
  BY StillErased, StillDated, Zenon DEF IInv

\* Subscribers other than s see nothing of its steps.
LEMMA OthersSub ==
    ASSUME NEW s \in Subs, IInv, UNCHANGED <<canonical, owed, journal>>,
           \A t \in Subs \ {s} :
             /\ pc'[t] = pc[t] /\ pos'[t] = pos[t] /\ batch'[t] = batch[t] /\ cursor'[t] = cursor[t]
             /\ copy'[t] = copy[t] /\ acks'[t] = acks[t] /\ deliveries'[t] = deliveries[t]
    PROVE  \A t \in Subs \ {s} : Sub(t)'
<1> SUFFICES ASSUME NEW t \in Subs \ {s} PROVE Sub(t)'
  BY Zenon
<1>1. Frame(t)
  BY StillFrame, Zenon DEF IInv
<1> QED
  BY <1>1, SubFrame, Zenon DEF IInv

LEMMA CommitStep ==
    ASSUME IInv, NEW i \in Items, NEW v \in 0..Unmatched, Write(i, v) \/ UndoWrite(i, v)
    PROVE  IInv'
<1>1. /\ Commit(i, v) /\ restored \subseteq restored' /\ restored' \subseteq Items /\ undoing' \subseteq Items
      /\ mem[i] = Absent /\ Erasures(i) # {} => i \in restored'
  BY Zenon DEF Write, UndoWrite, IInv, TypeOK
<1>2. TypeOK' /\ Erased' /\ Withdrawn'
  BY <1>1, CommitType, CommitErased, Zenon DEF IInv
<1>3. UNCHANGED <<journal, pc, subscriber>>
  BY <1>1, Zenon DEF Commit
<1>4. ASSUME NEW s \in Subs PROVE Sub(s)'
  <2>1. Frame(s)
    BY <1>1, CommitFrame, Zenon DEF IInv
  <2> QED
    BY <2>1, <1>3, SubFrame, Zenon DEF IInv, subscriber
<1> QED
  BY <1>2, <1>3, <1>4, StillDated, Zenon DEF IInv

LEMMA LedgerStep ==
    ASSUME IInv, NEW i \in Items, Forget(i) \/ UndoLedger(i)
    PROVE  IInv'
<1>1. TypeOK' /\ Erased' /\ Withdrawn'
  BY LedgerType, LedgerErased, Zenon DEF IInv
<1>2. UNCHANGED <<journal, pc, subscriber>>
  BY Zenon DEF Forget, UndoLedger
<1>3. ASSUME NEW s \in Subs PROVE Sub(s)'
  <2>1. Frame(s)
    BY LedgerFrame, Zenon DEF IInv
  <2> QED
    BY <2>1, <1>2, SubFrame, Zenon DEF IInv, subscriber
<1> QED
  BY <1>1, <1>2, <1>3, StillDated, Zenon DEF IInv

\* The journal grows by an event that says what is so.
LEMMA GrownStep ==
    ASSUME IInv, TypeOK', NEW e \in Events, journal' = Append(journal, e),
           e.kind = "erase" => Gone(e.target),
           e.kind = "withdraw" => mem[e.target] \notin Shown,
           owed \subseteq owed' \cup {e}, owed' \subseteq owed,
           \A p \in Procs : todo'[p] \subseteq todo[p],
           UNCHANGED <<canonical, pc, subscriber>>
    PROVE  IInv'
<1>1. Erased' /\ Withdrawn' /\ Dated'
  BY GrownErased, GrownDated, ZenonT(30) DEF IInv
<1>2. ASSUME NEW s \in Subs PROVE Sub(s)'
  <2>1. Frame(s)
    BY GrownFrame, ZenonT(30) DEF IInv, subscriber
  <2> QED
    BY <2>1, SubFrame, ZenonT(30) DEF IInv, subscriber
<1> QED
  BY <1>1, <1>2, Zenon DEF IInv

LEMMA PublishStep == IInv /\ Publish => IInv'
<1> SUFFICES ASSUME IInv, Publish PROVE IInv'
  BY Zenon
<1>1. PICK e \in owed : journal' = Append(journal, e) /\ owed' = owed \ {e}
  BY Zenon DEF Publish
<1>2. e \in Events /\ TypeOK'
  BY PublishType, ZenonT(30) DEF IInv, TypeOK
<1>3. (e.kind = "erase" => Gone(e.target)) /\ (e.kind = "withdraw" => mem[e.target] \notin Shown)
  BY ZenonT(30) DEF IInv, Erased, Withdrawn, Gone
<1>4. UNCHANGED <<canonical, pc, subscriber, todo>>
  BY Zenon DEF Publish
<1> QED
  BY <1>1, <1>2, <1>3, <1>4, GrownStep, Zenon

LEMMA ReconcileStep ==
    ASSUME IInv, NEW p \in Procs, Reconcile(p)
    PROVE  IInv'
<1>1. TypeOK' /\ UNCHANGED <<canonical, owed, pc, subscriber>>
  BY ReconcileType, ZenonT(30) DEF IInv, Reconcile
<1>2. PICK n \in todo[p] :
        /\ todo' = [todo EXCEPT ![p] = @ \ {n}]
        /\ \/ journal' = journal
           \/ \E e \in Events : /\ e.kind = "erase" /\ e.target = journal[n].target
                                /\ journal' = Append(journal, e)
  BY ReconcileCases, ZenonT(30) DEF IInv
<1>3. \A q \in Procs : todo'[q] \subseteq todo[q]
  BY <1>2, Zenon DEF IInv, TypeOK
<1>4. CASE journal' = journal
  <2>1. \A q \in Procs : \A k \in todo'[q] : journal[k].target \in blocked \cup restored
    BY <1>3, Zenon DEF IInv, Erased
  <2>2. ASSUME NEW s \in Subs PROVE Sub(s)'
    <3>1. Frame(s)
      BY <1>1, <1>4, StillFrame, Zenon DEF IInv, subscriber
    <3> QED
      BY <3>1, <1>1, SubFrame, Zenon DEF IInv, subscriber
  <2> QED
    BY <2>1, <2>2, <1>1, <1>4, StillStep, Zenon
<1>5. ASSUME NEW e \in Events, e.kind = "erase", e.target = journal[n].target, journal' = Append(journal, e)
      PROVE  IInv'
  <2>1. Gone(e.target)
    BY <1>5, Zenon DEF IInv, Erased, Gone
  <2> QED
    BY <2>1, <1>1, <1>3, <1>5, GrownStep, Zenon
<1> QED
  BY <1>2, <1>4, <1>5, Zenon

LEMMA RecoverStep ==
    ASSUME IInv, NEW p \in Procs, RecoverRead(p)
    PROVE  IInv'
<1>1. TypeOK'
  BY RecoverType, Zenon DEF IInv
<1>2. ASSUME NEW q \in Procs, NEW n \in todo'[q] PROVE journal[n].target \in blocked \cup restored
  <2>1. CASE q = p
    BY <2>1, <1>2, RecoverReads, Zenon DEF IInv
  <2>2. CASE q # p
    BY <2>2, <1>2, ZenonT(30) DEF RecoverRead, IInv, TypeOK, Erased
  <2> QED
    BY <2>1, <2>2, Zenon
<1>3. UNCHANGED <<canonical, owed, journal, subscriber>>
  BY ZenonT(30) DEF RecoverRead
<1>4. ASSUME NEW s \in Subs PROVE Sub(s)'
  <2>1. Frame(s)
    BY <1>3, StillFrame, Zenon DEF IInv, subscriber
  <2>2. pc'[s] = pc[s] \/ ({pc[s], pc'[s]} \subseteq {"idle", "reconciling"})
    BY Names, Zenon DEF RecoverRead, IInv, TypeOK
  <2> QED
    BY <2>1, <2>2, <1>3, SubFrame, ZenonT(30) DEF IInv, subscriber
<1> QED
  BY <1>1, <1>2, <1>3, <1>4, StillStep, Zenon

LEMMA VerifyStep ==
    ASSUME IInv, NEW i \in Items, verify(i)
    PROVE  IInv'
<1>1. TypeOK' /\ UNCHANGED <<canonical, owed, journal, subscriber, todo>>
  BY VerifyType, Zenon DEF IInv, verify
<1>2. \A q \in Procs : \A n \in todo'[q] : journal[n].target \in blocked \cup restored
  BY <1>1, Zenon DEF IInv, Erased
<1>3. ASSUME NEW s \in Subs PROVE Sub(s)'
  <2>1. Frame(s)
    BY <1>1, StillFrame, Zenon DEF IInv, subscriber
  <2>2. pc'[s] = pc[s]
    BY Names, Zenon DEF verify, IInv, TypeOK
  <2> QED
    BY <2>1, <2>2, <1>1, SubFrame, ZenonT(30) DEF IInv, subscriber
<1> QED
  BY <1>1, <1>2, <1>3, StillStep, Zenon

\* Every step of a subscriber's poll.
LEMMA PollStep ==
    ASSUME IInv, NEW s \in Subs,
           PollLock(s) \/ PollEvent(s) \/ PollReturn(s) \/ Receive(s) \/ Lose(s) \/ Acknowledge(s)
    PROVE  IInv'
<1>1. UNCHANGED <<canonical, owed, journal, todo>>
  BY Zenon DEF PollLock, PollEvent, PollReturn, Receive, Lose, Acknowledge, acknowledge
<1>2. \A q \in Procs : \A n \in todo'[q] : journal[n].target \in blocked \cup restored
  BY <1>1, ZenonT(30) DEF IInv, Erased
<1>3. TypeOK'
  BY PollLockType, PollEventType, ReceiveType, AcknowledgeType, ZenonT(30) DEF IInv, Sub, Acknowledge
<1>4. Sub(s)'
  <2>1. CASE PollReturn(s)
    <3>1. /\ UNCHANGED <<canonical, owed, journal, subscriber>>
          /\ {pc[s], pc'[s]} \subseteq {"polling", "sent"}
      BY <2>1, Names, Zenon DEF PollReturn, IInv, TypeOK
    <3>2. Frame(s)
      BY <3>1, StillFrame, ZenonT(30) DEF IInv, subscriber
    <3> QED
      BY <3>1, <3>2, SubFrame, Zenon DEF IInv, subscriber
  <2> QED
    BY <2>1, PollLockSub, PollEventSub, ReceiveSub, LoseSub, AcknowledgeSub, Zenon DEF IInv, Acknowledge
<1>5. ASSUME NEW t \in Subs \ {s}
      PROVE  /\ pc'[t] = pc[t] /\ pos'[t] = pos[t] /\ batch'[t] = batch[t] /\ cursor'[t] = cursor[t]
             /\ copy'[t] = copy[t] /\ acks'[t] = acks[t] /\ deliveries'[t] = deliveries[t]
  <2>1. CASE PollLock(s) \/ PollReturn(s)
    BY <2>1, Names, Zenon DEF PollLock, PollReturn, subscriber, IInv, TypeOK
  <2>2. CASE PollEvent(s)
    BY <2>2, ZenonT(30) DEF PollEvent, IInv, TypeOK
  <2>3. CASE Receive(s) \/ Lose(s)
    BY <2>3, Names, Zenon DEF Receive, Lose, ForgetBatch, IInv, TypeOK
  <2>4. CASE Acknowledge(s)
    BY <2>4, Zenon DEF Acknowledge, acknowledge, IInv, TypeOK
  <2> QED
    BY <2>1, <2>2, <2>3, <2>4, ZenonT(30)
<1>6. \A t \in Subs \ {s} : Sub(t)'
  BY <1>1, <1>5, OthersSub, ZenonT(30)
<1> QED
  BY <1>1, <1>2, <1>3, <1>4, <1>6, StillStep, ZenonT(30)

LEMMA InvNext == IInv /\ [Next]_vars => IInv'
<1> SUFFICES ASSUME IInv, [Next]_vars PROVE IInv'
  BY Zenon
<1>1. ASSUME NEW i \in Items, Forget(i) \/ UndoLedger(i) PROVE IInv'
  BY <1>1, LedgerStep, Zenon
<1>2. ASSUME NEW i \in Items, NEW v \in 0..Unmatched, Write(i, v) \/ UndoWrite(i, v) PROVE IInv'
  BY <1>2, CommitStep, Zenon
<1>3. CASE Expire
  <2>1. TypeOK' /\ UNCHANGED <<canonical, owed, journal, pc, todo, subscriber>>
    BY <1>3, ExpireType, Zenon DEF IInv, Expire
  <2>2. ASSUME NEW s \in Subs PROVE Sub(s)'
    <3>1. Frame(s)
      BY <2>1, StillFrame, Zenon DEF IInv, subscriber
    <3> QED
      BY <3>1, <2>1, SubFrame, Zenon DEF IInv, subscriber
  <2> QED
    BY <2>1, <2>2, StillStep, Zenon DEF IInv, Erased
<1>4. ASSUME NEW s \in Subs, Consumer(s) \/ Lose(s) \/ Acknowledge(s) PROVE IInv'
  BY <1>4, Names, RecoverStep, ReconcileStep, PollStep, Zenon DEF Consumer
<1>5. CASE UNCHANGED vars
  <2>1. UNCHANGED <<canonical, owed, journal, pc, todo, subscriber, lock, due, receipts, bounds>>
    BY <1>5, Zenon DEF vars
  <2>2. TypeOK'
    <3> HIDE DEF Events
    <3> QED
      BY <2>1, ZenonT(30) DEF IInv, TypeOK, canonical, subscriber, bounds, Indices
  <2>3. ASSUME NEW s \in Subs PROVE Sub(s)'
    <3>1. Frame(s)
      BY <2>1, StillFrame, Zenon DEF IInv, subscriber
    <3> QED
      BY <3>1, <2>1, SubFrame, Zenon DEF IInv, subscriber
  <2> QED
    BY <2>1, <2>2, <2>3, StillStep, Zenon DEF IInv, Erased
<1> QED
  BY <1>1, <1>2, <1>3, <1>4, <1>5, Names, PublishStep, VerifyStep, RecoverStep, ReconcileStep, Zenon DEF Next

\* The journal, the copies of its subscribers and what is on its way to them stay
\* consistent with the canonical store (poll, acknowledge, recover_pending).
THEOREM Inductive == Spec => []IInv
<1>1. Init => IInv
  BY InvInit, Zenon
<1>2. IInv /\ [Next]_vars => IInv'
  BY InvNext, Zenon
<1> QED
  BY <1>1, <1>2, PTL DEF Spec

-----------------------------------------------------------------------------
(* The properties of ChangeStream.                                         *)

LEMMA InvConverged == IInv => Converged
<1> SUFFICES ASSUME IInv, NEW s \in Subs, Quiet, pc[s] = "idle", cursor[s] = Len(journal),
                    NEW i \in Items, EventsOf(i) # {}
             PROVE  copy[s][i] = View(i) \/ (copy[s][i] = Nothing /\ i \in restored)
  BY Zenon DEF Converged
<1>1. Latest(i) \in Indices /\ IsLast(i, Latest(i))
  BY LatestFacts, Zenon DEF IInv
<1>2. CopyHolds(s, i, cursor[s], copy[s][i]) /\ ~Owing(i)
  BY ZenonT(30) DEF IInv, Sub, Quiet, Owing
<1>3. Latest(i) <= cursor[s]
  BY <1>1 DEF Indices
<1>4. /\ copy[s][i] # Nothing => i \in Known(s)
      /\ journal[Latest(i)].kind = "erase" => copy[s][i] = Nothing
      /\ copy[s][i] = Memory(i) \/ (copy[s][i] = Nothing /\ i \in restored \cup blocked)
  BY <1>1, <1>2, <1>3, Zenon DEF CopyHolds
<1>5. CASE i \in blocked
  <2>1. i \in Known(s) => journal[Latest(i)].kind = "erase"
    BY <1>5, Zenon DEF Quiet
  <2> QED
    BY <1>4, <1>5, <2>1, ZenonT(30) DEF View
<1>6. CASE i \notin blocked
  BY <1>4, <1>6, Zenon DEF View, Memory
<1> QED
  BY <1>5, <1>6, Zenon

\* verify issues a receipt only when nothing of an erased item is out there.
LEMMA VerifySound ==
    ASSUME IInv, NEW i \in Items, verify(i), i \in receipts', i \notin receipts, i \notin restored
    PROVE  Absence(i)
<1> SUFFICES ASSUME NEW s \in Subs, Holds(s, i) PROVE FALSE
  BY Zenon DEF Absence
<1>1. i \in blocked /\ all_acknowledged({i})
  BY Zenon DEF verify
<1>2. i \in Known(s) /\ acks[s] \cap Erasures(i) = {}
  BY ZenonT(30) DEF IInv, Sub
<1>3. Erasures(i) # {}
  BY <1>1, <1>2, ZenonT(30) DEF all_acknowledged, PublicationPending
<1>4. \A n \in Erasures(i) : n \in acks[s]
  BY <1>1, <1>2, Zenon DEF all_acknowledged, PendingErasures
<1> QED
  BY <1>2, <1>3, <1>4, Zenon

\* Every variable keeps its type, whatever is written, forgotten, lost or polled,
\* and only the subscriber that polls holds the delivery lock (change_stream.poll).
THEOREM TypeCorrect == Spec => []TypeOK
<1>1. IInv => TypeOK
  BY Zenon DEF IInv
<1> QED
  BY <1>1, Inductive, PTL

\* A subscriber that read the whole journal when nothing is on its way to it has
\* the current view of every item the journal mentions (change_stream.poll).
THEOREM CaughtUpHasTheView == Spec => []Converged
  BY InvConverged, Inductive, PTL

\* erasure_verify.verify issues no receipt for an item of which a subscriber holds
\* a copy or is being sent one, unless the item came back after its erasure.
THEOREM ReceiptsAreSound == Spec => ReceiptSound
<1>1. IInv /\ [Next]_vars => [\A i \in receipts' \ receipts : i \notin restored => Absence(i)]_vars
  <2> SUFFICES ASSUME IInv, Next, NEW i \in receipts' \ receipts, i \notin restored
               PROVE  Absence(i)
    BY Zenon
  <2>1. \E j \in Items : verify(j)
    BY ZenonT(30) DEF Next, Forget, UndoLedger, Write, UndoWrite, Commit, Publish, Expire, RecoverRead, Reconcile,
           Consumer, PollLock, PollEvent, PollReturn, Receive, Lose, Acknowledge, acknowledge
  <2>2. PICK j \in Items : verify(j)
    BY <2>1, Zenon
  <2>3. j = i
    BY <2>2, ZenonT(30) DEF verify
  <2> QED
    BY <2>2, <2>3, VerifySound, Zenon
<1> QED
  BY <1>1, Inductive, PTL DEF Spec, ReceiptSound
===============================================================================
