------------------------- MODULE HostedDrainProofs -------------------------
(***************************************************************************)
(* What the projection's invariant says of the past, and that canonical    *)
(* writes and the steps of a drain keep it.  The theorems that rest on it  *)
(* are in HostedProjectionProofs.                                          *)
(***************************************************************************)
EXTENDS HostedProjection, TLAPS

Event == [record: Records, body: Body]

\* Event i is the last one of record r among the first n.
LastOf(r, i, n) ==
    /\ i \in 1..n /\ events[i].record = r
    /\ \A j \in i + 1..n : events[j].record # r

\* After n events record r has text x.
Has(n, r, x) == \E i \in 1..n : LastOf(r, i, n) /\ events[i].body = x

\* At any event, the events of a record so far have a last one.
Dated == \A n \in 1..Len(events), r \in Records :
    (\A i \in 1..n : events[i].record # r) \/ \E i \in 1..n : LastOf(r, i, n)

\* A tombstone of r is still to be projected by an index at event n.
ErasedAfter(r, n) == \E t \in Tombstones(r) : t > n

\* redact_changes and the rule on identities: a forgotten record has no other events.
Redacted == \A i, j \in DOMAIN events :
    events[i].record = events[j].record /\ events[i].body = Tombstone => events[j].body = Tombstone

\* Only forgotten records are erased.
EagerForgotten == \A r \in eager : Forgotten(r)

\* A row repeats the last event of its record.
RowHolds(r) ==
    IF rows[r] = None
    THEN \A i \in DOMAIN events : events[i].record = r => events[i].body = Tombstone
    ELSE /\ LastOf(r, rows[r].change_seq, Len(events))
         /\ rows[r].body = events[rows[r].change_seq].body
         /\ rows[r].body # Tombstone

RowsLast == \A r \in Records : RowHolds(r)

\* Each revision of an index has the texts at its event, but for records that a
\* later event erases: those it has or not.
Faithful(h, c) ==
    /\ h \in DOMAIN c /\ h \in {-1} \cup 1..Len(events) /\ DOMAIN c \subseteq {-1} \cup 1..Len(events)
    /\ \A v \in DOMAIN c : c[v] \in Content
    /\ \A v \in DOMAIN c, r \in Records, x \in Texts :
        /\ <<r, x>> \in c[v] => Has(v, r, x) \/ ErasedAfter(r, v)
        /\ Has(v, r, x) => <<r, x>> \in c[v]

Plan == [through: Nat, full: BOOLEAN, changes: [Records -> Texts \cup {Deleted, Unstaged}],
         hard_deleted: SUBSET Records]

\* What a drain read still leads from the head to its last event, although the
\* head and the events may have moved on.
PlanHolds(p) ==
    /\ p \in Plan /\ p.through \in 1..Len(events)
    /\ ~p.full => head # -1
    /\ \A r \in p.hard_deleted : Forgotten(r)
    /\ \A r \in Records : p.changes[r] = Unstaged =>
        \A i \in 1..p.through : p.full \/ i > head => events[i].record # r
    /\ \A r \in Records : p.changes[r] \in Texts =>
        Has(p.through, r, p.changes[r]) \/ ErasedAfter(r, p.through)
    /\ \A r \in Records, x \in Texts :
        Has(p.through, r, x) /\ p.changes[r] # Unstaged => p.changes[r] = x

Draft == [base: Int, target: Nat, full: BOOLEAN, delta: [Records -> Texts \cup {Deleted, Unstaged}]]

\* A draft is the plan of its drain, staged or still empty.
DraftOfPlan(w) ==
    /\ drafts[w].base < drafts[w].target
    /\ drafts[w].target = plan[w].through /\ drafts[w].full = plan[w].full
    /\ drafts[w].delta = IF pc[w] = "publish" THEN plan[w].changes ELSE [r \in Records |-> Unstaged]

DrainHolds(w) ==
    /\ pc[w] # "idle" => PlanHolds(plan[w])
    /\ pc[w] \in {"stage", "publish"} /\ drafts[w] # None => DraftOfPlan(w)

Draining == \A w \in Workers : DrainHolds(w)

\* A search reads the revision of its cursor, and finds what was there.
SearchHolds(s) ==
    /\ pc[s] # "idle" => cursor[s] \in 1..Len(events)
    /\ pc[s] = "search" /\ pins[s] # None => pins[s] = cursor[s] /\ pins[s] \in DOMAIN contents
    /\ pc[s] = "hydrate" => \A e \in hits[s] :
        e \in Records \X Texts /\ (Has(cursor[s], e[1], e[2]) \/ ErasedAfter(e[1], cursor[s]))

Searching == \A s \in Searchers : SearchHolds(s)

Labels == {"idle", "erase", "begin", "stage", "publish", "acknowledge", "pin", "search", "hydrate"}

Shape ==
    /\ events \in Seq(Event) /\ Len(events) <= MaxClock
    /\ rows \in [Records -> {None} \cup [body: Body, change_seq: Nat]]
    /\ acked \in {None} \cup 1..Len(events)
    /\ owner \in {None} \cup Workers /\ eager \subseteq Records
    /\ pc \in [Workers \cup Searchers -> Labels] /\ plan \in [Workers -> Plan \cup {None}]
    /\ drafts \in [Workers -> Draft \cup {None}] /\ pins \in [Searchers -> {None} \cup Int]
    /\ cursor \in [Searchers -> {None} \cup Nat] /\ hits \in [Searchers -> SUBSET (Records \X Texts)]
    /\ owner # None => pc[owner] # "idle"

\* The heart of the safety proof.
IInv ==
    /\ Shape /\ Dated /\ Redacted /\ RowsLast /\ EagerForgotten
    /\ Faithful(head, contents) /\ Faithful(backup.head, backup.contents)
    /\ Draining /\ Searching

-----------------------------------------------------------------------------
(* Greatest and least events.                                              *)

\* The greatest event of a set that has one.
LEMMA MaxOf ==
  ASSUME NEW S, NEW x \in S, \A y \in S : x >= y
  PROVE  Max(S) \in S /\ \A y \in S : Max(S) >= y
  BY Zenon DEF Max

\* Facts on integers, for the steps that otherwise need no arithmetic.
LEMMA AnInt == \A a \in {-1} \cup Nat : a \in Int
  OBVIOUS

LEMMA Still == \A a \in {-1} \cup Nat : a <= a
  OBVIOUS

LEMMA Above == \A a \in {-1} \cup Nat, b \in Nat : b > a => a < b
  BY Zenon

LEMMA AnIndex == \A k \in Nat : \A n \in 1..k : n \in Nat
  OBVIOUS

LEMMA MinOfTwo ==
  ASSUME NEW a \in Int, NEW b \in Int
  PROVE  Min({a, b}) = IF a <= b THEN a ELSE b
<1>1. \E x \in {a, b} : \A y \in {a, b} : x <= y
  BY SMT
<1>2. Min({a, b}) \in {a, b} /\ \A y \in {a, b} : Min({a, b}) <= y
  BY <1>1, Zenon DEF Min
<1> QED BY <1>2, SMT
\* append_change extends the log by one event.
LEMMA AppendFacts ==
  ASSUME NEW S, NEW past \in Seq(S), NEW e \in S, NEW new, new = Append(past, e)
  PROVE  /\ new \in Seq(S) /\ Len(new) = Len(past) + 1 /\ DOMAIN new = 1..Len(past) + 1
         /\ new[Len(past) + 1] = e /\ \A i \in 1..Len(past) : new[i] = past[i]
<1>1. new \in Seq(S) /\ Len(new) = Len(past) + 1
  OBVIOUS
<1>2. new[Len(past) + 1] = e /\ \A i \in 1..Len(past) : new[i] = past[i]
  OBVIOUS
<1> QED BY <1>1, <1>2

-----------------------------------------------------------------------------
(* Canonical writes: what they do to the past.                             *)

\* A write appends, and may redact the events of the record it forgets.
Grown ==
    /\ Len(events') = Len(events) + 1
    /\ \A i \in 1..Len(events) :
        \/ events'[i] = events[i]
        \/ /\ events'[i] = [record |-> events[i].record, body |-> Tombstone]
           /\ events'[Len(events) + 1] = events'[i]

\* What the past says of records changes only for those a later event erases.
Onward ==
    /\ Len(events') \in Nat /\ Len(events) <= Len(events')
    /\ \A i \in 1..Len(events) : events'[i].record = events[i].record
    /\ \A r \in Records : Forgotten(r) => Forgotten(r)'
    /\ \A n \in {-1} \cup 1..Len(events), r \in Records : ErasedAfter(r, n) => ErasedAfter(r, n)'
    /\ \A n \in {-1} \cup 1..Len(events), r \in Records, x \in Texts :
        /\ Has(n, r, x)' => Has(n, r, x)
        /\ Has(n, r, x) => Has(n, r, x)' \/ ErasedAfter(r, n)'

LEMMA GrownOnward ==
  ASSUME events \in Seq(Event), events' \in Seq(Event),
         Grown
  PROVE  Onward
<1> DEFINE L == Len(events)
<1>1. L \in Nat /\ Len(events') = L + 1 /\ DOMAIN events = 1..L /\ DOMAIN events' = 1..L + 1
  BY DEF Grown
<1>2. \A i \in 1..L : events'[i].record = events[i].record /\ events[i] \in Event
  <2> SUFFICES ASSUME NEW i \in 1..L
               PROVE  events'[i].record = events[i].record /\ events[i] \in Event
    BY Zenon
  <2>1. events[i] \in Event
    BY <1>1
  <2>2. events'[i] = events[i] \/ events'[i] = [record |-> events[i].record, body |-> Tombstone]
    BY <1>1, Zenon DEF Grown
  <2> QED BY <2>1, <2>2 DEF Event
<1>3. ASSUME NEW n \in {-1} \cup 1..L, NEW r \in Records, ErasedAfter(r, n)
      PROVE  ErasedAfter(r, n)'
  <2>1. PICK t \in Tombstones(r) : t > n
    BY <1>3, Zenon DEF ErasedAfter
  <2>2. t \in 1..L /\ events[t] = [record |-> r, body |-> Tombstone]
    BY <1>1, <2>1, Zenon DEF Tombstones
  <2>3. t \in 1..L + 1 /\ events'[t] = [record |-> r, body |-> Tombstone]
    BY <1>1, <2>2 DEF Grown
  <2>4. t \in Tombstones(r)'
    BY <1>1, <2>3, Zenon DEF Tombstones
  <2> QED BY <2>1, <2>4, Zenon DEF ErasedAfter
<1>6. ASSUME NEW r \in Records, Forgotten(r) PROVE Forgotten(r)'
  BY <1>1, <1>6 DEF Grown, Forgotten
<1>4. ASSUME NEW n \in {-1} \cup 1..L, NEW r \in Records, NEW x \in Texts, Has(n, r, x)'
      PROVE  Has(n, r, x)
  <2>1. PICK i \in 1..n : LastOf(r, i, n)' /\ events'[i].body = x
    BY <1>4, Zenon DEF Has
  <2>2. i \in 1..L /\ n \in 1..L
    BY <2>1, <1>1
  <2>3. events'[i] = events[i]
    <3>1. events'[i] = events[i] \/ events'[i] = [record |-> events[i].record, body |-> Tombstone]
      BY <2>2, Zenon DEF Grown
    <3>2. x # Tombstone
      BY NamesAssumption, Zenon
    <3> QED BY <2>1, <3>1, <3>2
  <2>4. LastOf(r, i, n)
    <3>1. \A j \in 1..n : events'[j].record = events[j].record
      BY <1>1, <1>2, <2>2
    <3>2. i \in 1..n /\ events'[i].record = r /\ \A j \in i + 1..n : j \in 1..n /\ events'[j].record # r
      BY <2>1, <2>2 DEF LastOf
    <3> QED BY <3>1, <3>2, ZenonT(30) DEF LastOf
  <2> QED BY <2>1, <2>3, <2>4, Zenon DEF Has
<1>5. ASSUME NEW n \in {-1} \cup 1..L, NEW r \in Records, NEW x \in Texts, Has(n, r, x)
      PROVE  Has(n, r, x)' \/ ErasedAfter(r, n)'
  <2>1. PICK i \in 1..n : LastOf(r, i, n) /\ events[i].body = x
    BY <1>5, Zenon DEF Has
  <2>2. i \in 1..L /\ n \in 1..L
    BY <2>1, <1>1
  <2>3. LastOf(r, i, n)'
    <3>1. \A j \in 1..n : events'[j].record = events[j].record
      BY <1>1, <1>2, <2>2
    <3>2. i \in 1..n /\ events[i].record = r /\ \A j \in i + 1..n : j \in 1..n /\ events[j].record # r
      BY <2>1, <2>2 DEF LastOf
    <3> QED BY <3>1, <3>2, Zenon DEF LastOf
  <2>4. CASE events'[i] = events[i]
    BY <2>1, <2>3, <2>4, Zenon DEF Has
  <2>5. CASE events'[L + 1] = [record |-> events[i].record, body |-> Tombstone]
    <3>1. events'[L + 1] = [record |-> r, body |-> Tombstone]
      BY <2>1, <2>5, Zenon DEF LastOf
    <3>2. L + 1 \in Tombstones(r)' /\ L + 1 > n
      BY <1>1, <2>2, <3>1 DEF Tombstones
    <3> QED BY <3>2, Zenon DEF ErasedAfter
  <2> QED BY <2>2, <2>4, <2>5, Zenon DEF Grown
<1> QED BY <1>1, <1>2, <1>3, <1>4, <1>5, <1>6 DEF Onward

LEMMA SameOnward ==
  ASSUME events \in Seq(Event), UNCHANGED events
  PROVE  Onward
  BY DEF Onward, Has, LastOf, ErasedAfter, Tombstones, Forgotten

LEMMA GrownDated ==
  ASSUME events \in Seq(Event), events' \in Seq(Event), Grown, Onward, Dated
  PROVE  Dated'
<1> DEFINE L == Len(events)
<1>1. L \in Nat /\ Len(events') = L + 1 /\ \A i \in 1..L : events'[i].record = events[i].record
  BY DEF Grown, Onward
<1> SUFFICES ASSUME NEW n \in 1..L + 1, NEW r \in Records, NEW k \in 1..n, events'[k].record = r
             PROVE  \E i \in 1..n : LastOf(r, i, n)'
  BY <1>1, Zenon DEF Dated
<1>2. CASE events'[n].record = r
  <2>1. n \in 1..n /\ n + 1..n = {}
    BY <1>1
  <2> QED BY <1>2, <2>1, Zenon DEF LastOf
<1>3. CASE events'[n].record # r
  <2> DEFINE m == IF n = L + 1 THEN L ELSE n
  <2>1. m \in 1..L /\ m \in 1..n /\ k \in 1..m
    BY <1>1, <1>3
  <2>2. events[k].record = r
    BY <1>1, <2>1
  <2>3. PICK i \in 1..m : LastOf(r, i, m)
    BY <2>1, <2>2, Zenon DEF Dated
  <2>4. i \in 1..n /\ i \in 1..L /\ events'[i].record = r
    BY <1>1, <2>1, <2>3 DEF LastOf
  <2>5. ASSUME NEW j \in i + 1..n PROVE events'[j].record # r
    <3>1. j = n \/ (j \in i + 1..m /\ j \in 1..L)
      BY <1>1, <2>4
    <3> QED BY <1>1, <1>3, <2>3, <3>1, Zenon DEF LastOf
  <2> QED BY <2>4, <2>5, Zenon DEF LastOf
<1> QED BY <1>2, <1>3, Zenon

\* Writes leave every copy of the index faithful.
LEMMA KeepFaithful ==
  ASSUME NEW h, NEW c, events \in Seq(Event), Onward, Faithful(h, c)
  PROVE  Faithful(h, c)'
<1>1. Len(events) \in Nat /\ Len(events') \in Nat /\ Len(events) <= Len(events')
  BY DEF Onward
<1>2. h \in DOMAIN c /\ h \in {-1} \cup 1..Len(events') /\ DOMAIN c \subseteq {-1} \cup 1..Len(events')
  BY <1>1 DEF Faithful
<1>3. ASSUME NEW v \in DOMAIN c, NEW r \in Records, NEW x \in Texts
      PROVE  /\ <<r, x>> \in c[v] => Has(v, r, x)' \/ ErasedAfter(r, v)'
             /\ Has(v, r, x)' => <<r, x>> \in c[v]
  <2>1. v \in {-1} \cup 1..Len(events)
    BY Zenon DEF Faithful
  <2>2. /\ ErasedAfter(r, v) => ErasedAfter(r, v)'
        /\ Has(v, r, x)' => Has(v, r, x)
        /\ Has(v, r, x) => Has(v, r, x)' \/ ErasedAfter(r, v)'
    BY <2>1, Zenon DEF Onward
  <2>3. /\ <<r, x>> \in c[v] => Has(v, r, x) \/ ErasedAfter(r, v)
        /\ Has(v, r, x) => <<r, x>> \in c[v]
    BY Zenon DEF Faithful
  <2> QED BY <2>2, <2>3, Zenon
<1>4. \A v \in DOMAIN c : c[v] \in Content
  BY Zenon DEF Faithful
<1> QED BY <1>2, <1>3, <1>4, Zenon DEF Faithful, Content

\* What a drain read stays good while events are written and the head moves on.
LEMMA KeepPlan ==
  ASSUME NEW p, events \in Seq(Event), Onward, PlanHolds(p),
         head \in {-1} \cup Nat, head' \in {-1} \cup Nat, head <= head'
  PROVE  PlanHolds(p)'
<1> DEFINE n == p.through
<1>1. n \in 1..Len(events) /\ p \in Plan /\ p.full \in BOOLEAN /\ (~p.full => head # -1)
  BY Zenon DEF PlanHolds, Plan
<1>2. Len(events) \in Nat /\ Len(events') \in Nat /\ Len(events) <= Len(events')
  BY DEF Onward
<1>3. n \in 1..Len(events')
  BY <1>1, <1>2
<1>4. ASSUME NEW r \in Records, p.changes[r] = Unstaged, NEW i \in 1..n, p.full \/ i > head'
      PROVE  events'[i].record # r
  <2>1. i \in 1..Len(events) /\ (p.full \/ i > head)
    BY <1>1, <1>2, <1>4
  <2>2. events[i].record # r
    BY <1>4, <2>1, Zenon DEF PlanHolds
  <2> QED BY <2>1, <2>2, Zenon DEF Onward
<1>5. ASSUME NEW r \in Records, p.changes[r] \in Texts
      PROVE  Has(n, r, p.changes[r])' \/ ErasedAfter(r, n)'
  <2>1. Has(n, r, p.changes[r]) \/ ErasedAfter(r, n)
    BY <1>5, Zenon DEF PlanHolds
  <2> QED BY <1>1, <1>5, <2>1, Zenon DEF Onward
<1>6. ASSUME NEW r \in Records, NEW x \in Texts, Has(n, r, x)', p.changes[r] # Unstaged
      PROVE  p.changes[r] = x
  <2>1. Has(n, r, x)
    BY <1>1, <1>6, Zenon DEF Onward
  <2> QED BY <1>6, <2>1, Zenon DEF PlanHolds
<1>7. ~p.full => head' # -1
  BY <1>1
<1>8. \A r \in p.hard_deleted : Forgotten(r)'
  <2>1. \A r \in p.hard_deleted : r \in Records /\ Forgotten(r)
    BY <1>1, Zenon DEF PlanHolds, Plan
  <2> QED BY <2>1, Zenon DEF Onward
<1> QED BY <1>1, <1>3, <1>4, <1>5, <1>6, <1>7, <1>8, Zenon DEF PlanHolds, Plan

\* A search that a step does not touch goes on as before.
LEMMA KeepSearch ==
  ASSUME NEW s \in Searchers, events \in Seq(Event), Onward, SearchHolds(s),
         pc'[s] = pc[s], cursor'[s] = cursor[s], hits'[s] = hits[s], pins'[s] \in {pins[s], None},
         DOMAIN contents \ {-1} \subseteq DOMAIN contents'
  PROVE  SearchHolds(s)'
<1>1. pc[s] # "idle" => cursor[s] \in 1..Len(events)
  BY Zenon DEF SearchHolds
<1>2. pc[s] # "idle" => cursor[s] \in 1..Len(events')
  BY <1>1 DEF Onward
<1>3. pc[s] = "search" /\ pins[s] # None => pins[s] = cursor[s] /\ pins[s] \in DOMAIN contents
  BY Zenon DEF SearchHolds
<1>4. ASSUME pc[s] = "hydrate", NEW e \in hits[s]
      PROVE  e \in Records \X Texts /\ (Has(cursor[s], e[1], e[2]) \/ ErasedAfter(e[1], cursor[s]))'
  <2>1. e \in Records \X Texts /\ (Has(cursor[s], e[1], e[2]) \/ ErasedAfter(e[1], cursor[s]))
    BY <1>4, Zenon DEF SearchHolds
  <2>2. e[1] \in Records /\ e[2] \in Texts
    BY <2>1, Zenon
  <2>3. cursor[s] \in {-1} \cup 1..Len(events)
    BY <1>1, <1>4, Zenon
  <2>4. ASSUME NEW n \in {-1} \cup 1..Len(events), Has(n, e[1], e[2]) \/ ErasedAfter(e[1], n)
        PROVE  Has(n, e[1], e[2])' \/ ErasedAfter(e[1], n)'
    BY <2>2, <2>4, Zenon DEF Onward
  <2>5. cursor'[s] = cursor[s]
    BY Zenon
  <2> QED BY <2>1, <2>3, <2>4, <2>5, Zenon
<1>5. pc'[s] = "search" /\ pins'[s] # None => pins'[s] = cursor'[s] /\ pins'[s] \in DOMAIN contents'
  <2> SUFFICES ASSUME pc'[s] = "search", pins'[s] # None
               PROVE  pins'[s] = cursor'[s] /\ pins'[s] \in DOMAIN contents'
    BY Zenon
  <2>1. pins[s] = cursor[s] /\ pins[s] \in DOMAIN contents /\ cursor[s] \in 1..Len(events)
    BY <1>1, <1>3, Zenon
  <2>2. cursor[s] # -1
    BY <2>1
  <2> QED BY <2>1, <2>2, Zenon
<1> QED BY <1>2, <1>4, <1>5, Zenon DEF SearchHolds

\* A drain that a step does not touch goes on as before.
LEMMA KeepDrain ==
  ASSUME NEW w \in Workers, events \in Seq(Event), Onward, DrainHolds(w),
         head \in {-1} \cup Nat, head' \in {-1} \cup Nat, head <= head',
         pc'[w] = pc[w], plan'[w] = plan[w], drafts'[w] \in {drafts[w], None}
  PROVE  DrainHolds(w)'
<1>1. pc[w] # "idle" => PlanHolds(plan[w])
  BY Zenon DEF DrainHolds
<1>2. pc'[w] # "idle" => PlanHolds(plan[w])'
  BY <1>1, KeepPlan, Zenon
<1>3. pc[w] \in {"stage", "publish"} /\ drafts[w] # None => DraftOfPlan(w)
  BY Zenon DEF DrainHolds
<1>4. pc'[w] \in {"stage", "publish"} /\ drafts'[w] # None => DraftOfPlan(w)'
  BY <1>3, Zenon DEF DraftOfPlan
<1> QED BY <1>2, <1>4, Zenon DEF DrainHolds

Elsewhere == <<contents, head, drafts, pins, backup, pc, plan, cursor, hits>>

LEMMA HeadInt ==
  ASSUME IInv
  PROVE  Len(events) \in Nat /\ head \in {-1} \cup Nat /\ events \in Seq(Event)
  BY DEF IInv, Faithful, Shape

LEMMA WriteStep ==
  ASSUME IInv, Shape', Redacted', RowsLast', EagerForgotten', Grown, UNCHANGED Elsewhere
  PROVE  IInv'
<1>0. events \in Seq(Event) /\ events' \in Seq(Event) /\ head \in {-1} \cup Nat
  BY HeadInt, Zenon DEF Shape
<1>1. events \in Seq(Event) /\ head \in {-1} \cup Nat /\ Onward
  BY <1>0, GrownOnward, Zenon
<1>2. Faithful(head, contents) /\ Faithful(backup.head, backup.contents) /\ Dated
  BY Zenon DEF IInv
<1>7. Dated'
  BY <1>0, <1>1, <1>2, GrownDated, Zenon
<1>3. Faithful(head, contents)'
  BY <1>1, <1>2, KeepFaithful, Zenon DEF Elsewhere
<1>4. Faithful(backup.head, backup.contents)'
  BY <1>1, <1>2, KeepFaithful, Zenon DEF Elsewhere
<1>5. Draining'
  <2> SUFFICES ASSUME NEW w \in Workers PROVE DrainHolds(w)'
    BY Zenon DEF Draining
  <2>1. DrainHolds(w)
    BY Zenon DEF IInv, Draining
  <2> QED BY <1>1, <2>1, KeepDrain DEF Elsewhere
<1>6. Searching'
  <2> SUFFICES ASSUME NEW s \in Searchers PROVE SearchHolds(s)'
    BY Zenon DEF Searching
  <2>1. SearchHolds(s)
    BY Zenon DEF IInv, Searching
  <2> QED BY <1>1, <2>1, KeepSearch, Zenon DEF Elsewhere
<1> QED BY <1>3, <1>4, <1>5, <1>6, <1>7, Zenon DEF IInv

LEMMA PutStep ==
  ASSUME IInv, ~Reuse, NEW r \in Records, NEW body \in Texts \cup {Inactive}, put(r, body)
  PROVE  IInv'
<1> DEFINE L == Len(events)
           new == [record |-> r, body |-> body]
<1>1. Shape /\ Redacted /\ RowsLast /\ events \in Seq(Event) /\ L \in Nat
  BY HeadInt, Zenon DEF IInv
<1>2. new \in Event /\ new.body # Tombstone
  BY NamesAssumption, Zenon DEF Event, Body
<1>3. events' = Append(events, new)
  BY Zenon DEF put, append_change
<1>4. /\ events' \in Seq(Event) /\ Len(events') = L + 1
      /\ events'[L + 1] = new /\ \A i \in 1..L : events'[i] = events[i]
  BY <1>1, <1>2, <1>3
<1>5. Grown /\ Onward
  BY <1>1, <1>4, GrownOnward, Zenon DEF Grown
<1>6. DOMAIN events = 1..L /\ DOMAIN events' = 1..L + 1 /\ \A i \in 1..L : events[i] \in Event
  BY <1>1, <1>4
<1>7. \A i \in 1..L : events[i].record = r => events[i].body # Tombstone
  <2> SUFFICES ASSUME NEW i \in 1..L, events[i].record = r, events[i].body = Tombstone PROVE FALSE
    BY Zenon
  <2>1. events[i] = [record |-> r, body |-> Tombstone]
    BY <1>6, Zenon DEF Event
  <2> QED BY <1>6, <2>1, Zenon DEF put, Forgotten
<1>8. Redacted'
  <2> SUFFICES ASSUME NEW i \in 1..L + 1, NEW j \in 1..L + 1,
                      events'[i].record = events'[j].record, events'[i].body = Tombstone
               PROVE  events'[j].body = Tombstone
    BY <1>6, Zenon DEF Redacted
  <2>1. i \in 1..L
    BY <1>1, <1>2, <1>4
  <2>2. events[i].record # r
    BY <1>4, <1>7, <2>1, Zenon
  <2>3. j \in 1..L
    BY <1>1, <1>4, <2>1, <2>2, SMTT(30)
  <2> QED BY <1>1, <1>4, <1>6, <2>1, <2>3, SMTT(30) DEF Redacted
<1> DEFINE row == [body |-> body, change_seq |-> L + 1]
<1>9. rows' = [rows EXCEPT ![r] = row] /\ row \in [body: Body, change_seq: Nat] /\ row # None
  BY <1>1, NamesAssumption DEF put, Body
<1>10. RowsLast'
  <2> SUFFICES ASSUME NEW q \in Records PROVE RowHolds(q)'
    BY Zenon DEF RowsLast
  <2>0. RowHolds(q)
    BY <1>1, Zenon DEF RowsLast
  <2>1. CASE q = r
    <3>1. rows'[q] = row
      BY <1>1, <1>9, <2>1, Zenon DEF Shape
    <3>2. rows'[q].change_seq = Len(events') /\ rows'[q].body = body /\ rows'[q] # None
      BY <1>4, <1>9, <3>1
    <3>3. LastOf(q, rows[q].change_seq, Len(events))'
      BY <1>1, <1>4, <2>1, <3>2 DEF LastOf
    <3> QED BY <1>2, <1>4, <3>2, <3>3 DEF RowHolds
  <2>2. CASE q # r
    <3>1. rows'[q] = rows[q]
      BY <1>1, <1>9, <2>2, Zenon DEF Shape
    <3>2. CASE rows[q] = None
      <4>1. \A i \in 1..L : events[i].record = q => events[i].body = Tombstone
        BY <1>6, <2>0, <3>2, Zenon DEF RowHolds
      <4>2. \A i \in 1..L + 1 : events'[i].record = q => events'[i].body = Tombstone
        BY <1>1, <1>4, <2>2, <4>1, SMTT(30)
      <4> QED BY <1>6, <3>1, <3>2, <4>2, Zenon DEF RowHolds
    <3>3. CASE rows[q] # None
      <4>1. /\ LastOf(q, rows[q].change_seq, L)
            /\ rows[q].body = events[rows[q].change_seq].body /\ rows[q].body # Tombstone
        BY <2>0, <3>3, Zenon DEF RowHolds
      <4>2. LastOf(q, rows[q].change_seq, Len(events))'
        <5> DEFINE k == rows[q].change_seq
        <5>1. k \in 1..L /\ events[k].record = q /\ \A j \in k + 1..L : events[j].record # q
          BY <4>1, Zenon DEF LastOf
        <5>2. k \in 1..L + 1 /\ events'[k].record = q
          BY <1>1, <1>4, <5>1
        <5>3. ASSUME NEW j \in k + 1..L + 1 PROVE events'[j].record # q
          <6>1. j \in k + 1..L \/ j = L + 1
            BY <1>1, <5>1
          <6> QED BY <1>1, <1>4, <2>2, <5>1, <6>1
        <5> QED BY <1>4, <3>1, <5>2, <5>3, Zenon DEF LastOf
      <4>3. events'[rows[q].change_seq] = events[rows[q].change_seq]
        BY <1>4, <4>1, Zenon DEF LastOf
      <4> QED BY <3>1, <3>3, <4>1, <4>2, <4>3, Zenon DEF RowHolds
    <3> QED BY <3>2, <3>3, Zenon
  <2> QED BY <2>1, <2>2, Zenon
<1>11. Shape'
  <2>1. acked' \in {None} \cup 1..Len(events')
    BY <1>1, <1>4, SMTT(30) DEF Shape, put
  <2>2. rows' \in [Records -> {None} \cup [body: Body, change_seq: Nat]]
    BY <1>1, <1>9, Zenon DEF Shape
  <2>3. Len(events') <= MaxClock
    BY <1>1, <1>4, ProjectionAssumption DEF put
  <2>4. UNCHANGED <<owner, eager, pc, plan, drafts, pins, cursor, hits>>
    BY Zenon DEF put, index
  <2> QED BY <1>1, <1>4, <2>1, <2>2, <2>3, <2>4, Zenon DEF Shape
<1>12. EagerForgotten'
  <2>1. eager' = eager /\ eager \subseteq Records /\ EagerForgotten
    BY <1>1, Zenon DEF put, Shape, IInv
  <2> QED BY <1>5, <2>1, Zenon DEF EagerForgotten, Onward
<1> QED BY <1>5, <1>8, <1>10, <1>11, <1>12, WriteStep, Zenon DEF put, Elsewhere, index

LEMMA ForgetStep ==
  ASSUME IInv, NEW r \in Records, forget(r)
  PROVE  IInv'
<1> DEFINE L == Len(events)
           tomb == [record |-> r, body |-> Tombstone]
           past == redact_changes(r)
<1>1. Shape /\ Redacted /\ RowsLast /\ events \in Seq(Event) /\ L \in Nat
  BY HeadInt, Zenon DEF IInv
<1>2. tomb \in Event
  BY Zenon DEF Event, Body
<1>3. DOMAIN events = 1..L /\ \A i \in 1..L : events[i] \in Event
  BY <1>1
<1>4. \A i \in 1..L : past[i] = IF events[i].record = r THEN tomb ELSE events[i]
  BY <1>3 DEF redact_changes, Event
<1>5. past \in Seq(Event) /\ Len(past) = L
  <2>1. past \in [1..L -> Event]
    BY <1>2, <1>3, <1>4, Zenon DEF redact_changes
  <2> QED BY <1>1, <2>1
<1>6. events' = Append(past, tomb)
  BY Zenon DEF forget, append_change
<1>7. /\ events' \in Seq(Event) /\ Len(events') = L + 1
      /\ events'[L + 1] = tomb /\ \A i \in 1..L : events'[i] = past[i]
  BY <1>1, <1>2, <1>5, <1>6, SMTT(30)
<1>8. /\ \A i \in 1..L + 1 : events'[i].record = r => events'[i].body = Tombstone
      /\ \A i \in 1..L : events[i].record # r => events'[i] = events[i]
      /\ \A i \in 1..L : events'[i].record = events[i].record
  BY <1>1, <1>4, <1>7, SMTT(30)
<1>9. Grown /\ Onward
  <2>1. Grown
    BY <1>1, <1>4, <1>7, Zenon DEF Grown
  <2> QED BY <1>1, <1>7, <2>1, GrownOnward, Zenon
<1>10. DOMAIN events' = 1..L + 1
  BY <1>7
<1>11. Redacted'
  <2> SUFFICES ASSUME NEW i \in 1..L + 1, NEW j \in 1..L + 1,
                      events'[i].record = events'[j].record, events'[i].body = Tombstone
               PROVE  events'[j].body = Tombstone
    BY <1>10, Zenon DEF Redacted
  <2>1. CASE events'[j].record = r
    BY <1>8, <2>1, Zenon
  <2>2. CASE events'[j].record # r
    <3>1. i \in 1..L /\ j \in 1..L
      BY <1>1, <1>7, <2>2
    <3>2. events'[i] = events[i] /\ events'[j] = events[j]
      BY <1>8, <2>2, <3>1, Zenon
    <3> QED BY <1>1, <1>3, <3>1, <3>2, Zenon DEF Redacted
  <2> QED BY <2>1, <2>2, Zenon
<1>12. RowsLast'
  <2> SUFFICES ASSUME NEW q \in Records PROVE RowHolds(q)'
    BY Zenon DEF RowsLast
  <2>0. RowHolds(q) /\ rows' = [rows EXCEPT ![r] = None]
    BY <1>1, Zenon DEF RowsLast, forget
  <2>1. CASE q = r
    <3>1. rows'[q] = None
      BY <1>1, <2>0, <2>1, Zenon DEF Shape
    <3> QED BY <1>8, <1>10, <2>1, <3>1, Zenon DEF RowHolds
  <2>2. CASE q # r
    <3>1. rows'[q] = rows[q]
      BY <1>1, <2>0, <2>2, Zenon DEF Shape
    <3>2. CASE rows[q] = None
      <4>1. \A i \in 1..L : events[i].record = q => events[i].body = Tombstone
        BY <1>3, <2>0, <3>2, Zenon DEF RowHolds
      <4>2. \A i \in 1..L + 1 : events'[i].record = q => events'[i].body = Tombstone
        BY <1>1, <1>7, <1>8, <2>2, <4>1, SMTT(30)
      <4> QED BY <1>10, <3>1, <3>2, <4>2, Zenon DEF RowHolds
    <3>3. CASE rows[q] # None
      <4> DEFINE k == rows[q].change_seq
      <4>1. /\ LastOf(q, k, L)
            /\ rows[q].body = events[k].body /\ rows[q].body # Tombstone
        BY <2>0, <3>3, Zenon DEF RowHolds
      <4>2. k \in 1..L /\ events[k].record = q /\ \A j \in k + 1..L : events[j].record # q
        BY <4>1, Zenon DEF LastOf
      <4>3. k \in 1..L + 1 /\ events'[k] = events[k]
        BY <1>1, <1>8, <2>2, <4>2, SMTT(30)
      <4>4. ASSUME NEW j \in k + 1..L + 1 PROVE events'[j].record # q
        <5>1. (j \in k + 1..L /\ j \in 1..L) \/ j = L + 1
          BY <1>1, <4>2, SMTT(30)
        <5> QED BY <1>1, <1>7, <1>8, <2>2, <4>2, <5>1, SMTT(30)
      <4>5. LastOf(q, rows[q].change_seq, Len(events))'
        BY <1>7, <3>1, <4>2, <4>3, <4>4, Zenon DEF LastOf
      <4> QED BY <3>1, <3>3, <4>1, <4>3, <4>5, Zenon DEF RowHolds
    <3> QED BY <3>2, <3>3, Zenon
  <2> QED BY <2>1, <2>2, Zenon
<1>13. Shape'
  <2>1. acked' \in {None} \cup 1..Len(events') /\ eager' \subseteq Records
    BY <1>1, <1>7, SMTT(30) DEF Shape, forget
  <2>2. rows' \in [Records -> {None} \cup [body: Body, change_seq: Nat]]
    BY <1>1, Zenon DEF Shape, forget
  <2>3. Len(events') <= MaxClock
    BY <1>1, <1>7, ProjectionAssumption DEF forget
  <2>4. UNCHANGED <<owner, pc, plan, drafts, pins, cursor, hits>>
    BY Zenon DEF forget, index
  <2> QED BY <1>1, <1>7, <2>1, <2>2, <2>3, <2>4, Zenon DEF Shape
<1>14. EagerForgotten'
  <2>1. eager' = eager \cup {r} /\ eager \subseteq Records /\ EagerForgotten
    BY <1>1, Zenon DEF forget, Shape, IInv
  <2>2. Forgotten(r)'
    BY <1>1, <1>7, <1>10 DEF Forgotten
  <2>3. \A q \in eager : Forgotten(q)'
    BY <1>9, <2>1, Zenon DEF EagerForgotten, Onward
  <2> QED BY <2>1, <2>2, <2>3, Zenon DEF EagerForgotten
<1> QED BY <1>9, <1>11, <1>12, <1>13, <1>14, WriteStep, Zenon DEF forget, Elsewhere, index

-----------------------------------------------------------------------------
(* The index.                                                              *)

\* A forgotten record has no text at any event.
LEMMA ForgottenHasNot ==
  ASSUME events \in Seq(Event), Redacted, NEW r \in Records, Forgotten(r), NEW x \in Texts,
         NEW n \in {-1} \cup 1..Len(events)
  PROVE  ~Has(n, r, x)
<1> SUFFICES ASSUME NEW i \in 1..n, LastOf(r, i, n), events[i].body = x PROVE FALSE
  BY Zenon DEF Has
<1>1. PICK t \in DOMAIN events : events[t] = [record |-> r, body |-> Tombstone]
  BY Zenon DEF Forgotten
<1>2. i \in DOMAIN events /\ events[i].record = r
  BY DEF LastOf
<1>3. events[i].body = Tombstone
  BY <1>1, <1>2 DEF Redacted
<1> QED BY <1>3, NamesAssumption, Zenon

\* Erasure of forgotten records leaves an index faithful.
LEMMA EraseFaithful ==
  ASSUME events \in Seq(Event), Redacted, NEW K, \A r \in K : Forgotten(r),
         NEW h, NEW c, Faithful(h, c), NEW d, d = [v \in DOMAIN c |-> {e \in c[v] : e[1] \notin K}]
  PROVE  Faithful(h, d)
<1>1. DOMAIN d = DOMAIN c /\ \A v \in DOMAIN c : d[v] = {e \in c[v] : e[1] \notin K}
  BY Zenon
<1>2. ASSUME NEW v \in DOMAIN c, NEW r \in Records, NEW x \in Texts
      PROVE  /\ <<r, x>> \in d[v] => Has(v, r, x) \/ ErasedAfter(r, v)
             /\ Has(v, r, x) => <<r, x>> \in d[v]
  <2>1. /\ <<r, x>> \in c[v] => Has(v, r, x) \/ ErasedAfter(r, v)
        /\ Has(v, r, x) => <<r, x>> \in c[v]
    BY Zenon DEF Faithful
  <2>2. v \in {-1} \cup 1..Len(events)
    BY Zenon DEF Faithful
  <2>3. r \in K => ~Has(v, r, x)
    BY <2>2, ForgottenHasNot, Zenon
  <2>4. <<r, x>> \in d[v] <=> <<r, x>> \in c[v] /\ r \notin K
    BY <1>1, Zenon
  <2> QED BY <2>1, <2>3, <2>4, Zenon
<1>3. \A v \in DOMAIN c : d[v] \in Content
  BY <1>1, Zenon DEF Faithful, Content
<1>4. /\ h \in DOMAIN d /\ h \in {-1} \cup 1..Len(events)
      /\ DOMAIN d \subseteq {-1} \cup 1..Len(events)
  BY <1>1, Zenon DEF Faithful
<1> QED BY <1>1, <1>2, <1>3, <1>4, Zenon DEF Faithful

\* Without events of r between m and n, what r has at m it has at n, and conversely.
LEMMA HasBetween ==
  ASSUME events \in Seq(Event), NEW r \in Records, NEW x \in Texts,
         NEW m \in 1..Len(events), NEW n \in 1..Len(events), m < n,
         \A i \in 1..n : i > m => events[i].record # r
  PROVE  Has(m, r, x) <=> Has(n, r, x)
<1>1. ASSUME NEW i \in 1..m, LastOf(r, i, m), events[i].body = x PROVE Has(n, r, x)
  <2>1. i \in 1..n /\ events[i].record = r
    BY <1>1 DEF LastOf
  <2>2. ASSUME NEW j \in i + 1..n PROVE events[j].record # r
    <3>1. j \in i + 1..m \/ (j \in 1..n /\ j > m)
      BY <1>1
    <3> QED BY <1>1, <3>1, Zenon DEF LastOf
  <2>3. LastOf(r, i, n)
    BY <2>1, <2>2, Zenon DEF LastOf
  <2> QED BY <1>1, <2>1, <2>3, Zenon DEF Has
<1>2. ASSUME NEW i \in 1..n, LastOf(r, i, n), events[i].body = x PROVE Has(m, r, x)
  <2>1. events[i].record = r
    BY <1>2, Zenon DEF LastOf
  <2>2. i \in 1..m
    BY <2>1
  <2>3. \A j \in i + 1..m : j \in i + 1..n
    BY <2>2
  <2>4. LastOf(r, i, m)
    BY <1>2, <2>1, <2>2, <2>3, Zenon DEF LastOf
  <2> QED BY <1>2, <2>2, <2>4, Zenon DEF Has
<1> QED BY <1>1, <1>2, Zenon DEF Has

\* What a plan makes of the head is faithful to its last event.
LEMMA PublishFaithful ==
  ASSUME events \in Seq(Event), Faithful(head, contents), NEW p, PlanHolds(p), p.through > head,
         NEW r \in Records, NEW x \in Texts
  PROVE  LET new == Index!Overlay(contents[head], p.full, p.changes) IN
         /\ <<r, x>> \in new => Has(p.through, r, x) \/ ErasedAfter(r, p.through)
         /\ Has(p.through, r, x) => <<r, x>> \in new
<1> DEFINE new == Index!Overlay(contents[head], p.full, p.changes)
           n == p.through
<1>1. <<r, x>> \in new <=> \/ <<r, x>> \in contents[head] /\ ~p.full /\ p.changes[r] = Unstaged
                           \/ p.changes[r] = x
  BY Zenon DEF Index!Overlay
<1>2. n \in 1..Len(events) /\ Len(events) \in Nat /\ p.full \in BOOLEAN
  BY DEF PlanHolds, Plan
<1>3. CASE p.changes[r] = Unstaged
  <2>1. p.changes[r] # x
    BY <1>3, NamesAssumption, Zenon
  <2>2. CASE p.full
    <3>1. \A i \in 1..n : events[i].record # r
      BY <1>3, <2>2, Zenon DEF PlanHolds
    <3>2. ~Has(n, r, x)
      BY <3>1, Zenon DEF Has, LastOf
    <3> QED BY <1>1, <2>1, <2>2, <3>2, ZenonT(30)
  <2>3. CASE ~p.full
    <3>1. head \in 1..Len(events) /\ head \in DOMAIN contents
      BY <2>3, Zenon DEF PlanHolds, Faithful
    <3>2. \A i \in 1..n : i > head => events[i].record # r
      BY <1>3, Zenon DEF PlanHolds
    <3>3. Has(head, r, x) <=> Has(n, r, x)
      BY <1>2, <3>1, <3>2, HasBetween, Zenon
    <3>4. ErasedAfter(r, head) => ErasedAfter(r, n)
      <4> SUFFICES ASSUME NEW t \in Tombstones(r), t > head PROVE t > n
        BY Zenon DEF ErasedAfter
      <4>1. t \in 1..Len(events) /\ events[t].record = r
        BY DEF Tombstones
      <4> QED BY <1>2, <3>1, <3>2, <4>1
    <3>5. /\ <<r, x>> \in contents[head] => Has(head, r, x) \/ ErasedAfter(r, head)
          /\ Has(head, r, x) => <<r, x>> \in contents[head]
      BY <3>1, Zenon DEF Faithful
    <3> QED BY <1>1, <1>3, <2>1, <2>3, <3>3, <3>4, <3>5, Zenon
  <2> QED BY <2>2, <2>3, Zenon
<1>4. CASE p.changes[r] # Unstaged
  <2>1. <<r, x>> \in new <=> p.changes[r] = x
    BY <1>1, <1>4, Zenon
  <2>2. p.changes[r] = x => Has(n, r, x) \/ ErasedAfter(r, n)
    BY Zenon DEF PlanHolds
  <2>3. Has(n, r, x) => p.changes[r] = x
    BY <1>4, Zenon DEF PlanHolds
  <2> QED BY <2>1, <2>2, <2>3, Zenon
<1> QED BY <1>3, <1>4, Zenon

-----------------------------------------------------------------------------
(* What a drain reads.                                                     *)

LEMMA LatestFacts ==
  ASSUME events \in Seq(Event), Dated, NEW r \in Records, NEW from \in Nat,
         NEW n \in 1..Len(events), NEW b, b = Latest(r, from, n)
  PROVE  /\ b \in Texts \cup {Deleted, Unstaged}
         /\ b = Unstaged => \A i \in 1..n : i > from => events[i].record # r
         /\ b \in Texts => Has(n, r, b)
         /\ \A x \in Texts : Has(n, r, x) /\ b # Unstaged => b = x
<1> DEFINE of == {i \in from + 1..n : events[i].record = r}
<1>0. Len(events) \in Nat /\ n \in Nat
  OBVIOUS
<1>1. CASE of = {}
  <2>1. b = Unstaged
    BY <1>1, Zenon DEF Latest
  <2>2. \A i \in 1..n : i > from => events[i].record # r
    <3> SUFFICES ASSUME NEW i \in 1..n, i > from, events[i].record = r PROVE FALSE
      BY Zenon
    <3>1. i \in of
      BY <1>0
    <3> QED BY <1>1, <3>1, Zenon
  <2> QED BY <2>1, <2>2, NamesAssumption, Zenon
<1>2. CASE of # {}
  <2> DEFINE m == Max(of)
             last == events[m].body
  <2>1. PICK z \in 1..n : LastOf(r, z, n)
    BY <1>0, <1>2 DEF Dated
  <2>2. m \in of /\ \A y \in of : y <= m
    <3>1. z \in of /\ \A y \in of : z >= y
      BY <1>0, <1>2, <2>1 DEF LastOf
    <3>2. m \in of /\ \A y \in of : m >= y
      BY <3>1, MaxOf, Zenon
    <3> QED BY <1>0, <3>2, Zenon
  <2>3. b = IF last \in Texts THEN last ELSE Deleted
    BY <1>2, Zenon DEF Latest
  <2>4. m \in 1..n /\ m > from /\ events[m].record = r
    BY <1>0, <2>2
  <2>5. LastOf(r, m, n)
    <3>1. ASSUME NEW j \in m + 1..n, events[j].record = r PROVE FALSE
      <4>1. j \in of
        BY <1>0, <2>4, <3>1
      <4>2. j <= m
        BY <2>2, <4>1, Zenon
      <4> QED BY <1>0, <2>4, <4>2
    <3> HIDE DEF m
    <3> QED BY <2>4, <3>1, Zenon DEF LastOf
  <2> HIDE DEF m, of
  <2>6. last \in Texts => Has(n, r, last)
    BY <2>4, <2>5, Zenon DEF Has
  <2>7. ASSUME NEW x \in Texts, Has(n, r, x) PROVE last = x
    <3>1. PICK k \in 1..n : LastOf(r, k, n) /\ events[k].body = x
      BY <2>7, Zenon DEF Has
    <3>2. ~(k < m)
      BY <1>0, <2>4, <3>1 DEF LastOf
    <3>3. ~(m < k)
      BY <1>0, <2>4, <2>5, <3>1 DEF LastOf
    <3>4. k = m
      BY <1>0, <2>4, <3>2, <3>3
    <3> QED BY <3>1, <3>4, Zenon
  <2>8. b # Unstaged /\ b \in Texts \cup {Deleted}
    BY <2>3, NamesAssumption, Zenon
  <2>9. b \in Texts => b = last
    BY <2>3, NamesAssumption, Zenon
  <2> HIDE DEF last
  <2>10. \A x \in Texts : Has(n, r, x) => b = x
    BY <2>3, <2>7, Zenon
  <2> QED BY <2>6, <2>8, <2>9, <2>10, Zenon
<1> QED BY <1>1, <1>2, Zenon

-----------------------------------------------------------------------------
(* The steps of a drain.                                                   *)

LEMMA StillStep ==
  ASSUME IInv, UNCHANGED <<events, rows>>, eager' \subseteq eager, Shape',
         Faithful(head, contents)', Faithful(backup.head, backup.contents)', Draining', Searching'
  PROVE  IInv'
<1>1. Dated' /\ Redacted' /\ RowsLast'
  BY SMTT(30) DEF IInv, Dated, Redacted, RowsLast, RowHolds, LastOf
<1>2. EagerForgotten'
  BY Zenon DEF IInv, EagerForgotten, Forgotten
<1> QED BY <1>1, <1>2, Zenon DEF IInv

\* A step of one worker, which leaves the database's records alone.
LEMMA WorkerStep ==
  ASSUME IInv, NEW w \in Workers, UNCHANGED <<events, rows, eager, backup, cursor, hits>>,
         \A u \in (Workers \cup Searchers) \ {w} : pc'[u] = pc[u],
         \A u \in Workers \ {w} : plan'[u] = plan[u] /\ drafts'[u] \in {drafts[u], None},
         \A s \in Searchers : pins'[s] = pins[s],
         head <= head', DOMAIN contents \ {-1} \subseteq DOMAIN contents',
         Faithful(head, contents)', DrainHolds(w)', Shape'
  PROVE  IInv'
<1>1. events \in Seq(Event) /\ head \in {-1} \cup Nat /\ Onward
  BY HeadInt, SameOnward, Zenon
<1>2. head' \in {-1} \cup Nat
  BY <1>1, SMTT(30) DEF Faithful, Onward
<1>3. Faithful(backup.head, backup.contents)'
  <2>1. Faithful(backup.head, backup.contents)
    BY Zenon DEF IInv
  <2> QED BY <1>1, <2>1, KeepFaithful, Zenon
<1>4. Draining'
  <2> SUFFICES ASSUME NEW u \in Workers, u # w PROVE DrainHolds(u)'
    BY Zenon DEF Draining
  <2>1. DrainHolds(u)
    BY Zenon DEF IInv, Draining
  <2> QED BY <1>1, <1>2, <2>1, KeepDrain, Zenon
<1>5. Searching'
  <2> SUFFICES ASSUME NEW s \in Searchers PROVE SearchHolds(s)'
    BY Zenon DEF Searching
  <2>1. SearchHolds(s) /\ s # w
    BY NamesAssumption, Zenon DEF IInv, Searching
  <2> QED BY <1>1, <2>1, KeepSearch, Zenon
<1> QED BY <1>3, <1>4, <1>5, StillStep, Zenon

LEMMA FailStep ==
  ASSUME IInv, NEW w \in Workers, Fail(w)
  PROVE  IInv'
<1>1. Shape /\ events \in Seq(Event) /\ head \in {-1} \cup Nat
  BY HeadInt, Zenon DEF IInv
<1>2. /\ UNCHANGED <<events, rows, eager, acked, backup, cursor, hits, contents, head>>
      /\ pc' = [pc EXCEPT ![w] = "idle"] /\ plan' = [plan EXCEPT ![w] = None]
      /\ drafts' = [b \in Workers |-> IF b \in {w} THEN None ELSE drafts[b]]
      /\ pins' = [p \in Searchers |-> IF p \in {} THEN None ELSE pins[p]]
      /\ owner' = IF owner = w THEN None ELSE owner
  BY ZenonT(30) DEF Fail, Index!Lapse, hub
<1>3. Shape'
  <2>0. pc' \in [Workers \cup Searchers -> Labels]
    BY <1>1, <1>2, Zenon DEF Shape, Labels
  <2>1. plan' \in [Workers -> Plan \cup {None}]
    BY <1>1, <1>2, Zenon DEF Shape
  <2>2. drafts' \in [Workers -> Draft \cup {None}] /\ pins' \in [Searchers -> {None} \cup Int]
    BY <1>1, <1>2, Zenon DEF Shape
  <2>3. owner' \in {None} \cup Workers /\ (owner' # None => pc'[owner'] # "idle")
    BY <1>1, <1>2, Zenon DEF Shape
  <2> QED BY <1>1, <1>2, <2>0, <2>1, <2>2, <2>3, Zenon DEF Shape
<1>4. DrainHolds(w)'
  BY <1>1, <1>2, Zenon DEF DrainHolds, Shape
<1>5. Faithful(head, contents)'
  <2>1. Faithful(head, contents) /\ Onward
    BY <1>1, <1>2, SameOnward, Zenon DEF IInv
  <2> QED BY <1>1, <1>2, <2>1, KeepFaithful, Zenon
<1>6. /\ \A u \in (Workers \cup Searchers) \ {w} : pc'[u] = pc[u]
      /\ \A u \in Workers \ {w} : plan'[u] = plan[u] /\ drafts'[u] \in {drafts[u], None}
      /\ \A s \in Searchers : pins'[s] = pins[s]
  BY <1>1, <1>2, Zenon DEF Shape
<1>7. head <= head'
  BY <1>1, <1>2, SMTT(30)
<1> QED BY <1>2, <1>3, <1>4, <1>5, <1>6, <1>7, WorkerStep, Zenon

LEMMA GotoShape ==
  ASSUME Shape, NEW w \in Workers, NEW label \in Labels, label # "idle", Goto(w, label),
         drafts' \in [Workers -> Draft \cup {None}], UNCHANGED pins
  PROVE  Shape' /\ pc'[w] = label /\ \A u \in (Workers \cup Searchers) \ {w} : pc'[u] = pc[u]
<1>1. pc' = [pc EXCEPT ![w] = label] /\ UNCHANGED <<events, rows, acked, eager, owner, plan, cursor, hits>>
  BY Zenon DEF Goto, hub
<1>2. pc \in [Workers \cup Searchers -> Labels]
  BY Zenon DEF Shape
<1>3. /\ pc' \in [Workers \cup Searchers -> Labels]
      /\ pc'[w] = label /\ \A u \in (Workers \cup Searchers) \ {w} : pc'[u] = pc[u]
  BY <1>1, <1>2, Zenon
<1>4. owner' # None => pc'[owner'] # "idle"
  BY <1>1, <1>3, Zenon DEF Shape
<1> QED BY <1>1, <1>3, <1>4, Zenon DEF Shape

LEMMA DrainAt ==
  ASSUME IInv, NEW w \in Workers, pc[w] # "idle"
  PROVE  PlanHolds(plan[w]) /\ plan[w] \in Plan
  BY ZenonT(30) DEF IInv, Draining, DrainHolds, PlanHolds

LEMMA EraseStep ==
  ASSUME IInv, NEW w \in Workers, EraseHard(w)
  PROVE  IInv'
<1>1. Shape /\ events \in Seq(Event) /\ head \in {-1} \cup Nat /\ Redacted /\ Faithful(head, contents)
  BY HeadInt, Zenon DEF IInv
<1>2. pc[w] = "erase" /\ Goto(w, "begin") /\ UNCHANGED <<events, rows, eager, backup, cursor, hits, plan, pins, head>>
  BY Zenon DEF EraseHard, Goto, hub, index, Index!Erase
<1>3. Onward /\ PlanHolds(plan[w])
  BY <1>1, <1>2, SameOnward, DrainAt, Zenon
<1>4. PlanHolds(plan[w])'
  BY <1>1, <1>2, <1>3, KeepPlan, SMTT(30)
<1>5. /\ Faithful(head, contents') /\ DOMAIN contents' = DOMAIN contents
      /\ drafts' \in [Workers -> Draft \cup {None}] /\ \A u \in Workers : drafts'[u] \in {drafts[u], None}
  <2>1. CASE UNCHANGED index
    BY <1>1, <2>1, Zenon DEF index, Shape
  <2>2. CASE Index!Erase(plan[w].hard_deleted)
    <3>1. \A r \in plan[w].hard_deleted : Forgotten(r)
      BY <1>3, Zenon DEF PlanHolds
    <3>2. /\ contents' = [v \in DOMAIN contents |-> {e \in contents[v] : e[1] \notin plan[w].hard_deleted}]
          /\ drafts' = [b \in Workers |-> None]
      BY <2>2, Zenon DEF Index!Erase
    <3>3. Faithful(head, contents')
      BY <1>1, <3>1, <3>2, EraseFaithful, ZenonT(30)
    <3> QED BY <3>2, <3>3, Zenon
  <2> QED BY <2>1, <2>2, Zenon DEF EraseHard
<1>6. Faithful(head, contents)'
  BY <1>1, <1>2, <1>3, <1>5, KeepFaithful, Zenon
<1>7. Shape' /\ pc'[w] = "begin" /\ \A u \in (Workers \cup Searchers) \ {w} : pc'[u] = pc[u]
  BY <1>1, <1>2, <1>5, GotoShape, Zenon DEF Labels
<1>8. DrainHolds(w)'
  BY <1>2, <1>4, <1>7, Zenon DEF DrainHolds
<1>9. head <= head'
  BY <1>1, <1>2, SMTT(30)
<1> QED BY <1>2, <1>5, <1>6, <1>7, <1>8, <1>9, WorkerStep, ZenonT(30)

LEMMA BeginStep ==
  ASSUME IInv, NEW w \in Workers, BeginBuild(w)
  PROVE  IInv'
<1>1. CASE plan[w].through > head /\ Index!Begin(w, plan[w].through, plan[w].full) /\ Goto(w, "stage")
  <2>1. Shape /\ events \in Seq(Event) /\ head \in {-1} \cup Nat /\ Faithful(head, contents)
    BY HeadInt, ZenonT(30) DEF IInv
  <2> DEFINE row == [base |-> head, target |-> plan[w].through, full |-> plan[w].full,
                     delta |-> [k \in Records |-> Unstaged]]
  <2>2. /\ pc[w] = "begin" /\ UNCHANGED <<events, rows, eager, backup, cursor, hits, plan, pins, head, contents>>
        /\ drafts' = [drafts EXCEPT ![w] = row]
    BY <1>1, Zenon DEF BeginBuild, Goto, hub, Index!Begin
  <2>3. Onward /\ PlanHolds(plan[w]) /\ plan[w] \in Plan
    BY <2>1, <2>2, SameOnward, DrainAt, ZenonT(30)
  <2>4. PlanHolds(plan[w])'
    BY <2>1, <2>2, <2>3, KeepPlan, SMTT(30)
  <2>5. row \in Draft
    <3>1. plan[w].through \in Nat /\ plan[w].full \in BOOLEAN
      BY <2>3, Zenon DEF Plan
    <3>2. [k \in Records |-> Unstaged] \in [Records -> Texts \cup {Deleted, Unstaged}] /\ head \in Int
      BY <2>1, AnInt, Zenon
    <3> QED BY <3>1, <3>2, Zenon DEF Draft
  <2>6. /\ drafts' \in [Workers -> Draft \cup {None}] /\ drafts'[w] = row
        /\ \A u \in Workers \ {w} : drafts'[u] = drafts[u]
    BY <2>1, <2>2, <2>5, ZenonT(30) DEF Shape
  <2>7. Faithful(head, contents)'
    BY <2>1, <2>2, <2>3, KeepFaithful, ZenonT(30)
  <2>8. Shape' /\ pc'[w] = "stage" /\ \A u \in (Workers \cup Searchers) \ {w} : pc'[u] = pc[u]
    <3>1. Goto(w, "stage") /\ drafts' \in [Workers -> Draft \cup {None}] /\ UNCHANGED pins
      BY <1>1, <2>2, <2>6, Zenon
    <3>2. "stage" \in Labels /\ "stage" # "idle"
      BY Zenon DEF Labels
    <3> QED BY <2>1, <3>1, <3>2, GotoShape, Zenon
  <2>9. DraftOfPlan(w)'
    <3>1. plan[w].through \in Nat /\ head < plan[w].through
      BY <1>1, <2>1, <2>3, Above, Zenon DEF Plan
    <3>2. drafts'[w].base = head /\ drafts'[w].target = plan[w].through /\ drafts'[w].full = plan[w].full
          /\ drafts'[w].delta = [k \in Records |-> Unstaged]
      BY <2>6
    <3>3. pc'[w] # "publish" /\ plan' = plan
      BY <2>2, <2>8, Zenon
    <3> QED BY <3>1, <3>2, <3>3, Zenon DEF DraftOfPlan
  <2>10. DrainHolds(w)'
    BY <2>2, <2>4, <2>9, Zenon DEF DrainHolds
  <2>11. head <= head'
    BY <2>1, <2>2, Still, Zenon
  <2> QED BY <2>2, <2>6, <2>7, <2>8, <2>10, <2>11, WorkerStep, ZenonT(30)
<1>2. CASE Fail(w)
  BY <1>2, FailStep, Zenon
<1> QED BY <1>1, <1>2, Zenon DEF BeginBuild

LEMMA StageStep ==
  ASSUME IInv, NEW w \in Workers, StageBuild(w)
  PROVE  IInv'
<1>1. CASE drafts[w] # None /\ Index!Stage(w, plan[w].changes) /\ Goto(w, "publish")
  <2>1. Shape /\ events \in Seq(Event) /\ head \in {-1} \cup Nat /\ Faithful(head, contents)
    BY HeadInt, Zenon DEF IInv
  <2> DEFINE batch == plan[w].changes
             delta == [k \in Records |-> IF batch[k] = Unstaged THEN drafts[w].delta[k] ELSE batch[k]]
             row == [drafts[w] EXCEPT !.delta = delta]
  <2>2. /\ pc[w] = "stage" /\ UNCHANGED <<events, rows, eager, backup, cursor, hits, plan, pins, head, contents>>
        /\ drafts' = [drafts EXCEPT ![w] = row]
    BY <1>1, Zenon DEF StageBuild, Goto, hub, Index!Stage
  <2>3. Onward /\ PlanHolds(plan[w]) /\ plan[w] \in Plan
    BY <2>1, <2>2, SameOnward, DrainAt, Zenon
  <2>4. PlanHolds(plan[w])'
    BY <2>1, <2>2, <2>3, KeepPlan
  <2>5. DraftOfPlan(w) /\ drafts[w] \in Draft
    BY <1>1, <2>1, <2>2, Zenon DEF IInv, Draining, DrainHolds, Shape
  <2>6. batch \in [Records -> Texts \cup {Deleted, Unstaged}]
    BY <2>3, Zenon DEF Plan
  <2>7. drafts[w].delta = [r \in Records |-> Unstaged]
    BY <2>2, <2>5, Zenon DEF DraftOfPlan
  <2>8. delta = batch
    BY <2>6, <2>7, Zenon
  <2> HIDE DEF delta, batch
  <2>9. row \in Draft /\ row.delta = batch /\ row.base = drafts[w].base /\ row.target = drafts[w].target
        /\ row.full = drafts[w].full
    BY <2>5, <2>6, <2>8, Zenon DEF Draft
  <2> HIDE DEF row
  <2>10. /\ drafts' \in [Workers -> Draft \cup {None}] /\ drafts'[w] = row
         /\ \A u \in Workers \ {w} : drafts'[u] = drafts[u]
    BY <2>1, <2>2, <2>9, Zenon DEF Shape
  <2>11. Faithful(head, contents)'
    BY <2>1, <2>2, <2>3, KeepFaithful, Zenon
  <2>12. Shape' /\ pc'[w] = "publish" /\ \A u \in (Workers \cup Searchers) \ {w} : pc'[u] = pc[u]
    BY <1>1, <2>1, <2>2, <2>10, GotoShape, Zenon DEF Labels
  <2>13. DraftOfPlan(w)'
    BY <2>2, <2>5, <2>9, <2>10, <2>12, Zenon DEF DraftOfPlan, batch
  <2>14. DrainHolds(w)'
    BY <2>2, <2>4, <2>13, Zenon DEF DrainHolds
  <2>15. head <= head'
    BY <2>1, <2>2, SMTT(30)
  <2> QED BY <2>2, <2>10, <2>11, <2>12, <2>14, <2>15, WorkerStep, Zenon
<1>2. CASE Fail(w)
  BY <1>2, FailStep, Zenon
<1> QED BY <1>1, <1>2, Zenon DEF StageBuild

LEMMA PublishStep ==
  ASSUME IInv, NEW w \in Workers, PublishBuild(w)
  PROVE  IInv'
<1>1. CASE drafts[w] # None /\ drafts[w].base = head /\ Index!Publish(w) /\ Goto(w, "acknowledge")
  <2>1. Shape /\ events \in Seq(Event) /\ head \in {-1} \cup Nat /\ Faithful(head, contents)
    BY HeadInt, Zenon DEF IInv
  <2> DEFINE p == plan[w]
             new == Index!Overlay(contents[head], p.full, p.changes)
             revisions == (DOMAIN contents \ {-1}) \cup {p.through}
  <2>2. pc[w] = "publish" /\ UNCHANGED <<events, rows, eager, backup, cursor, hits, plan, pins>>
    BY <1>1, Zenon DEF PublishBuild, Goto, hub, Index!Publish
  <2>3. Onward /\ PlanHolds(p) /\ p \in Plan
    BY <2>1, <2>2, SameOnward, DrainAt, Zenon
  <2>4. DraftOfPlan(w) /\ drafts[w] \in Draft
    BY <1>1, <2>1, <2>2, Zenon DEF IInv, Draining, DrainHolds, Shape
  <2>5. drafts[w].target = p.through /\ drafts[w].full = p.full /\ drafts[w].delta = p.changes /\ p.through > head
    BY <1>1, <2>1, <2>2, <2>3, <2>4, ZenonT(30) DEF DraftOfPlan, Draft, Plan
  <2>6. /\ head' = p.through /\ drafts' = [drafts EXCEPT ![w] = None]
        /\ contents' = [v \in revisions |-> IF v = p.through THEN new ELSE contents[v]]
    BY <1>1, <2>5, Zenon DEF Index!Publish
  <2>7. p.through \in 1..Len(events) /\ Len(events) \in Nat
    BY <2>1, <2>3 DEF PlanHolds
  <2>8. new \in Content
    <3>1. contents[head] \in Content /\ p.changes \in [Records -> Texts \cup {Deleted, Unstaged}]
      BY <2>1, <2>3, Zenon DEF Faithful, Plan
    <3> QED BY <3>1, SMTT(30) DEF Index!Overlay, Content
  <2>9. ASSUME NEW r \in Records, NEW x \in Texts
        PROVE  /\ <<r, x>> \in new => Has(p.through, r, x) \/ ErasedAfter(r, p.through)
               /\ Has(p.through, r, x) => <<r, x>> \in new
    BY <2>1, <2>3, <2>5, PublishFaithful, Zenon
  <2>10. Faithful(head', contents')
    <3> HIDE DEF new
    <3>1. /\ DOMAIN contents' = revisions /\ contents'[p.through] = new
          /\ \A v \in revisions : v # p.through => v \in DOMAIN contents /\ contents'[v] = contents[v]
      BY <2>6, Zenon
    <3>2. head' \in DOMAIN contents' /\ head' \in {-1} \cup 1..Len(events)
      BY <2>6, <2>7, <3>1, Zenon
    <3>3. DOMAIN contents' \subseteq {-1} \cup 1..Len(events)
      BY <2>1, <2>7, <3>1, Zenon DEF Faithful
    <3>4. ASSUME NEW v \in DOMAIN contents' PROVE contents'[v] \in Content
      BY <2>1, <2>8, <3>1, Zenon DEF Faithful
    <3>5. ASSUME NEW v \in DOMAIN contents', NEW r \in Records, NEW x \in Texts
          PROVE  /\ <<r, x>> \in contents'[v] => Has(v, r, x) \/ ErasedAfter(r, v)
                 /\ Has(v, r, x) => <<r, x>> \in contents'[v]
      <4>1. CASE v = p.through
        BY <2>9, <3>1, <4>1, Zenon
      <4>2. CASE v # p.through
        <5>1. v \in DOMAIN contents /\ contents'[v] = contents[v]
          BY <3>1, <4>2, Zenon
        <5>2. /\ <<r, x>> \in contents[v] => Has(v, r, x) \/ ErasedAfter(r, v)
              /\ Has(v, r, x) => <<r, x>> \in contents[v]
          BY <2>1, <5>1, Zenon DEF Faithful
        <5> QED BY <5>1, <5>2, Zenon
      <4> QED BY <4>1, <4>2, Zenon
    <3> QED BY <3>2, <3>3, <3>4, <3>5, Zenon DEF Faithful
  <2>11. Faithful(head, contents)'
    BY <2>1, <2>3, <2>10, KeepFaithful, Zenon
  <2>12. /\ drafts' \in [Workers -> Draft \cup {None}]
         /\ \A u \in Workers \ {w} : drafts'[u] = drafts[u]
    BY <2>1, <2>6, Zenon DEF Shape
  <2>13. Shape' /\ pc'[w] = "acknowledge" /\ \A u \in (Workers \cup Searchers) \ {w} : pc'[u] = pc[u]
    BY <1>1, <2>1, <2>2, <2>12, GotoShape, ZenonT(30) DEF Labels
  <2>14. head' \in Nat /\ head <= head' /\ DOMAIN contents \ {-1} \subseteq DOMAIN contents'
    BY <2>1, <2>5, <2>6, <2>7, SMTT(30)
  <2>15. PlanHolds(plan[w])'
    BY <2>1, <2>2, <2>3, <2>14, KeepPlan, ZenonT(30)
  <2>16. DrainHolds(w)'
    BY <2>13, <2>15, ZenonT(30) DEF DrainHolds
  <2>17. /\ UNCHANGED <<events, rows, eager, backup, cursor, hits>>
         /\ \A u \in Workers \ {w} : plan'[u] = plan[u] /\ drafts'[u] \in {drafts[u], None}
         /\ \A s \in Searchers : pins'[s] = pins[s]
    BY <2>2, <2>12, Zenon
  <2> QED BY <2>11, <2>13, <2>14, <2>16, <2>17, WorkerStep, Zenon
<1>2. CASE Fail(w)
  BY <1>2, FailStep, Zenon
<1> QED BY <1>1, <1>2, Zenon DEF PublishBuild

LEMMA AcknowledgeStep ==
  ASSUME IInv, NEW w \in Workers, Acknowledge(w)
  PROVE  IInv'
<1>1. Shape /\ events \in Seq(Event) /\ head \in {-1} \cup Nat /\ Faithful(head, contents)
  BY HeadInt, Zenon DEF IInv
<1>2. /\ pc[w] = "acknowledge" /\ pc' = [pc EXCEPT ![w] = "idle"] /\ plan' = [plan EXCEPT ![w] = None]
      /\ UNCHANGED <<events, rows, eager, backup, cursor, hits, contents, head, drafts, pins>>
      /\ \/ owner = w /\ acked' = plan[w].through /\ owner' = None
         \/ owner # w /\ UNCHANGED <<acked, owner>>
  BY Zenon DEF Acknowledge, index
<1>3. Onward /\ PlanHolds(plan[w])
  BY <1>1, <1>2, SameOnward, DrainAt, Zenon
<1>4. pc' \in [Workers \cup Searchers -> Labels] /\ pc'[w] = "idle"
      /\ \A u \in (Workers \cup Searchers) \ {w} : pc'[u] = pc[u]
  BY <1>1, <1>2, Zenon DEF Shape, Labels
<1>5. plan' \in [Workers -> Plan \cup {None}] /\ \A u \in Workers \ {w} : plan'[u] = plan[u]
  BY <1>1, <1>2, Zenon DEF Shape
<1>6. acked' \in {None} \cup 1..Len(events)
  BY <1>1, <1>2, <1>3, Zenon DEF Shape, PlanHolds
<1>7. owner' \in {None} \cup Workers /\ (owner' # None => pc'[owner'] # "idle")
  BY <1>1, <1>2, <1>4, Zenon DEF Shape
<1>8. Shape'
  BY <1>1, <1>2, <1>4, <1>5, <1>6, <1>7, Zenon DEF Shape
<1>9. Faithful(head, contents)'
  BY <1>1, <1>2, <1>3, KeepFaithful, Zenon
<1>10. DrainHolds(w)'
  BY <1>4, Zenon DEF DrainHolds
<1>11. head <= head'
  BY <1>1, <1>2, Still, Zenon
<1> QED BY <1>2, <1>4, <1>5, <1>8, <1>9, <1>10, <1>11, WorkerStep, ZenonT(30)

\* A drain resumes at the head and reads at least one event, or there is none.
LEMMA Through ==
  ASSUME IInv, NEW n, n = Min({Resume + Batch, Len(events)})
  PROVE  /\ Resume \in Nat /\ Resume <= Len(events) /\ n \in Nat /\ Resume <= n /\ n <= Len(events)
         /\ n = Resume /\ events # <<>> => head \in 1..Len(events)
<1>1. Len(events) \in Nat /\ head \in {-1} \cup 1..Len(events) /\ events \in Seq(Event)
  BY HeadInt, Zenon DEF IInv, Faithful
<1>2. Resume \in Nat /\ Resume <= Len(events) /\ (head = -1 => Resume = 0)
  BY <1>1 DEF Resume
<1>3. n = IF Resume + Batch <= Len(events) THEN Resume + Batch ELSE Len(events)
  BY <1>1, <1>2, ProjectionAssumption, MinOfTwo
<1>4. events # <<>> => Len(events) > 0
  BY <1>1
<1> QED BY <1>1, <1>2, <1>3, <1>4, ProjectionAssumption, SMTT(30)

LEMMA ReadPlan ==
  ASSUME IInv, NEW n \in 1..Len(events), Resume < n,
         NEW p, p = [through |-> n, full |-> head = -1,
                     changes |-> [r \in Records |-> Latest(r, Resume, n)],
                     hard_deleted |-> {r \in Records : \E i \in Resume + 1..n :
                                        events[i] = [record |-> r, body |-> Tombstone]}]
  PROVE  PlanHolds(p)
<1>1. events \in Seq(Event) /\ Len(events) \in Nat /\ head \in {-1} \cup Nat /\ Resume \in Nat
  BY HeadInt, Zenon DEF Resume
<1>2. ASSUME NEW r \in Records
      PROVE  /\ Latest(r, Resume, n) \in Texts \cup {Deleted, Unstaged}
             /\ Latest(r, Resume, n) = Unstaged => \A i \in 1..n : i > Resume => events[i].record # r
             /\ Latest(r, Resume, n) \in Texts => Has(n, r, Latest(r, Resume, n))
             /\ \A x \in Texts : Has(n, r, x) /\ Latest(r, Resume, n) # Unstaged => Latest(r, Resume, n) = x
  BY <1>1, LatestFacts, SMTT(30) DEF IInv
<1>3. p.through = n /\ p.full = (head = -1) /\ \A r \in Records : p.changes[r] = Latest(r, Resume, n)
  BY Zenon
<1>4. p \in Plan
  <2>1. [r \in Records |-> Latest(r, Resume, n)] \in [Records -> Texts \cup {Deleted, Unstaged}]
    BY <1>2, Zenon
  <2>2. n \in Nat
    BY <1>1, AnIndex, Zenon
  <2> QED BY <2>1, <2>2, Zenon DEF Plan
<1>5. ASSUME NEW r \in Records, p.changes[r] = Unstaged, NEW i \in 1..n, p.full \/ i > head
      PROVE  events[i].record # r
  <2>0. head = -1 \/ i > head
    BY <1>3, <1>5, Zenon
  <2>1. i > Resume
    <3>1. i \in Nat /\ i >= 1
      BY <1>1
    <3> QED BY <1>1, <2>0, <3>1, SMTT(30) DEF Resume
  <2> QED BY <1>2, <1>3, <1>5, <2>1, Zenon
<1>6. \A r \in p.hard_deleted : Forgotten(r)
  <2>0. p.hard_deleted = {r \in Records : \E i \in Resume + 1..n : events[i] = [record |-> r, body |-> Tombstone]}
    BY Zenon
  <2> SUFFICES ASSUME NEW r \in Records, NEW i \in Resume + 1..n, events[i] = [record |-> r, body |-> Tombstone]
               PROVE  Forgotten(r)
    BY <2>0, Zenon
  <2>1. i \in DOMAIN events
    BY <1>1, SMTT(30)
  <2> QED BY <2>1, Zenon DEF Forgotten
<1>7. \A r \in Records : p.changes[r] \in Texts => Has(n, r, p.changes[r])
  BY <1>2, <1>3, ZenonT(30)
<1>8. \A r \in Records, x \in Texts : Has(n, r, x) /\ p.changes[r] # Unstaged => p.changes[r] = x
  BY <1>2, <1>3, ZenonT(30)
<1>9. ~p.full => head # -1
  BY <1>3, ZenonT(30)
<1> QED BY <1>3, <1>4, <1>5, <1>6, <1>7, <1>8, <1>9, Zenon DEF PlanHolds

LEMMA ReadStep ==
  ASSUME IInv, NEW w \in Workers, drain(w)
  PROVE  IInv'
<1> DEFINE n == Min({Resume + Batch, Len(events)})
           p == [through |-> n, full |-> head = -1,
                 changes |-> [r \in Records |-> Latest(r, Resume, n)],
                 hard_deleted |-> {r \in Records : \E i \in Resume + 1..n :
                                    events[i] = [record |-> r, body |-> Tombstone]}]
<1>1. Shape /\ events \in Seq(Event) /\ head \in {-1} \cup Nat /\ Faithful(head, contents)
  BY HeadInt, Zenon DEF IInv
<1>2. UNCHANGED <<events, rows, eager, backup, cursor, hits, contents, head, drafts, pins>>
  BY Zenon DEF drain, index
<1>3. /\ Resume \in Nat /\ Resume <= Len(events) /\ n \in Nat /\ Resume <= n /\ n <= Len(events)
      /\ n = Resume /\ events # <<>> => head \in 1..Len(events)
  BY Through, ZenonT(30)
<1>4. Onward
  BY <1>1, <1>2, SameOnward, Zenon
<1>5. Faithful(head, contents)'
  BY <1>1, <1>2, <1>4, KeepFaithful, Zenon
<1>6. head <= head'
  BY <1>1, <1>2, SMTT(30)
<1>7. CASE n = Resume /\ acked' = head /\ UNCHANGED <<owner, pc, plan>>
  <2>1. acked' \in {None} \cup 1..Len(events)
    BY <1>3, <1>7, ZenonT(30) DEF drain
  <2>2. Shape'
    BY <1>1, <1>2, <1>7, <2>1, ZenonT(30) DEF Shape
  <2>3. DrainHolds(w)'
    <3>1. DrainHolds(w)
      BY Zenon DEF IInv, Draining
    <3> QED BY <1>1, <1>2, <1>4, <1>6, <1>7, <3>1, KeepDrain, ZenonT(30)
  <2> QED BY <1>2, <1>5, <1>6, <1>7, <2>2, <2>3, WorkerStep, Zenon
<1>8. CASE n # Resume
  <2>1. /\ owner' = w /\ pc' = [pc EXCEPT ![w] = "erase"] /\ UNCHANGED acked
        /\ plan' = [plan EXCEPT ![w] = p]
    BY <1>8, ZenonT(30) DEF drain
  <2>2. n \in 1..Len(events) /\ Resume < n
    BY <1>1, <1>3, <1>8, SMTT(30)
  <2>3. PlanHolds(p)
    <3> HIDE DEF n
    <3> QED BY <2>2, ReadPlan, ZenonT(30)
  <2>4. p \in Plan
    BY <2>3, Zenon DEF PlanHolds
  <2> HIDE DEF p
  <2>5. /\ plan' \in [Workers -> Plan \cup {None}] /\ plan'[w] = p
        /\ \A u \in Workers \ {w} : plan'[u] = plan[u]
    BY <1>1, <2>1, <2>4, ZenonT(30) DEF Shape
  <2>6. /\ pc' \in [Workers \cup Searchers -> Labels] /\ pc'[w] = "erase"
        /\ \A u \in (Workers \cup Searchers) \ {w} : pc'[u] = pc[u]
    BY <1>1, <2>1, Zenon DEF Shape, Labels
  <2>7. Shape'
    BY <1>1, <1>2, <2>1, <2>5, <2>6, ZenonT(30) DEF Shape
  <2>8. PlanHolds(plan[w])'
    BY <1>1, <1>2, <1>4, <1>6, <2>3, <2>5, KeepPlan, Zenon
  <2>9. DrainHolds(w)'
    BY <2>6, <2>8, Zenon DEF DrainHolds
  <2> QED BY <1>2, <1>5, <1>6, <2>5, <2>6, <2>7, <2>9, WorkerStep, ZenonT(30)
<1> QED BY <1>7, <1>8, Zenon DEF drain
=============================================================================
