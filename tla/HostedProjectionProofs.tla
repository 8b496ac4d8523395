----------------------- MODULE HostedProjectionProofs -----------------------
(***************************************************************************)
(* The projection is correct for any records, texts, workers, searches,    *)
(* batch size and number of faults, as long as identities are not reused   *)
(* after forget (with Reuse, Projected fails).                             *)
(***************************************************************************)
EXTENDS HostedDrainProofs

-----------------------------------------------------------------------------
(* Searches.                                                               *)

LEMMA SearcherStep ==
  ASSUME IInv, NEW s \in Searchers, UNCHANGED <<events, rows, eager, backup, plan, contents, head>>,
         \A u \in (Workers \cup Searchers) \ {s} : pc'[u] = pc[u],
         \A t \in Searchers \ {s} : cursor'[t] = cursor[t] /\ hits'[t] = hits[t] /\ pins'[t] = pins[t],
         \A w \in Workers : drafts'[w] = drafts[w],
         SearchHolds(s)', Shape'
  PROVE  IInv'
<1>1. events \in Seq(Event) /\ head \in {-1} \cup Nat /\ Onward
  BY HeadInt, SameOnward, Zenon
<1>2. Faithful(head, contents)' /\ Faithful(backup.head, backup.contents)'
  <2>1. Faithful(head, contents) /\ Faithful(backup.head, backup.contents)
    BY Zenon DEF IInv
  <2> QED BY <1>1, <2>1, KeepFaithful, Zenon
<1>3. Draining'
  <2> SUFFICES ASSUME NEW w \in Workers PROVE DrainHolds(w)'
    BY Zenon DEF Draining
  <2>1. DrainHolds(w) /\ w # s
    BY NamesAssumption, Zenon DEF IInv, Draining
  <2>2. head <= head'
    BY <1>1
  <2> QED BY <1>1, <2>1, <2>2, KeepDrain, Zenon
<1>4. Searching'
  <2> SUFFICES ASSUME NEW t \in Searchers, t # s PROVE SearchHolds(t)'
    BY Zenon DEF Searching
  <2>1. SearchHolds(t)
    BY Zenon DEF IInv, Searching
  <2> QED BY <1>1, <2>1, KeepSearch, Zenon
<1> QED BY <1>2, <1>3, <1>4, StillStep, Zenon

LEMMA SearchShape ==
  ASSUME Shape, NEW s \in Searchers, NEW label \in Labels, SearchStep(s, label),
         cursor' \in [Searchers -> {None} \cup Nat], hits' \in [Searchers -> SUBSET (Records \X Texts)],
         drafts' \in [Workers -> Draft \cup {None}], pins' \in [Searchers -> {None} \cup Int]
  PROVE  /\ Shape' /\ pc'[s] = label /\ \A u \in (Workers \cup Searchers) \ {s} : pc'[u] = pc[u]
         /\ UNCHANGED <<events, rows, eager, backup, plan>>
<1>1. /\ pc' = [pc EXCEPT ![s] = label]
      /\ UNCHANGED <<events, rows, acked, eager, owner, plan, backup>>
  BY Zenon DEF SearchStep, hub
<1>2. pc \in [Workers \cup Searchers -> Labels]
  BY Zenon DEF Shape
<1>3. /\ pc' \in [Workers \cup Searchers -> Labels]
      /\ pc'[s] = label /\ \A u \in (Workers \cup Searchers) \ {s} : pc'[u] = pc[u]
  BY <1>1, <1>2, Zenon
<1>4. owner # None => owner # s
  BY NamesAssumption, Zenon DEF Shape
<1>5. owner' # None => pc'[owner'] # "idle"
  BY <1>1, <1>3, <1>4, Zenon DEF Shape
<1> QED BY <1>1, <1>3, <1>5, Zenon DEF Shape

LEMMA GiveUpStep ==
  ASSUME IInv, NEW s \in Searchers, GiveUp(s)
  PROVE  IInv'
<1>1. Shape
  BY Zenon DEF IInv
<1>2. /\ cursor' = [cursor EXCEPT ![s] = None] /\ SearchStep(s, "idle")
      /\ UNCHANGED <<contents, head, drafts, pins, hits>>
  BY Zenon DEF GiveUp, index
<1>3. /\ cursor' \in [Searchers -> {None} \cup Nat] /\ hits' \in [Searchers -> SUBSET (Records \X Texts)]
      /\ drafts' \in [Workers -> Draft \cup {None}] /\ pins' \in [Searchers -> {None} \cup Int]
      /\ \A t \in Searchers \ {s} : cursor'[t] = cursor[t]
  BY <1>1, <1>2, Zenon DEF Shape
<1>4. /\ Shape' /\ pc'[s] = "idle" /\ \A u \in (Workers \cup Searchers) \ {s} : pc'[u] = pc[u]
      /\ UNCHANGED <<events, rows, eager, backup, plan>>
  BY <1>1, <1>2, <1>3, SearchShape, Zenon DEF Labels
<1>5. SearchHolds(s)'
  BY <1>4, Zenon DEF SearchHolds
<1> QED BY <1>2, <1>3, <1>4, <1>5, SearcherStep, Zenon

LEMMA ReadStateStep ==
  ASSUME IInv, NEW s \in Searchers, ReadState(s)
  PROVE  IInv'
<1>1. Shape /\ Len(events) \in Nat
  BY HeadInt, Zenon DEF IInv
<1>2. /\ cursor' = [cursor EXCEPT ![s] = acked] /\ SearchStep(s, "pin") /\ acked # None
      /\ UNCHANGED <<contents, head, drafts, pins, hits>>
  BY Zenon DEF ReadState, index
<1>3. acked \in 1..Len(events) /\ acked \in Nat
  BY <1>1, <1>2 DEF Shape
<1>4. /\ cursor' \in [Searchers -> {None} \cup Nat] /\ hits' \in [Searchers -> SUBSET (Records \X Texts)]
      /\ drafts' \in [Workers -> Draft \cup {None}] /\ pins' \in [Searchers -> {None} \cup Int]
      /\ cursor'[s] = acked /\ \A t \in Searchers \ {s} : cursor'[t] = cursor[t]
  BY <1>1, <1>2, <1>3, Zenon DEF Shape
<1>5. /\ Shape' /\ pc'[s] = "pin" /\ \A u \in (Workers \cup Searchers) \ {s} : pc'[u] = pc[u]
      /\ UNCHANGED <<events, rows, eager, backup, plan>>
  BY <1>1, <1>2, <1>4, SearchShape, Zenon DEF Labels
<1>6. SearchHolds(s)'
  BY <1>3, <1>4, <1>5, Zenon DEF SearchHolds
<1> QED BY <1>2, <1>4, <1>5, <1>6, SearcherStep, Zenon

LEMMA PinStep ==
  ASSUME IInv, NEW s \in Searchers, PinState(s)
  PROVE  IInv'
<1>1. CASE cursor[s] \in DOMAIN contents /\ Index!Pin(s, cursor[s]) /\ SearchStep(s, "search") /\ UNCHANGED <<cursor, hits>>
  <2>1. Shape /\ SearchHolds(s) /\ Len(events) \in Nat
    BY HeadInt, Zenon DEF IInv, Searching
  <2>2. /\ pc[s] = "pin" /\ pins' = [pins EXCEPT ![s] = cursor[s]]
        /\ UNCHANGED <<contents, head, drafts, cursor, hits>>
    BY <1>1, Zenon DEF PinState, Index!Pin
  <2>3. cursor[s] \in 1..Len(events) /\ cursor[s] \in Int
    BY <2>1, <2>2 DEF SearchHolds
  <2>4. /\ cursor' \in [Searchers -> {None} \cup Nat] /\ hits' \in [Searchers -> SUBSET (Records \X Texts)]
        /\ drafts' \in [Workers -> Draft \cup {None}] /\ pins' \in [Searchers -> {None} \cup Int]
        /\ pins'[s] = cursor[s] /\ \A t \in Searchers \ {s} : pins'[t] = pins[t]
    BY <2>1, <2>2, <2>3, Zenon DEF Shape
  <2>5. /\ Shape' /\ pc'[s] = "search" /\ \A u \in (Workers \cup Searchers) \ {s} : pc'[u] = pc[u]
        /\ UNCHANGED <<events, rows, eager, backup, plan>>
    BY <1>1, <2>1, <2>2, <2>4, SearchShape, Zenon DEF Labels
  <2>6. SearchHolds(s)'
    BY <1>1, <2>2, <2>3, <2>4, <2>5, Zenon DEF SearchHolds
  <2> QED BY <2>2, <2>4, <2>5, <2>6, SearcherStep, Zenon
<1>2. CASE GiveUp(s)
  BY <1>2, GiveUpStep, Zenon
<1> QED BY <1>1, <1>2, Zenon DEF PinState

LEMMA CandidatesStep ==
  ASSUME IInv, NEW s \in Searchers, candidates(s)
  PROVE  IInv'
<1>1. CASE /\ pins[s] # None /\ hits' = [hits EXCEPT ![s] = contents[pins[s]]]
           /\ Index!Lapse({}, {s}) /\ SearchStep(s, "hydrate") /\ UNCHANGED cursor
  <2>1. Shape /\ SearchHolds(s) /\ Faithful(head, contents)
    BY Zenon DEF IInv, Searching
  <2>2. /\ pc[s] = "search" /\ UNCHANGED <<contents, head>>
        /\ drafts' = [b \in Workers |-> IF b \in {} THEN None ELSE drafts[b]]
        /\ pins' = [t \in Searchers |-> IF t \in {s} THEN None ELSE pins[t]]
    BY <1>1, Zenon DEF candidates, Index!Lapse
  <2>3. cursor[s] \in 1..Len(events) /\ pins[s] = cursor[s] /\ cursor[s] \in DOMAIN contents
    BY <1>1, <2>1, <2>2, Zenon DEF SearchHolds
  <2> DEFINE found == contents[cursor[s]]
  <2>4. found \in SUBSET (Records \X Texts)
    BY <2>1, <2>3, Zenon DEF Faithful, Content
  <2>5. ASSUME NEW e \in found
        PROVE  e \in Records \X Texts /\ (Has(cursor[s], e[1], e[2]) \/ ErasedAfter(e[1], cursor[s]))
    <3>1. e \in Records \X Texts /\ e[1] \in Records /\ e[2] \in Texts /\ e = <<e[1], e[2]>>
      BY <2>4
    <3>2. <<e[1], e[2]>> \in contents[cursor[s]]
      BY <3>1, Zenon
    <3> QED BY <2>1, <2>3, <3>1, <3>2, Zenon DEF Faithful
  <2>6. hits' = [hits EXCEPT ![s] = found]
    BY <1>1, <2>3, Zenon
  <2> HIDE DEF found
  <2>7. /\ cursor' \in [Searchers -> {None} \cup Nat] /\ hits' \in [Searchers -> SUBSET (Records \X Texts)]
        /\ \A t \in Searchers \ {s} : hits'[t] = hits[t]
        /\ hits'[s] = found /\ cursor'[s] = cursor[s]
    BY <1>1, <2>1, <2>4, <2>6, Zenon DEF Shape
  <2>8. /\ drafts' \in [Workers -> Draft \cup {None}] /\ pins' \in [Searchers -> {None} \cup Int]
        /\ \A t \in Searchers \ {s} : pins'[t] = pins[t]
        /\ \A w \in Workers : drafts'[w] = drafts[w]
    BY <2>1, <2>2, Zenon DEF Shape
  <2>9. /\ Shape' /\ pc'[s] = "hydrate" /\ \A u \in (Workers \cup Searchers) \ {s} : pc'[u] = pc[u]
        /\ UNCHANGED <<events, rows, eager, backup, plan>>
    BY <1>1, <2>1, <2>7, <2>8, SearchShape, Zenon DEF Labels
  <2>10. SearchHolds(s)'
    <3>1. Onward /\ events \in Seq(Event)
      BY <2>9, HeadInt, SameOnward, Zenon
    <3>2. ASSUME NEW e \in hits'[s]
          PROVE  (e \in Records \X Texts /\ (Has(cursor[s], e[1], e[2]) \/ ErasedAfter(e[1], cursor[s])))'
      <4>1. e \in Records \X Texts /\ (Has(cursor[s], e[1], e[2]) \/ ErasedAfter(e[1], cursor[s]))
        BY <2>5, <2>7, <3>2, Zenon
      <4>2. e[1] \in Records /\ e[2] \in Texts /\ cursor[s] \in {-1} \cup 1..Len(events)
        BY <2>3, <4>1, Zenon
      <4>3. ASSUME NEW n \in {-1} \cup 1..Len(events), Has(n, e[1], e[2]) \/ ErasedAfter(e[1], n)
            PROVE  Has(n, e[1], e[2])' \/ ErasedAfter(e[1], n)'
        BY <3>1, <4>2, <4>3, Zenon DEF Onward
      <4> QED BY <2>7, <4>1, <4>2, <4>3, Zenon
    <3> QED BY <2>3, <2>7, <2>9, <3>2, Zenon DEF SearchHolds
  <2>11. \A t \in Searchers \ {s} : cursor'[t] = cursor[t] /\ hits'[t] = hits[t] /\ pins'[t] = pins[t]
    BY <1>1, <2>7, <2>8, Zenon
  <2> QED BY <2>2, <2>8, <2>9, <2>10, <2>11, SearcherStep, Zenon
<1>2. CASE GiveUp(s)
  BY <1>2, GiveUpStep, Zenon
<1> QED BY <1>1, <1>2, Zenon DEF candidates

LEMMA HydrateStep ==
  ASSUME IInv, NEW s \in Searchers, hydrate(s)
  PROVE  IInv'
<1>1. Shape
  BY Zenon DEF IInv
<1>2. /\ hits' = [hits EXCEPT ![s] = {}] /\ cursor' = [cursor EXCEPT ![s] = None] /\ SearchStep(s, "idle")
      /\ UNCHANGED <<contents, head, drafts, pins>>
  BY Zenon DEF hydrate, index
<1>3. /\ cursor' \in [Searchers -> {None} \cup Nat] /\ hits' \in [Searchers -> SUBSET (Records \X Texts)]
      /\ drafts' \in [Workers -> Draft \cup {None}] /\ pins' \in [Searchers -> {None} \cup Int]
      /\ \A t \in Searchers \ {s} : cursor'[t] = cursor[t] /\ hits'[t] = hits[t]
  BY <1>1, <1>2, Zenon DEF Shape
<1>4. /\ Shape' /\ pc'[s] = "idle" /\ \A u \in (Workers \cup Searchers) \ {s} : pc'[u] = pc[u]
      /\ UNCHANGED <<events, rows, eager, backup, plan>>
  BY <1>1, <1>2, <1>3, SearchShape, Zenon DEF Labels
<1>5. SearchHolds(s)'
  BY <1>4, Zenon DEF SearchHolds
<1> QED BY <1>2, <1>3, <1>4, <1>5, SearcherStep, Zenon

-----------------------------------------------------------------------------
(* Erasure after forget, and faults.                                       *)

\* A step that moves no process, and lets the head be or go on.
LEMMA QuietStep ==
  ASSUME IInv, UNCHANGED <<events, rows, pc, plan, cursor, hits, head>>, eager' \subseteq eager,
         \A w \in Workers : drafts'[w] \in {drafts[w], None},
         \A s \in Searchers : pins'[s] \in {pins[s], None},
         DOMAIN contents \subseteq DOMAIN contents', Shape',
         Faithful(head, contents'), Faithful(backup'.head, backup'.contents)
  PROVE  IInv'
<1>1. events \in Seq(Event) /\ head \in {-1} \cup Nat /\ Onward
  BY HeadInt, SameOnward, Zenon
<1>2. Faithful(head, contents)' /\ Faithful(backup.head, backup.contents)'
  BY <1>1, KeepFaithful, Zenon
<1>3. Draining'
  <2> SUFFICES ASSUME NEW w \in Workers PROVE DrainHolds(w)'
    BY Zenon DEF Draining
  <2>1. DrainHolds(w) /\ head <= head'
    BY <1>1 DEF IInv, Draining
  <2> QED BY <1>1, <2>1, KeepDrain, Zenon
<1>4. Searching'
  <2> SUFFICES ASSUME NEW s \in Searchers PROVE SearchHolds(s)'
    BY Zenon DEF Searching
  <2>1. SearchHolds(s)
    BY Zenon DEF IInv, Searching
  <2> QED BY <1>1, <2>1, KeepSearch, Zenon
<1> QED BY <1>2, <1>3, <1>4, StillStep, Zenon

LEMMA EagerStep ==
  ASSUME IInv, NEW r \in Records, erase_records(r)
  PROVE  IInv'
<1>1. Shape /\ events \in Seq(Event) /\ Redacted /\ Faithful(head, contents) /\ Faithful(backup.head, backup.contents)
  BY HeadInt, Zenon DEF IInv
<1>2. /\ r \in eager /\ eager' = eager \ {r}
      /\ UNCHANGED <<events, rows, acked, owner, backup, pc, plan, cursor, hits, head, pins>>
      /\ \/ UNCHANGED <<contents, drafts>>
         \/ /\ contents' = [v \in DOMAIN contents |-> {e \in contents[v] : e[1] \notin {r}}]
            /\ drafts' = [b \in Workers |-> None]
  BY Zenon DEF erase_records, index, Index!Erase
<1>3. \A q \in {r} : Forgotten(q)
  BY <1>2, Zenon DEF IInv, EagerForgotten
<1>4. Faithful(head, contents') /\ DOMAIN contents \subseteq DOMAIN contents'
  <2>1. CASE contents' = [v \in DOMAIN contents |-> {e \in contents[v] : e[1] \notin {r}}]
    BY <1>1, <1>3, <2>1, EraseFaithful, ZenonT(30)
  <2> QED BY <1>1, <1>2, <2>1, Zenon
<1>5. /\ drafts' \in [Workers -> Draft \cup {None}]
      /\ \A w \in Workers : drafts'[w] \in {drafts[w], None}
  BY <1>1, <1>2, Zenon DEF Shape
<1>6. Shape'
  BY <1>1, <1>2, <1>5, Zenon DEF Shape
<1> QED BY <1>1, <1>2, <1>4, <1>5, <1>6, QuietStep, Zenon

LEMMA LoseStep ==
  ASSUME IInv, NEW w \in Workers, LoseSession(w)
  PROVE  IInv'
<1>1. Shape /\ Faithful(head, contents) /\ Faithful(backup.head, backup.contents)
  BY Zenon DEF IInv
<1>2. owner' = None /\ UNCHANGED <<events, rows, acked, eager, contents, head, drafts, pins, backup, pc, plan, cursor, hits>>
  BY Zenon DEF LoseSession, hub, index
<1>3. Shape'
  BY <1>1, <1>2, Zenon DEF Shape
<1> QED BY <1>1, <1>2, <1>3, QuietStep, Zenon

LEMMA ExpireStep ==
  ASSUME IInv, Expire
  PROVE  IInv'
<1>1. Shape /\ Faithful(head, contents) /\ Faithful(backup.head, backup.contents)
  BY Zenon DEF IInv
<1>0. \E B, R : Index!Lapse(B, R)
  BY Zenon DEF Expire
<1>2. /\ UNCHANGED <<events, rows, acked, owner, eager, contents, head, backup, pc, plan, cursor, hits>>
      /\ \E B, R : /\ drafts' = [b \in Workers |-> IF b \in B THEN None ELSE drafts[b]]
                   /\ pins' = [s \in Searchers |-> IF s \in R THEN None ELSE pins[s]]
  <2>1. PICK B, R : Index!Lapse(B, R)
    BY <1>0, Zenon
  <2>2. /\ drafts' = [b \in Workers |-> IF b \in B THEN None ELSE drafts[b]]
        /\ pins' = [s \in Searchers |-> IF s \in R THEN None ELSE pins[s]]
        /\ UNCHANGED <<contents, head>>
    BY <2>1, Zenon DEF Index!Lapse
  <2> QED BY <2>2, Zenon DEF Expire, hub
<1>3. /\ drafts' \in [Workers -> Draft \cup {None}] /\ pins' \in [Searchers -> {None} \cup Int]
      /\ \A w \in Workers : drafts'[w] \in {drafts[w], None}
      /\ \A s \in Searchers : pins'[s] \in {pins[s], None}
  BY <1>1, <1>2, Zenon DEF Shape
<1>4. Shape'
  BY <1>1, <1>2, <1>3, Zenon DEF Shape
<1> QED BY <1>1, <1>2, <1>3, <1>4, QuietStep, Zenon

LEMMA BackupStep ==
  ASSUME IInv, TakeBackup
  PROVE  IInv'
<1>1. Shape /\ Faithful(head, contents)
  BY Zenon DEF IInv
<1>2. /\ UNCHANGED <<events, rows, acked, owner, eager, contents, head, drafts, pins, pc, plan, cursor, hits>>
      /\ backup' = [head |-> head, contents |-> contents]
  BY Zenon DEF TakeBackup, hub, index
<1>3. backup'.head = head /\ backup'.contents = contents
  BY <1>2, Zenon
<1>4. Shape'
  BY <1>1, <1>2, Zenon DEF Shape
<1> QED BY <1>1, <1>2, <1>3, <1>4, QuietStep, Zenon

LEMMA RestoreStep ==
  ASSUME IInv, RestoreBackup
  PROVE  IInv'
<1>1. Shape /\ events \in Seq(Event) /\ Faithful(backup.head, backup.contents)
  BY HeadInt, Zenon DEF IInv
<1>2. /\ UNCHANGED <<events, rows, acked, owner, eager, backup, pc, plan, cursor, hits>>
      /\ head' = backup.head /\ contents' = backup.contents
      /\ drafts' = [w \in Workers |-> None] /\ pins' = [s \in Searchers |-> None]
      /\ \A w \in Workers : pc[w] = "idle"
  BY Zenon DEF RestoreBackup, hub
<1>3. Onward
  BY <1>1, <1>2, SameOnward, Zenon
<1>4. Faithful(head, contents)' /\ Faithful(backup.head, backup.contents)'
  BY <1>1, <1>2, <1>3, KeepFaithful, Zenon
<1>5. Draining'
  BY <1>2, Zenon DEF Draining, DrainHolds
<1>6. Searching'
  <2> SUFFICES ASSUME NEW s \in Searchers PROVE SearchHolds(s)'
    BY Zenon DEF Searching
  <2>1. SearchHolds(s)
    BY Zenon DEF IInv, Searching
  <2>2. pins'[s] = None
    BY <1>2, Zenon
  <2> QED BY <1>2, <2>1, <2>2, Zenon DEF SearchHolds, Has, LastOf, ErasedAfter, Tombstones
<1>7. Shape'
  <2>1. drafts' \in [Workers -> Draft \cup {None}] /\ pins' \in [Searchers -> {None} \cup Int]
    BY <1>2, Zenon
  <2> QED BY <1>1, <1>2, <2>1, Zenon DEF Shape
<1> QED BY <1>2, <1>4, <1>5, <1>6, <1>7, StillStep, Zenon

LEMMA InvInit == Init => IInv
<1> SUFFICES ASSUME Init PROVE IInv
  BY Zenon
<1>1. /\ events = <<>> /\ Len(events) = 0 /\ DOMAIN events = {} /\ rows = [r \in Records |-> None] /\ acked = None
      /\ owner = None /\ eager = {} /\ contents = [v \in {-1} |-> {}] /\ head = -1
      /\ backup.head = head /\ backup.contents = contents
      /\ drafts = [b \in Workers |-> None] /\ pins = [s \in Searchers |-> None]
  BY DEF Init, Index!Init
<1>2. Shape
  <2>1. events \in Seq(Event) /\ Len(events) <= MaxClock
    BY <1>1, ProjectionAssumption
  <2>2. pc \in [Workers \cup Searchers -> Labels]
    BY Zenon DEF Init, Labels
  <2>3. plan \in [Workers -> Plan \cup {None}] /\ cursor \in [Searchers -> {None} \cup Nat]
    BY Zenon DEF Init
  <2>4. rows \in [Records -> {None} \cup [body: Body, change_seq: Nat]]
    BY <1>1, Zenon
  <2>5. hits \in [Searchers -> SUBSET (Records \X Texts)]
    BY Zenon DEF Init
  <2> QED BY <1>1, <2>1, <2>2, <2>3, <2>4, <2>5, Zenon DEF Shape
<1>3. Dated /\ Redacted /\ RowsLast /\ EagerForgotten
  BY <1>1, SMTT(30) DEF Dated, Redacted, RowsLast, RowHolds, EagerForgotten
<1>4. Faithful(head, contents)
  <2>1. DOMAIN contents = {-1} /\ contents[-1] = {}
    BY <1>1, Zenon
  <2>2. ASSUME NEW r, NEW x PROVE ~Has(-1, r, x)
    BY SMTT(30) DEF Has
  <2> QED BY <1>1, <2>1, <2>2, SMTT(30) DEF Faithful, Content
<1>5. Draining /\ Searching
  BY Zenon DEF Init, Draining, DrainHolds, Searching, SearchHolds
<1> QED BY <1>1, <1>2, <1>3, <1>4, <1>5, Zenon DEF IInv

LEMMA InvNext ==
  ASSUME IInv, ~Reuse, [Next]_vars
  PROVE  IInv'
<1>1. ASSUME NEW r \in Records, NEW body \in Texts \cup {Inactive}, put(r, body) PROVE IInv'
  BY <1>1, PutStep, Zenon
<1>2. ASSUME NEW r \in Records, forget(r) \/ erase_records(r) PROVE IInv'
  BY <1>2, ForgetStep, EagerStep, Zenon
<1>3. ASSUME NEW w \in Workers, DrainStep(w) PROVE IInv'
  BY <1>3, ReadStep, EraseStep, BeginStep, StageStep, PublishStep, AcknowledgeStep, Zenon DEF DrainStep
<1>4. ASSUME NEW w \in Workers, Crash(w) \/ LoseSession(w) PROVE IInv'
  BY <1>4, FailStep, LoseStep, Zenon DEF Crash
<1>5. ASSUME NEW s \in Searchers, ReadState(s) \/ PinState(s) \/ candidates(s) \/ hydrate(s) PROVE IInv'
  BY <1>5, ReadStateStep, PinStep, CandidatesStep, HydrateStep, Zenon
<1>6. ASSUME Expire \/ TakeBackup \/ RestoreBackup PROVE IInv'
  BY <1>6, ExpireStep, BackupStep, RestoreStep, Zenon
<1>7. ASSUME UNCHANGED vars PROVE IInv'
  <2>1. Shape /\ Faithful(head, contents) /\ Faithful(backup.head, backup.contents)
    BY Zenon DEF IInv
  <2>2. Shape'
    BY <1>7, <2>1, Zenon DEF vars, Shape
  <2> QED BY <1>7, <2>1, <2>2, QuietStep, Zenon DEF vars
<1> QED BY <1>1, <1>2, <1>3, <1>4, <1>5, <1>6, <1>7, Zenon DEF Next

\* Without reused identities, the invariant above holds in every state.
THEOREM Inductive ==
  ASSUME ~Reuse
  PROVE  Spec => []IInv
<1>1. IInv /\ [Next]_vars => IInv'
  BY InvNext, Zenon
<1> QED BY <1>1, InvInit, PTL DEF Spec

-----------------------------------------------------------------------------
(* What follows.                                                           *)

LEMMA InvTypeOK ==
  ASSUME IInv
  PROVE  TypeOK
<1>1. Shape /\ RowsLast /\ Faithful(head, contents)
  BY Zenon DEF IInv
<1>2. \A r \in Records : rows[r] = None \/ rows[r].change_seq \in 1..Len(events)
  BY <1>1, Zenon DEF RowsLast, RowHolds, LastOf
<1>3. head \in {-1} \cup 1..Len(events) /\ \A v \in DOMAIN contents : contents[v] \in Content
  BY <1>1, Zenon DEF Faithful
<1> QED BY <1>1, <1>2, <1>3, Zenon DEF Shape, TypeOK, Event

\* A record's row has the text the events give it now.
LEMMA RowText ==
  ASSUME IInv, NEW r \in Records, NEW x \in Texts
  PROVE  Has(Len(events), r, x) <=> rows[r] # None /\ rows[r].body = x
<1> DEFINE L == Len(events)
           k == rows[r].change_seq
<1>1. RowHolds(r) /\ L \in Nat /\ DOMAIN events = 1..L
  BY HeadInt DEF IInv, RowsLast
<1>2. ASSUME NEW i \in 1..L, LastOf(r, i, L), events[i].body = x
      PROVE  rows[r] # None /\ rows[r].body = x
  <2>1. events[i].record = r /\ events[i].body # Tombstone
    BY <1>2, NamesAssumption, Zenon DEF LastOf
  <2>2. rows[r] # None
    BY <1>1, <2>1, Zenon DEF RowHolds
  <2>3. LastOf(r, k, L) /\ rows[r].body = events[k].body
    BY <1>1, <2>2, Zenon DEF RowHolds
  <2> HIDE DEF k
  <2>4. k \in 1..L /\ ~(k < i) /\ ~(i < k)
    BY <1>1, <1>2, <2>3 DEF LastOf
  <2>5. k = i
    BY <1>1, <2>4
  <2> QED BY <1>2, <2>2, <2>3, <2>5, Zenon
<1>3. ASSUME rows[r] # None, rows[r].body = x PROVE Has(L, r, x)
  <2>1. LastOf(r, k, L) /\ events[k].body = x
    BY <1>1, <1>3, Zenon DEF RowHolds
  <2>2. k \in 1..L
    BY <2>1, Zenon DEF LastOf
  <2> QED BY <2>1, <2>2, Zenon DEF Has
<1> QED BY <1>2, <1>3, Zenon DEF Has

LEMMA InvHitsCurrent ==
  ASSUME IInv
  PROVE  HitsCurrent
<1> SUFFICES ASSUME NEW s \in Searchers, pc[s] = "hydrate", NEW e \in hits[s], Admitted(s, e[1])
             PROVE  rows[e[1]].body = e[2]
  BY Zenon DEF HitsCurrent
<1> DEFINE r == e[1]
           n == cursor[s]
           L == Len(events)
           k == rows[r].change_seq
<1>1. SearchHolds(s) /\ RowsLast /\ L \in Nat /\ events \in Seq(Event)
  BY HeadInt, Zenon DEF IInv, Searching
<1>2. e \in Records \X Texts /\ n \in 1..L /\ (Has(n, r, e[2]) \/ ErasedAfter(r, n))
  BY <1>1, Zenon DEF SearchHolds
<1>3. r \in Records /\ e[2] \in Texts /\ rows[r] # None /\ k <= n
  BY <1>2, Zenon DEF Admitted
<1>4. LastOf(r, k, L) /\ rows[r].body = events[k].body /\ rows[r].body # Tombstone
  BY <1>1, <1>3, Zenon DEF RowsLast, RowHolds
<1> HIDE DEF k, n, r
<1>5. ~ErasedAfter(r, n)
  <2> SUFFICES ASSUME NEW t \in DOMAIN events, events[t] = [record |-> r, body |-> Tombstone] PROVE FALSE
    BY Zenon DEF ErasedAfter, Tombstones
  <2>1. k \in DOMAIN events /\ events[k].record = r
    BY <1>1, <1>4, SMTT(30) DEF LastOf
  <2>2. events[t].record = events[k].record /\ events[t].body = Tombstone
    BY <2>1, SMTT(30)
  <2>3. events[k].body = Tombstone
    BY <2>1, <2>2, Zenon DEF IInv, Redacted
  <2> QED BY <1>4, <2>3, Zenon
<1>6. PICK i \in 1..n : LastOf(r, i, n) /\ events[i].body = e[2]
  BY <1>2, <1>5, Zenon DEF Has
<1>7. k \in 1..n
  BY <1>2, <1>3, <1>4, SMTT(30) DEF LastOf
<1>8. ~(k < i) /\ ~(i < k)
  BY <1>1, <1>2, <1>4, <1>6, <1>7, SMTT(30) DEF LastOf
<1>9. k = i
  BY <1>1, <1>2, <1>7, <1>8
<1> QED BY <1>4, <1>6, <1>9, Zenon DEF k, r

LEMMA InvProjected ==
  ASSUME IInv
  PROVE  Projected
<1> SUFFICES ASSUME head = Len(events)
             PROVE  contents[head] = {<<r, rows[r].body>> :
                        r \in {q \in Records : rows[q] # None /\ rows[q].body \in Texts}}
  BY Zenon DEF Projected
<1>1. Faithful(head, contents) /\ Len(events) \in Nat /\ events \in Seq(Event)
  BY HeadInt, Zenon DEF IInv
<1>2. head \in DOMAIN contents /\ contents[head] \in Content
  BY <1>1, Zenon DEF Faithful
<1>3. ASSUME NEW r \in Records, NEW x \in Texts
      PROVE  <<r, x>> \in contents[head] <=> rows[r] # None /\ rows[r].body = x
  <2>1. ~ErasedAfter(r, head)
    BY <1>1 DEF ErasedAfter, Tombstones
  <2>2. /\ <<r, x>> \in contents[head] => Has(head, r, x) \/ ErasedAfter(r, head)
        /\ Has(head, r, x) => <<r, x>> \in contents[head]
    BY <1>1, <1>2, Zenon DEF Faithful
  <2>3. Has(head, r, x) <=> rows[r] # None /\ rows[r].body = x
    BY RowText, Zenon
  <2> QED BY <2>1, <2>2, <2>3, Zenon
<1>4. contents[head] \subseteq Records \X Texts
  BY <1>2, Zenon DEF Content
<1> QED BY <1>3, <1>4

-----------------------------------------------------------------------------
(* Erasure, as long as no drain has gone on without its lock.              *)

\* Every tombstone of r is at or before event n.
ErasedBy(r, n) == Forgotten(r) /\ \A t \in Tombstones(r) : t <= n

Absent(r, c) == \A v \in DOMAIN c, x \in Texts : <<r, x>> \notin c[v]

\* An index that passed the tombstones of a record has nothing of it.
Clean(h, c) == \A r \in Records : ErasedBy(r, h) => Absent(r, c)

\* With the lock, a drain is alone, and erases before it goes on.
EraseHolds(w) ==
    /\ pc[w] # "idle" => owner = w
    /\ pc[w] = "erase" => \A r \in Records :
        (\E t \in Tombstones(r) : t > head /\ t <= plan[w].through) => r \in plan[w].hard_deleted
    /\ pc[w] \in {"begin", "stage", "publish"} =>
        \A r \in Records : ErasedBy(r, plan[w].through) => Absent(r, contents)

Erasing == \A w \in Workers : EraseHolds(w)

ErasedInv == ~stale => Clean(head, contents) /\ Clean(backup.head, backup.contents) /\ Erasing

\* A write may put the erasure of a record off, and never makes one due.
LEMMA ErasedBack ==
  ASSUME IInv, NEW r \in Records, NEW n \in {-1} \cup 1..Len(events), ErasedBy(r, n)',
         \/ UNCHANGED events
         \/ \E q \in Records, body \in Texts \cup {Inactive} : put(q, body)
         \/ \E q \in Records : forget(q)
  PROVE  ErasedBy(r, n)
<1>1. events \in Seq(Event) /\ Len(events) \in Nat /\ DOMAIN events = 1..Len(events)
  BY HeadInt
<1>2. CASE UNCHANGED events
  BY <1>2, Zenon DEF ErasedBy, Forgotten, Tombstones
<1>3. ASSUME NEW q \in Records, NEW body \in Texts \cup {Inactive}, put(q, body)
      PROVE  ErasedBy(r, n)
  <2>1. events' = Append(events, [record |-> q, body |-> body]) /\ body # Tombstone
    BY <1>3, NamesAssumption, Zenon DEF put, append_change
  <2> DEFINE new == [record |-> q, body |-> body]
  <2>0. new \in Event /\ new.body # Tombstone
    BY <2>1, Zenon DEF Event, Body
  <2>2. /\ DOMAIN events' = 1..Len(events) + 1 /\ \A i \in 1..Len(events) : events'[i] = events[i]
        /\ events'[Len(events) + 1].body # Tombstone
    <3>1. /\ DOMAIN events' = 1..Len(events) + 1 /\ \A i \in 1..Len(events) : events'[i] = events[i]
          /\ events'[Len(events) + 1] = new
      <4>1. events \in Seq(Event) /\ events' = Append(events, new)
        BY <1>1, <2>1, ZenonT(30)
      <4> HIDE DEF new
      <4> QED BY <2>0, <4>1, AppendFacts, SMTT(30)
    <3> QED BY <2>0, <3>1, Zenon
  <2>3. Tombstones(r)' = Tombstones(r)
    BY <1>1, <2>2, SMTT(30) DEF Tombstones
  <2>4. Forgotten(r)' <=> Forgotten(r)
    BY <1>1, <2>2 DEF Forgotten
  <2> QED BY <2>3, <2>4, Zenon DEF ErasedBy
<1>4. ASSUME NEW q \in Records, forget(q)
      PROVE  ErasedBy(r, n)
  <2>1. events' = Append(redact_changes(q), [record |-> q, body |-> Tombstone])
    BY <1>4, Zenon DEF forget, append_change
  <2>2. \A i \in 1..Len(events) : events[i] \in Event
    BY <1>1
  <2>3. redact_changes(q) \in [1..Len(events) -> Event]
    BY <1>1, <2>2, Zenon DEF redact_changes, Event, Body
  <2>4. redact_changes(q) \in Seq(Event) /\ Len(redact_changes(q)) = Len(events)
    BY <1>1, <2>3
  <2> DEFINE tomb == [record |-> q, body |-> Tombstone]
  <2>0. tomb \in Event
    BY Zenon DEF Event, Body
  <2>5. /\ DOMAIN events' = 1..Len(events) + 1
        /\ \A i \in 1..Len(events) : events'[i] = redact_changes(q)[i]
        /\ events'[Len(events) + 1] = tomb
    BY <2>0, <2>1, <2>4, AppendFacts
  <2>6. CASE r = q
    <3>1. Len(events) + 1 \in Tombstones(r)'
      BY <1>1, <2>5, <2>6 DEF Tombstones
    <3> QED BY <1>1, <3>1, SMTT(30) DEF ErasedBy
  <2>7. CASE r # q
    <3>1. \A i \in 1..Len(events) :
            events'[i] = [record |-> r, body |-> Tombstone] <=> events[i] = [record |-> r, body |-> Tombstone]
      <4> SUFFICES ASSUME NEW i \in 1..Len(events)
                   PROVE  events'[i] = [record |-> r, body |-> Tombstone]
                            <=> events[i] = [record |-> r, body |-> Tombstone]
        BY Zenon
      <4>1. events'[i] = IF events[i].record = q THEN [events[i] EXCEPT !.body = Tombstone] ELSE events[i]
        BY <1>1, <2>5, Zenon DEF redact_changes
      <4>2. events[i] \in [record: Records, body: Body]
        BY <2>2, Zenon DEF Event
      <4>3. CASE events[i].record = q
        <5>1. events'[i].record = q
          BY <4>1, <4>2, <4>3, Zenon
        <5> QED BY <2>7, <4>3, <5>1
      <4> QED BY <4>1, <4>3, Zenon
    <3>2. events'[Len(events) + 1] # [record |-> r, body |-> Tombstone]
      BY <2>5, <2>7, SMTT(30)
    <3>3. Tombstones(r)' = Tombstones(r)
      BY <1>1, <2>5, <3>1, <3>2, SMTT(30) DEF Tombstones
    <3>4. Forgotten(r)' <=> Forgotten(r)
      BY <1>1, <2>5, <3>1, <3>2 DEF Forgotten
    <3> QED BY <3>3, <3>4, Zenon DEF ErasedBy
  <2> QED BY <2>6, <2>7, Zenon
<1> QED BY <1>2, <1>3, <1>4, Zenon

\* Erasure and lapses only take vectors away.
Shrunk(c, d) == DOMAIN d \subseteq DOMAIN c /\ \A v \in DOMAIN d : d[v] \subseteq c[v]

LEMMA CleanBack ==
  ASSUME IInv, NEW h \in {-1} \cup 1..Len(events), NEW c, NEW d, Clean(h, c), Shrunk(c, d),
         \/ UNCHANGED events
         \/ \E q \in Records, body \in Texts \cup {Inactive} : put(q, body)
         \/ \E q \in Records : forget(q)
  PROVE  Clean(h, d)'
<1> SUFFICES ASSUME NEW r \in Records, ErasedBy(r, h)' PROVE Absent(r, d)
  BY Zenon DEF Clean, Absent
<1>1. ErasedBy(r, h)
  BY ErasedBack, Zenon
<1>2. Absent(r, c)
  BY <1>1, Zenon DEF Clean
<1> QED BY <1>2, Zenon DEF Absent, Shrunk

\* Without a lock holder nobody drains.
LEMMA NobodyDrains ==
  ASSUME Erasing, owner = None, NEW w \in Workers
  PROVE  pc[w] = "idle"
  BY NamesAssumption, Zenon DEF Erasing, EraseHolds

LEMMA HeadsKnown ==
  ASSUME IInv
  PROVE  head \in {-1} \cup 1..Len(events) /\ backup.head \in {-1} \cup 1..Len(events)
  BY Zenon DEF IInv, Faithful

\* Steps after which nobody drains.
LEMMA ErasedIdle ==
  ASSUME IInv, ErasedInv, ~stale, UNCHANGED <<head, backup>>, Shrunk(contents, contents'),
         \A w \in Workers : pc'[w] = "idle",
         \/ UNCHANGED events
         \/ \E q \in Records, body \in Texts \cup {Inactive} : put(q, body)
         \/ \E q \in Records : forget(q)
  PROVE  ErasedInv'
<1>1. Clean(head, contents) /\ Clean(backup.head, backup.contents)
  BY Zenon DEF ErasedInv
<1>2. Clean(head, contents)'
  <2>1. ASSUME NEW d, Shrunk(contents, d) PROVE Clean(head, d)'
    BY <1>1, <2>1, HeadsKnown, CleanBack, Zenon
  <2> QED BY <2>1, Zenon
<1>3. Clean(backup.head, backup.contents)'
  <2>1. Shrunk(backup.contents, backup.contents)
    BY Zenon DEF Shrunk
  <2> QED BY <1>1, <2>1, HeadsKnown, CleanBack, Zenon
<1>4. Erasing'
  BY Zenon DEF Erasing, EraseHolds
<1> QED BY <1>2, <1>3, <1>4, Zenon DEF ErasedInv

\* Steps of a drain that holds the lock, or takes it.
LEMMA ErasedAlone ==
  ASSUME IInv, ErasedInv, ~stale, UNCHANGED <<events, backup>>,
         NEW w \in Workers, owner \in {w, None}, \A u \in Workers \ {w} : pc'[u] = pc[u],
         EraseHolds(w)', Clean(head, contents)'
  PROVE  ErasedInv'
<1>1. Clean(backup.head, backup.contents) /\ Erasing
  BY Zenon DEF ErasedInv
<1>2. Clean(backup.head, backup.contents)'
  BY <1>1, Zenon DEF Clean, ErasedBy, Forgotten, Tombstones
<1>3. ASSUME NEW u \in Workers, u # w PROVE EraseHolds(u)'
  <2>1. pc[u] = "idle"
    BY <1>1, <1>3, NamesAssumption, Zenon DEF Erasing, EraseHolds
  <2> QED BY <1>3, <2>1, Zenon DEF EraseHolds
<1> QED BY <1>2, <1>3, Zenon DEF Erasing, ErasedInv

LEMMA CleanSame ==
  ASSUME IInv, NEW c, NEW d, Clean(head, c), Shrunk(c, d), UNCHANGED <<events, head>>
  PROVE  Clean(head, d)'
  BY HeadsKnown, CleanBack, Zenon

LEMMA ErasedFail ==
  ASSUME IInv, ErasedInv, ~stale, NEW w \in Workers, pc[w] # "idle", Fail(w)
  PROVE  ErasedInv'
<1>1. owner = w /\ Clean(head, contents)
  BY Zenon DEF ErasedInv, Erasing, EraseHolds
<1>2. /\ UNCHANGED <<events, backup, head, contents>>
      /\ pc' = [pc EXCEPT ![w] = "idle"]
  BY Zenon DEF Fail, Index!Lapse, hub
<1>3. pc'[w] = "idle" /\ \A u \in Workers \ {w} : pc'[u] = pc[u]
  BY <1>2, Zenon DEF IInv, Shape
<1>4. EraseHolds(w)'
  BY <1>3, Zenon DEF EraseHolds
<1>5. Clean(head, contents)'
  BY <1>1, <1>2, ZenonT(30) DEF Clean, ErasedBy, Forgotten, Tombstones
<1> QED BY <1>1, <1>2, <1>3, <1>4, <1>5, ErasedAlone, Zenon

LEMMA ErasedRead ==
  ASSUME IInv, ErasedInv, ~stale, NEW w \in Workers, drain(w)
  PROVE  ErasedInv'
<1> DEFINE n == Min({Resume + Batch, Len(events)})
<1>1. UNCHANGED <<events, backup, head, contents>> /\ owner = None /\ pc[w] = "idle" /\ Clean(head, contents)
  BY Zenon DEF drain, index, ErasedInv
<1>2. Clean(head, contents)'
  BY <1>1, Zenon DEF Clean, ErasedBy, Forgotten, Tombstones
<1>3. CASE UNCHANGED <<owner, pc, plan>>
  BY <1>1, <1>2, <1>3, ErasedAlone, Zenon DEF EraseHolds
<1>4. CASE n # Resume
  <2>1. /\ owner' = w /\ pc' = [pc EXCEPT ![w] = "erase"]
        /\ plan' = [plan EXCEPT ![w] =
             [through |-> n, full |-> head = -1,
              changes |-> [r \in Records |-> Latest(r, Resume, n)],
              hard_deleted |-> {r \in Records : \E i \in Resume + 1..n :
                                    events[i] = [record |-> r, body |-> Tombstone]}]]
    BY <1>4, ZenonT(30) DEF drain
  <2>2. pc'[w] = "erase" /\ \A u \in Workers \ {w} : pc'[u] = pc[u]
    BY <2>1, ZenonT(30) DEF IInv, Shape, Labels
  <2>3. /\ plan'[w].through = n
        /\ plan'[w].hard_deleted = {r \in Records : \E i \in Resume + 1..n :
                                      events[i] = [record |-> r, body |-> Tombstone]}
    <3>1. w \in DOMAIN plan
      BY Zenon DEF IInv, Shape
    <3> HIDE DEF n
    <3> QED BY <2>1, <3>1, Zenon
  <2>4. Resume \in Nat /\ n \in Nat /\ n <= Len(events) /\ head \in {-1} \cup Nat /\ events \in Seq(Event)
    BY Through, HeadInt, ZenonT(30)
  <2>5. ASSUME NEW r \in Records, NEW t \in Tombstones(r), t > head, t <= n
        PROVE  \E i \in Resume + 1..n : events[i] = [record |-> r, body |-> Tombstone]
    <3>1. t \in 1..Len(events) /\ events[t] = [record |-> r, body |-> Tombstone]
      BY <2>4 DEF Tombstones
    <3>2. t \in Resume + 1..n
      <4>1. Len(events) \in Nat /\ t \in Nat /\ t >= 1
        BY <2>4, <3>1
      <4>2. t > Resume
        BY <2>4, <2>5, <4>1, SMTT(30) DEF Resume
      <4> HIDE DEF n
      <4> QED BY <2>4, <2>5, <4>1, <4>2, SMTT(30)
    <3> QED BY <3>1, <3>2, Zenon
  <2> HIDE DEF n
  <2>6. EraseHolds(w)'
    <3>1. \A r \in Records : Tombstones(r)' = Tombstones(r)
      BY <1>1, Zenon DEF Tombstones
    <3>2. ASSUME NEW r \in Records, \E t \in Tombstones(r)' : t > head' /\ t <= plan'[w].through
          PROVE  r \in plan'[w].hard_deleted
      BY <1>1, <2>3, <2>5, <3>1, <3>2, Zenon
    <3> QED BY <2>1, <2>2, <3>2, Zenon DEF EraseHolds
  <2> QED BY <1>1, <1>2, <2>2, <2>6, ErasedAlone, Zenon
<1> QED BY <1>3, <1>4, Zenon DEF drain

LEMMA ErasedErase ==
  ASSUME IInv, ErasedInv, ~stale, NEW w \in Workers, EraseHard(w)
  PROVE  ErasedInv'
<1> DEFINE K == plan[w].hard_deleted
<1>1. pc[w] = "erase" /\ pc' = [pc EXCEPT ![w] = "begin"] /\ UNCHANGED <<events, backup, head, owner, plan>>
  BY Zenon DEF EraseHard, Goto, hub, index, Index!Erase
<1>2. Clean(head, contents) /\ EraseHolds(w) /\ owner = w
  BY <1>1, Zenon DEF ErasedInv, Erasing, EraseHolds
<1>3. pc'[w] = "begin" /\ \A u \in Workers \ {w} : pc'[u] = pc[u]
  BY <1>1, Zenon DEF IInv, Shape
<1>4. \/ K = {} /\ contents' = contents
      \/ contents' = [v \in DOMAIN contents |-> {e \in contents[v] : e[1] \notin K}]
  BY Zenon DEF EraseHard, index, Index!Erase
<1>5. Shrunk(contents, contents') /\ \A r \in K : Absent(r, contents')
  BY <1>4, SMTT(30) DEF Shrunk, Absent
<1>6. Clean(head, contents)'
  <2>1. ASSUME NEW d, Shrunk(contents, d) PROVE Clean(head, d)'
    BY <1>1, <1>2, <2>1, CleanSame, Zenon
  <2> QED BY <1>5, <2>1, Zenon
<1>7. PlanHolds(plan[w]) /\ head \in {-1} \cup Nat
  BY <1>1, DrainAt, HeadInt, Zenon
<1>8. ASSUME NEW r \in Records, ErasedBy(r, plan[w].through) PROVE Absent(r, contents')
  <2>1. CASE ErasedBy(r, head)
    <3>1. Absent(r, contents)
      BY <1>2, <2>1, Zenon DEF Clean
    <3> QED BY <1>5, <3>1, Zenon DEF Absent, Shrunk
  <2>2. CASE ~ErasedBy(r, head)
    <3>1. PICK t \in Tombstones(r) : ~(t <= head)
      BY <1>8, <2>2, Zenon DEF ErasedBy
    <3>2. t <= plan[w].through /\ t \in DOMAIN events
      BY <1>8, Zenon DEF ErasedBy, Tombstones
    <3>3. t \in Nat
      BY <3>2, HeadInt
    <3>4. t > head
      BY <1>7, <3>1, <3>3, SMTT(30)
    <3>5. r \in K
      BY <1>1, <1>2, <3>2, <3>4, Zenon DEF EraseHolds
    <3> QED BY <1>5, <3>5, Zenon
  <2> QED BY <2>1, <2>2, Zenon
<1>9. EraseHolds(w)'
  <2>1. ASSUME NEW r \in Records, ErasedBy(r, plan[w].through)' PROVE Absent(r, contents')
    <3>1. ErasedBy(r, plan[w].through)
      BY <1>1, <2>1, Zenon DEF ErasedBy, Forgotten, Tombstones
    <3> QED BY <1>8, <3>1, Zenon
  <2> QED BY <1>1, <1>2, <1>3, <2>1, Zenon DEF EraseHolds, Absent
<1> QED BY <1>1, <1>2, <1>3, <1>6, <1>9, ErasedAlone, Zenon

LEMMA ErasedBuild ==
  ASSUME IInv, ErasedInv, ~stale, NEW w \in Workers, BeginBuild(w) \/ StageBuild(w)
  PROVE  ErasedInv'
<1>1. CASE Fail(w)
  BY <1>1, ErasedFail, Zenon DEF BeginBuild, StageBuild
<1>2. CASE ~Fail(w)
  <2>1. /\ pc[w] \in {"begin", "stage"} /\ UNCHANGED <<events, backup, head, contents, owner, plan>>
        /\ \E label \in {"stage", "publish"} : pc' = [pc EXCEPT ![w] = label]
    BY <1>2, Zenon DEF BeginBuild, StageBuild, Goto, hub, Index!Begin, Index!Stage
  <2>2. pc'[w] \in {"stage", "publish"} /\ \A u \in Workers \ {w} : pc'[u] = pc[u]
    BY <2>1, Zenon DEF IInv, Shape
  <2>3. Clean(head, contents) /\ EraseHolds(w) /\ owner = w
    BY <2>1, Zenon DEF ErasedInv, Erasing, EraseHolds
  <2>4. Clean(head, contents)'
    BY <2>1, <2>3, Zenon DEF Clean, ErasedBy, Forgotten, Tombstones
  <2>5. EraseHolds(w)'
    <3>1. ASSUME NEW r \in Records, ErasedBy(r, plan[w].through)' PROVE Absent(r, contents)
      <4>1. ErasedBy(r, plan[w].through)
        BY <2>1, <3>1, Zenon DEF ErasedBy, Forgotten, Tombstones
      <4> QED BY <2>1, <2>3, <4>1, Zenon DEF EraseHolds
    <3> QED BY <2>1, <2>2, <2>3, <3>1, ZenonT(30) DEF EraseHolds, Absent
  <2> QED BY <2>1, <2>2, <2>3, <2>4, <2>5, ErasedAlone, Zenon
<1> QED BY <1>1, <1>2, Zenon

LEMMA ErasedPublish ==
  ASSUME IInv, ErasedInv, ~stale, NEW w \in Workers, PublishBuild(w)
  PROVE  ErasedInv'
<1>1. CASE Fail(w)
  BY <1>1, ErasedFail, Zenon DEF PublishBuild
<1>2. CASE drafts[w] # None /\ drafts[w].base = head /\ Index!Publish(w) /\ Goto(w, "acknowledge")
  <2> DEFINE p == plan[w]
             new == Index!Overlay(contents[head], p.full, p.changes)
  <2>1. pc[w] = "publish" /\ pc' = [pc EXCEPT ![w] = "acknowledge"] /\ UNCHANGED <<events, backup, owner, plan>>
    BY <1>2, Zenon DEF PublishBuild, Goto, hub
  <2>2. pc'[w] = "acknowledge" /\ \A u \in Workers \ {w} : pc'[u] = pc[u]
    BY <2>1, Zenon DEF IInv, Shape
  <2>3. EraseHolds(w) /\ owner = w
    BY <2>1, Zenon DEF ErasedInv, Erasing, EraseHolds
  <2>4. PlanHolds(p) /\ p \in Plan /\ DraftOfPlan(w)
    BY <1>2, <2>1, DrainAt, Zenon DEF IInv, Draining, DrainHolds
  <2>5. drafts[w].target = p.through /\ drafts[w].full = p.full /\ drafts[w].delta = p.changes
    BY <2>1, <2>4, Zenon DEF DraftOfPlan
  <2>6. /\ head' = p.through
        /\ contents' = [v \in (DOMAIN contents \ {-1}) \cup {p.through} |->
                           IF v = p.through THEN new ELSE contents[v]]
    BY <1>2, <2>5, Zenon DEF Index!Publish
  <2>7. ASSUME NEW r \in Records, ErasedBy(r, p.through) PROVE Absent(r, contents')
    <3>1. Absent(r, contents)
      BY <2>1, <2>3, <2>7, Zenon DEF EraseHolds
    <3>2. p.changes[r] \notin Texts
      <4> SUFFICES ASSUME p.changes[r] \in Texts PROVE FALSE
        BY Zenon
      <4>1. Has(p.through, r, p.changes[r]) \/ ErasedAfter(r, p.through)
        BY <2>4, Zenon DEF PlanHolds
      <4>2. p.through \in {-1} \cup 1..Len(events) /\ events \in Seq(Event) /\ Redacted /\ Forgotten(r)
        BY <2>4, <2>7, HeadInt, Zenon DEF PlanHolds, IInv, ErasedBy
      <4>3. ~Has(p.through, r, p.changes[r])
        BY <4>2, ForgottenHasNot, Zenon
      <4>4. PICK t \in Tombstones(r) : t > p.through /\ t <= p.through
        BY <2>7, <4>1, <4>3, Zenon DEF ErasedAfter, ErasedBy
      <4>5. t \in Nat /\ p.through \in Nat
        BY <2>4, HeadInt, SMTT(30) DEF Tombstones, Plan
      <4> QED BY <4>4, <4>5
    <3>3. ASSUME NEW x \in Texts, <<r, x>> \in new PROVE FALSE
      <4>1. <<r, x>> \in contents[head] \/ p.changes[r] = x
        BY <3>3, Zenon DEF Index!Overlay
      <4>2. head \in DOMAIN contents
        BY Zenon DEF IInv, Faithful
      <4> QED BY <3>1, <3>2, <4>1, <4>2, Zenon DEF Absent
    <3> HIDE DEF new
    <3> QED BY <2>6, <3>1, <3>3, Zenon DEF Absent
  <2>8. Clean(head, contents)'
    <3> SUFFICES ASSUME NEW r \in Records, ErasedBy(r, head)' PROVE Absent(r, contents')
      BY Zenon DEF Clean, Absent
    <3>1. ErasedBy(r, p.through)
      BY <2>1, <2>6, Zenon DEF ErasedBy, Forgotten, Tombstones
    <3> QED BY <2>7, <3>1, Zenon
  <2>9. EraseHolds(w)'
    BY <2>1, <2>2, <2>3, Zenon DEF EraseHolds
  <2> QED BY <2>1, <2>2, <2>3, <2>8, <2>9, ErasedAlone, Zenon
<1> QED BY <1>1, <1>2, Zenon DEF PublishBuild

LEMMA ErasedAcknowledge ==
  ASSUME IInv, ErasedInv, ~stale, NEW w \in Workers, Acknowledge(w)
  PROVE  ErasedInv'
<1>1. /\ UNCHANGED <<events, backup, head, contents>> /\ pc[w] = "acknowledge"
      /\ pc' = [pc EXCEPT ![w] = "idle"]
  BY Zenon DEF Acknowledge, index
<1>2. owner = w /\ Clean(head, contents)
  BY <1>1, ZenonT(30) DEF ErasedInv, Erasing, EraseHolds
<1>3. pc'[w] = "idle" /\ \A u \in Workers \ {w} : pc'[u] = pc[u]
  BY <1>1, ZenonT(30) DEF IInv, Shape
<1>4. EraseHolds(w)'
  BY <1>3, Zenon DEF EraseHolds
<1>5. Clean(head, contents)'
  BY <1>1, <1>2, Zenon DEF Clean, ErasedBy, Forgotten, Tombstones
<1> QED BY <1>1, <1>2, <1>3, <1>4, <1>5, ErasedAlone, Zenon

LEMMA ErasedWrite ==
  ASSUME IInv, ErasedInv, ~stale, NEW r \in Records,
         (\E body \in Texts \cup {Inactive} : put(r, body)) \/ forget(r) \/ erase_records(r)
  PROVE  ErasedInv'
<1>1. owner = None /\ UNCHANGED <<head, backup, pc>>
  BY Zenon DEF put, forget, erase_records, index, Index!Erase
<1>2. \A w \in Workers : pc'[w] = "idle"
  BY <1>1, NobodyDrains, Zenon DEF ErasedInv
<1>3. Shrunk(contents, contents')
  BY Zenon DEF put, forget, erase_records, index, Index!Erase, Shrunk
<1>4. erase_records(r) => UNCHANGED events
  BY Zenon DEF erase_records
<1> QED BY <1>1, <1>2, <1>3, <1>4, ErasedIdle, Zenon

\* Searches and lapsed leases.
LEMMA ErasedSame ==
  ASSUME ErasedInv, ~stale, UNCHANGED <<events, owner, head, contents, backup, plan>>,
         \A w \in Workers : pc'[w] = pc[w]
  PROVE  ErasedInv'
<1>1. Clean(head, contents) /\ Clean(backup.head, backup.contents) /\ Erasing
  BY Zenon DEF ErasedInv
<1>2. Clean(head, contents)' /\ Clean(backup.head, backup.contents)'
  BY <1>1, Zenon DEF Clean, ErasedBy, Forgotten, Tombstones
<1>3. ASSUME NEW w \in Workers PROVE EraseHolds(w)'
  <2>1. EraseHolds(w)
    BY <1>1, Zenon DEF Erasing
  <2> QED BY <2>1, Zenon DEF EraseHolds, ErasedBy, Forgotten, Tombstones, Absent
<1> QED BY <1>2, <1>3, Zenon DEF ErasedInv, Erasing

LEMMA ErasedSearch ==
  ASSUME IInv, ErasedInv, ~stale, NEW s \in Searchers,
         ReadState(s) \/ PinState(s) \/ candidates(s) \/ hydrate(s)
  PROVE  ErasedInv'
<1>1. /\ UNCHANGED <<events, owner, head, contents, backup, plan>>
      /\ \E label : pc' = [pc EXCEPT ![s] = label]
  BY Zenon DEF ReadState, PinState, candidates, hydrate, GiveUp, SearchStep, hub, index, Index!Pin, Index!Lapse
<1>2. \A w \in Workers : pc'[w] = pc[w]
  BY <1>1, NamesAssumption, ZenonT(30) DEF IInv, Shape
<1> QED BY <1>1, <1>2, ErasedSame, Zenon

LEMMA ErasedCopies ==
  ASSUME IInv, ErasedInv, ~stale, TakeBackup \/ RestoreBackup
  PROVE  ErasedInv'
<1>1. Clean(head, contents) /\ Clean(backup.head, backup.contents) /\ Erasing
  BY Zenon DEF ErasedInv
<1>2. CASE TakeBackup
  <2>1. /\ UNCHANGED <<events, owner, head, contents, pc, plan>>
        /\ backup'.head = head /\ backup'.contents = contents
    BY <1>2, Zenon DEF TakeBackup, hub, index
  <2>2. Clean(head, contents)' /\ Clean(backup.head, backup.contents)'
    BY <1>1, <2>1, Zenon DEF Clean, ErasedBy, Forgotten, Tombstones
  <2>3. ASSUME NEW w \in Workers PROVE EraseHolds(w)'
    <3>1. EraseHolds(w)
      BY <1>1, Zenon DEF Erasing
    <3> QED BY <2>1, <3>1, Zenon DEF EraseHolds, ErasedBy, Forgotten, Tombstones, Absent
  <2> QED BY <2>2, <2>3, Zenon DEF ErasedInv, Erasing
<1>3. CASE RestoreBackup
  <2>1. /\ UNCHANGED <<events, backup, pc>> /\ head' = backup.head /\ contents' = backup.contents
        /\ \A w \in Workers : pc[w] = "idle"
    BY <1>3, Zenon DEF RestoreBackup, hub
  <2>2. Clean(head, contents)' /\ Clean(backup.head, backup.contents)'
    BY <1>1, <2>1, Zenon DEF Clean, ErasedBy, Forgotten, Tombstones
  <2>3. Erasing'
    BY <2>1, Zenon DEF Erasing, EraseHolds
  <2> QED BY <2>2, <2>3, Zenon DEF ErasedInv
<1> QED BY <1>2, <1>3, Zenon

LEMMA ErasedNext ==
  ASSUME IInv, ErasedInv, [Next]_vars
  PROVE  ErasedInv'
<1>0. CASE stale
  <2>1. stale'
    BY <1>0, ZenonT(30) DEF Next, vars, put, forget, erase_records, DrainStep, drain, EraseHard, BeginBuild, StageBuild,
       PublishBuild, Acknowledge, Goto, Fail, Crash, LoseSession, ReadState, PinState, candidates, hydrate,
       GiveUp, SearchStep, Expire, TakeBackup, RestoreBackup
  <2> QED BY <2>1, Zenon DEF ErasedInv
<1>1. CASE ~stale
  <2>1. ASSUME NEW r \in Records,
               (\E body \in Texts \cup {Inactive} : put(r, body)) \/ forget(r) \/ erase_records(r)
        PROVE  ErasedInv'
    BY <1>1, <2>1, ErasedWrite, Zenon
  <2>2. ASSUME NEW w \in Workers, DrainStep(w) PROVE ErasedInv'
    BY <1>1, <2>2, ErasedRead, ErasedErase, ErasedBuild, ErasedPublish, ErasedAcknowledge, Zenon DEF DrainStep
  <2>3. ASSUME NEW w \in Workers, Crash(w) PROVE ErasedInv'
    BY <1>1, <2>3, ErasedFail, Zenon DEF Crash
  <2>4. ASSUME NEW w \in Workers, LoseSession(w) PROVE ErasedInv'
    BY <2>4, Zenon DEF LoseSession, ErasedInv
  <2>5. ASSUME NEW s \in Searchers, ReadState(s) \/ PinState(s) \/ candidates(s) \/ hydrate(s)
        PROVE  ErasedInv'
    BY <1>1, <2>5, ErasedSearch, Zenon
  <2>6. ASSUME Expire PROVE ErasedInv'
    <3>1. UNCHANGED <<events, owner, head, contents, backup, plan, pc>>
      BY <2>6, ZenonT(30) DEF Expire, hub, Index!Lapse
    <3> QED BY <1>1, <3>1, ErasedSame, Zenon
  <2>7. ASSUME TakeBackup \/ RestoreBackup PROVE ErasedInv'
    BY <1>1, <2>7, ErasedCopies, Zenon
  <2>8. ASSUME UNCHANGED vars PROVE ErasedInv'
    BY <1>1, <2>8, ErasedSame, Zenon DEF vars
  <2> QED BY <2>1, <2>2, <2>3, <2>4, <2>5, <2>6, <2>7, <2>8, Zenon DEF Next
<1> QED BY <1>0, <1>1, Zenon

LEMMA InvErasedGone ==
  ASSUME IInv, ErasedInv
  PROVE  ErasedGone
<1> SUFFICES ASSUME NEW r \in Records, ~stale, Forgotten(r), Max(Tombstones(r)) <= head
             PROVE  \A v \in DOMAIN contents : \A x \in Texts : <<r, x>> \notin contents[v]
  BY Zenon DEF ErasedGone
<1>1. events \in Seq(Event) /\ Len(events) \in Nat /\ head \in {-1} \cup Nat
  BY HeadInt, Zenon
<1>2. Tombstones(r) \subseteq 0..Len(events) /\ Tombstones(r) # {}
  BY <1>1, SMTT(30) DEF Tombstones, Forgotten
<1>3. Max(Tombstones(r)) \in Tombstones(r) /\ \A t \in Tombstones(r) : Max(Tombstones(r)) >= t
  <2>1. PICK k \in 1..Len(events) : LastOf(r, k, Len(events))
    BY <1>1, <1>2, SMTT(30) DEF IInv, Dated, Tombstones
  <2>2. k \in Tombstones(r)
    <3>1. PICK t \in DOMAIN events : events[t] = [record |-> r, body |-> Tombstone]
      BY Zenon DEF Forgotten
    <3>2. k \in DOMAIN events /\ events[k] \in Event /\ events[k].record = r
      BY <1>1, <2>1, SMTT(30) DEF LastOf
    <3>3. events[k].body = Tombstone
      BY <3>1, <3>2, SMTT(30) DEF IInv, Redacted
    <3> QED BY <3>2, <3>3, ZenonT(30) DEF Tombstones, Event
  <2>3. \A t \in Tombstones(r) : k >= t
    BY <1>1, <2>1, SMTT(30) DEF LastOf, Tombstones
  <2> QED BY <2>2, <2>3, MaxOf, Zenon
<1>4. \A t \in Tombstones(r) : t <= head
  BY <1>1, <1>2, <1>3
<1>5. Absent(r, contents)
  BY <1>4, Zenon DEF ErasedInv, Clean, ErasedBy
<1> QED BY <1>5, Zenon DEF Absent

LEMMA ErasedInit == Init => ErasedInv
<1> SUFFICES ASSUME Init PROVE ErasedInv
  BY Zenon
<1>1. DOMAIN events = {} /\ \A w \in Workers : pc[w] = "idle"
  BY SMTT(30) DEF Init
<1>2. \A r \in Records : ~Forgotten(r)
  BY <1>1, ZenonT(30) DEF Forgotten
<1> QED BY <1>1, <1>2, ZenonT(30) DEF ErasedInv, Clean, ErasedBy, Erasing, EraseHolds

-----------------------------------------------------------------------------
\* Without reused identities, cursors and revisions are those of events, and the
\* tenant's advisory lock is with a process in a drain, or free.
THEOREM TypeCorrect ==
  ASSUME ~Reuse
  PROVE  Spec => []TypeOK
<1>1. IInv => TypeOK
  BY InvTypeOK, Zenon
<1> QED BY <1>1, Inductive, PTL

\* Without reused identities, hydration admits no hit of an outdated vector,
\* whatever drains, writes and faults come between the steps of a search.
THEOREM HitsAreCurrent ==
  ASSUME ~Reuse
  PROVE  Spec => []HitsCurrent
<1>1. IInv => HitsCurrent
  BY InvHitsCurrent, Zenon
<1> QED BY <1>1, Inductive, PTL

\* Without reused identities, an index whose head is the last change event has the
\* vectors of exactly the active records, also after crashes, restored copies and
\* publications by drains that lost their lock.
THEOREM CaughtUpIsProjected ==
  ASSUME ~Reuse
  PROVE  Spec => []Projected
<1>1. IInv => Projected
  BY InvProjected, Zenon
<1> QED BY <1>1, Inductive, PTL

\* Without reused identities, and until a drain goes on without its lock, an index
\* past a record's last tombstone has no vector of it: drain erases first.
THEOREM TombstonesErase ==
  ASSUME ~Reuse
  PROVE  Spec => []ErasedGone
<1>1. IInv /\ ErasedInv /\ [Next]_vars => ErasedInv'
  BY ErasedNext, Zenon
<1>2. IInv /\ ErasedInv => ErasedGone
  BY InvErasedGone, Zenon
<1> QED BY <1>1, <1>2, Inductive, ErasedInit, PTL DEF Spec

==============================================================================
