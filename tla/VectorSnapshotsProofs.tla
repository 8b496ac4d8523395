------------------------ MODULE VectorSnapshotsProofs ------------------------
(***************************************************************************)
(* The snapshot tables implement SnapshotStore, for any number of keys,    *)
(* builders, readers and revisions, any lease and any collection limit.    *)
(***************************************************************************)
EXTENDS VectorSnapshots, TLAPS

\* The head is the newest generation, and generations have revisions of their own.
HeadPublished ==
    /\ _head.revision = -1 => _head.generation = None /\ generations = {}
    /\ _head.revision # -1 =>
        [generation |-> _head.generation, revision |-> _head.revision] \in generations
    /\ \A g \in generations : g.revision <= _head.revision
    /\ \A g, h \in generations :
        g.generation = h.generation \/ g.revision = h.revision => g = h

\* Versions are never ahead of the head, and closed by a later publication.
VersionsBehind == \A v \in versions :
    /\ v.from <= _head.revision
    /\ v.to # None => v.from < v.to /\ v.to <= _head.revision

\* collect_garbage leaves a generation alone while a reader's row names it.
ReadersRetained == \A p \in Readers : readers[p] # None =>
    [generation |-> readers[p].generation, revision |-> readers[p].revision] \in generations

BuildsAhead == \A b \in Builders : builds[b] # None => builds[b].base < builds[b].target

IInv == TypeOK /\ HeadPublished /\ VersionsBehind /\ ReadersRetained /\ BuildsAhead /\ OneVector

Others == <<_head, generations, versions>>

-----------------------------------------------------------------------------
LEMMA InvInit == Init => IInv
  BY SnapshotsAssumption DEF Init, IInv, TypeOK, HeadPublished, VersionsBehind, ReadersRetained,
     BuildsAhead, OneVector, Revision, Nothing, Change

\* Steps that touch builders or readers only.
LEMMA RowsStep ==
  ASSUME IInv, UNCHANGED Others, TypeOK',
         \A p \in Readers : readers'[p] # None => 
            [generation |-> readers'[p].generation, revision |-> readers'[p].revision] \in generations,
         \A b \in Builders : builds'[b] # None => builds'[b].base < builds'[b].target
  PROVE  IInv'
  BY Zenon DEF IInv, Others, HeadPublished, VersionsBehind, ReadersRetained, BuildsAhead, OneVector

LEMMA BeginStep ==
  ASSUME IInv, NEW b \in Builders, NEW r \in 0..MaxRevision, NEW g \in Labels, NEW full \in BOOLEAN,
         begin(b, r, g, full)
  PROVE  IInv'
<1> DEFINE row == [base |-> _head.revision, target |-> r, generation |-> g, full |-> full, expires |-> Lease]
<1>1. row \in Build
  BY SnapshotsAssumption DEF IInv, TypeOK, Build
<1>2. TypeOK'
  BY <1>1, Zenon DEF begin, IInv, TypeOK
<1>3. _head.revision < r /\ builds' = [builds EXCEPT ![b] = row]
  BY Zenon DEF begin
<1>4. \A c \in Builders : builds'[c] # None => builds'[c].base < builds'[c].target
  BY <1>3, Zenon DEF IInv, TypeOK, BuildsAhead
<1> QED BY <1>2, <1>4, RowsStep, Zenon DEF begin, IInv, ReadersRetained, Others

LEMMA StageStep ==
  ASSUME IInv, NEW b \in Builders, NEW batch \in [Keys -> Change], stage(b, batch)
  PROVE  IInv'
<1>1. builds[b] \in Build /\ [builds[b] EXCEPT !.expires = Lease] \in Build
  BY SnapshotsAssumption DEF stage, _build, IInv, TypeOK, Build
<1>2. builds' = [builds EXCEPT ![b] = [builds[b] EXCEPT !.expires = Lease]]
  BY Zenon DEF stage
<1>3. builds' \in [Builders -> Build \cup {None}]
  BY <1>1, <1>2, Zenon DEF IInv, TypeOK
<1>4. stage_rows' \in [Builders -> [Keys -> Change]]
  BY Zenon DEF stage, IInv, TypeOK
<1>5. TypeOK'
  BY <1>3, <1>4, Zenon DEF stage, IInv, TypeOK
<1>6. \A c \in Builders : builds'[c] # None => builds'[c].base < builds'[c].target
  BY <1>1, <1>2, SnapshotsAssumption, Zenon DEF IInv, TypeOK, BuildsAhead, Build
<1> QED BY <1>5, <1>6, RowsStep, Zenon DEF stage, IInv, ReadersRetained, Others

LEMMA AbortStep == ASSUME IInv, NEW b \in Builders, abort(b) PROVE IInv'
<1>1. TypeOK'
  BY Zenon DEF abort, IInv, TypeOK, Nothing, Change
<1>2. \A c \in Builders : builds'[c] # None => builds'[c].base < builds'[c].target
  BY Zenon DEF abort, IInv, TypeOK, BuildsAhead
<1> QED BY <1>1, <1>2, RowsStep, Zenon DEF abort, IInv, ReadersRetained, Others

LEMMA EraseStep == ASSUME IInv, NEW K \in SUBSET Keys, erase(K) PROVE IInv'
<1>1. TypeOK'
  BY Zenon DEF erase, IInv, TypeOK, Nothing, Change
<1>2. versions' \subseteq versions /\ \A c \in Builders : builds'[c] = None
  BY Zenon DEF erase
<1> QED BY <1>1, <1>2, Zenon DEF erase, IInv, HeadPublished, VersionsBehind, ReadersRetained, BuildsAhead, OneVector

LEMMA PinStep == ASSUME IInv, NEW p \in Readers, NEW g \in generations, pin(p, g) PROVE IInv'
<1> DEFINE row == [revision |-> g.revision, generation |-> g.generation, expires |-> Lease]
<1>1. g \in [generation: Labels, revision: Nat] /\ row \in Reader
  BY SnapshotsAssumption DEF IInv, TypeOK, Reader
<1>2. readers' = [readers EXCEPT ![p] = row]
  BY Zenon DEF pin
<1>3. TypeOK'
  BY <1>1, <1>2, Zenon DEF pin, IInv, TypeOK
<1>4. \A q \in Readers : readers'[q] # None =>
         [generation |-> readers'[q].generation, revision |-> readers'[q].revision] \in generations
  BY <1>1, <1>2, Zenon DEF IInv, TypeOK, ReadersRetained
<1> QED BY <1>3, <1>4, RowsStep, Zenon DEF pin, IInv, BuildsAhead, Others

LEMMA RenewStep == ASSUME IInv, NEW p \in Readers, renew(p) PROVE IInv'
<1>1. readers[p] \in Reader /\ [readers[p] EXCEPT !.expires = Lease] \in Reader
  BY SnapshotsAssumption DEF renew, _reader, IInv, TypeOK, Reader
<1>2. readers' = [readers EXCEPT ![p] = [readers[p] EXCEPT !.expires = Lease]]
  BY Zenon DEF renew
<1>3. TypeOK'
  BY <1>1, <1>2, Zenon DEF renew, IInv, TypeOK
<1>4. \A q \in Readers : readers'[q] # None =>
         [generation |-> readers'[q].generation, revision |-> readers'[q].revision] \in generations
  BY <1>1, <1>2, SnapshotsAssumption, Zenon DEF IInv, TypeOK, ReadersRetained, Reader
<1> QED BY <1>3, <1>4, RowsStep, Zenon DEF renew, IInv, BuildsAhead, Others

LEMMA ReleaseStep == ASSUME IInv, NEW p \in Readers, release(p) PROVE IInv'
<1>1. TypeOK'
  BY Zenon DEF release, IInv, TypeOK
<1>2. \A q \in Readers : readers'[q] # None =>
         [generation |-> readers'[q].generation, revision |-> readers'[q].revision] \in generations
  BY Zenon DEF release, IInv, TypeOK, ReadersRetained
<1> QED BY <1>1, <1>2, RowsStep, Zenon DEF release, IInv, BuildsAhead, Others

\* A row only loses time.
LEMMA LaterRow ==
  /\ \A row \in Build \cup {None} : /\ Later(row) \in Build \cup {None}
                                    /\ (Later(row) = None) <=> (row = None)
                                    /\ row # None => /\ Later(row).base = row.base
                                                     /\ Later(row).target = row.target
                                                     /\ Later(row).full = row.full
                                                     /\ Later(row).expires <= row.expires
  /\ \A row \in Reader \cup {None} : /\ Later(row) \in Reader \cup {None}
                                     /\ (Later(row) = None) <=> (row = None)
                                     /\ row # None => /\ Later(row).revision = row.revision
                                                      /\ Later(row).generation = row.generation
                                                      /\ Later(row).expires <= row.expires
<1>1. ASSUME NEW row \in Build, row.expires # 0
      PROVE  [row EXCEPT !.expires = @ - 1] \in Build
  BY <1>1, SnapshotsAssumption DEF Build
<1>2. ASSUME NEW row \in Reader, row.expires # 0
      PROVE  [row EXCEPT !.expires = @ - 1] \in Reader
  BY <1>2, SnapshotsAssumption DEF Reader
<1>3. ASSUME NEW row \in Build \cup {None}
      PROVE  /\ Later(row) \in Build \cup {None}
             /\ (Later(row) = None) <=> (row = None)
             /\ row # None => /\ Later(row).base = row.base
                              /\ Later(row).target = row.target
                              /\ Later(row).full = row.full
                              /\ Later(row).expires <= row.expires
  <2>1. CASE row = None \/ row.expires = 0
    BY <2>1, SnapshotsAssumption DEF Later, Build
  <2>2. CASE row # None /\ row.expires # 0
    BY <1>1, <2>2, SnapshotsAssumption DEF Later, Build
  <2> QED BY <2>1, <2>2, Zenon
<1>4. ASSUME NEW row \in Reader \cup {None}
      PROVE  /\ Later(row) \in Reader \cup {None}
             /\ (Later(row) = None) <=> (row = None)
             /\ row # None => /\ Later(row).revision = row.revision
                              /\ Later(row).generation = row.generation
                              /\ Later(row).expires <= row.expires
  <2>1. CASE row = None \/ row.expires = 0
    BY <2>1, SnapshotsAssumption DEF Later, Reader
  <2>2. CASE row # None /\ row.expires # 0
    BY <1>2, <2>2, SnapshotsAssumption DEF Later, Reader
  <2> QED BY <2>1, <2>2, Zenon
<1> QED BY <1>3, <1>4, Zenon

LEMMA TickStep == ASSUME IInv, Tick PROVE IInv'
<1>1. builds \in [Builders -> Build \cup {None}] /\ readers \in [Readers -> Reader \cup {None}]
  BY Zenon DEF IInv, TypeOK
<1>2. builds' \in [Builders -> Build \cup {None}] /\ readers' \in [Readers -> Reader \cup {None}]
  BY <1>1, LaterRow, Zenon DEF Tick
<1>3. TypeOK'
  BY <1>2, Zenon DEF Tick, IInv, TypeOK
<1>4. \A c \in Builders : builds'[c] # None => builds'[c].base < builds'[c].target
  BY <1>1, LaterRow, Zenon DEF Tick, IInv, BuildsAhead
<1>5. \A q \in Readers : readers'[q] # None =>
         [generation |-> readers'[q].generation, revision |-> readers'[q].revision] \in generations
  BY <1>1, LaterRow, Zenon DEF Tick, IInv, ReadersRetained
<1> QED BY <1>3, <1>4, <1>5, RowsStep, Zenon DEF Tick, Others

-----------------------------------------------------------------------------
\* What a publication does to the versions: each old one stays or is closed at
\* the target, and each new one starts there under a key with no open version.
Closed(b, v) == [key |-> v.key, from |-> v.from, to |-> builds[b].target, checksum |-> v.checksum]
New(b, k) == [key |-> k, from |-> builds[b].target, to |-> None, checksum |-> stage_rows[b][k]]

LEMMA PublishVersions ==
  ASSUME IInv, NEW b \in Builders, publish(b)
  PROVE  /\ builds[b] \in Build /\ builds[b].base = _head.revision /\ _head.revision < builds[b].target
         /\ _head.revision \in Revision /\ builds[b].target \in Nat
         /\ _head' = [generation |-> builds[b].generation, revision |-> builds[b].target]
         /\ \A g \in generations : g.generation # builds[b].generation
         /\ \A v \in versions : IF Retired(b, v) THEN Closed(b, v) \in versions' ELSE v \in versions'
         /\ \A k \in Keys : stage_rows[b][k] \in Values
                /\ (\A v \in versions : v.key = k /\ v.to = None => Retired(b, v)) => New(b, k) \in versions'
         /\ \A w \in versions' :
                \/ \E v \in versions : IF Retired(b, v) THEN w = Closed(b, v) ELSE w = v
                \/ \E k \in Keys : /\ w = New(b, k) /\ stage_rows[b][k] \in Values
                                   /\ \A v \in versions : v.key = k /\ v.to = None => Retired(b, v)
<1>1. builds[b] \in Build /\ builds[b].base = _head.revision /\ _head.revision < builds[b].target
  BY Zenon DEF publish, PublishAllowed, _build, IInv, TypeOK, BuildsAhead
<1>2. /\ builds[b].target \in Nat /\ _head.revision \in Revision
      /\ _head' = [generation |-> builds[b].generation, revision |-> builds[b].target]
      /\ \A g \in generations : g.generation # builds[b].generation
  BY <1>1, Zenon DEF publish, PublishAllowed, IInv, TypeOK, Build
<1>3. \A v \in versions : v \in Version /\ [v EXCEPT !.to = builds[b].target] = Closed(b, v)
  BY DEF IInv, TypeOK, Version, Closed
<1> DEFINE image(v) == IF Retired(b, v) THEN Closed(b, v) ELSE v
<1>4. Retire(b) = {image(v) : v \in versions}
  BY <1>3, Zenon DEF Retire
<1>5. \A k \in Keys : (\A v \in Retire(b) : ~(v.key = k /\ v.to = None))
                        <=> (\A v \in versions : v.key = k /\ v.to = None => Retired(b, v))
  <2>1. \A v \in versions : /\ image(v).key = v.key
                            /\ (image(v).to = None) <=> (v.to = None /\ ~Retired(b, v))
    BY <1>2, <1>3, SnapshotsAssumption, Zenon DEF Closed, Version, Retired
  <2> QED BY <1>4, <2>1, Zenon
<1>6. versions' = Retire(b) \cup Opened(b, Retire(b))
  BY Zenon DEF publish
<1>7. Opened(b, Retire(b)) = {New(b, k) : k \in {i \in Keys : /\ stage_rows[b][i] \in Values
            /\ \A v \in versions : v.key = i /\ v.to = None => Retired(b, v)}}
  BY <1>5, Zenon DEF Opened, New
<1> QED BY <1>1, <1>2, <1>4, <1>6, <1>7, Zenon

LEMMA PublishStep == ASSUME IInv, NEW b \in Builders, publish(b) PROVE IInv'
<1> DEFINE target == builds[b].target
           g == [generation |-> builds[b].generation, revision |-> target]
<1> USE SnapshotsAssumption
<1>1. target \in Nat /\ _head.revision \in Revision /\ _head.revision < target /\ g \in [generation: Labels, revision: Nat]
  BY PublishVersions, Zenon DEF Build
<1>2. /\ \A v \in versions : v \in Version /\ v.to \in Nat \cup {None} /\ v.from \in Nat
      /\ \A v \in versions : Closed(b, v) \in Version
      /\ \A k \in Keys : stage_rows[b][k] \in Values => New(b, k) \in Version
  BY <1>1, Zenon DEF IInv, TypeOK, Version, Closed, New
<1>3. versions' \subseteq Version
  <2> SUFFICES ASSUME NEW w \in versions' PROVE w \in Version
    BY Zenon
  <2> QED BY <1>2, PublishVersions
<1>4. generations' = generations \cup {g} /\ _head' = g
  BY Zenon DEF publish
<1>5. builds' \in [Builders -> Build \cup {None}] /\ stage_rows' \in [Builders -> [Keys -> Change]]
  BY Zenon DEF publish, IInv, TypeOK, Nothing, Change
<1>6. _head' \in [revision: Revision, generation: Labels \cup {None}]
  BY <1>1, <1>4, Zenon DEF Revision
<1>7. TypeOK'
  BY <1>1, <1>3, <1>4, <1>5, <1>6, Zenon DEF publish, IInv, TypeOK
<1>8. HeadPublished'
  <2>1. \A h \in generations : h \in [generation: Labels, revision: Nat] /\ h.revision <= _head.revision
                                /\ h.generation # g.generation
    BY PublishVersions, Zenon DEF IInv, TypeOK, HeadPublished
  <2>2. \A h \in generations' : h.revision <= g.revision /\ (h.generation = g.generation \/ h.revision = g.revision => h = g)
    BY <1>1, <1>4, <2>1 DEF Revision
  <2>3. g.revision # -1 /\ g \in generations'
    BY <1>1, <1>4
  <2> QED BY <1>4, <2>2, <2>3, ZenonT(30) DEF HeadPublished, IInv
<1>9. VersionsBehind'
  <2> SUFFICES ASSUME NEW w \in versions'
               PROVE  w.from <= target /\ (w.to # None => w.from < w.to /\ w.to <= target)
    BY <1>4, Zenon DEF VersionsBehind
  <2>1. ASSUME NEW v \in versions, IF Retired(b, v) THEN w = Closed(b, v) ELSE w = v
        PROVE  w.from <= target /\ (w.to # None => w.from < w.to /\ w.to <= target)
    BY <1>1, <1>2, <2>1 DEF IInv, VersionsBehind, Closed, Revision
  <2>2. ASSUME NEW k \in Keys, w = New(b, k)
        PROVE  w.from <= target /\ (w.to # None => w.from < w.to /\ w.to <= target)
    BY <1>1, <2>2 DEF New
  <2> QED BY <2>1, <2>2, PublishVersions
<1>10. OneVector'
  <2> DEFINE Apart(v, w) == v.key = w.key /\ v # w => \/ v.to # None /\ v.to <= w.from
                                                      \/ w.to # None /\ w.to <= v.from
             Old(w) == \E v \in versions : IF Retired(b, v) THEN w = Closed(b, v) ELSE w = v
             Opn(w) == \E k \in Keys : /\ w = New(b, k) /\ stage_rows[b][k] \in Values
                                       /\ \A v \in versions : v.key = k /\ v.to = None => Retired(b, v)
  <2>1. ASSUME NEW v, NEW w, Old(v), Old(w) PROVE Apart(v, w)
    <3>1. PICK v0 \in versions : IF Retired(b, v0) THEN v = Closed(b, v0) ELSE v = v0
      BY <2>1, Zenon
    <3>2. PICK w0 \in versions : IF Retired(b, w0) THEN w = Closed(b, w0) ELSE w = w0
      BY <2>1, Zenon
    <3>3. CASE v0 = w0
      BY <3>1, <3>2, <3>3
    <3>4. CASE v0 # w0
      <4>1. Apart(v0, w0)
        BY Zenon DEF IInv, OneVector
      <4>2. v.key = v0.key /\ v.from = v0.from /\ (v0.to # None => v.to = v0.to)
        BY <1>2, <3>1 DEF Closed, Retired
      <4>3. w.key = w0.key /\ w.from = w0.from /\ (w0.to # None => w.to = w0.to)
        BY <1>2, <3>2 DEF Closed, Retired
      <4> QED BY <3>4, <4>1, <4>2, <4>3, Zenon
    <3> QED BY <3>3, <3>4, Zenon
  <2>2. ASSUME NEW v, NEW w, Old(v), Opn(w) PROVE v.key = w.key => v.to # None /\ v.to <= w.from
    <3>1. PICK v0 \in versions : IF Retired(b, v0) THEN v = Closed(b, v0) ELSE v = v0
      BY <2>2, Zenon
    <3>2. PICK k \in Keys : w = New(b, k) /\ \A u \in versions : u.key = k /\ u.to = None => Retired(b, u)
      BY <2>2, Zenon
    <3>3. w.key = k /\ w.from = target
      BY <3>2, Zenon DEF New
    <3>4. CASE Retired(b, v0)
      BY <1>1, <3>1, <3>3, <3>4 DEF Closed
    <3>5. CASE ~Retired(b, v0)
      BY <1>1, <1>2, <3>1, <3>2, <3>3, <3>5 DEF IInv, VersionsBehind, Revision
    <3> QED BY <3>4, <3>5, Zenon
  <2>3. ASSUME NEW v, NEW w, Opn(v), Opn(w) PROVE v.key = w.key => v = w
    BY <2>3 DEF New
  <2>4. \A w \in versions' : Old(w) \/ Opn(w)
    BY PublishVersions, Zenon
  <2>5. \A v, w \in versions' : Apart(v, w)
    BY <2>1, <2>2, <2>3, <2>4
  <2> QED BY <2>5, Zenon DEF OneVector
<1>11. ReadersRetained' /\ BuildsAhead'
  BY <1>4, Zenon DEF publish, IInv, TypeOK, ReadersRetained, BuildsAhead
<1> QED BY <1>7, <1>8, <1>9, <1>10, <1>11, Zenon DEF IInv

-----------------------------------------------------------------------------
\* What one collection may remove.
Removable(R, B, S, G, V) ==
    /\ R \subseteq Readers /\ \A p \in R : ~_reader(p)
    /\ \A b \in B : ~_build(b)
    /\ \A x \in S : ~_build(x[1])
    /\ G \subseteq generations
    /\ \A g \in G : /\ g.generation # _head.generation
                    /\ \A p \in Pinned \ R : readers[p].generation # g.generation
    /\ \A v \in V : v.to # None /\ \A g \in generations \ G : ~Visible(v, g.revision)

LEMMA LimitedSubset == \A S, n : \A T \in Limited(S, n) : T \subseteq S
  BY Zenon DEF Limited

LEMMA CollectRows ==
  ASSUME collect_garbage
  PROVE  \E R, B, S, G, V : Removable(R, B, S, G, V) /\ Delete(R, B, S, G, V)
<1>1. PICK R \in Limited({p \in Pinned : ~_reader(p)}, Limit),
           B \in Limited({b \in Builders : builds[b] # None /\ ~_build(b)}, Limit),
           S \in Limited(Orphans, Limit) :
        \E G \in Limited(Superseded(Pinned \ R), Limit) :
        \E V \in Limited(Unneeded(Pinned \ R, generations \ G), Limit - Cardinality(S)) :
            Delete(R, B, S, G, V)
  BY Zenon DEF collect_garbage
<1>2. PICK G \in Limited(Superseded(Pinned \ R), Limit) :
        \E V \in Limited(Unneeded(Pinned \ R, generations \ G), Limit - Cardinality(S)) :
            Delete(R, B, S, G, V)
  BY <1>1, Zenon
<1>3. PICK V \in Limited(Unneeded(Pinned \ R, generations \ G), Limit - Cardinality(S)) :
            Delete(R, B, S, G, V)
  BY <1>2, Zenon
<1>4. R \subseteq {p \in Pinned : ~_reader(p)} /\ B \subseteq {b \in Builders : builds[b] # None /\ ~_build(b)}
      /\ S \subseteq Orphans
  BY LimitedSubset, Zenon
<1>5. G \subseteq Superseded(Pinned \ R) /\ V \subseteq Unneeded(Pinned \ R, generations \ G)
  BY LimitedSubset, Zenon
<1>6. Removable(R, B, S, G, V)
  BY <1>4, <1>5, Zenon DEF Removable, Pinned, Orphans, Superseded, Unneeded
<1> QED BY <1>3, <1>6, Zenon

LEMMA CollectStep == ASSUME IInv, collect_garbage PROVE IInv'
<1>0. PICK R, B, S, G, V : Removable(R, B, S, G, V) /\ Delete(R, B, S, G, V)
  BY CollectRows, Zenon
<1>1. /\ \A g \in G : /\ g.generation # _head.generation
                      /\ \A p \in Pinned \ R : readers[p].generation # g.generation
      /\ readers' = [p \in Readers |-> IF p \in R THEN None ELSE readers[p]]
      /\ builds' = [b \in Builders |-> IF b \in B THEN None ELSE builds[b]]
      /\ generations' = generations \ G
      /\ stage_rows' = [b \in Builders |-> [k \in Keys |-> IF <<b, k>> \in S THEN Unstaged ELSE stage_rows[b][k]]]
      /\ versions' = versions \ V
      /\ _head' = _head
  BY <1>0, Zenon DEF Removable, Delete
<1>2. TypeOK'
  <2>1. stage_rows' \in [Builders -> [Keys -> Change]]
    BY <1>1, ZenonT(30) DEF IInv, TypeOK, Change
  <2> QED BY <1>1, <2>1, Zenon DEF IInv, TypeOK
<1>3. ReadersRetained'
  BY <1>1, Zenon DEF IInv, ReadersRetained, Pinned
<1>4. HeadPublished' /\ VersionsBehind' /\ OneVector'
  BY <1>1, Zenon DEF IInv, HeadPublished, VersionsBehind, OneVector
<1>5. BuildsAhead'
  BY <1>1, Zenon DEF IInv, BuildsAhead
<1> QED BY <1>2, <1>3, <1>4, <1>5, Zenon DEF IInv

LEMMA InvStep == IInv /\ [Next]_vars => IInv'
<1> SUFFICES ASSUME IInv, [Next]_vars PROVE IInv'
  BY Zenon
<1>1. ASSUME UNCHANGED vars PROVE IInv'
  BY <1>1, Zenon DEF vars, IInv, TypeOK, HeadPublished, VersionsBehind, ReadersRetained, BuildsAhead, OneVector
<1> QED BY <1>1, BeginStep, StageStep, PublishStep, AbortStep, EraseStep, PinStep, RenewStep,
           ReleaseStep, CollectStep, TickStep, Zenon DEF Next

\* The tables keep their types, the head is the newest generation, versions stay
\* behind it and readers' generations are kept, in every reachable state.
THEOREM Invariant == Spec => []IInv
  BY InvInit, InvStep, PTL DEF Spec

\* The columns of the six tables keep their types through every method.
THEOREM TypeCorrect == Spec => []TypeOK
<1>1. IInv => TypeOK
  BY Zenon DEF IInv
<1> QED BY <1>1, Invariant, PTL

\* search never ranks a retired vector beside its replacement: at any revision
\* publish has left a key at most one version.
THEOREM OneVectorHolds == Spec => []OneVector
<1>1. IInv => OneVector
  BY Zenon DEF IInv
<1> QED BY <1>1, Invariant, PTL

-----------------------------------------------------------------------------
\* Refinement.  Contents depends on the published tables only.
LEMMA ContentsStay == ASSUME UNCHANGED Others PROVE Contents' = Contents
  BY Zenon DEF Others, Contents, Retained, search, Visible

DraftAt(b) == [base |-> builds[b].base, target |-> builds[b].target,
             full |-> builds[b].full, delta |-> stage_rows[b]]

LEMMA DraftOf ==
  /\ Drafts = [b \in Builders |-> IF _build(b) THEN DraftAt(b) ELSE None]
  /\ Drafts' = [b \in Builders |-> IF _build(b)' THEN DraftAt(b)' ELSE None]
  BY Zenon DEF Drafts, DraftAt

LEMMA BuildTime == ASSUME IInv PROVE \A b \in Builders : builds[b] # None => builds[b] \in Build /\ builds[b].expires \in 0..Lease
  BY Zenon DEF IInv, TypeOK, Build

\* Builders and readers that keep their rows keep their drafts and pins.
LEMMA LapseStep ==
  ASSUME IInv, UNCHANGED Others, NEW B \in SUBSET Builders, NEW R \in SUBSET Readers,
         \A b \in Builders : IF b \in B THEN ~_build(b)' ELSE (_build(b)' <=> _build(b)) /\ (_build(b) => DraftAt(b)' = DraftAt(b)),
         \A p \in Readers : IF p \in R THEN ~_reader(p)'
                            ELSE (_reader(p)' <=> _reader(p)) /\ (_reader(p) => readers'[p].revision = readers[p].revision)
  PROVE  Store!Next
<1>1. Drafts' = [b \in Builders |-> IF b \in B THEN None ELSE Drafts[b]]
  BY DraftOf, Zenon
<1>2. Pins' = [p \in Readers |-> IF p \in R THEN None ELSE Pins[p]]
  BY Zenon DEF Pins
<1>3. Contents' = Contents /\ _head'.revision = _head.revision
  BY ContentsStay, Zenon DEF Others
<1> QED BY <1>1, <1>2, <1>3, Zenon DEF Store!Next, Store!Lapse

LEMMA BeginSimulated ==
  ASSUME IInv, NEW b \in Builders, NEW r \in 0..MaxRevision, NEW g \in Labels, NEW full \in BOOLEAN,
         begin(b, r, g, full)
  PROVE  Store!Next
<1>1. Contents' = Contents /\ _head' = _head /\ Pins' = Pins
  BY ContentsStay, Zenon DEF begin, Others, Pins, _reader
<1>2. Drafts[b] = None /\ r > _head.revision
  BY Zenon DEF begin, Drafts, _build
<1>3. _build(b)' /\ DraftAt(b)' = [base |-> _head.revision, target |-> r, full |-> full, delta |-> [k \in Keys |-> Unstaged]]
  <2>1. builds'[b] = [base |-> _head.revision, target |-> r, generation |-> g, full |-> full, expires |-> Lease]
    BY Zenon DEF begin, IInv, TypeOK
  <2>2. builds'[b] \in Build
    BY <2>1, SnapshotsAssumption DEF IInv, TypeOK, Build
  <2> QED BY <2>1, <2>2, SnapshotsAssumption DEF begin, _build, DraftAt, Nothing
<1>4. \A c \in Builders : c # b => (_build(c)' <=> _build(c)) /\ DraftAt(c)' = DraftAt(c)
  BY Zenon DEF begin, _build, DraftAt, IInv, TypeOK
<1>5. Drafts' = [Drafts EXCEPT ![b] = [base |-> _head.revision, target |-> r, full |-> full, delta |-> [k \in Keys |-> Unstaged]]]
  BY <1>3, <1>4, DraftOf, Zenon
<1> QED BY <1>1, <1>2, <1>5, Zenon DEF Store!Next, Store!Begin

LEMMA StageSimulated ==
  ASSUME IInv, NEW b \in Builders, NEW batch \in [Keys -> Change], stage(b, batch)
  PROVE  Store!Next
<1> DEFINE delta == [k \in Keys |-> IF batch[k] = Unstaged THEN stage_rows[b][k] ELSE batch[k]]
<1>1. Contents' = Contents /\ _head' = _head /\ Pins' = Pins
  BY ContentsStay, Zenon DEF stage, Others, Pins, _reader
<1>2. Drafts[b] = DraftAt(b) /\ Drafts[b] # None
  <2>1. builds[b] \in Build /\ Drafts[b] = DraftAt(b)
    BY DraftOf, Zenon DEF stage, _build, IInv, TypeOK
  <2>2. DraftAt(b) \in Draft
    BY <2>1, Zenon DEF Build, Draft, DraftAt, IInv, TypeOK
  <2> QED BY <2>1, <2>2, SnapshotsAssumption, Zenon
<1>3. _build(b)' /\ DraftAt(b)' = [DraftAt(b) EXCEPT !.delta = delta]
  <2>1. builds[b] \in Build /\ builds'[b] = [builds[b] EXCEPT !.expires = Lease]
    BY Zenon DEF stage, _build, IInv, TypeOK
  <2>2. builds'[b] \in Build /\ builds'[b].expires = Lease /\ builds'[b].base = builds[b].base
        /\ builds'[b].target = builds[b].target /\ builds'[b].full = builds[b].full
    BY <2>1, SnapshotsAssumption DEF Build
  <2>3. stage_rows'[b] = delta
    BY Zenon DEF stage, IInv, TypeOK
  <2> QED BY <2>2, <2>3, SnapshotsAssumption DEF _build, DraftAt
<1>4. \A c \in Builders : c # b => (_build(c)' <=> _build(c)) /\ DraftAt(c)' = DraftAt(c)
  BY Zenon DEF stage, _build, DraftAt, IInv, TypeOK
<1>5. Drafts' = [Drafts EXCEPT ![b] = [Drafts[b] EXCEPT !.delta = delta]]
  BY <1>2, <1>3, <1>4, DraftOf, Zenon
<1>6. delta = [k \in Keys |-> IF batch[k] = Unstaged THEN Drafts[b].delta[k] ELSE batch[k]]
  BY <1>2 DEF DraftAt
<1>7. batch \in [Keys -> Values \cup {Deleted, Unstaged}]
  BY Zenon DEF Change
<1>8. Drafts' = [Drafts EXCEPT ![b] = [Drafts[b] EXCEPT !.delta =
                    [k \in Keys |-> IF batch[k] = Unstaged THEN Drafts[b].delta[k] ELSE batch[k]]]]
  BY <1>5, <1>6, Zenon
<1>9. Store!Stage(b, batch)
  BY <1>1, <1>2, <1>7, <1>8, Zenon DEF Store!Stage
<1> QED BY <1>7, <1>9, Zenon DEF Store!Next

LEMMA AbortSimulated == ASSUME IInv, NEW b \in Builders, abort(b) PROVE Store!Next
<1>1. ~_build(b)'
  BY Zenon DEF abort, _build, IInv, TypeOK
<1>2. \A c \in Builders \ {b} : (_build(c)' <=> _build(c)) /\ DraftAt(c)' = DraftAt(c)
  BY Zenon DEF abort, _build, DraftAt, IInv, TypeOK
<1>3. \A p \in Readers : (_reader(p)' <=> _reader(p)) /\ readers'[p] = readers[p]
  BY Zenon DEF abort, _reader
<1>4. UNCHANGED Others
  BY Zenon DEF abort, Others
<1>5. {b} \in SUBSET Builders /\ {} \in SUBSET Readers
  BY Zenon
<1>6. \A c \in Builders : IF c \in {b} THEN ~_build(c)'
                          ELSE (_build(c)' <=> _build(c)) /\ (_build(c) => DraftAt(c)' = DraftAt(c))
  BY <1>1, <1>2, Zenon
<1> QED BY <1>3, <1>4, <1>5, <1>6, LapseStep, Zenon

LEMMA ReleaseSimulated == ASSUME IInv, NEW p \in Readers, release(p) PROVE Store!Next
<1>1. ~_reader(p)'
  BY Zenon DEF release, _reader, IInv, TypeOK
<1>2. \A q \in Readers \ {p} : (_reader(q)' <=> _reader(q)) /\ readers'[q] = readers[q]
  BY Zenon DEF release, _reader, IInv, TypeOK
<1>3. \A c \in Builders : (_build(c)' <=> _build(c)) /\ DraftAt(c)' = DraftAt(c)
  BY Zenon DEF release, _build, DraftAt
<1>4. UNCHANGED Others
  BY Zenon DEF release, Others
<1>5. {} \in SUBSET Builders /\ {p} \in SUBSET Readers
  BY Zenon
<1> QED BY <1>1, <1>2, <1>3, <1>4, <1>5, LapseStep, Zenon

LEMMA RenewSimulated == ASSUME IInv, NEW p \in Readers, renew(p) PROVE Store!Next
<1>1. readers[p] \in Reader /\ readers'[p] = [readers[p] EXCEPT !.expires = Lease]
  BY Zenon DEF renew, _reader, IInv, TypeOK
<1>2. readers'[p] \in Reader /\ readers'[p].expires = Lease /\ readers'[p].revision = readers[p].revision
  BY <1>1, SnapshotsAssumption DEF Reader
<1>3. _reader(p) /\ _reader(p)'
  BY <1>2, SnapshotsAssumption DEF renew, _reader
<1>4. \A q \in Readers \ {p} : (_reader(q)' <=> _reader(q)) /\ readers'[q] = readers[q]
  BY Zenon DEF renew, _reader, IInv, TypeOK
<1>5. \A c \in Builders : (_build(c)' <=> _build(c)) /\ DraftAt(c)' = DraftAt(c)
  BY Zenon DEF renew, _build, DraftAt
<1>6. UNCHANGED Others
  BY Zenon DEF renew, Others
<1>7. {} \in SUBSET Builders /\ {} \in SUBSET Readers
  BY Zenon
<1>8. \A q \in Readers : (_reader(q)' <=> _reader(q)) /\ readers'[q].revision = readers[q].revision
  BY <1>2, <1>3, <1>4, Zenon
<1> QED BY <1>5, <1>6, <1>7, <1>8, LapseStep, Zenon

\* Time ends the leases that had one tick left.
LEMMA TickSimulated == ASSUME IInv, Tick PROVE Store!Next
<1> DEFINE B == {b \in Builders : ~_build(b)'}
           R == {p \in Readers : ~_reader(p)'}
<1>1. \A b \in Builders : /\ builds[b] \in Build \cup {None}
                          /\ builds'[b] = Later(builds[b])
                          /\ stage_rows'[b] = stage_rows[b]
  BY Zenon DEF Tick, IInv, TypeOK
<1>2. \A p \in Readers : readers[p] \in Reader \cup {None} /\ readers'[p] = Later(readers[p])
  BY Zenon DEF Tick, IInv, TypeOK
<1>3. ASSUME NEW b \in Builders, _build(b)' PROVE _build(b) /\ DraftAt(b)' = DraftAt(b)
  <2>1. builds[b] # None /\ builds[b] \in Build /\ builds'[b] \in Build
    BY <1>1, <1>3, LaterRow, ZenonT(30) DEF _build
  <2>2. /\ builds'[b].base = builds[b].base /\ builds'[b].target = builds[b].target
        /\ builds'[b].full = builds[b].full /\ builds'[b].expires <= builds[b].expires
    BY <1>1, <2>1, LaterRow, ZenonT(30)
  <2>3. builds[b].expires \in Nat /\ builds'[b].expires \in Nat
    BY <2>1, SnapshotsAssumption DEF Build
  <2> QED BY <1>1, <1>3, <2>1, <2>2, <2>3 DEF _build, DraftAt
<1>4. ASSUME NEW p \in Readers, _reader(p)' PROVE _reader(p) /\ readers'[p].revision = readers[p].revision
  <2>1. readers[p] # None /\ readers[p] \in Reader /\ readers'[p] \in Reader
    BY <1>2, <1>4, LaterRow, ZenonT(30) DEF _reader
  <2>2. readers'[p].revision = readers[p].revision /\ readers'[p].expires <= readers[p].expires
    BY <1>2, <2>1, LaterRow, Zenon
  <2>3. readers[p].expires \in Nat /\ readers'[p].expires \in Nat
    BY <2>1, SnapshotsAssumption DEF Reader
  <2> QED BY <1>4, <2>1, <2>2, <2>3 DEF _reader
<1>5. UNCHANGED Others
  BY Zenon DEF Tick, Others
<1>6. B \in SUBSET Builders /\ R \in SUBSET Readers
  BY Zenon
<1> QED BY <1>3, <1>4, <1>5, <1>6, LapseStep, Zenon

LEMMA PinSimulated == ASSUME IInv, NEW p \in Readers, NEW g \in generations, pin(p, g) PROVE Store!Next
<1>1. Contents' = Contents /\ _head' = _head /\ Drafts' = Drafts
  BY ContentsStay, Zenon DEF pin, Others, Drafts, _build
<1>2. g.revision \in DOMAIN Contents
  BY Zenon DEF Contents, Retained
<1>3. Pins[p] = None
  BY Zenon DEF pin, Pins, _reader
<1>4. readers'[p] = [revision |-> g.revision, generation |-> g.generation, expires |-> Lease]
  BY Zenon DEF pin, IInv, TypeOK
<1>5. readers'[p] \in Reader
  BY <1>4, SnapshotsAssumption DEF IInv, TypeOK, Reader
<1>6. _reader(p)' /\ readers'[p].revision = g.revision
  BY <1>4, <1>5, SnapshotsAssumption DEF _reader
<1>7. \A q \in Readers \ {p} : (_reader(q)' <=> _reader(q)) /\ readers'[q] = readers[q]
  BY Zenon DEF pin, _reader, IInv, TypeOK
<1>8. Pins' = [Pins EXCEPT ![p] = g.revision]
  BY <1>6, <1>7, ZenonT(30) DEF Pins
<1> QED BY <1>1, <1>2, <1>3, <1>8, Zenon DEF Store!Next, Store!Pin

\* erase removes the keys at every revision at once.
LEMMA EraseSimulated == ASSUME IInv, NEW K \in SUBSET Keys, erase(K) PROVE Store!Next
<1>1. Retained' = Retained /\ _head' = _head /\ Pins' = Pins
  BY Zenon DEF erase, Retained, Pins, _reader
<1>2. \A r : search(r)' = {e \in search(r) : e[1] \notin K}
  BY DEF erase, search, Visible
<1>3. Contents' = [r \in DOMAIN Contents |-> {e \in Contents[r] : e[1] \notin K}]
  BY <1>1, <1>2, Zenon DEF Contents
<1>4. Drafts' = [b \in Builders |-> None]
  BY Zenon DEF erase, Drafts, _build
<1> QED BY <1>1, <1>3, <1>4, Zenon DEF Store!Next, Store!Erase

\* A collection keeps what is seen at the revisions it keeps.
LEMMA CollectSimulated == ASSUME IInv, collect_garbage PROVE Store!Next
<1>1. PICK R, B, S, G, V : Removable(R, B, S, G, V) /\ Delete(R, B, S, G, V)
  BY CollectRows, Zenon
<1> DEFINE T == {g.revision : g \in G}
<1>2. /\ _head' = _head /\ generations' = generations \ G /\ versions' = versions \ V
      /\ G \subseteq generations
      /\ readers' = [p \in Readers |-> IF p \in R THEN None ELSE readers[p]]
      /\ builds' = [b \in Builders |-> IF b \in B THEN None ELSE builds[b]]
      /\ stage_rows' = [b \in Builders |-> [k \in Keys |-> IF <<b, k>> \in S THEN Unstaged ELSE stage_rows[b][k]]]
  BY <1>1, Zenon DEF Removable, Delete
<1>3. \A p \in Readers : (_reader(p)' <=> _reader(p)) /\ (_reader(p) => readers'[p] = readers[p])
  BY <1>1, <1>2, Zenon DEF Removable, _reader
<1>4. Pins' = Pins
  BY <1>3, Zenon DEF Pins
<1>5. \A b \in Builders : (_build(b)' <=> _build(b)) /\ (_build(b) => DraftAt(b)' = DraftAt(b))
  <2> SUFFICES ASSUME NEW b \in Builders PROVE (_build(b)' <=> _build(b)) /\ (_build(b) => DraftAt(b)' = DraftAt(b))
    BY Zenon
  <2>1. (_build(b)' <=> _build(b)) /\ (_build(b) => builds'[b] = builds[b])
    BY <1>1, <1>2, Zenon DEF Removable, _build
  <2>2. _build(b) => stage_rows'[b] = stage_rows[b]
    <3>1. _build(b) => \A k \in Keys : <<b, k>> \notin S
      BY <1>1, Zenon DEF Removable
    <3>2. stage_rows'[b] = [k \in Keys |-> IF <<b, k>> \in S THEN Unstaged ELSE stage_rows[b][k]]
      BY <1>2, Zenon
    <3>3. stage_rows[b] \in [Keys -> Change]
      BY Zenon DEF IInv, TypeOK
    <3> QED BY <3>1, <3>2, <3>3, Zenon
  <2> QED BY <2>1, <2>2, Zenon DEF DraftAt
<1>6. Drafts' = Drafts
  BY <1>5, DraftOf, Zenon
<1>7. _head.revision \notin T
  <2>1. SUFFICES ASSUME NEW g \in G, g.revision = _head.revision PROVE FALSE
    BY Zenon
  <2>2. g \in generations /\ g.revision \in Nat /\ g.generation # _head.generation
    BY <1>1, Zenon DEF Removable, IInv, TypeOK
  <2>3. [generation |-> _head.generation, revision |-> _head.revision] \in generations
    BY <2>1, <2>2, Zenon DEF IInv, HeadPublished
  <2> QED BY <2>1, <2>2, <2>3 DEF IInv, HeadPublished
<1>8. Retained' = Retained \ T
  <2>1. \A g \in generations, h \in G : g.revision = h.revision => g = h
    BY <1>2, Zenon DEF IInv, HeadPublished
  <2> QED BY <1>2, <1>7, <2>1, Zenon DEF Retained
<1>9. T \in SUBSET (Retained \ {_head.revision})
  BY <1>2, <1>7, Zenon DEF Retained
<1>10. \A p \in Readers : Pins[p] \notin T
  <2> SUFFICES ASSUME NEW p \in Readers, NEW g \in G, Pins[p] = g.revision PROVE FALSE
    BY Zenon
  <2>1. g \in generations /\ g.revision \in Nat
    BY <1>2, Zenon DEF IInv, TypeOK
  <2>2. _reader(p) /\ readers[p].revision = g.revision
    BY <2>1, SnapshotsAssumption, Zenon DEF Pins
  <2>3. p \in Pinned \ R
    BY <1>1, <2>2, Zenon DEF Removable, Pinned, _reader
  <2>4. [generation |-> readers[p].generation, revision |-> readers[p].revision] \in generations
    BY <2>2, Zenon DEF IInv, ReadersRetained, _reader
  <2>5. readers[p].generation = g.generation
    BY <2>1, <2>2, <2>4 DEF IInv, HeadPublished
  <2> QED BY <1>1, <2>3, <2>5, Zenon DEF Removable
<1>11. \A r \in Retained \ T : search(r)' = search(r)
  <2> SUFFICES ASSUME NEW r \in Retained \ T PROVE \A v \in V : v \in versions => ~Visible(v, r)
    BY <1>2, Zenon DEF search, Visible
  <2>1. CASE r \in {g.revision : g \in generations}
    BY <1>1, <2>1, Zenon DEF Removable
  <2>2. CASE r = _head.revision
    <3>1. CASE _head.revision = -1
      BY <2>2, <3>1 DEF Visible, IInv, TypeOK, Version
    <3>2. CASE _head.revision # -1
      <4>1. r \in {g.revision : g \in generations}
        BY <2>2, <3>2, Zenon DEF IInv, HeadPublished
      <4> QED BY <4>1, <2>1, Zenon
    <3> QED BY <3>1, <3>2, Zenon
  <2> QED BY <2>1, <2>2, Zenon DEF Retained
<1>12. Contents' = [r \in DOMAIN Contents \ T |-> Contents[r]]
  BY <1>8, <1>11, Zenon DEF Contents
<1> QED BY <1>2, <1>4, <1>6, <1>9, <1>10, <1>12, Zenon DEF Store!Next, Store!Reclaim, Contents

\* Where the versions come from: an old one, closed if it is retired, or a staged vector.
LEMMA VersionOrigin ==
  ASSUME IInv, NEW b \in Builders, publish(b), NEW w \in versions'
  PROVE  \/ \E v \in versions : IF Retired(b, v) THEN w = Closed(b, v) ELSE w = v
         \/ \E k \in Keys : w = New(b, k) /\ stage_rows[b][k] \in Values
<1>1. \/ \E v \in versions : IF Retired(b, v) THEN w = Closed(b, v) ELSE w = v
      \/ \E k \in Keys : /\ w = New(b, k) /\ stage_rows[b][k] \in Values
                         /\ \A v \in versions : v.key = k /\ v.to = None => Retired(b, v)
  BY PublishVersions, Zenon
<1> QED BY <1>1, Zenon

\* Publication leaves what is seen at older revisions, and at the new one shows
\* the base with the staged changes.
LEMMA PublishSearch ==
  ASSUME IInv, NEW b \in Builders, publish(b), NEW target, target = builds[b].target
  PROVE  /\ \A r \in Retained \ {-1} : search(r)' = search(r)
         /\ search(target)' = Store!Overlay(search(_head.revision), builds[b].full, stage_rows[b])
<1> USE SnapshotsAssumption
<1>1. target \in Nat /\ _head.revision \in Revision /\ _head.revision < target
  BY PublishVersions, Zenon
<1>2. \A v \in versions : /\ v \in Version /\ v.to \in Nat \cup {None} /\ v.from \in Nat /\ v.key \in Keys
                          /\ v.from <= _head.revision /\ (v.to # None => v.from < v.to /\ v.to <= _head.revision)
  BY Zenon DEF IInv, TypeOK, Version, VersionsBehind
<1>3. \A v \in versions : Retired(b, v) => v.to = None
  BY Zenon DEF Retired
<1>4. ASSUME NEW r \in Retained \ {-1} PROVE search(r)' = search(r)
  <2>1. r \in Nat /\ r < target
    BY <1>1 DEF Retained, IInv, TypeOK, HeadPublished, Revision
  <2>2. ASSUME NEW e \in search(r)' PROVE e \in search(r)
    <3>1. PICK w \in versions' : Visible(w, r) /\ e = <<w.key, w.checksum>>
      BY <2>2, Zenon DEF search, Visible
    <3>2. ASSUME NEW v \in versions, IF Retired(b, v) THEN w = Closed(b, v) ELSE w = v PROVE e \in search(r)
      <4>1. Visible(v, r) /\ e = <<v.key, v.checksum>>
        BY <1>3, <3>1, <3>2 DEF Visible, Closed
      <4> QED BY <4>1, Zenon DEF search
    <3>3. ASSUME NEW k \in Keys, w = New(b, k) PROVE FALSE
      BY <1>1, <2>1, <3>1, <3>3 DEF Visible, New
    <3>4. \/ \E v \in versions : IF Retired(b, v) THEN w = Closed(b, v) ELSE w = v
          \/ \E k \in Keys : w = New(b, k) /\ stage_rows[b][k] \in Values
      BY VersionOrigin, Zenon
    <3> QED BY <3>2, <3>3, <3>4, Zenon
  <2>3. ASSUME NEW e \in search(r) PROVE e \in search(r)'
    <3>1. PICK v \in versions : Visible(v, r) /\ e = <<v.key, v.checksum>>
      BY <2>3, Zenon DEF search
    <3>2. CASE Retired(b, v)
      <4>1. Closed(b, v) \in versions' /\ Visible(Closed(b, v), r) /\ e = <<Closed(b, v).key, Closed(b, v).checksum>>
        BY <2>1, <3>1, <3>2, PublishVersions, Zenon DEF Visible, Closed
      <4> QED BY <4>1, Zenon DEF search, Visible
    <3>3. CASE ~Retired(b, v)
      <4>1. v \in versions'
        BY <3>3, PublishVersions, Zenon
      <4> QED BY <3>1, <4>1, Zenon DEF search, Visible
    <3> QED BY <3>2, <3>3, Zenon
  <2> QED BY <2>2, <2>3, Zenon
<1> DEFINE full == builds[b].full
           delta == stage_rows[b]
           over == Store!Overlay(search(_head.revision), full, delta)
<1>5. \A v \in versions : Visible(v, _head.revision) <=> v.to = None
  BY <1>1, <1>2 DEF Visible, Revision
<1>6. full \in BOOLEAN /\ delta \in [Keys -> Change]
  BY PublishVersions, Zenon DEF Build, IInv, TypeOK
<1>7. ASSUME NEW e \in search(target)' PROVE e \in over
  <2>1. PICK w \in versions' : Visible(w, target) /\ e = <<w.key, w.checksum>>
    BY <1>7, Zenon DEF search, Visible
  <2>2. ASSUME NEW v \in versions, IF Retired(b, v) THEN w = Closed(b, v) ELSE w = v PROVE e \in over
    <3>1. ~Retired(b, v) /\ w = v
      BY <1>1, <2>1, <2>2 DEF Visible, Closed
    <3>2. v.to = None /\ e = <<v.key, v.checksum>>
      BY <1>1, <1>2, <2>1, <3>1 DEF Visible, Revision
    <3>3. e \in search(_head.revision)
      BY <1>5, <3>2, Zenon DEF search
    <3>4. CASE delta[v.key] \in Values
      <4>1. delta[v.key] = v.checksum
        BY <3>1, <3>2, <3>4, Zenon DEF Retired
      <4> QED BY <1>2, <3>2, <3>4, <4>1, Zenon DEF Store!Overlay
    <3>5. CASE delta[v.key] \notin Values
      <4>1. ~full /\ delta[v.key] = Unstaged
        BY <1>2, <1>6, <3>1, <3>2, <3>5, Zenon DEF Retired, Change
      <4> QED BY <3>2, <3>3, <4>1, Zenon DEF Store!Overlay
    <3> QED BY <3>4, <3>5, Zenon
  <2>3. ASSUME NEW k \in Keys, w = New(b, k), delta[k] \in Values PROVE e \in over
    BY <2>1, <2>3, Zenon DEF New, Store!Overlay
  <2>4. \/ \E v \in versions : IF Retired(b, v) THEN w = Closed(b, v) ELSE w = v
        \/ \E k \in Keys : w = New(b, k) /\ stage_rows[b][k] \in Values
    BY VersionOrigin, Zenon
  <2> HIDE DEF over
  <2> QED BY <2>2, <2>3, <2>4, ZenonT(30)
<1>8. ASSUME NEW e \in over PROVE e \in search(target)'
  <2>1. CASE e \in search(_head.revision) /\ ~full /\ delta[e[1]] = Unstaged
    <3>1. PICK v \in versions : v.to = None /\ e = <<v.key, v.checksum>>
      BY <1>5, <2>1, Zenon DEF search
    <3>2. ~Retired(b, v)
      BY <2>1, <3>1, Zenon DEF Retired
    <3>3. v \in versions'
      BY <3>2, PublishVersions, ZenonT(30)
    <3>4. Visible(v, target)
      BY <1>1, <1>2, <3>1, SMTT(30) DEF Visible, Revision
    <3> QED BY <3>1, <3>3, <3>4, Zenon DEF search, Visible
  <2>2. ASSUME NEW k \in Keys, delta[k] \in Values, e = <<k, delta[k]>> PROVE e \in search(target)'
    <3>1. CASE \A v \in versions : v.key = k /\ v.to = None => Retired(b, v)
      <4>1. New(b, k) \in versions'
        BY <2>2, <3>1, PublishVersions, ZenonT(30)
      <4>2. Visible(New(b, k), target) /\ e = <<New(b, k).key, New(b, k).checksum>>
        BY <1>1, <2>2, SMTT(30) DEF New, Visible
      <4> QED BY <4>1, <4>2, Zenon DEF search, Visible
    <3>2. ASSUME NEW v \in versions, v.key = k, v.to = None, ~Retired(b, v) PROVE e \in search(target)'
      <4>1. v.checksum = delta[k]
        BY <2>2, <3>2, Zenon DEF Retired
      <4>2. v \in versions'
        BY <3>2, PublishVersions, ZenonT(30)
      <4>3. Visible(v, target)
        BY <1>1, <1>2, <3>2, SMTT(30) DEF Visible, Revision
      <4> QED BY <2>2, <3>2, <4>1, <4>2, <4>3, Zenon DEF search, Visible
    <3> QED BY <3>1, <3>2, Zenon
  <2> QED BY <1>8, <2>1, <2>2, Zenon DEF Store!Overlay
<1> QED BY <1>4, <1>7, <1>8, Zenon

LEMMA PublishSimulated == ASSUME IInv, NEW b \in Builders, publish(b) PROVE Store!Next
<1>0. PICK target : target = builds[b].target
  BY Zenon
<1>1. target \in Nat /\ _head.revision \in Revision /\ _head.revision < target /\ builds[b] \in Build
      /\ builds[b].base = _head.revision /\ _head'.revision = target /\ _build(b)
  BY <1>0, PublishVersions, ZenonT(30) DEF publish, PublishAllowed
<1>2. Retained' = (Retained \ {-1}) \cup {target}
  <2>1. generations' = generations \cup {_head'}
    BY Zenon DEF publish
  <2>2. \A g \in generations : g.revision # -1
    BY DEF IInv, TypeOK
  <2>3. _head.revision # -1 => _head.revision \in {g.revision : g \in generations}
    BY Zenon DEF IInv, HeadPublished
  <2> QED BY <1>1, <2>1, <2>2, <2>3, Zenon DEF Retained
<1>3. target \notin Retained
  BY <1>1 DEF Retained, IInv, TypeOK, HeadPublished, Revision
<1>4. DOMAIN Contents = Retained /\ _head.revision \in Retained
  BY Zenon DEF Contents, Retained
<1>5. DraftAt(b) \in Draft /\ Drafts[b] = DraftAt(b) /\ Drafts[b] # None
  <2>1. DraftAt(b) \in Draft
    BY <1>1, Zenon DEF Build, Draft, DraftAt, IInv, TypeOK
  <2> QED BY <1>1, <2>1, DraftOf, SnapshotsAssumption, Zenon
<1>6. /\ Drafts[b].base = _head.revision /\ Drafts[b].target = target
      /\ Drafts[b].full = builds[b].full /\ Drafts[b].delta = stage_rows[b]
  BY <1>0, <1>1, <1>5 DEF DraftAt
<1>7. Contents' = [r \in (DOMAIN Contents \ {-1}) \cup {target} |->
            IF r = target THEN Store!Overlay(Contents[_head.revision], Drafts[b].full, Drafts[b].delta)
                          ELSE Contents[r]]
  <2>1. Contents' = [r \in (Retained \ {-1}) \cup {target} |-> search(r)']
    BY <1>2, Zenon DEF Contents
  <2>2. search(target)' = Store!Overlay(Contents[_head.revision], Drafts[b].full, Drafts[b].delta)
    BY <1>0, <1>4, <1>6, PublishSearch, Zenon DEF Contents
  <2>3. \A r \in Retained \ {-1} : search(r)' = Contents[r]
    BY <1>0, PublishSearch, Zenon DEF Contents
  <2> QED BY <1>3, <1>4, <2>1, <2>2, <2>3, Zenon
<1>8. Pins' = Pins
  BY Zenon DEF publish, Pins, _reader
<1>9. Drafts' = [Drafts EXCEPT ![b] = None]
  <2>1. ~_build(b)'
    BY Zenon DEF publish, _build, IInv, TypeOK
  <2>2. \A c \in Builders \ {b} : (_build(c)' <=> _build(c)) /\ DraftAt(c)' = DraftAt(c)
    BY Zenon DEF publish, _build, DraftAt, IInv, TypeOK
  <2> QED BY <2>1, <2>2, DraftOf, Zenon
<1>10. Store!Publish(b)
  BY <1>1, <1>5, <1>6, <1>7, <1>8, <1>9, Zenon DEF Store!Publish
<1> QED BY <1>10, Zenon DEF Store!Next

LEMMA Simulates == IInv /\ [Next]_vars => [Store!Next]_<<Contents, _head.revision, Drafts, Pins>>
<1> SUFFICES ASSUME IInv, [Next]_vars PROVE [Store!Next]_<<Contents, _head.revision, Drafts, Pins>>
  BY Zenon
<1>1. ASSUME UNCHANGED vars PROVE UNCHANGED <<Contents, _head.revision, Drafts, Pins>>
  BY <1>1, Zenon DEF vars, Contents, Retained, search, Visible, Drafts, _build, Pins, _reader
<1>2. ASSUME Next PROVE Store!Next
  BY <1>2, BeginSimulated, StageSimulated, PublishSimulated, AbortSimulated, EraseSimulated, PinSimulated,
     RenewSimulated, ReleaseSimulated, CollectSimulated, TickSimulated, Zenon DEF Next
<1> QED BY <1>1, <1>2, Zenon

\* The tables implement the promised store: publication is atomic and on its base,
\* what a live reader has pinned stays but for erased keys, and a build whose
\* lease ended, or that erase revoked, never becomes visible.
THEOREM Refinement == Spec => Implements
<1>1. Init => Store!Init
  <2> SUFFICES ASSUME Init PROVE Store!Init
    BY Zenon
  <2>1. Retained = {-1} /\ search(-1) = {}
    BY Zenon DEF Init, Retained, search
  <2>2. Contents = [r \in {-1} |-> {}]
    BY <2>1, Zenon DEF Contents
  <2>3. Drafts = [b \in Builders |-> None] /\ Pins = [p \in Readers |-> None]
    BY Zenon DEF Init, Drafts, Pins, _build, _reader
  <2> QED BY <2>2, <2>3, Zenon DEF Init, Store!Init
<1>2. IInv /\ [Next]_vars => [Store!Next]_<<Contents, _head.revision, Drafts, Pins>>
  BY Simulates, Zenon
<1> QED BY <1>1, <1>2, Invariant, PTL DEF Spec, Implements, Store!Spec, Store!vars
==============================================================================
