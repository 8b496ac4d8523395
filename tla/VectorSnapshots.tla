--------------------------- MODULE VectorSnapshots ---------------------------
(***************************************************************************)
(* Persistent vector snapshots (sqlite_vector_snapshots.py, SQLiteSnapshots*)
(* of one scope).  A builder takes a lease on the current head, stages     *)
(* changes under its token and publishes them by compare-and-swap; a       *)
(* reader pins a published generation for a while.  The vectors are kept   *)
(* as versions with a half-open interval of revisions, closed ones are     *)
(* collected.  Every method is one write transaction and one action.       *)
(*                                                                         *)
(* A token (secrets.token_hex) is used once and names its row, so a call   *)
(* with a lease whose row is gone changes nothing; the fence, unique like  *)
(* the token, is left out.  A model token may come back when nothing of it *)
(* is left.  A checksum stands for a vector, search for the versions it    *)
(* ranks.  expires is the time left.                                       *)
(***************************************************************************)
EXTENDS Integers, FiniteSets

CONSTANTS
    Keys, Values,        \* vector keys and checksums
    Labels,              \* names of generations
    Builders, Readers,   \* tokens of builds and of pins
    None, Deleted, Unstaged,
    Lease,               \* lease_seconds, in ticks
    Limit,               \* limit of one collect_garbage
    MaxRevision          \* bound on revisions

Change == Values \cup {Deleted, Unstaged}
Revision == {-1} \cup Nat
Build == [base: Revision, target: Nat, generation: Labels, full: BOOLEAN, expires: 0..Lease]
Reader == [revision: Nat, generation: Labels, expires: 0..Lease]
Draft == [base: Revision, target: Nat, full: BOOLEAN, delta: [Keys -> Change]]
Version == [key: Keys, from: Nat, to: Nat \cup {None}, checksum: Values]

ASSUME SnapshotsAssumption ==
    /\ Lease \in Nat \ {0} /\ Limit \in Nat \ {0} /\ MaxRevision \in Nat
    /\ None \notin Labels \cup Nat \cup Build \cup Reader \cup Draft
    /\ Deleted \notin Values /\ Unstaged \notin Values /\ Deleted # Unstaged

VARIABLES
    _head,         \* unimem_snapshot_heads: revision and generation
    builds,        \* unimem_snapshot_builds: the row of each token
    stage_rows,    \* unimem_snapshot_stage: token -> key -> change
    generations,   \* unimem_snapshot_generations
    readers,       \* unimem_snapshot_readers: the row of each token
    versions       \* unimem_snapshot_versions

vars == <<_head, builds, stage_rows, generations, readers, versions>>

Nothing == [k \in Keys |-> Unstaged]

Init ==
    /\ _head = [revision |-> -1, generation |-> None]
    /\ builds = [b \in Builders |-> None]
    /\ stage_rows = [b \in Builders |-> Nothing]
    /\ generations = {}
    /\ readers = [p \in Readers |-> None]
    /\ versions = {}

-----------------------------------------------------------------------------
\* A builder that may still stage and publish, a reader that may still search.
_build(b) == builds[b] # None /\ builds[b].expires > 0
_reader(p) == readers[p] # None /\ readers[p].expires > 0

\* A fresh token has neither a row nor staged vectors.
begin(b, revision, generation, full) ==
    /\ builds[b] = None /\ stage_rows[b] = Nothing
    /\ _head.revision < revision
    /\ builds' = [builds EXCEPT ![b] = [base |-> _head.revision, target |-> revision,
                                        generation |-> generation, full |-> full, expires |-> Lease]]
    /\ UNCHANGED <<_head, stage_rows, generations, readers, versions>>

stage(b, batch) ==
    /\ _build(b)
    /\ stage_rows' = [stage_rows EXCEPT ![b] =
                        [k \in Keys |-> IF batch[k] = Unstaged THEN stage_rows[b][k] ELSE batch[k]]]
    /\ builds' = [builds EXCEPT ![b].expires = Lease]
    /\ UNCHANGED <<_head, generations, readers, versions>>

\* publish retires changed and deleted versions, and absent ones if full.
Retired(b, v) ==
    /\ v.to = None
    /\ LET s == stage_rows[b][v.key] IN
       \/ s = Deleted
       \/ s \in Values /\ s # v.checksum
       \/ builds[b].full /\ s \notin Values

Retire(b) == {IF Retired(b, v) THEN [v EXCEPT !.to = builds[b].target] ELSE v : v \in versions}

\* Mutants: rows staged as deleted are inserted too; an unchanged vector is
\* inserted again.
OpenedDeleted(b, kept) ==
    {[key |-> k, from |-> builds[b].target, to |-> None, checksum |-> stage_rows[b][k]] :
        k \in {i \in Keys : /\ stage_rows[b][i] # Unstaged
                            /\ \A v \in kept : ~(v.key = i /\ v.to = None)}}
OpenedAgain(b, kept) ==
    {[key |-> k, from |-> builds[b].target, to |-> None, checksum |-> stage_rows[b][k]] :
        k \in {i \in Keys : stage_rows[b][i] \in Values}}

\* Staged vectors whose key has no open version get one.
Opened(b, kept) ==
    {[key |-> k, from |-> builds[b].target, to |-> None, checksum |-> stage_rows[b][k]] :
        k \in {i \in Keys : /\ stage_rows[b][i] \in Values
                            /\ \A v \in kept : ~(v.key = i /\ v.to = None)}}

PublishAllowed(b) ==
    /\ _build(b)
    /\ _head.revision = builds[b].base
    /\ \A g \in generations : g.generation # builds[b].generation

publish(b) ==
    LET g == [generation |-> builds[b].generation, revision |-> builds[b].target] IN
    /\ PublishAllowed(b)
    /\ versions' = Retire(b) \cup Opened(b, Retire(b))
    /\ generations' = generations \cup {g}
    /\ _head' = g
    /\ builds' = [builds EXCEPT ![b] = None]
    /\ stage_rows' = [stage_rows EXCEPT ![b] = Nothing]
    /\ UNCHANGED readers

\* abort asks for the lease's row, expired or not.
abort(b) ==
    /\ builds[b] # None
    /\ builds' = [builds EXCEPT ![b] = None]
    /\ stage_rows' = [stage_rows EXCEPT ![b] = Nothing]
    /\ UNCHANGED <<_head, generations, readers, versions>>

\* Mutant: builds that have read the erased vectors may still publish them.
eraseVersionsOnly(K) ==
    /\ versions' = {v \in versions : v.key \notin K}
    /\ UNCHANGED <<_head, builds, stage_rows, generations, readers>>

erase(K) ==
    /\ versions' = {v \in versions : v.key \notin K}
    /\ builds' = [b \in Builders |-> None]
    /\ stage_rows' = [b \in Builders |-> Nothing]
    /\ UNCHANGED <<_head, generations, readers>>

pin(p, g) ==
    /\ readers[p] = None
    /\ readers' = [readers EXCEPT ![p] = [revision |-> g.revision, generation |-> g.generation,
                                          expires |-> Lease]]
    /\ UNCHANGED <<_head, builds, stage_rows, generations, versions>>

renew(p) ==
    /\ _reader(p)
    /\ readers' = [readers EXCEPT ![p].expires = Lease]
    /\ UNCHANGED <<_head, builds, stage_rows, generations, versions>>

release(p) ==
    /\ readers[p] # None
    /\ readers' = [readers EXCEPT ![p] = None]
    /\ UNCHANGED <<_head, builds, stage_rows, generations, versions>>

\* What search ranks for a pinned revision.
Visible(v, revision) == v.from <= revision /\ (v.to = None \/ v.to > revision)
search(revision) == {<<v.key, v.checksum>> : v \in {w \in versions : Visible(w, revision)}}

-----------------------------------------------------------------------------
\* collect_garbage: each statement deletes up to a limit of what it selects,
\* seeing the deletions before it.
Limited(S, n) == {T \in SUBSET S : Cardinality(T) = IF Cardinality(S) < n THEN Cardinality(S) ELSE n}

Superseded(rows) ==
    {g \in generations : /\ g.generation # _head.generation
                         /\ \A p \in rows : readers[p].generation # g.generation}
Orphans == {x \in Builders \X Keys : stage_rows[x[1]][x[2]] # Unstaged /\ ~_build(x[1])}
Unneeded(rows, kept) ==
    {v \in versions : /\ v.to # None
                      /\ \A g \in kept : ~Visible(v, g.revision)
                      /\ \A p \in rows : ~Visible(v, readers[p].revision)
                      /\ \A b \in Builders : _build(b) => ~Visible(v, builds[b].base)}

Pinned == {p \in Readers : readers[p] # None}

Delete(R, B, S, G, V) ==
    /\ readers' = [p \in Readers |-> IF p \in R THEN None ELSE readers[p]]
    /\ builds' = [b \in Builders |-> IF b \in B THEN None ELSE builds[b]]
    /\ stage_rows' = [b \in Builders |-> [k \in Keys |->
                        IF <<b, k>> \in S THEN Unstaged ELSE stage_rows[b][k]]]
    /\ generations' = generations \ G
    /\ versions' = versions \ V
    /\ UNCHANGED _head

collect_garbage ==
    \E R \in Limited({p \in Pinned : ~_reader(p)}, Limit),
       B \in Limited({b \in Builders : builds[b] # None /\ ~_build(b)}, Limit),
       S \in Limited(Orphans, Limit) :
    \E G \in Limited(Superseded(Pinned \ R), Limit) :
    \E V \in Limited(Unneeded(Pinned \ R, generations \ G), Limit - Cardinality(S)) :
        Delete(R, B, S, G, V)

\* Time passes, on the database's clock.
Later(row) == IF row = None \/ row.expires = 0 THEN row ELSE [row EXCEPT !.expires = @ - 1]
Tick ==
    /\ builds' = [b \in Builders |-> Later(builds[b])]
    /\ readers' = [p \in Readers |-> Later(readers[p])]
    /\ UNCHANGED <<_head, stage_rows, generations, versions>>

Next ==
    \/ \E b \in Builders :
        \/ \E r \in 0..MaxRevision, g \in Labels, full \in BOOLEAN : begin(b, r, g, full)
        \/ \E batch \in [Keys -> Change] : stage(b, batch)
        \/ publish(b) \/ abort(b)
    \/ \E K \in (SUBSET Keys) \ {{}} : erase(K)
    \/ \E p \in Readers : (\E g \in generations : pin(p, g)) \/ renew(p) \/ release(p)
    \/ collect_garbage \/ Tick

Spec == Init /\ [][Next]_vars

-----------------------------------------------------------------------------
\* Every table has its type.
TypeOK ==
    /\ _head \in [revision: Revision, generation: Labels \cup {None}]
    /\ builds \in [Builders -> Build \cup {None}]
    /\ stage_rows \in [Builders -> [Keys -> Change]]
    /\ generations \subseteq [generation: Labels, revision: Nat]
    /\ readers \in [Readers -> Reader \cup {None}]
    /\ versions \subseteq Version

\* At no revision does a key have two vectors, whatever was published, erased
\* and collected: search would rank a retired vector beside its replacement.
OneVector == \A v, w \in versions :
    v.key = w.key /\ v # w => \/ v.to # None /\ v.to <= w.from
                              \/ w.to # None /\ w.to <= v.from

\* What the tables mean: the content of each retained revision is what search
\* sees of it; builders and readers count while their leases last.
Retained == {g.revision : g \in generations} \cup {_head.revision}
Contents == [r \in Retained |-> search(r)]
Drafts == [b \in Builders |-> IF _build(b)
            THEN [base |-> builds[b].base, target |-> builds[b].target,
                  full |-> builds[b].full, delta |-> stage_rows[b]]
            ELSE None]
Pins == [p \in Readers |-> IF _reader(p) THEN readers[p].revision ELSE None]

Store == INSTANCE SnapshotStore WITH
    contents <- Contents, head <- _head.revision, drafts <- Drafts, pins <- Pins,
    Revisions <- 0..MaxRevision

\* Publication is atomic and on its base only, pinned and published revisions
\* keep their content but for erased keys, and an expired, aborted or revoked
\* build never reaches them: the tables implement SnapshotStore.
Implements == Store!Spec
==============================================================================
