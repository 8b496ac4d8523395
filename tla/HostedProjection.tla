-------------------------- MODULE HostedProjection --------------------------
(***************************************************************************)
(* The hosted dense projection of one tenant (hub/memory_projection.py,    *)
(* with the canonical writes of hub/memory_records.py).  Canonical writes  *)
(* append change events in the hub's database.  A drain, under the         *)
(* tenant's advisory lock, turns events into a publication of the external *)
(* snapshot index and acknowledges it in the database; a search pins the   *)
(* acknowledged generation without the lock and hydrates its hits.         *)
(*                                                                         *)
(* The index is SnapshotStore, which VectorSnapshots implements.  A text   *)
(* stands for its checksum and its embedding.  A generation is named after *)
(* the source and the revision, so it is its revision.  Each step is one   *)
(* call of the index or one transaction of the database; a process may die *)
(* between steps, or lose its database session, and with it the lock,      *)
(* without noticing before it commits.                                     *)
(***************************************************************************)
EXTENDS Integers, Sequences, FiniteSetsExt

CONSTANTS
    Records, Texts,
    Inactive,          \* body of a version that is not active or has no text
    Tombstone,         \* operation "delete"
    Workers,           \* processes that drain
    Searchers,         \* processes that search
    Batch,             \* limit of one drain
    Reuse,             \* whether identities are reused after forget
    None, Deleted, Unstaged,
    MaxClock,          \* bound on change events
    MaxFaults          \* bound on crashes, lost locks, lapses and losses

ASSUME ProjectionAssumption == Batch \in Nat \ {0} /\ MaxClock \in Nat /\ MaxFaults \in Nat

ASSUME NamesAssumption ==
    /\ Workers \cap Searchers = {} /\ None \notin Workers \cup Int
    /\ None \notin [body: Texts \cup {Inactive}, change_seq: Nat]
    /\ Texts \cap {Inactive, Tombstone, Deleted, Unstaged} = {}
    /\ Inactive # Tombstone /\ Deleted # Unstaged

VARIABLES
    events,      \* MemoryChangeEvent; the clock is its length
    rows,        \* MemoryRecordProjection: body and change_seq
    acked,       \* MemoryProjectionState.cursor, None without a generation
    owner,       \* who holds the tenant's advisory lock across steps
    eager,       \* forgotten records whose erase_records is still to run
    contents, head, drafts, pins,   \* the external index
    backup,      \* an older copy of the index
    pc, plan,    \* where a drain is, and what it read
    cursor, hits,    \* of a search
    stale,       \* whether a drain went on without its lock
    faults

index == <<contents, head, drafts, pins>>
hub == <<events, rows, acked, eager>>
vars == <<events, rows, acked, owner, eager, contents, head, drafts, pins, backup, pc, plan, cursor, hits, stale, faults>>

Index == INSTANCE SnapshotStore WITH
    Keys <- Records, Values <- Texts, Revisions <- 1..MaxClock, Builders <- Workers, Readers <- Searchers

Init ==
    /\ events = <<>> /\ rows = [r \in Records |-> None] /\ acked = None
    /\ owner = None /\ eager = {}
    /\ Index!Init /\ backup = [head |-> head, contents |-> contents]
    /\ pc = [p \in Workers \cup Searchers |-> "idle"] /\ plan = [w \in Workers |-> None]
    /\ cursor = [s \in Searchers |-> None] /\ hits = [s \in Searchers |-> {}]
    /\ stale = FALSE /\ faults = 0

-----------------------------------------------------------------------------
(* Canonical writes: each is one transaction under the lock.               *)

append_change(past, r, body) == events' = Append(past, [record |-> r, body |-> body])

Forgotten(r) == \E i \in DOMAIN events : events[i] = [record |-> r, body |-> Tombstone]

put(r, body) ==
    /\ owner = None /\ Len(events) < MaxClock
    /\ Reuse \/ ~Forgotten(r)
    /\ append_change(events, r, body)
    /\ rows' = [rows EXCEPT ![r] = [body |-> body, change_seq |-> Len(events) + 1]]
    /\ UNCHANGED <<acked, owner, eager, index, backup, pc, plan, cursor, hits, stale, faults>>

redact_changes(r) == [i \in DOMAIN events |->
    IF events[i].record = r THEN [events[i] EXCEPT !.body = Tombstone] ELSE events[i]]

forget(r) ==
    /\ owner = None /\ Len(events) < MaxClock
    /\ append_change(redact_changes(r), r, Tombstone)
    /\ rows' = [rows EXCEPT ![r] = None]
    /\ eager' = eager \cup {r}
    /\ UNCHANGED <<acked, owner, index, backup, pc, plan, cursor, hits, stale, faults>>

\* After its commit forget erases eagerly; the process or the index may fail.
erase_records(r) ==
    /\ r \in eager /\ owner = None
    /\ eager' = eager \ {r}
    /\ Index!Erase({r}) \/ UNCHANGED index
    /\ UNCHANGED <<events, rows, acked, owner, backup, pc, plan, cursor, hits, stale, faults>>

-----------------------------------------------------------------------------
(* drain.                                                                  *)

\* Mutant: the first event of a record in the batch wins.
LatestFirst(r, from, through) ==
    LET of == {i \in from + 1..through : events[i].record = r} IN
    IF of = {} THEN Unstaged
    ELSE LET body == events[Min(of)].body IN IF body \in Texts THEN body ELSE Deleted

Latest(r, from, through) ==
    LET of == {i \in from + 1..through : events[i].record = r} IN
    IF of = {} THEN Unstaged
    ELSE LET body == events[Max(of)].body IN IF body \in Texts THEN body ELSE Deleted

\* Mutant: the acknowledged cursor is trusted.
ResumeAcked == IF acked \in DOMAIN events THEN acked ELSE 0

\* An index without a head is filled from the first event on.
Resume == IF head = -1 THEN 0 ELSE head

\* The lock, the head, and a batch of events; without events the cursor is
\* corrected and the transaction ends.
drain(w) ==
    LET through == Min({Resume + Batch, Len(events)}) IN
    /\ pc[w] = "idle" /\ owner = None /\ events # <<>>
    /\ IF through = Resume
       THEN acked' = head /\ UNCHANGED <<owner, pc, plan>>
       ELSE /\ owner' = w
            /\ pc' = [pc EXCEPT ![w] = "erase"]
            /\ plan' = [plan EXCEPT ![w] =
                 [through |-> through, full |-> head = -1,
                  changes |-> [r \in Records |-> Latest(r, Resume, through)],
                  hard_deleted |-> {r \in Records : \E i \in Resume + 1..through :
                                        events[i] = [record |-> r, body |-> Tombstone]}]]
            /\ UNCHANGED acked
    /\ UNCHANGED <<events, rows, eager, index, backup, cursor, hits, stale, faults>>

\* Mutant: the session, and with it the lock, outlives the exception.
FailLocked(w) ==
    /\ Index!Lapse({w}, {})
    /\ pc' = [pc EXCEPT ![w] = "idle"] /\ plan' = [plan EXCEPT ![w] = None]
    /\ UNCHANGED <<hub, owner, backup, cursor, hits, stale>>

\* An exception rolls the database back and releases the lock; the build is aborted.
Fail(w) ==
    /\ Index!Lapse({w}, {})
    /\ owner' = IF owner = w THEN None ELSE owner
    /\ pc' = [pc EXCEPT ![w] = "idle"] /\ plan' = [plan EXCEPT ![w] = None]
    /\ UNCHANGED <<hub, backup, cursor, hits, stale>>

Goto(w, label) == pc' = [pc EXCEPT ![w] = label] /\ UNCHANGED <<hub, owner, backup, plan, cursor, hits, stale, faults>>

\* Mutant: tombstones are only published.
EraseHardNever(w) == pc[w] = "erase" /\ UNCHANGED index /\ Goto(w, "begin")

EraseHard(w) ==
    /\ pc[w] = "erase"
    /\ IF plan[w].hard_deleted = {} THEN UNCHANGED index ELSE Index!Erase(plan[w].hard_deleted)
    /\ Goto(w, "begin")

BeginBuild(w) ==
    /\ pc[w] = "begin"
    /\ IF plan[w].through > head
       THEN Index!Begin(w, plan[w].through, plan[w].full) /\ Goto(w, "stage")
       ELSE Fail(w) /\ UNCHANGED faults

StageBuild(w) ==
    /\ pc[w] = "stage"
    /\ IF drafts[w] # None THEN Index!Stage(w, plan[w].changes) /\ Goto(w, "publish")
                           ELSE Fail(w) /\ UNCHANGED faults

PublishBuild(w) ==
    /\ pc[w] = "publish"
    /\ IF drafts[w] # None /\ drafts[w].base = head
       THEN Index!Publish(w) /\ Goto(w, "acknowledge") ELSE Fail(w) /\ UNCHANGED faults

\* The transaction commits, unless its session was lost.
Acknowledge(w) ==
    /\ pc[w] = "acknowledge"
    /\ IF owner = w THEN acked' = plan[w].through /\ owner' = None ELSE UNCHANGED <<acked, owner>>
    /\ pc' = [pc EXCEPT ![w] = "idle"] /\ plan' = [plan EXCEPT ![w] = None]
    /\ UNCHANGED <<events, rows, eager, index, backup, cursor, hits, stale, faults>>

-----------------------------------------------------------------------------
(* candidates, and the hydration of search.                                *)

SearchStep(s, label) ==
    pc' = [pc EXCEPT ![s] = label] /\ UNCHANGED <<hub, owner, backup, plan, stale, faults>>

ReadState(s) ==
    /\ pc[s] = "idle" /\ acked # None
    /\ cursor' = [cursor EXCEPT ![s] = acked]
    /\ SearchStep(s, "pin") /\ UNCHANGED <<index, hits>>

GiveUp(s) == /\ cursor' = [cursor EXCEPT ![s] = None]
             /\ SearchStep(s, "idle") /\ UNCHANGED <<index, hits>>

PinState(s) ==
    /\ pc[s] = "pin"
    /\ IF cursor[s] \in DOMAIN contents
       THEN Index!Pin(s, cursor[s]) /\ SearchStep(s, "search") /\ UNCHANGED <<cursor, hits>>
       ELSE GiveUp(s)

candidates(s) ==
    /\ pc[s] = "search"
    /\ IF pins[s] # None
       THEN /\ hits' = [hits EXCEPT ![s] = contents[pins[s]]]
            /\ Index!Lapse({}, {s}) /\ SearchStep(s, "hydrate") /\ UNCHANGED cursor
       ELSE GiveUp(s)

\* Mutant: hydration does not compare the row with the cursor.
AdmittedAny(s, r) == rows[r] # None /\ rows[r].body \in Texts

Admitted(s, r) ==
    /\ rows[r] # None /\ rows[r].body \in Texts
    /\ rows[r].change_seq <= cursor[s]

hydrate(s) ==
    /\ pc[s] = "hydrate" /\ owner = None
    /\ hits' = [hits EXCEPT ![s] = {}] /\ cursor' = [cursor EXCEPT ![s] = None]
    /\ SearchStep(s, "idle") /\ UNCHANGED index

-----------------------------------------------------------------------------
(* Faults.                                                                 *)

Fault == faults < MaxFaults /\ faults' = faults + 1

\* A worker dies, or a call of the index or the embedder fails.
Crash(w) == pc[w] # "idle" /\ Fail(w) /\ Fault

\* The database ends the session and frees the lock; the worker goes on.
LoseSession(w) ==
    /\ owner = w /\ Fault
    /\ owner' = None
    /\ stale' = TRUE
    /\ UNCHANGED <<hub, index, backup, pc, plan, cursor, hits>>

\* A lease of 300 seconds runs out under a slow worker or search.
Expire ==
    /\ \/ \E w \in Workers : drafts[w] # None /\ Index!Lapse({w}, {})
       \/ \E s \in Searchers : pins[s] # None /\ Index!Lapse({}, {s})
    /\ Fault
    /\ UNCHANGED <<hub, owner, backup, pc, plan, cursor, hits, stale>>

TakeBackup ==
    /\ backup.head < head
    /\ backup' = [head |-> head, contents |-> contents]
    /\ UNCHANGED <<hub, owner, index, pc, plan, cursor, hits, stale, faults>>

\* Between drains the index is replaced by an older copy, at first an empty one.
RestoreBackup ==
    /\ \A w \in Workers : pc[w] = "idle"
    /\ head' = backup.head /\ contents' = backup.contents
    /\ drafts' = [w \in Workers |-> None] /\ pins' = [s \in Searchers |-> None]
    /\ Fault
    /\ UNCHANGED <<hub, owner, backup, pc, plan, cursor, hits, stale>>

-----------------------------------------------------------------------------
DrainStep(w) == drain(w) \/ EraseHard(w) \/ BeginBuild(w) \/ StageBuild(w) \/ PublishBuild(w) \/ Acknowledge(w)

Next ==
    \/ \E r \in Records : (\E body \in Texts \cup {Inactive} : put(r, body)) \/ forget(r) \/ erase_records(r)
    \/ \E w \in Workers : DrainStep(w) \/ Crash(w) \/ LoseSession(w)
    \/ \E s \in Searchers : ReadState(s) \/ PinState(s) \/ candidates(s) \/ hydrate(s)
    \/ Expire \/ TakeBackup \/ RestoreBackup

\* Every search drains first; a drain that started goes on.
Fairness == \A w \in Workers : WF_vars(DrainStep(w))

Spec == Init /\ [][Next]_vars /\ Fairness

-----------------------------------------------------------------------------
Body == Texts \cup {Inactive, Tombstone}
Content == SUBSET (Records \X Texts)

\* Every variable has its type, cursors and revisions are those of change events,
\* and whoever holds the tenant's lock is in a drain: a failed one let it go.
TypeOK ==
    /\ events \in Seq([record: Records, body: Body]) /\ Len(events) <= MaxClock
    /\ \A r \in Records : rows[r] = None \/ rows[r].change_seq \in 1..Len(events)
    /\ acked \in {None} \cup 1..Len(events)
    /\ owner \in {None} \cup Workers /\ eager \subseteq Records
    /\ head \in {-1} \cup 1..Len(events) /\ \A v \in DOMAIN contents : contents[v] \in Content
    /\ owner # None => pc[owner] # "idle"

\* A hit that hydration admits was found by the vector of the record's current
\* text, although the search holds no lock between reading the cursor and then.
HitsCurrent == \A s \in Searchers : pc[s] = "hydrate" =>
    \A e \in hits[s] : Admitted(s, e[1]) => rows[e[1]].body = e[2]

Tombstones(r) == {i \in DOMAIN events : events[i] = [record |-> r, body |-> Tombstone]}

\* Once a drain has published past the last tombstone of a record, no revision up
\* to it has a vector of the record, through crashes, lapsed leases and restored
\* indexes (drain erases before it publishes), unless a drain went on after it
\* lost its database session.
ErasedGone == \A r \in Records : ~stale /\ Forgotten(r) =>
    LET t == Max(Tombstones(r)) IN
    t <= head => \A v \in DOMAIN contents : v <= t => \A x \in Texts : <<r, x>> \notin contents[v]

\* An index that has caught up has the vectors of exactly the active records.
Projected == head = Len(events) =>
    contents[head] = {<<r, rows[r].body>> :
                        r \in {q \in Records : rows[q] # None /\ rows[q].body \in Texts}}

\* When writes and faults end, the index catches up and is acknowledged.
CaughtUp == <>[](events = <<>> \/ (head = Len(events) /\ acked = head))
==============================================================================
