----------------------------- MODULE ChangeOutbox -----------------------------
(***************************************************************************)
(* The outbox between a canonical namespace (facts or lessons) and the     *)
(* change journal (change_stream.py: guard, stage, complete, recover,      *)
(* publish and the wrappers fact_transactions, fact_mutations and          *)
(* lesson_writes), while stream capture is on.                             *)
(*                                                                         *)
(* A process takes the namespace's guard, recovers what a predecessor left *)
(* behind, stages an intent file, commits the canonical store, publishes   *)
(* one event per changed item and removes the intent.  It may die (or get  *)
(* an OSError) after any of these steps; the guard is then released.       *)
(*                                                                         *)
(* snapshot and state_hash commit to the whole namespace: a version stands *)
(* for one content hash of an item, and a hash of the namespace is the     *)
(* function itself.                                                        *)
(***************************************************************************)
EXTENDS Naturals, Sequences

CONSTANTS
    NItems,       \* items of the namespace, 1..NItems in identity order
    Procs,        \* writers and pollers
    Stamped,      \* TRUE: a body carries its own update time (facts), so no
                  \* content hash comes back; FALSE: it does not (lessons)
    MaxVersion,   \* bound on content hashes
    MaxWrites,    \* bound on committed or aborted writes
    MaxCrashes,   \* bound on deaths and I/O errors of processes
    MaxEdits      \* bound on changes of the store that bypass the wrappers

Items == 1..NItems
Absent == 0
Versions == 0..MaxVersion
States == [Items -> Versions]
Empty == [i \in Items |-> Absent]
NoIntent == [before |-> <<>>, after |-> <<>>]
Nobody == "nobody"

ASSUME OutboxAssumption ==
    /\ NItems \in Nat /\ MaxVersion \in Nat \ {0} /\ MaxWrites \in Nat
    /\ MaxCrashes \in Nat /\ MaxEdits \in Nat /\ Stamped \in BOOLEAN
    /\ Nobody \notin Procs

VARIABLES
    store,     \* the canonical namespace
    minted,    \* the last time stamp used by a write
    intent,    \* <namespace>-stream-intent.json
    journal,   \* memory-changes.jsonl: <<[item, before, after], ...>>
    guard,     \* who holds the namespace's guard
    pc,        \* where a process is
    snap,      \* the snapshot a writer took when it entered the guard
    at,        \* complete: the next item to publish
    then,      \* complete: whether a write follows (recover) or not
    owed,      \* history: committed changes that are not in the journal
    writes, crashes, edits

vars == <<store, minted, intent, journal, guard, pc, snap, at, then, owed, writes, crashes, edits>>
bounds == <<writes, crashes, edits>>

Event == [item: Items, before: States, after: States]
Changed(b, a) == {i \in Items : b[i] # a[i]}

Init ==
    /\ store \in [Items -> {Absent, 1}] /\ minted = 1
    /\ intent = NoIntent /\ journal = <<>>
    /\ guard = Nobody
    /\ pc = [p \in Procs |-> "idle"] /\ at = [p \in Procs |-> 1]
    /\ snap = [p \in Procs |-> Empty]
    /\ then = [p \in Procs |-> "release"]
    /\ owed = {}
    /\ writes = 0 /\ crashes = 0 /\ edits = 0

-----------------------------------------------------------------------------
\* The process leaves the guard.
Release(p) ==
    /\ guard' = Nobody
    /\ pc' = [pc EXCEPT ![p] = "idle"]
    /\ at' = [at EXCEPT ![p] = 1]
    /\ then' = [then EXCEPT ![p] = "release"]
    /\ snap' = [snap EXCEPT ![p] = Empty]

\* recover, its caller holding the guard: a committed intent is published, an
\* aborted one is discarded, and anything else raises.
Recover(p, next) ==
    \/ /\ intent = NoIntent
       /\ pc' = [pc EXCEPT ![p] = next] /\ guard' = p
       /\ UNCHANGED <<intent, at, then>>
    \/ /\ intent # NoIntent /\ store = intent.after
       /\ pc' = [pc EXCEPT ![p] = "publishing"] /\ guard' = p
       /\ then' = [then EXCEPT ![p] = next]
       /\ UNCHANGED <<intent, at>>
    \/ /\ intent # NoIntent /\ store = intent.before
       /\ intent' = NoIntent
       /\ pc' = [pc EXCEPT ![p] = next] /\ guard' = p
       /\ UNCHANGED <<at, then>>

\* A mutant: a writer does not wait for the guard.
WriteBeginUnguarded(p) ==
    /\ pc[p] = "idle" /\ writes < MaxWrites
    /\ Recover(p, "ready")
    /\ snap' = [snap EXCEPT ![p] = store]
    /\ writes' = writes + 1
    /\ UNCHANGED <<store, minted, journal, owed, crashes, edits>>

\* A writer enters the guard (fact_transactions, fact_mutations, lesson_writes).
\* In the ambiguous case it raises and leaves the guard: no step at all.
WriteBegin(p) ==
    /\ pc[p] = "idle" /\ guard = Nobody /\ writes < MaxWrites
    /\ Recover(p, "ready")
    /\ snap' = [snap EXCEPT ![p] = store]
    /\ writes' = writes + 1
    /\ UNCHANGED <<store, minted, journal, owed, crashes, edits>>

\* A mutant: a poll leaves committed intents to the next writer.
PollRecoverAborted(p) ==
    /\ pc[p] = "idle" /\ guard = Nobody /\ intent # NoIntent
    /\ IF store = intent.before
       THEN Recover(p, "release") /\ UNCHANGED <<store, minted, journal, snap, owed, bounds>>
       ELSE UNCHANGED vars

\* recover_pending, before every poll.
PollRecover(p) ==
    /\ pc[p] = "idle" /\ guard = Nobody /\ intent # NoIntent
    /\ Recover(p, "release")
    /\ UNCHANGED <<store, minted, journal, snap, owed, bounds>>

\* The guard is left after a recovery, or after a write that changed nothing
\* (stage returns False).
Leave(p) ==
    /\ pc[p] \in {"ready", "release"}
    /\ Release(p)
    /\ UNCHANGED <<store, minted, intent, journal, owed, bounds>>

\* What a write makes of the state it read; facts carry the time of the write.
Writes(b, a) ==
    /\ a # b
    /\ Stamped => \A i \in Changed(b, a) : a[i] \in {Absent, minted + 1}

stage(p, a) ==
    /\ pc[p] = "ready" /\ Writes(snap[p], a)
    /\ intent' = [before |-> snap[p], after |-> a]
    /\ pc' = [pc EXCEPT ![p] = "staged"]
    /\ minted' = IF Stamped THEN minted + 1 ELSE minted
    /\ UNCHANGED <<store, journal, guard, snap, at, then, owed, bounds>>

\* The events of the staged transaction, one per changed item.
EventOf(i) == [item |-> i, before |-> intent.before, after |-> intent.after]

\* The canonical transaction commits (SQLite commit, or an atomic file replace).
Commit(p) ==
    /\ pc[p] = "staged"
    /\ LET I == Changed(intent.before, intent.after)
       IN  /\ store' = [i \in Items |-> IF i \in I THEN intent.after[i] ELSE store[i]]
           /\ owed' = owed \cup {EventOf(i) : i \in I}
    /\ pc' = [pc EXCEPT ![p] = "publishing"]
    /\ UNCHANGED <<minted, intent, journal, guard, snap, at, then, bounds>>

\* A mutant: events are not looked up before they are appended.
PublishedNever(e) == FALSE

\* publish: an event_id (the digest of transaction and index) that the journal
\* already holds is not appended again.
Published(e) == \E n \in 1..Len(journal) : journal[n] = e

publish(e) ==
    IF Published(e) THEN UNCHANGED <<journal, owed>>
    ELSE journal' = Append(journal, e) /\ owed' = owed \ {e}

\* complete: one publish per changed item, in order.
CompletePublish(p) ==
    /\ pc[p] = "publishing" /\ at[p] \in Items
    /\ IF at[p] \in Changed(intent.before, intent.after)
       THEN publish(EventOf(at[p]))
       ELSE UNCHANGED <<journal, owed>>
    /\ at' = [at EXCEPT ![p] = @ + 1]
    /\ UNCHANGED <<store, minted, intent, guard, pc, snap, then, bounds>>

\* A mutant: the intent is removed before everything is published.
UnlinkEarly(p) ==
    /\ pc[p] = "publishing"
    /\ intent' = NoIntent
    /\ pc' = [pc EXCEPT ![p] = then[p]]
    /\ at' = [at EXCEPT ![p] = 1]
    /\ then' = [then EXCEPT ![p] = "release"]
    /\ UNCHANGED <<store, minted, journal, guard, snap, owed, bounds>>

\* ... then the intent is removed.
CompleteUnlink(p) ==
    /\ pc[p] = "publishing" /\ at[p] \notin Items
    /\ intent' = NoIntent
    /\ pc' = [pc EXCEPT ![p] = then[p]]
    /\ at' = [at EXCEPT ![p] = 1]
    /\ then' = [then EXCEPT ![p] = "release"]
    /\ UNCHANGED <<store, minted, journal, guard, snap, owed, bounds>>

\* The process dies, the canonical write is refused or rolled back, or complete
\* meets an I/O error (reported as pending): the guard is released, the intent
\* stays.
Crash(p) ==
    /\ pc[p] # "idle" /\ crashes < MaxCrashes
    /\ crashes' = crashes + 1
    /\ Release(p)
    /\ UNCHANGED <<store, minted, intent, journal, owed, writes, edits>>

\* A file is saved by other means, under nobody's guard.
ExternalEdit(a) ==
    /\ edits < MaxEdits /\ Writes(store, a)
    /\ \A i \in Changed(store, a) : a[i] # Absent
    /\ store' = a
    /\ minted' = IF Stamped THEN minted + 1 ELSE minted
    /\ edits' = edits + 1
    /\ UNCHANGED <<intent, journal, guard, pc, snap, at, then, owed, writes, crashes>>

\* recover raises when the store is neither of the intent's states.
Ambiguous == intent # NoIntent /\ store \notin {intent.before, intent.after}

\* A poll that finds no intent, or is blocked by an ambiguous one.
PollNothing(p) ==
    /\ pc[p] = "idle" /\ guard = Nobody
    /\ intent = NoIntent \/ Ambiguous
    /\ UNCHANGED vars

ProcStep(p) == \/ PollRecover(p) \/ PollNothing(p) \/ Leave(p)
               \/ Commit(p) \/ CompletePublish(p) \/ CompleteUnlink(p)

Next ==
    \/ \E p \in Procs : ProcStep(p) \/ WriteBegin(p) \/ Crash(p) \/ \E a \in States : stage(p, a)
    \/ \E a \in States : ExternalEdit(a)

Spec == Init /\ [][Next]_vars

\* A process that entered the guard runs on unless it dies, and consumers poll
\* again; nobody has to write.
FairSpec == Spec /\ \A p \in Procs : WF_vars(ProcStep(p))

-----------------------------------------------------------------------------
(* Properties.                                                             *)

\* Every variable has its type, and the guard excludes.
TypeOK ==
    /\ store \in States /\ minted \in Nat
    /\ intent \in [before: States, after: States] \cup {NoIntent}
    /\ journal \in Seq(Event) /\ owed \subseteq Event
    /\ guard \in Procs \cup {Nobody}
    /\ pc \in [Procs -> {"idle", "ready", "release", "staged", "publishing"}]
    /\ snap \in [Procs -> States] /\ at \in [Procs -> 1..(NItems + 1)]
    /\ then \in [Procs -> {"ready", "release"}]
    /\ \A p \in Procs : pc[p] # "idle" <=> guard = p
    /\ writes \in Nat /\ crashes \in Nat /\ edits \in Nat

\* Once the intent is gone, whether complete or a recovery removed it, every
\* change that was ever committed is in the journal ("Recovery publishes
\* committed changes idempotently").
NothingForgotten == intent = NoIntent => owed = {}

\* The outbox implements the promised log: each committed change is published
\* once, before the next transaction commits, and an aborted one never is,
\* through crashes after any step.
Promise == INSTANCE ChangeLog WITH Changes <- Event, stream <- journal
LogPromise == Promise!Spec

\* A committed change does reach the stream, unless the store was edited behind
\* the outbox's back and recovery is blocked for the operator.
EventuallyPublished == owed # {} ~> owed = {} \/ Ambiguous
===============================================================================
