----------------------------- MODULE ChangeStream -----------------------------
(***************************************************************************)
(* Delivery of the change journal to subscribers (change_stream.py: poll,  *)
(* obligations, acknowledge, reconcile_revocations) and the erasure        *)
(* receipts that rest on it (erasure_verify.py: verify).                   *)
(*                                                                         *)
(* Writers commit to the canonical store and owe an event to the journal   *)
(* (the promise of ChangeLog); the forgetting ledger can revoke an item    *)
(* with no write at all.  A subscriber polls batches under the delivery    *)
(* lock, keeps copies, and acknowledges erasures after deleting its copy.  *)
(*                                                                         *)
(* An item is absent, hidden (retracted, quarantined, superseded),         *)
(* unmatched (active, but outside the subscription's scopes or filters) or *)
(* shown with a revision.                                                  *)
(***************************************************************************)
EXTENDS Naturals, Sequences

CONSTANTS
    Items, Subs,
    Limit,        \* events in a batch
    MaxRevision, MaxWrites, MaxForgets, MaxLost

ASSUME StreamAssumption ==
    /\ Items \cap Subs = {} /\ Limit \in Nat \ {0}
    /\ {MaxRevision, MaxWrites, MaxForgets, MaxLost} \subseteq Nat

Verifier == "verifier"
Procs == Subs \cup {Verifier}
Nobody == "nobody"

ASSUME ProcsAssumption == Subs \cap {Verifier, Nobody} = {}

Shown == 1..MaxRevision
Absent == 0
Hidden == MaxRevision + 1
Unmatched == MaxRevision + 2
Nothing == 0                    \* no copy, or a tombstone in a batch

VARIABLES
    mem,         \* the canonical store
    blocked,     \* lineage_blocked: items the forgetting ledger revokes
    undoing,     \* forget_fact(undo): written, the ledger not yet
    owed,        \* committed events that are not in the journal yet
    journal,     \* memory-changes.jsonl
    lock,        \* who holds the delivery lock
    pc, todo,    \* recover_pending: revocations read, still to be published
    pos, batch,  \* a poll: the next position, and what it collected
    cursor, copy,        \* a subscriber's own state
    deliveries, acks,    \* stream-deliveries, stream-acks: sequence numbers
    due,                 \* erasures up to here are past the ack deadline
    receipts,            \* items with an issued erasure receipt
    restored,            \* history: items that came back after an erasure or a forget
    writes, forgets, lost

subscriber == <<pos, batch, cursor, copy, deliveries, acks>>
canonical == <<mem, blocked, undoing, restored>>
bounds == <<writes, forgets, lost>>
vars == <<canonical, owed, journal, lock, pc, todo, subscriber, due, receipts, bounds>>

Events == [kind: {"assert", "withdraw", "erase"}, target: Items, cause: Nat]
Removal == {"withdraw", "erase"}

Init ==
    /\ mem \in [Items -> {Absent, 1}] /\ blocked = {} /\ owed = {} /\ undoing = {} /\ restored = {}
    /\ journal = <<>> /\ lock = Nobody
    /\ pc = [p \in Procs |-> "idle"] /\ todo = [p \in Procs |-> {}]
    /\ pos = [s \in Subs |-> 0] /\ batch = [s \in Subs |-> <<>>]
    /\ cursor = [s \in Subs |-> 0] /\ copy = [s \in Subs |-> [i \in Items |-> Nothing]]
    /\ deliveries = [s \in Subs |-> {}] /\ acks = [s \in Subs |-> {}]
    /\ due = 0 /\ receipts = {}
    /\ writes = 0 /\ forgets = 0 /\ lost = 0

-----------------------------------------------------------------------------
Indices == 1..Len(journal)
EventsOf(i) == {n \in Indices : journal[n].target = i}
Erasures(i) == {n \in EventsOf(i) : journal[n].kind = "erase"}
Latest(i) == CHOOSE n \in EventsOf(i) : \A k \in EventsOf(i) : k <= n
Known(s) == {journal[n].target : n \in deliveries[s]}

\* admit: what a subscriber may see of the item now.
View(i) == IF mem[i] \in Shown /\ i \notin blocked THEN mem[i] ELSE Nothing

-----------------------------------------------------------------------------
(* The canonical side.                                                     *)

\* stage's classification of a change.
Kind(old, new) == IF new = Absent THEN "erase"
                  ELSE IF old # Absent /\ new = Hidden THEN "withdraw" ELSE "assert"

\* A canonical write commits; its event is owed (ChangeOutbox).
Commit(i, v) ==
    /\ owed = {} /\ writes < MaxWrites
    /\ v \in Shown => v = writes + 1
    /\ mem' = [mem EXCEPT ![i] = v]
    /\ owed' = {[kind |-> Kind(mem[i], v), target |-> i, cause |-> 0]}
    /\ writes' = writes + 1
    /\ UNCHANGED <<blocked, journal, lock, pc, todo, subscriber, due, receipts, forgets, lost>>

\* Facts and lessons are added, changed, withdrawn, removed, added again.
Write(i, v) ==
    /\ v # mem[i] /\ Commit(i, v)
    /\ restored' = IF mem[i] = Absent /\ Erasures(i) # {} THEN restored \cup {i} ELSE restored
    /\ UNCHANGED undoing

\* complete, by the writer or by whoever recovers its outbox.
Publish ==
    /\ lock = Nobody
    /\ \E e \in owed : journal' = Append(journal, e) /\ owed' = owed \ {e}
    /\ UNCHANGED <<canonical, lock, pc, todo, subscriber, due, receipts, bounds>>

\* record_forgetting, before the canonical write of a forget or purge, or for an
\* ancestor of the item.
Forget(i) ==
    /\ i \notin blocked /\ forgets < MaxForgets
    /\ blocked' = blocked \cup {i} /\ forgets' = forgets + 1
    /\ UNCHANGED <<mem, undoing, restored, owed, journal, lock, pc, todo, subscriber, due, receipts, writes, lost>>

\* forget_fact with undo: the canonical write first ...
UndoWrite(i, v) ==
    /\ i \in blocked \ undoing /\ mem[i] # Absent /\ v \in Shown /\ Commit(i, v)
    /\ undoing' = undoing \cup {i} /\ UNCHANGED restored

\* ... then the ledger.
UndoLedger(i) ==
    /\ i \in undoing
    /\ undoing' = undoing \ {i} /\ blocked' = blocked \ {i} /\ restored' = restored \cup {i}
    /\ UNCHANGED <<mem, owed, journal, lock, pc, todo, subscriber, due, receipts, bounds>>

-----------------------------------------------------------------------------
(* recover_pending, which poll and verify start with.                      *)

\* A mutant: revocations without a canonical write are not looked for.
RecoverNoRevocations(p) ==
    /\ pc[p] = "idle" /\ owed = {}
    /\ pc' = [pc EXCEPT ![p] = "reconciling"]
    /\ UNCHANGED <<canonical, owed, journal, lock, todo, subscriber, due, receipts, bounds>>

\* The outbox is empty; reconcile_revocations reads what is delivered, revoked
\* and not yet erased.
RecoverRead(p) ==
    /\ pc[p] = "idle" /\ owed = {}
    /\ todo' = [todo EXCEPT ![p] =
         {Latest(i) : i \in {j \in UNION {Known(s) : s \in Subs} :
                               j \in blocked /\ journal[Latest(j)].kind # "erase"}}]
    /\ pc' = [pc EXCEPT ![p] = "reconciling"]
    /\ UNCHANGED <<canonical, owed, journal, lock, subscriber, due, receipts, bounds>>

\* ... and publishes an erasure for each, once per event it follows.
Reconcile(p) ==
    /\ pc[p] = "reconciling" /\ lock = Nobody
    /\ \E n \in todo[p] :
         LET e == [kind |-> "erase", target |-> journal[n].target, cause |-> n]
         IN  /\ journal' = IF \E k \in Indices : journal[k] = e THEN journal ELSE Append(journal, e)
             /\ todo' = [todo EXCEPT ![p] = @ \ {n}]
    /\ UNCHANGED <<canonical, owed, lock, pc, subscriber, due, receipts, bounds>>

-----------------------------------------------------------------------------
(* Obligations.                                                            *)

\* Erasures of items the subscriber was ever sent that it has not acknowledged.
PendingErasures(s, targets) ==
    {n \in UNION {Erasures(i) : i \in Known(s) \cap targets} : n \notin acks[s]}

\* A mutant: only published erasures oblige.
PublicationIgnored(s, targets) == {}

\* Delivered and revoked, with no erasure to acknowledge yet.
PublicationPending(s, targets) ==
    {i \in Known(s) \cap targets : i \in blocked /\ Erasures(i) = {}}

cut_off(s) == \/ PublicationPending(s, Items) # {}
              \/ \E n \in PendingErasures(s, Items) : n <= due

all_acknowledged(targets) ==
    \A s \in Subs : PendingErasures(s, targets) = {} /\ PublicationPending(s, targets) = {}

\* Time passes: the oldest erasures become overdue.
Expire ==
    /\ due < Len(journal) /\ due' = due + 1
    /\ UNCHANGED <<canonical, owed, journal, lock, pc, todo, subscriber, receipts, bounds>>

\* acknowledge: the subscriber has deleted its copy.
acknowledge(s, n) ==
    /\ pc[s] = "idle" /\ n \in PendingErasures(s, Items)
    /\ copy' = [copy EXCEPT ![s][journal[n].target] = Nothing]
    /\ acks' = [acks EXCEPT ![s] = @ \cup {n}]
    /\ UNCHANGED <<canonical, owed, journal, lock, pc, todo, pos, batch, cursor, deliveries, due, receipts, bounds>>

-----------------------------------------------------------------------------
(* Poll.                                                                   *)

\* The lock is taken; a subscriber that is cut off is refused.
PollLock(s) ==
    /\ pc[s] = "reconciling" /\ todo[s] = {} /\ lock = Nobody
    /\ IF cut_off(s)
       THEN pc' = [pc EXCEPT ![s] = "idle"] /\ UNCHANGED <<lock, pos>>
       ELSE /\ pc' = [pc EXCEPT ![s] = "polling"] /\ lock' = s
            /\ pos' = [pos EXCEPT ![s] = cursor[s]]
    /\ UNCHANGED <<canonical, owed, journal, todo, batch, cursor, copy, deliveries, acks, due, receipts, bounds>>

\* The batch is full or the journal read.
PollEnd(s) == Len(batch[s]) = Limit \/ pos[s] = Len(journal)

\* A mutant: a tombstone only for the events that are removals themselves.
PollEventRemovals(s) ==
    /\ pc[s] = "polling" /\ ~PollEnd(s)
    /\ LET n == pos[s] + 1
           e == journal[n]
           current_match == View(e.target) # Nothing /\ e.kind \notin Removal
           entry == [item |-> e.target, memory |-> IF current_match THEN View(e.target) ELSE Nothing]
       IN  /\ pos' = [pos EXCEPT ![s] = n]
           /\ IF current_match \/ (e.kind \in Removal /\ e.target \in Known(s))
              THEN /\ batch' = [batch EXCEPT ![s] = Append(@, entry)]
                   /\ deliveries' = [deliveries EXCEPT ![s] = @ \cup {n}]
              ELSE UNCHANGED <<batch, deliveries>>
    /\ UNCHANGED <<canonical, owed, journal, lock, pc, todo, cursor, copy, acks, due, receipts, bounds>>

\* One event: content if the item is in view now, a tombstone if the subscriber
\* knows the item, nothing otherwise.  The delivery is registered.
PollEvent(s) ==
    /\ pc[s] = "polling" /\ ~PollEnd(s)
    /\ LET n == pos[s] + 1
           e == journal[n]
           current_match == View(e.target) # Nothing /\ e.kind \notin Removal
           entry == [item |-> e.target, memory |-> IF current_match THEN View(e.target) ELSE Nothing]
       IN  /\ pos' = [pos EXCEPT ![s] = n]
           /\ IF current_match \/ e.target \in Known(s)
              THEN /\ batch' = [batch EXCEPT ![s] = Append(@, entry)]
                   /\ deliveries' = [deliveries EXCEPT ![s] = @ \cup {n}]
              ELSE UNCHANGED <<batch, deliveries>>
    /\ UNCHANGED <<canonical, owed, journal, lock, pc, todo, cursor, copy, acks, due, receipts, bounds>>

\* A mutant: the lock is kept while the response is sent.
PollReturnLocked(s) ==
    /\ pc[s] = "polling" /\ PollEnd(s)
    /\ pc' = [pc EXCEPT ![s] = "sent"]
    /\ UNCHANGED <<canonical, owed, journal, lock, todo, subscriber, due, receipts, bounds>>

\* The response leaves with the new cursor.
PollReturn(s) ==
    /\ pc[s] = "polling" /\ PollEnd(s)
    /\ lock' = Nobody /\ pc' = [pc EXCEPT ![s] = "sent"]
    /\ UNCHANGED <<canonical, owed, journal, todo, subscriber, due, receipts, bounds>>

ForgetBatch(s) == pos' = [pos EXCEPT ![s] = 0] /\ batch' = [batch EXCEPT ![s] = <<>>]

\* The copies after a batch, entry by entry: the last one of an item counts.
Applied(old, b) ==
    [i \in Items |->
       LET N == {k \in 1..Len(b) : b[k].item = i}
       IN  IF N = {} THEN old[i] ELSE b[CHOOSE k \in N : \A l \in N : l <= k].memory]

\* The subscriber updates its copies and commits the cursor with them.
Receive(s) ==
    /\ pc[s] = "sent"
    /\ copy' = [copy EXCEPT ![s] = Applied(@, batch[s])]
    /\ cursor' = [cursor EXCEPT ![s] = pos[s]]
    /\ pc' = [pc EXCEPT ![s] = "idle"] /\ ForgetBatch(s)
    /\ UNCHANGED <<canonical, owed, journal, lock, todo, deliveries, acks, due, receipts, bounds>>

\* The transport fails, the subscriber dies before it commits, or render_sse
\* finds that the view changed: the subscriber polls again from its old cursor.
Lose(s) ==
    /\ pc[s] = "sent" /\ lost < MaxLost /\ lost' = lost + 1
    /\ pc' = [pc EXCEPT ![s] = "idle"] /\ ForgetBatch(s)
    /\ UNCHANGED <<canonical, owed, journal, lock, todo, cursor, copy, deliveries, acks, due, receipts, writes, forgets>>

-----------------------------------------------------------------------------
\* erasure_verify.verify: a receipt for a revoked item when the scan finds none of
\* it and every erasure is acknowledged, nothing otherwise.
verify(i) ==
    /\ pc[Verifier] = "reconciling" /\ todo[Verifier] = {} /\ lock = Nobody
    /\ pc' = [pc EXCEPT ![Verifier] = "idle"]
    /\ receipts' = IF i \in blocked /\ mem[i] = Absent /\ all_acknowledged({i}) THEN receipts \cup {i} ELSE receipts
    /\ UNCHANGED <<canonical, owed, journal, lock, todo, subscriber, due, bounds>>

Consumer(s) ==
    \/ RecoverRead(s) \/ Reconcile(s) \/ PollLock(s) \/ PollEvent(s) \/ PollReturn(s) \/ Receive(s)

Acknowledge(s) == \E n \in Indices : acknowledge(s, n)

Next ==
    \/ \E i \in Items : Forget(i) \/ UndoLedger(i) \/ verify(i)
                      \/ \E v \in 0..Unmatched : Write(i, v) \/ UndoWrite(i, v)
    \/ Publish \/ Expire
    \/ RecoverRead(Verifier) \/ Reconcile(Verifier)
    \/ \E s \in Subs : Consumer(s) \/ Lose(s) \/ Acknowledge(s)

Spec == Init /\ [][Next]_vars

\* Subscribers keep polling and keep acknowledging, and outboxes are recovered.
FairSpec == /\ Spec /\ WF_vars(Publish)
            /\ \A s \in Subs : WF_vars(Consumer(s)) /\ SF_vars(Acknowledge(s))
            /\ WF_vars(Reconcile(Verifier))

-----------------------------------------------------------------------------
(* Properties.                                                             *)

\* Every variable has its type, and the delivery lock excludes.
TypeOK ==
    /\ mem \in [Items -> 0..Unmatched] /\ blocked \subseteq Items /\ owed \subseteq Events
    /\ undoing \subseteq Items /\ restored \subseteq Items
    /\ journal \in Seq(Events) /\ lock \in Subs \cup {Nobody}
    /\ pc \in [Procs -> {"idle", "reconciling", "polling", "sent"}] /\ todo \in [Procs -> SUBSET Indices]
    /\ pos \in [Subs -> 0..Len(journal)] /\ cursor \in [Subs -> 0..Len(journal)]
    /\ batch \in [Subs -> Seq([item: Items, memory: 0..MaxRevision])]
    /\ copy \in [Subs -> [Items -> 0..MaxRevision]]
    /\ deliveries \in [Subs -> SUBSET Indices] /\ acks \in [Subs -> SUBSET Indices]
    /\ due \in 0..Len(journal) /\ receipts \subseteq Items
    /\ \A s \in Subs : pc[s] = "polling" <=> lock = s
    /\ writes \in Nat /\ forgets \in Nat /\ lost \in Nat

Holds(s, i) == \/ copy[s][i] # Nothing
               \/ \E k \in 1..Len(batch[s]) : batch[s][k].item = i /\ batch[s][k].memory # Nothing

\* When verify issues a receipt no subscriber holds a copy of the item, nor is one
\* on its way ("Delivery is registered before egress", and a receipt requires
\* "all tracked downstream ACKs").
Absence(i) == \A s \in Subs : ~Holds(s, i)
ReceiptSound == [][\A i \in receipts' \ receipts : i \notin restored => Absence(i)]_vars

\* The same of every item, also one that had been forgotten or erased before and
\* came back: what erasure_verify's receipt claims.
ReceiptSoundAlways == [][\A i \in receipts' \ receipts : Absence(i)]_vars

\* Nothing is on its way to the journal.
Quiet == /\ owed = {}
         /\ \A s \in Subs : \A i \in Known(s) : i \in blocked => journal[Latest(i)].kind = "erase"

\* A subscriber that read the whole journal has the current view of every item
\* the journal mentions: never a stale copy, and none is missing but of items
\* that came back.
Converged ==
    \A s \in Subs : Quiet /\ pc[s] = "idle" /\ cursor[s] = Len(journal) =>
        \A i \in Items : EventsOf(i) # {} =>
            copy[s][i] = View(i) \/ (copy[s][i] = Nothing /\ i \in restored)

\* A copy that left the view is corrected, by a later batch or by the deletion
\* that precedes an acknowledgement, also when responses are lost and the
\* subscriber was cut off.
StaleCorrected == \A s \in Subs, i \in Items : copy[s][i] # View(i) /\ copy[s][i] # Nothing ~> copy[s][i] \in {View(i), Nothing}
===============================================================================
