------------------------------ MODULE LogProofs ------------------------------
(***************************************************************************)
(* Logs that are written in several steps, by processes that may die after *)
(* any of them.  First ChangeOutbox, for any items, processes and bounds:  *)
(* where content hashes do not come back (Stamped), the outbox implements  *)
(* ChangeLog.  Then Promotion, for any plans, tasks, agents, certifiers    *)
(* and bounds: rows and anchors are appended apart and only ever added,    *)
(* and outcomes are final, so what one read of certify established still   *)
(* holds at every later one.                                               *)
(***************************************************************************)
EXTENDS ChangeOutbox, Promotion, TLAPS

Intents == [before: States, after: States]

\* What a process in each phase may rely on.
Phases ==
    /\ \A p \in Procs : /\ pc[p] \in {"staged", "publishing"} => intent # NoIntent
                        /\ pc[p] \in {"ready", "release"} => intent = NoIntent
                        /\ pc[p] # "publishing" => at[p] = 1 /\ then[p] = "release"
    /\ intent # NoIntent => intent \in Intents /\ intent.before # intent.after

\* No state that was ever recorded carries a stamp of the future.
Past(s) == \A i \in Items : s[i] <= minted
Stamps ==
    /\ Past(store) /\ \A p \in Procs : Past(snap[p])
    /\ intent # NoIntent => Past(intent.before) /\ Past(intent.after)
    /\ \A n \in 1..Len(journal) : Past(journal[n].before) /\ Past(journal[n].after)

IntentEvents == {EventOf(i) : i \in Changed(intent.before, intent.after)}

\* Only the intent's events are owed, and only once it is committed.
OwedByIntent ==
    /\ NothingForgotten
    /\ intent # NoIntent => /\ owed \subseteq IntentEvents
                            /\ store = intent.before => owed = {}
    /\ \A p \in Procs : /\ pc[p] = "staged" => owed = {}
                        /\ pc[p] = "publishing" => \A e \in owed : e.item >= at[p]

\* What is owed, or about to be, is not in the journal.
NotPublished ==
    /\ \A e \in owed : ~Published(e)
    /\ \A p \in Procs : pc[p] = "staged" =>
         \A i \in Changed(intent.before, intent.after) :
           /\ ~Published(EventOf(i))
           /\ intent.after[i] # Absent => \A n \in 1..Len(journal) : journal[n].before[i] < intent.after[i]

\* The snapshot of p is still to be staged.
Writing(p) == pc[p] = "ready" \/ (pc[p] = "publishing" /\ then[p] = "ready")

\* A content hash that a published change replaced never comes back.
Retired(e, s) == e.before[e.item] # Absent => s[e.item] # e.before[e.item]
HashesRetired ==
    /\ \A n \in 1..Len(journal) :
         /\ journal[n].before[journal[n].item] # journal[n].after[journal[n].item]
         /\ Retired(journal[n], store)
         /\ \A p \in Procs : Writing(p) => Retired(journal[n], snap[p])
    /\ \A p \in Procs : pc[p] = "publishing" =>
         \A i \in Changed(intent.before, intent.after) :
           /\ Retired(EventOf(i), store)
           /\ then[p] = "ready" => Retired(EventOf(i), snap[p])

\* The store differs from a snapshot only by edits, which never remove.
SnapPast == \A p \in Procs : Writing(p) => \A i \in Items : store[i] # snap[p][i] => store[i] # Absent

\* Every event of a committed transaction is owed or published.
Accounted ==
    intent # NoIntent /\ (store = intent.after \/ \E p \in Procs : pc[p] = "publishing") =>
      \A i \in Changed(intent.before, intent.after) : EventOf(i) \in owed \/ Published(EventOf(i))

\* The inductive invariant.
IInv == /\ TypeOK /\ Phases /\ Stamps /\ OwedByIntent /\ NotPublished
        /\ HashesRetired /\ SnapPast /\ Accounted

-----------------------------------------------------------------------------
\* Two different states differ at some item, which is what stage records.
LEMMA ChangedSome ==
  ASSUME NEW b \in States, NEW a \in States, a # b
  PROVE  Changed(b, a) # {} /\ Changed(b, a) \subseteq Items
BY DEF States, Changed

\* What appending does to a journal.
LEMMA Appended ==
  ASSUME NEW S, NEW s \in Seq(S), NEW x \in S
  PROVE  LET t == Append(s, x)
         IN  /\ \A n \in 1..Len(t) : t[n] = x \/ (n \in 1..Len(s) /\ t[n] = s[n])
             /\ \A n \in 1..Len(s) : n \in 1..Len(t) /\ t[n] = s[n]
             /\ \E n \in 1..Len(t) : t[n] = x
<1>1. Len(s) + 1 \in 1..Len(Append(s, x)) /\ Append(s, x)[Len(s) + 1] = x
  OBVIOUS
<1> QED BY <1>1

\* complete either appends an event the journal lacks or leaves the journal be.
LEMMA PublishCases ==
  ASSUME NEW p \in Procs, CompletePublish(p)
  PROVE  LET e == EventOf(at[p])
             J == at[p] \in Changed(intent.before, intent.after)
         IN  \/ journal' = journal /\ owed' = owed /\ (J => Published(e))
             \/ J /\ ~Published(e) /\ journal' = Append(journal, e) /\ owed' = owed \ {e}
<1>1. CASE at[p] \in Changed(intent.before, intent.after)
  <2>1. publish(EventOf(at[p]))
    BY <1>1, Zenon DEF CompletePublish
  <2>2. CASE Published(EventOf(at[p]))
    BY <1>1, <2>1, <2>2, Zenon DEF publish
  <2>3. CASE ~Published(EventOf(at[p]))
    BY <1>1, <2>1, <2>3, Zenon DEF publish
  <2> QED BY <2>2, <2>3, Zenon
<1>2. CASE at[p] \notin Changed(intent.before, intent.after)
  BY <1>2, Zenon DEF CompletePublish
<1> QED BY <1>1, <1>2, Zenon

\* Every step keeps the type.
LEMMA TypeStep == TypeOK /\ Phases /\ [Next]_vars => TypeOK'
<1> SUFFICES ASSUME TypeOK, Phases, [Next]_vars PROVE TypeOK'
  BY Zenon
<1>e. Empty \in States
  BY OutboxAssumption DEF Empty, States, Versions, Absent
<1>1. ASSUME NEW p \in Procs, NEW n \in {"ready", "release"}, pc[p] = "idle", guard = Nobody, Recover(p, n),
             UNCHANGED <<store, minted, journal, owed, crashes, edits>>, writes' \in Nat, snap' \in [Procs -> States]
      PROVE  TypeOK'
  <2>1. /\ pc' \in [Procs -> {"idle", "ready", "release", "staged", "publishing"}]
        /\ then' \in [Procs -> {"ready", "release"}] /\ at' = at /\ guard' = p
        /\ intent' \in [before: States, after: States] \cup {NoIntent}
    BY <1>1, Zenon DEF TypeOK, Recover
  <2>2. \A q \in Procs : pc'[q] # "idle" <=> guard' = q
    BY <1>1, OutboxAssumption DEF TypeOK, Recover
  <2> QED BY <1>1, <2>1, <2>2, Zenon DEF TypeOK
<1>2. ASSUME NEW p \in Procs, WriteBegin(p) PROVE TypeOK'
  <2>1. snap' \in [Procs -> States] /\ writes' \in Nat
    BY <1>2 DEF TypeOK, WriteBegin
  <2> QED BY <1>1, <1>2, <2>1, Zenon DEF WriteBegin
<1>3. ASSUME NEW p \in Procs, PollRecover(p) PROVE TypeOK'
  <2>1. snap' \in [Procs -> States] /\ writes' \in Nat
    BY <1>3, Zenon DEF TypeOK, PollRecover, bounds
  <2> QED BY <1>1, <1>3, <2>1, Zenon DEF PollRecover, bounds
<1>4. ASSUME NEW p \in Procs, Leave(p) \/ Crash(p) PROVE TypeOK'
  <2>1. /\ Release(p) /\ pc[p] # "idle"
        /\ UNCHANGED <<store, minted, intent, journal, owed, writes, edits>> /\ crashes' \in Nat
    BY <1>4 DEF Leave, Crash, TypeOK, bounds
  <2>2. \A q \in Procs : pc'[q] # "idle" <=> guard' = q
    BY <2>1, OutboxAssumption, Zenon DEF TypeOK, Release
  <2>3. at' \in [Procs -> 1..(NItems + 1)] /\ snap' \in [Procs -> States]
    BY <1>e, <2>1, OutboxAssumption DEF TypeOK, Release
  <2> QED BY <2>1, <2>2, <2>3, Zenon DEF TypeOK, Release
<1>5. ASSUME NEW p \in Procs, NEW a \in States, stage(p, a) PROVE TypeOK'
  BY <1>5 DEF TypeOK, stage, bounds
<1>6. ASSUME NEW p \in Procs, Commit(p) PROVE TypeOK'
  <2>1. intent \in Intents
    BY <1>6, Zenon DEF Phases, Commit
  <2>2. store' \in States
    BY <1>6, <2>1, Zenon DEF Commit, Intents, States, TypeOK
  <2>3. owed' \subseteq Event
    BY <1>6, <2>1 DEF Commit, Intents, Event, EventOf, Changed, TypeOK
  <2> QED BY <1>6, <2>2, <2>3, Zenon DEF TypeOK, Commit, bounds
<1>7. ASSUME NEW p \in Procs, CompletePublish(p) PROVE TypeOK'
  <2>1. intent \in Intents
    BY <1>7, Zenon DEF Phases, CompletePublish
  <2>2. EventOf(at[p]) \in Event
    BY <1>7, <2>1, Zenon DEF CompletePublish, Intents, Event, EventOf
  <2>3. journal' \in Seq(Event) /\ owed' \subseteq Event
    <3>1. journal \in Seq(Event) /\ owed \subseteq Event
      BY Zenon DEF TypeOK
    <3>2. CASE journal' = journal /\ owed' = owed
      BY <3>1, <3>2, Zenon
    <3>3. CASE journal' = Append(journal, EventOf(at[p])) /\ owed' = owed \ {EventOf(at[p])}
      BY <2>2, <3>1, <3>3
    <3> QED BY <1>7, <3>2, <3>3, PublishCases, Zenon
  <2>4. at' \in [Procs -> 1..(NItems + 1)]
    BY <1>7, OutboxAssumption DEF CompletePublish, TypeOK, Items
  <2> QED BY <1>7, <2>3, <2>4, Zenon DEF TypeOK, CompletePublish, bounds
<1>8. ASSUME NEW p \in Procs, CompleteUnlink(p) PROVE TypeOK'
  <2>1. at' \in [Procs -> 1..(NItems + 1)]
    BY <1>8, OutboxAssumption DEF CompleteUnlink, TypeOK
  <2>2. \A q \in Procs : pc'[q] # "idle" <=> guard' = q
    BY <1>8, Zenon DEF CompleteUnlink, TypeOK
  <2> QED BY <1>8, <2>1, <2>2, Zenon DEF TypeOK, CompleteUnlink, bounds
<1>9. ASSUME NEW a \in States, ExternalEdit(a) PROVE TypeOK'
  BY <1>9 DEF TypeOK, ExternalEdit
<1>10. ASSUME UNCHANGED vars PROVE TypeOK'
  BY <1>10, Zenon DEF TypeOK, vars
<1>11. ASSUME NEW p \in Procs, PollNothing(p) PROVE TypeOK'
  BY <1>10, <1>11, Zenon DEF PollNothing
<1> QED BY <1>2, <1>3, <1>4, <1>5, <1>6, <1>7, <1>8, <1>9, <1>10, <1>11, Zenon DEF Next, ProcStep

-----------------------------------------------------------------------------
\* What entering the guard (for a write or a poll) and leaving it have in common.
Enter(p, n) ==
    /\ pc[p] = "idle" /\ guard = Nobody /\ Recover(p, n)
    /\ UNCHANGED <<store, minted, journal, owed>>
    /\ \/ n = "ready" /\ snap' = [snap EXCEPT ![p] = store]
       \/ n = "release" /\ snap' = snap
Exit(p) == pc[p] # "idle" /\ Release(p) /\ UNCHANGED <<store, minted, intent, journal, owed>>

Rest == /\ Phases /\ Stamps /\ OwedByIntent /\ NotPublished
        /\ HashesRetired /\ SnapPast /\ Accounted

\* Everybody but the holder of the guard is idle.
LEMMA Others ==
  ASSUME TypeOK, NEW p \in Procs, pc[p] # "idle" \/ guard = Nobody
  PROVE  \A q \in Procs \ {p} : pc[q] = "idle"
BY OutboxAssumption, Zenon DEF TypeOK

\* Entering the guard, with the recovery that comes with it.
LEMMA EnterStep ==
  ASSUME IInv, TypeOK', NEW p \in Procs, NEW n \in {"ready", "release"}, Enter(p, n)
  PROVE  Rest'
<1>o. \A q \in Procs \ {p} : pc[q] = "idle" /\ pc'[q] = "idle"
  BY Others, Zenon DEF IInv, Enter, Recover, TypeOK
<1>t. /\ \A q \in Procs : at'[q] = at[q] /\ at[q] = 1
      /\ \A q \in Procs : pc'[q] # "publishing" => then'[q] = "release"
      /\ UNCHANGED <<store, minted, journal, owed>>
      /\ n = "ready" => snap'[p] = store
      /\ \A q \in Procs : snap'[q] \in {snap[q], store}
      /\ pc[p] = "idle"
  BY <1>o DEF IInv, Enter, Recover, TypeOK, Phases
<1>c. \/ intent' = NoIntent /\ pc'[p] = n /\ owed = {}
      \/ intent' = intent /\ intent # NoIntent /\ store = intent.after /\ pc'[p] = "publishing" /\ then'[p] = n
  BY ZenonT(30) DEF Enter, Recover, IInv, OwedByIntent, NothingForgotten, TypeOK
<1>1. Phases'
  BY <1>o, <1>t, <1>c, ZenonT(30) DEF Phases, IInv
<1>2. Stamps'
  BY <1>o, <1>t, <1>c, Zenon DEF Stamps, IInv, Past
<1>3. OwedByIntent'
  <2>1. CASE intent' = NoIntent /\ pc'[p] = n /\ owed = {}
    BY <1>o, <1>t, <2>1, Zenon DEF OwedByIntent, NothingForgotten
  <2>2. CASE intent' = intent /\ intent # NoIntent /\ store = intent.after /\ pc'[p] = "publishing"
    <3>1. \A e \in owed : e.item >= 1
      BY DEF IInv, TypeOK, Event, Items
    <3> QED BY <1>o, <1>t, <2>2, <3>1 DEF OwedByIntent, NothingForgotten, IInv, IntentEvents, EventOf
  <2> QED BY <1>c, <2>1, <2>2, Zenon
<1>4. NotPublished'
  BY <1>o, <1>t, <1>c, Zenon DEF NotPublished, IInv, Published
<1>5. HashesRetired'
  <2>1. \A i \in Changed(intent.before, intent.after) : intent # NoIntent /\ store = intent.after => Retired(EventOf(i), store)
    BY Zenon DEF Retired, Changed, EventOf
  <2>2. CASE intent' = NoIntent /\ pc'[p] = n
    BY <1>o, <1>t, <2>2 DEF HashesRetired, IInv, Retired, Writing
  <2>3. CASE intent' = intent /\ intent # NoIntent /\ store = intent.after /\ pc'[p] = "publishing" /\ then'[p] = n
    BY <1>o, <1>t, <2>1, <2>3 DEF HashesRetired, IInv, Retired, Writing, EventOf
  <2> QED BY <1>c, <2>2, <2>3, Zenon
<1>6. SnapPast'
  BY <1>o, <1>t, <1>c, Zenon DEF SnapPast, Writing
<1>7. Accounted'
  BY <1>o, <1>t, <1>c, ZenonT(30) DEF Accounted, IInv, Published, EventOf
<1> QED BY <1>1, <1>2, <1>3, <1>4, <1>5, <1>6, <1>7, Zenon DEF Rest

\* Leaving the guard, also by dying: what was staged or half published stays so.
LEMMA ExitStep ==
  ASSUME IInv, TypeOK', NEW p \in Procs, Exit(p)
  PROVE  Rest'
<1>o. \A q \in Procs : pc'[q] = "idle" /\ at'[q] = 1 /\ then'[q] = "release"
  BY Others DEF IInv, Exit, Release, TypeOK, Phases
<1>t. /\ UNCHANGED <<store, minted, intent, journal, owed>>
      /\ \A q \in Procs : snap'[q] \in {snap[q], Empty}
  BY ZenonT(30) DEF IInv, Exit, Release, TypeOK
<1>1. Phases'
  BY <1>o, <1>t, Zenon DEF Phases, IInv
<1>2. Stamps'
  <2>1. \A q \in Procs : Past(snap'[q])
    <3>1. Past(Empty)
      BY DEF IInv, Past, Empty, Absent, TypeOK
    <3> QED BY <1>t, <3>1, Zenon DEF Stamps, IInv
  <2> QED BY <1>t, <2>1, Zenon DEF Stamps, IInv, Past
<1>3. OwedByIntent'
  BY <1>o, <1>t, Zenon DEF OwedByIntent, NothingForgotten, IInv, IntentEvents, EventOf
<1>4. NotPublished'
  BY <1>o, <1>t, Zenon DEF NotPublished, IInv, Published
<1>5. HashesRetired'
  BY <1>o, <1>t, Zenon DEF HashesRetired, IInv, Retired, Writing
<1>6. SnapPast'
  BY <1>o, Zenon DEF SnapPast, Writing
<1>7. Accounted'
  BY <1>o, <1>t, Zenon DEF Accounted, IInv, Published, EventOf
<1> QED BY <1>1, <1>2, <1>3, <1>4, <1>5, <1>6, <1>7, Zenon DEF Rest

\* Staging: neither the new intent's events nor its new hashes are in the journal,
\* for hashes in the snapshot are not retired and the others are new.
LEMMA StageStep ==
  ASSUME IInv, Stamped, TypeOK', NEW p \in Procs, NEW a \in States, stage(p, a)
  PROVE  Rest'
<1>o. \A q \in Procs \ {p} : pc[q] = "idle" /\ pc'[q] = "idle"
  BY Others, Zenon DEF IInv, stage, TypeOK
<1>t. /\ UNCHANGED <<store, journal, snap, at, then, owed>>
      /\ intent' = [before |-> snap[p], after |-> a] /\ minted' = minted + 1
      /\ snap[p] \in States /\ a # snap[p] /\ minted \in Nat /\ store \in States
      /\ pc[p] = "ready" /\ pc'[p] = "staged" /\ at[p] = 1 /\ owed = {}
      /\ \A i \in Items : a[i] # snap[p][i] => a[i] \in {Absent, minted + 1}
  BY Zenon DEF IInv, stage, TypeOK, Phases, OwedByIntent, NothingForgotten, Writes, Changed, States
<1>p. /\ \A i \in Items : snap[p][i] <= minted /\ store[i] <= minted
      /\ \A n \in 1..Len(journal) : /\ journal[n] \in Event
                                    /\ \A i \in Items : journal[n].before[i] <= minted /\ journal[n].after[i] <= minted
  BY DEF IInv, Stamps, Past, TypeOK
<1>v. /\ \A i \in Items : snap[p][i] \in Nat /\ a[i] \in Nat /\ store[i] \in Nat
      /\ \A n \in 1..Len(journal), i \in Items : journal[n].before[i] \in Nat /\ journal[n].after[i] \in Nat
  <2>1. \A s \in States, i \in Items : s[i] \in Nat
    BY OutboxAssumption DEF States, Versions
  <2>2. \A n \in 1..Len(journal) : journal[n].before \in States /\ journal[n].after \in States
    BY <1>p, Zenon DEF Event
  <2> QED BY <1>t, <2>1, <2>2, Zenon
<1>c. Changed(intent.before, intent.after)' = {i \in Items : snap[p][i] # a[i]}
  BY <1>t, Zenon DEF Changed
<1>1. Phases'
  <2>1. intent' # NoIntent
    <3>1. intent'.before # intent'.after
      BY <1>t, Zenon
    <3> QED BY <3>1 DEF NoIntent
  <2> QED BY <1>o, <1>t, <2>1, Zenon DEF Phases, IInv, Intents
<1>2. Stamps'
  <2>1. Past(intent.after)'
    BY <1>t, <1>p, <1>v DEF Past, Absent
  <2>2. Past(intent.before)' /\ Past(store)' /\ \A q \in Procs : Past(snap[q])'
    <3>1. \A q \in Procs, i \in Items : snap[q][i] \in Nat /\ snap[q][i] <= minted
      BY OutboxAssumption DEF IInv, Stamps, Past, TypeOK, States, Versions
    <3> QED BY <1>t, <1>p, <1>v, <3>1 DEF Past
  <2>3. \A n \in 1..Len(journal) : Past(journal[n].before)' /\ Past(journal[n].after)'
    BY <1>t, <1>p, <1>v DEF Past
  <2> QED BY <1>t, <2>1, <2>2, <2>3, Zenon DEF Stamps
<1>3. OwedByIntent'
  BY <1>o, <1>t, Zenon DEF OwedByIntent, NothingForgotten
<1>4. NotPublished'
  <2> SUFFICES ASSUME NEW i \in Items, snap[p][i] # a[i]
               PROVE  /\ ~Published(EventOf(i))'
                      /\ a[i] # Absent => \A n \in 1..Len(journal) : journal[n].before[i] < a[i]
    BY <1>o, <1>t, <1>c, Zenon DEF NotPublished
  <2>1. a[i] # Absent => \A n \in 1..Len(journal) : journal[n].before[i] < a[i]
    BY <1>t, <1>p, <1>v
  <2>2. ASSUME NEW n \in 1..Len(journal), journal[n] = [item |-> i, before |-> snap[p], after |-> a] PROVE FALSE
    <3>1. CASE snap[p][i] # Absent
      BY <1>t, <2>2, <3>1 DEF IInv, HashesRetired, Retired, Writing
    <3>2. CASE snap[p][i] = Absent
      BY <1>t, <1>p, <1>v, <2>2, <3>2
    <3> QED BY <3>1, <3>2, Zenon
  <2> QED BY <1>t, <2>1, <2>2, Zenon DEF Published, EventOf
<1>5. HashesRetired'
  BY <1>o, <1>t, Zenon DEF HashesRetired, IInv, Retired, Writing
<1>6. SnapPast'
  BY <1>o, <1>t, Zenon DEF SnapPast, Writing
<1>7. Accounted'
  <2>1. store # a
    <3>1. PICK i \in Items : a[i] # snap[p][i]
      BY <1>t DEF States
    <3>2. a[i] = Absent => store[i] # a[i]
      BY <1>t, <3>1, Zenon DEF IInv, SnapPast, Writing
    <3>3. a[i] = minted + 1 => store[i] # a[i]
      BY <1>p, <1>v, <1>t
    <3> QED BY <1>t, <3>1, <3>2, <3>3, Zenon
  <2> QED BY <1>o, <1>t, <2>1, Zenon DEF Accounted
<1> QED BY <1>1, <1>2, <1>3, <1>4, <1>5, <1>6, <1>7, Zenon DEF Rest

\* The commit: from now on the intent's events are owed.
LEMMA CommitStep ==
  ASSUME IInv, TypeOK', NEW p \in Procs, Commit(p)
  PROVE  Rest'
<1> DEFINE C == Changed(intent.before, intent.after)
<1>o. \A q \in Procs \ {p} : pc[q] = "idle" /\ pc'[q] = "idle"
  BY Others, Zenon DEF IInv, Commit, TypeOK
<1>t. /\ UNCHANGED <<minted, intent, journal, snap, at, then>>
      /\ owed = {} /\ owed' = IntentEvents
      /\ pc[p] = "staged" /\ pc'[p] = "publishing" /\ at[p] = 1 /\ then[p] = "release"
      /\ intent # NoIntent /\ intent \in Intents
      /\ \A i \in C : store'[i] = intent.after[i]
      /\ \A i \in Items \ C : store'[i] = store[i]
  BY Zenon DEF IInv, Commit, TypeOK, Phases, OwedByIntent, IntentEvents, Changed
<1>c. C # {} /\ C \subseteq Items /\ \A i \in C : intent.before[i] # intent.after[i]
  BY <1>t, ChangedSome, Zenon DEF IInv, Phases, Intents, Changed
<1>1. Phases'
  BY <1>o, <1>t, Zenon DEF Phases, IInv
<1>2. Stamps'
  BY <1>t, Zenon DEF Stamps, IInv, Past
<1>3. OwedByIntent'
  <2>1. store' # intent.before
    BY <1>t, <1>c, Zenon
  <2>2. \A e \in owed' : e.item >= 1
    BY <1>t, <1>c DEF IntentEvents, EventOf, Items
  <2> QED BY <1>o, <1>t, <2>1, <2>2, Zenon DEF OwedByIntent, NothingForgotten, IntentEvents, EventOf
<1>4. NotPublished'
  <2>1. \A i \in C : ~Published(EventOf(i))
    BY <1>t, Zenon DEF IInv, NotPublished
  <2> QED BY <1>o, <1>t, <2>1 DEF NotPublished, IntentEvents, Published
<1>5. HashesRetired'
  <2>1. ASSUME NEW n \in 1..Len(journal) PROVE Retired(journal[n], store')
    <3>1. journal[n].item \in Items /\ Retired(journal[n], store) /\ journal[n].before \in States
      <4>1. journal[n] \in Event
        BY DEF IInv, TypeOK
      <4> QED BY <4>1, Zenon DEF IInv, HashesRetired, Event
    <3>2. CASE journal[n].item \in C
      <4>1. /\ intent.after[journal[n].item] # Absent =>
                journal[n].before[journal[n].item] < intent.after[journal[n].item]
            /\ journal[n].before[journal[n].item] \in Nat
        <5>1. journal[n].before[journal[n].item] \in Nat
          BY <3>1, OutboxAssumption DEF States, Versions
        <5> QED BY <1>t, <3>2, <5>1, Zenon DEF IInv, NotPublished
      <4>2. store'[journal[n].item] = intent.after[journal[n].item]
        BY <1>t, <3>2, Zenon
      <4> QED BY <4>1, <4>2 DEF Retired
    <3>3. CASE journal[n].item \notin C
      BY <1>t, <3>1, <3>3, Zenon DEF Retired
    <3> QED BY <3>2, <3>3, Zenon
  <2>2. \A i \in C : Retired(EventOf(i), store')
    BY <1>t, <1>c, Zenon DEF Retired, EventOf
  <2> QED BY <1>o, <1>t, <2>1, <2>2, Zenon DEF HashesRetired, IInv, Retired, Writing, EventOf
<1>6. SnapPast'
  BY <1>o, <1>t, Zenon DEF SnapPast, Writing
<1>7. Accounted'
  BY <1>t, Zenon DEF Accounted, IntentEvents, EventOf
<1> QED BY <1>1, <1>2, <1>3, <1>4, <1>5, <1>6, <1>7, Zenon DEF Rest

\* One publication: an owed event moves to the journal.
LEMMA PublishStep ==
  ASSUME IInv, TypeOK', NEW p \in Procs, CompletePublish(p)
  PROVE  Rest'
<1> DEFINE C == Changed(intent.before, intent.after)
           e == EventOf(at[p])
<1>o. \A q \in Procs \ {p} : pc[q] = "idle"
  BY Others, Zenon DEF IInv, CompletePublish, TypeOK
<1>t. /\ UNCHANGED <<store, minted, intent, pc, snap, then>>
      /\ pc[p] = "publishing" /\ at[p] \in Items /\ at'[p] = at[p] + 1
      /\ \A q \in Procs \ {p} : at'[q] = at[q]
      /\ intent # NoIntent /\ intent \in Intents
      /\ journal \in Seq(Event)
  BY ZenonT(30) DEF IInv, CompletePublish, TypeOK, Phases
<1>c. \/ journal' = journal /\ owed' = owed /\ (at[p] \in C => Published(e))
      \/ at[p] \in C /\ ~Published(e) /\ journal' = Append(journal, e) /\ owed' = owed \ {e}
  BY PublishCases, Zenon
<1>e. e \in Event /\ e.item = at[p] /\ e.before = intent.before /\ e.after = intent.after
  BY <1>t, Zenon DEF EventOf, Event, Intents
<1>j. /\ owed' \subseteq owed
      /\ \A n \in 1..Len(journal') : (journal'[n] = e /\ at[p] \in C) \/ (n \in 1..Len(journal) /\ journal'[n] = journal[n])
      /\ \A n \in 1..Len(journal) : n \in 1..Len(journal') /\ journal'[n] = journal[n]
      /\ at[p] \in C => \E n \in 1..Len(journal') : journal'[n] = e
  <2>1. CASE journal' = journal /\ owed' = owed /\ (at[p] \in C => Published(e))
    BY <2>1, Zenon DEF Published
  <2>2. CASE at[p] \in C /\ ~Published(e) /\ journal' = Append(journal, e) /\ owed' = owed \ {e}
    <3>1. journal \in Seq(Event) /\ e \in Event
      BY <1>t, <1>e, Zenon
    <3> HIDE DEF e, C
    <3> QED BY <2>2, <3>1, Appended
  <2> QED BY <1>c, <2>1, <2>2, Zenon
<1>d. e \notin owed'
  <2>1. Published(e) => e \notin owed
    BY Zenon DEF IInv, NotPublished
  <2>2. e \in owed => at[p] \in C
    BY <1>t, <1>e, Zenon DEF IInv, OwedByIntent, IntentEvents, EventOf
  <2> QED BY <1>c, <2>1, <2>2, Zenon
<1>1. Phases'
  BY <1>o, <1>t, Zenon DEF Phases, IInv
<1>2. Stamps'
  <2>1. \A n \in 1..Len(journal') : Past(journal'[n].before) /\ Past(journal'[n].after)
    BY <1>t, <1>e, <1>j, Zenon DEF Stamps, IInv
  <2> QED BY <1>t, <2>1, Zenon DEF Stamps, IInv, Past
<1>3. OwedByIntent'
  <2>1. \A x \in owed' : x.item >= at[p] + 1
    <3> TAKE x \in owed'
    <3>1. x \in IntentEvents /\ x.item >= at[p] /\ x.item \in Nat
      BY <1>t, <1>j DEF IInv, OwedByIntent, TypeOK, Event, Items
    <3>2. x.item # at[p]
      BY <1>d, <3>1 DEF IntentEvents, EventOf
    <3> QED BY <1>t, <3>1, <3>2 DEF Items
  <2> QED BY <1>o, <1>t, <1>j, <2>1 DEF IInv, OwedByIntent, NothingForgotten, IntentEvents, EventOf
<1>4. NotPublished'
  <2>1. \A x \in owed' : ~\E n \in 1..Len(journal') : journal'[n] = x
    BY <1>j, <1>d, Zenon DEF IInv, NotPublished, Published
  <2> QED BY <1>o, <1>t, <2>1, Zenon DEF NotPublished, Published
<1>5. HashesRetired'
  <2>1. at[p] \in C => /\ Retired(e, store) /\ (then[p] = "ready" => Retired(e, snap[p]))
                       /\ e.before[e.item] # e.after[e.item]
    BY <1>t, <1>e, Zenon DEF IInv, HashesRetired, Changed
  <2>2. \A q \in Procs : Writing(q) => q = p /\ then[p] = "ready"
    BY <1>o, <1>t, Zenon DEF Writing
  <2>3. \A n \in 1..Len(journal') :
           /\ journal'[n].before[journal'[n].item] # journal'[n].after[journal'[n].item]
           /\ Retired(journal'[n], store)
           /\ \A q \in Procs : Writing(q) => Retired(journal'[n], snap[q])
    BY <1>j, <2>1, <2>2, Zenon DEF IInv, HashesRetired
  <2> QED BY <1>t, <2>3, ZenonT(30) DEF IInv, HashesRetired, Writing, Retired, EventOf
<1>6. SnapPast'
  BY <1>t, Zenon DEF SnapPast, Writing, IInv
<1>7. Accounted'
  <2>1. \A i \in C : EventOf(i) \in owed \/ Published(EventOf(i))
    BY <1>t, Zenon DEF IInv, Accounted
  <2>2. \A i \in C : EventOf(i) \in owed' \/ \E n \in 1..Len(journal') : journal'[n] = EventOf(i)
    <3> TAKE i \in C
    <3>1. CASE Published(EventOf(i))
      BY <1>j, <3>1, Zenon DEF Published
    <3>2. CASE EventOf(i) \in owed
      BY <1>c, <1>j, <3>2, Zenon
    <3> QED BY <2>1, <3>1, <3>2, Zenon
  <2> QED BY <1>t, <2>2, Zenon DEF Accounted, Published, EventOf
<1> QED BY <1>1, <1>2, <1>3, <1>4, <1>5, <1>6, <1>7, Zenon DEF Rest

\* Removing the intent: every item was passed, so nothing is owed.
LEMMA UnlinkStep ==
  ASSUME IInv, TypeOK', NEW p \in Procs, CompleteUnlink(p)
  PROVE  Rest'
<1>o. \A q \in Procs \ {p} : pc[q] = "idle" /\ pc'[q] = "idle" /\ at'[q] = at[q] /\ then'[q] = then[q]
  BY Others DEF IInv, CompleteUnlink, TypeOK
<1>t. /\ UNCHANGED <<store, minted, journal, snap, owed>> /\ intent' = NoIntent
      /\ pc[p] = "publishing" /\ pc'[p] = then[p] /\ at'[p] = 1 /\ then'[p] = "release"
      /\ then[p] \in {"ready", "release"} /\ at[p] \in 1..(NItems + 1) /\ at[p] \notin Items
  BY ZenonT(30) DEF IInv, CompleteUnlink, TypeOK
<1>w. owed = {}
  <2>1. at[p] > NItems
    BY <1>t, OutboxAssumption DEF Items
  <2>2. \A e \in owed : e.item \in Items /\ e.item >= at[p]
    BY <1>t, Zenon DEF IInv, OwedByIntent, TypeOK, Event
  <2> QED BY <1>t, <2>1, <2>2, OutboxAssumption DEF Items
<1>1. Phases'
  BY <1>o, <1>t, ZenonT(30) DEF Phases, IInv
<1>2. Stamps'
  BY <1>t, Zenon DEF Stamps, IInv, Past
<1>3. OwedByIntent'
  BY <1>o, <1>t, <1>w, Zenon DEF OwedByIntent, NothingForgotten
<1>4. NotPublished'
  BY <1>o, <1>t, <1>w, Zenon DEF NotPublished
<1>5. HashesRetired'
  BY <1>o, <1>t DEF HashesRetired, IInv, Retired, Writing
<1>6. SnapPast'
  BY <1>o, <1>t, Zenon DEF SnapPast, IInv, Writing
<1>7. Accounted'
  BY <1>t, Zenon DEF Accounted
<1> QED BY <1>1, <1>2, <1>3, <1>4, <1>5, <1>6, <1>7, Zenon DEF Rest

\* A save behind the outbox's back brings new hashes only: it makes the store
\* neither the intent's before nor its after.
LEMMA EditStep ==
  ASSUME IInv, Stamped, TypeOK', NEW a \in States, ExternalEdit(a)
  PROVE  Rest'
<1>t. /\ UNCHANGED <<intent, journal, pc, snap, at, then, owed>>
      /\ store' = a /\ minted' = minted + 1 /\ minted \in Nat /\ store \in States /\ a # store
      /\ \A i \in Items : a[i] # store[i] => a[i] = minted + 1
  BY Zenon DEF IInv, ExternalEdit, TypeOK, Writes, Changed, States
<1>v. \A s \in States, i \in Items : s[i] \in Nat
  BY OutboxAssumption DEF States, Versions
<1>n. /\ \A n \in 1..Len(journal) : journal[n] \in Event /\ journal[n].before \in States /\ journal[n].after \in States
      /\ \A q \in Procs : snap[q] \in States
      /\ intent # NoIntent => intent.before \in States /\ intent.after \in States
  <2>1. \A n \in 1..Len(journal) : journal[n] \in Event
    BY DEF IInv, TypeOK
  <2> QED BY <2>1, Zenon DEF IInv, TypeOK, Phases, Event, Intents
<1>p. \A s \in States : Past(s) => /\ s # a
                                   /\ \A i \in Items : s[i] <= minted + 1
                                   /\ \A i \in Items : store[i] # s[i] => a[i] # s[i]
  <2>1. PICK i \in Items : a[i] # store[i]
    BY <1>t DEF States
  <2> QED BY <1>t, <1>v, <2>1 DEF Past
<1>1. Phases'
  BY <1>t, Zenon DEF Phases, IInv
<1>2. Stamps'
  <2>1. Past(store)'
    BY <1>t, <1>v DEF Past, IInv, Stamps
  <2>2. \A s \in States : Past(s) => \A i \in Items : s[i] <= minted'
    BY <1>t, <1>p, Zenon
  <2> QED BY <1>t, <1>n, <2>1, <2>2, Zenon DEF Stamps, IInv, Past
<1>3. OwedByIntent'
  <2>1. intent # NoIntent => intent.before # a
    BY <1>n, <1>p, Zenon DEF IInv, Stamps
  <2> QED BY <1>t, <2>1, Zenon DEF IInv, OwedByIntent, NothingForgotten, IntentEvents, EventOf
<1>4. NotPublished'
  BY <1>t, Zenon DEF NotPublished, IInv, Published, EventOf
<1>5. HashesRetired'
  <2>1. ASSUME NEW n \in 1..Len(journal) PROVE Retired(journal[n], a)
    <3>1. journal[n].item \in Items /\ Past(journal[n].before) /\ Retired(journal[n], store)
      BY <1>n, Zenon DEF IInv, Stamps, HashesRetired, Event
    <3> QED BY <1>n, <1>p, <3>1, Zenon DEF Retired
  <2>2. ASSUME NEW i \in Items, intent # NoIntent, Retired(EventOf(i), store) PROVE Retired(EventOf(i), a)
    <3>1. Past(intent.before)
      BY <2>2, Zenon DEF IInv, Stamps
    <3> QED BY <1>n, <1>p, <2>2, <3>1, Zenon DEF Retired, EventOf
  <2>3. \A q \in Procs : pc[q] = "publishing" =>
          /\ intent # NoIntent
          /\ \A i \in Changed(intent.before, intent.after) : i \in Items /\ Retired(EventOf(i), store)
    BY Zenon DEF IInv, Phases, HashesRetired, Changed
  <2>4. \A q \in Procs : pc[q] = "publishing" =>
          \A i \in Changed(intent.before, intent.after) : Retired(EventOf(i), a)
    BY <2>2, <2>3, Zenon
  <2> QED BY <1>t, <2>1, <2>4, ZenonT(30) DEF HashesRetired, IInv, Retired, Writing, EventOf
<1>6. SnapPast'
  <2>1. \A i \in Items : a[i] # store[i] => a[i] # Absent
    BY <1>t DEF Absent
  <2> QED BY <1>t, <2>1, Zenon DEF SnapPast, IInv, Writing
<1>7. Accounted'
  <2>1. intent # NoIntent => intent.after # a
    BY <1>n, <1>p, Zenon DEF IInv, Stamps
  <2> QED BY <1>t, <2>1, Zenon DEF Accounted, IInv, Published, EventOf
<1> QED BY <1>1, <1>2, <1>3, <1>4, <1>5, <1>6, <1>7, Zenon DEF Rest

\* A step that changes nothing.
LEMMA Still == IInv /\ UNCHANGED vars => Rest'
<1> SUFFICES ASSUME IInv, UNCHANGED vars PROVE Rest'
  BY Zenon
<1>1. Phases' /\ Stamps'
  BY Zenon DEF IInv, vars, Phases, Stamps, Past
<1>2. OwedByIntent' /\ NotPublished'
  BY Zenon DEF IInv, vars, OwedByIntent, NothingForgotten, IntentEvents, NotPublished, Published, EventOf
<1>3. HashesRetired' /\ SnapPast'
  BY ZenonT(30) DEF IInv, vars, HashesRetired, SnapPast, Retired, Writing, EventOf
<1>4. Accounted'
  BY Zenon DEF IInv, vars, Accounted, Published, EventOf
<1> QED BY <1>1, <1>2, <1>3, <1>4, Zenon DEF Rest

-----------------------------------------------------------------------------
\* Every step keeps the inductive invariant, action by action.
LEMMA InvStep == Stamped /\ IInv /\ [Next]_vars => IInv'
<1> SUFFICES ASSUME Stamped, IInv, [Next]_vars PROVE Rest' /\ TypeOK'
  BY Zenon DEF Rest, IInv
<1>t. TypeOK'
  BY TypeStep, Zenon DEF IInv
<1>1. ASSUME NEW p \in Procs, WriteBegin(p) PROVE Rest'
  <2>1. Enter(p, "ready")
    BY <1>1, Zenon DEF WriteBegin, Enter
  <2> QED BY <1>t, <2>1, EnterStep, Zenon
<1>2. ASSUME NEW p \in Procs, PollRecover(p) PROVE Rest'
  <2>1. Enter(p, "release")
    BY <1>2, Zenon DEF PollRecover, Enter
  <2> QED BY <1>t, <2>1, EnterStep, Zenon
<1>3. ASSUME NEW p \in Procs, Leave(p) \/ Crash(p) PROVE Rest'
  <2>1. Exit(p)
    BY <1>3, Zenon DEF Leave, Crash, Exit
  <2> QED BY <1>t, <2>1, ExitStep, Zenon
<1>4. ASSUME NEW p \in Procs, NEW a \in States, stage(p, a) PROVE Rest'
  BY <1>t, <1>4, StageStep, Zenon
<1>5. ASSUME NEW p \in Procs, Commit(p) PROVE Rest'
  BY <1>t, <1>5, CommitStep, Zenon
<1>6. ASSUME NEW p \in Procs, CompletePublish(p) PROVE Rest'
  BY <1>t, <1>6, PublishStep, Zenon
<1>7. ASSUME NEW p \in Procs, CompleteUnlink(p) PROVE Rest'
  BY <1>t, <1>7, UnlinkStep, Zenon
<1>8. ASSUME NEW a \in States, ExternalEdit(a) PROVE Rest'
  BY <1>t, <1>8, EditStep, Zenon
<1>9. ASSUME UNCHANGED vars PROVE Rest'
  BY <1>9, Still, Zenon
<1>10. ASSUME NEW p \in Procs, PollNothing(p) PROVE Rest'
  BY <1>9, <1>10, Zenon DEF PollNothing
<1> QED BY <1>t, <1>1, <1>2, <1>3, <1>4, <1>5, <1>6, <1>7, <1>8, <1>9, <1>10, Zenon DEF Next, ProcStep

\* Capture starts with nothing staged, owed or published.
LEMMA InvInit == Init => IInv
<1> SUFFICES ASSUME Init PROVE IInv
  BY Zenon
<1>1. TypeOK
  <2>1. store \in States /\ Empty \in States
    BY OutboxAssumption DEF Init, States, Versions, Absent, Empty
  <2>2. at \in [Procs -> 1..(NItems + 1)]
    BY OutboxAssumption DEF Init
  <2>3. journal \in Seq(Event)
    BY DEF Init
  <2> QED BY <2>1, <2>2, <2>3, OutboxAssumption, Zenon DEF Init, TypeOK
<1>2. Phases /\ OwedByIntent /\ NotPublished /\ HashesRetired /\ SnapPast /\ Accounted
  BY DEF Init, Phases, OwedByIntent, NothingForgotten, NotPublished, HashesRetired, SnapPast, Writing, Accounted
<1>3. Stamps
  BY DEF Init, Stamps, Past, Absent, Empty
<1> QED BY <1>1, <1>2, <1>3, Zenon DEF IInv

\* The inductive invariant holds of every behaviour in which hashes do not come
\* back (a body carries its update time, as in change_stream.snapshot of facts).
THEOREM Invariant == ASSUME Stamped PROVE Spec => []IInv
<1>1. Init => IInv
  BY InvInit, Zenon
<1>2. IInv /\ [Next]_vars => IInv'
  BY InvStep, Zenon
<1> QED BY <1>1, <1>2, PTL DEF Spec

\* Guard, intent, states and journal of the outbox keep their types.
THEOREM TypeCorrect == ASSUME Stamped PROVE Spec => []TypeOK
<1>1. IInv => TypeOK
  BY Zenon DEF IInv
<1> QED BY <1>1, Invariant, PTL

\* complete and recover remove an intent only when every committed change is in
\* the journal, and the guard excludes.
THEOREM Remembered == ASSUME Stamped PROVE Spec => [](TypeOK /\ NothingForgotten)
<1>1. IInv => TypeOK /\ NothingForgotten
  BY Zenon DEF IInv, OwedByIntent
<1> QED BY <1>1, Invariant, PTL

\* Each step of the outbox is a step of the promised log or leaves it alone.
LEMMA Simulates == IInv /\ [Next]_vars => [Promise!Next]_<<journal, owed>>
<1> SUFFICES ASSUME IInv, [Next]_vars PROVE [Promise!Next]_<<journal, owed>>
  BY Zenon
<1>1. ASSUME NEW p \in Procs, WriteBegin(p) \/ PollRecover(p) \/ PollNothing(p) \/ Leave(p) \/ Crash(p) \/ CompleteUnlink(p)
      PROVE  UNCHANGED <<journal, owed>>
  BY <1>1, Zenon DEF WriteBegin, PollRecover, PollNothing, Leave, Crash, CompleteUnlink, vars
<1>2. ASSUME NEW p \in Procs, NEW a \in States, stage(p, a) PROVE UNCHANGED <<journal, owed>>
  BY <1>2, Zenon DEF stage
<1>3. ASSUME NEW a \in States, ExternalEdit(a) PROVE UNCHANGED <<journal, owed>>
  BY <1>3, Zenon DEF ExternalEdit
<1>4. ASSUME NEW p \in Procs, Commit(p) PROVE Promise!Commit
  <2>1. owed = {} /\ owed' = IntentEvents /\ journal' = journal /\ intent \in Intents /\ intent.before # intent.after
    BY <1>4, Zenon DEF IInv, Commit, OwedByIntent, IntentEvents, Phases
  <2>2. Changed(intent.before, intent.after) # {} /\ Changed(intent.before, intent.after) \subseteq Items
    BY <2>1, ChangedSome, Zenon DEF Intents
  <2>3. IntentEvents # {} /\ IntentEvents \subseteq Event
    <3>1. \A i \in Items : EventOf(i) \in Event
      BY <2>1, Zenon DEF EventOf, Event, Intents
    <3> QED BY <2>2, <3>1, Zenon DEF IntentEvents
  <2> QED BY <2>1, <2>3, Zenon DEF Promise!Commit
<1>5. ASSUME NEW p \in Procs, CompletePublish(p) PROVE [Promise!Next]_<<journal, owed>>
  <2>1. CASE journal' = journal /\ owed' = owed
    BY <2>1, Zenon
  <2>2. CASE /\ at[p] \in Changed(intent.before, intent.after) /\ ~Published(EventOf(at[p]))
             /\ journal' = Append(journal, EventOf(at[p])) /\ owed' = owed \ {EventOf(at[p])}
    <3>1. EventOf(at[p]) \in owed
      BY <1>5, <2>2, Zenon DEF IInv, Accounted, Phases, CompletePublish
    <3> QED BY <2>2, <3>1, Zenon DEF Promise!Next, Promise!Publish
  <2> QED BY <1>5, <2>1, <2>2, PublishCases, Zenon
<1>6. ASSUME UNCHANGED vars PROVE UNCHANGED <<journal, owed>>
  BY <1>6, Zenon DEF vars
<1> QED BY <1>1, <1>2, <1>3, <1>4, <1>5, <1>6, Zenon DEF Next, ProcStep, Promise!Next

\* The outbox implements the promised log: every committed change is published
\* once and in commit order, whatever dies in between.
THEOREM Implements == ASSUME Stamped PROVE Spec => LogPromise
<1>1. Init => Promise!Init
  BY Zenon DEF Init, Promise!Init
<1>2. IInv /\ [Next]_vars => [Promise!Next]_<<journal, owed>>
  BY Simulates, Zenon
<1> QED BY <1>1, <1>2, Invariant, PTL DEF Spec, LogPromise, Promise!Spec

-----------------------------------------------------------------------------
(* Change trials and their certificates.                                   *)

\* Rows of a plan with their outcomes; what the first read selects.
Evidence(p, rows) == rows \subseteq RowsOf(p) /\ \A i \in rows : Resolved(i)

\* Rows whose anchors the third read can vouch for.
Vouched(p, rows) ==
    /\ rows \subseteq rowAnchors
    /\ \A i \in rows : <<log[i].occ, p>> \in outAnchors

\* What a running certify call knows after each of its reads.
CallKnows(c) ==
    /\ cplan[c] \in registered
    /\ Evidence(cplan[c], crows[c])
    /\ cold[c] \subseteq RowsOf(cplan[c])
    /\ cpc[c] # "read" => Evidence(cplan[c], cold[c])
    /\ cpc[c] \in {"leaves", "signed"} =>
         /\ cleaves[c] \subseteq rowAnchors
         /\ \A o \in couts[c] : <<o, cplan[c]>> \in outAnchors
    /\ cpc[c] = "signed" => OneRowPerTask(c) /\ Vouched(cplan[c], crows[c])

CallsKnow == \A c \in Certifiers : cpc[c] # "idle" => CallKnows(c)

\* One certificate keeps what its call knew.
CertKept(x) ==
    /\ x.plan \in registered /\ x.rows # {}
    /\ Evidence(x.plan, x.rows) /\ Vouched(x.plan, x.rows) /\ Evidence(x.plan, x.old)
    /\ \A i, j \in x.rows : log[i].occ = log[j].occ => i = j

CertsKept == \A k \in 1..Len(certs) : CertKept(certs[k])

LogBounded == /\ Len(log) <= MaxRows
              /\ \A a \in Agents : apc[a] = "row" => arow[a] \in Rows

\* The inductive invariant: a certificate is sound because its call was.
TrialInv == TrialTypeOK /\ LogBounded /\ CallsKnow /\ CertsKept

\* What no step undoes.
Grows ==
    /\ registered \subseteq registered' /\ rowAnchors \subseteq rowAnchors' /\ outAnchors \subseteq outAnchors'
    /\ \A i \in 1..Len(log) : i \in 1..Len(log') /\ log'[i] = log[i]
    /\ \A o \in Occasions : outcome[o] # "none" => outcome'[o] = outcome[o]

-----------------------------------------------------------------------------
\* Every handler only adds to the logs, and keeps recorded outcomes.
LEMMA GrowsStep == TrialTypeOK /\ [TrialNext]_trialVars => Grows
<1> SUFFICES ASSUME TrialTypeOK, [TrialNext]_trialVars PROVE Grows
  BY Zenon
<1> USE DEF TrialTypeOK
<1>1. ASSUME UNCHANGED <<trial, anchors>> PROVE Grows
  BY <1>1, Zenon DEF Grows, trial, anchors
<1>2. ASSUME NEW p \in Plans, Register(p) PROVE Grows
  BY <1>2, Zenon DEF Grows, Register, anchors
<1>3. ASSUME NEW a \in Agents, NEW p \in Plans, NEW o \in Occasions, Assign(a, p, o) PROVE Grows
  <2>1. log' = Append(log, [plan |-> p, occ |-> o]) /\ UNCHANGED <<registered, outcome, anchors>>
    BY <1>3, Zenon DEF Assign
  <2>2. \A i \in 1..Len(log) : i \in 1..Len(log') /\ log'[i] = log[i]
    BY <2>1
  <2> QED BY <2>1, <2>2, Zenon DEF Grows, anchors
<1>4. ASSUME NEW a \in Agents, AnchorRow(a) PROVE Grows
  BY <1>4, Zenon DEF Grows, AnchorRow, trial
<1>5. ASSUME NEW a \in Agents, NEW o \in Occasions, NEW v \in {"good", "bad"}, RecordOutcome(a, o, v) PROVE Grows
  BY <1>5, Zenon DEF Grows, RecordOutcome, anchors
<1>6. ASSUME NEW a \in Agents, AnchorOutcome(a) PROVE Grows
  BY <1>6, Zenon DEF Grows, AnchorOutcome, trial
<1>7. ASSUME NEW c \in Certifiers, \/ \E p \in Plans : CertifyRead(c, p)
                                   \/ CertifyAudit(c) \/ CertifyLeaves(c) \/ CertifyCheck(c)
                                   \/ CertifyIssue(c) \/ CertifyRefused(c)
      PROVE  Grows
  BY <1>1, <1>7, Zenon DEF CertifyRead, CertifyAudit, CertifyLeaves, CertifyCheck,
                    CertifyIssue, CertifyRefused
<1>8. ASSUME \/ \E k \in 1..MaxCerts : Rollback(k)
             \/ \E g \in Gates : GatePublish(g) \/ \E k \in 1..MaxCerts : GateFind(g, k)
      PROVE  Grows
  BY <1>1, <1>8, Zenon DEF Rollback, GatePublish, GateFind
<1>9. ASSUME NEW a \in Agents, AgentCrash(a) \/ \E o \in Occasions, v \in {"good", "bad"} : RecordAgain(a, o, v)
      PROVE  Grows
  BY <1>1, <1>9, Zenon DEF AgentCrash, RecordAgain, trialVars
<1>10. CASE UNCHANGED trialVars
  BY <1>1, <1>10, Zenon DEF trialVars
<1> QED BY <1>2, <1>3, <1>4, <1>5, <1>6, <1>7, <1>8, <1>9, <1>10, Zenon DEF TrialNext

\* Evidence stays evidence, and its anchors stay.
LEMMA EvidenceKept ==
  ASSUME TrialTypeOK, Grows, NEW p, NEW rows, Evidence(p, rows)
  PROVE  Evidence(p, rows)' /\ \A i \in rows : i \in 1..Len(log) /\ log'[i] = log[i]
<1>1. \A i \in rows : i \in 1..Len(log) /\ i \in 1..Len(log') /\ log'[i] = log[i]
  BY Zenon DEF Grows, Evidence, RowsOf
<1>2. \A i \in rows : log[i].occ \in Occasions /\ log[i].plan = p /\ outcome[log[i].occ] # "none"
  <2>1. log \in Seq(Row)
    BY Zenon DEF TrialTypeOK
  <2>2. \A i \in 1..Len(log) : log[i] \in Row
    BY <2>1
  <2> QED BY <1>1, <2>2, Zenon DEF Evidence, RowsOf, Resolved, Row
<1>3. \A i \in rows : outcome'[log'[i].occ] # "none"
  BY <1>1, <1>2, Zenon DEF Grows
<1> QED BY <1>1, <1>2, <1>3, Zenon DEF Evidence, RowsOf, Resolved

LEMMA VouchedKept ==
  ASSUME TrialTypeOK, Grows, NEW p, NEW rows, Evidence(p, rows), Vouched(p, rows)
  PROVE  Vouched(p, rows)'
BY EvidenceKept, Zenon DEF Grows, Vouched

LEMMA CertStep ==
  ASSUME TrialTypeOK, Grows, NEW x, CertKept(x)
  PROVE  CertKept(x)'
<1>1. Evidence(x.plan, x.rows)' /\ Evidence(x.plan, x.old)' /\ \A i \in x.rows : log'[i] = log[i]
  BY EvidenceKept, Zenon DEF CertKept
<1>2. Vouched(x.plan, x.rows)'
  BY VouchedKept, Zenon DEF CertKept
<1> QED BY <1>1, <1>2, Zenon DEF CertKept, Grows

-----------------------------------------------------------------------------
\* Every step keeps the type.
LEMMA TrialTypes ==
  ASSUME TrialTypeOK, LogBounded, [TrialNext]_trialVars
  PROVE  TrialTypeOK' /\ LogBounded'
<1>t. /\ log \in Seq(Row) /\ certs \in Seq(Certificate) /\ Len(log) \in Nat /\ Len(certs) \in Nat
      /\ 1..Len(log) \subseteq Rows
  <2>1. log \in Seq(Row) /\ certs \in Seq(Certificate)
    BY Zenon DEF TrialTypeOK
  <2> QED BY PromotionBounds, <2>1 DEF LogBounded, Rows
<1>1. ASSUME NEW p \in Plans, Register(p) PROVE TrialTypeOK' /\ LogBounded'
  BY <1>1, Zenon DEF TrialTypeOK, LogBounded, Register, anchors, agents,
              certifiers, gates
<1>2. ASSUME NEW a \in Agents, NEW p \in Plans, NEW o \in Occasions, Assign(a, p, o)
      PROVE  TrialTypeOK' /\ LogBounded'
  <2>1. /\ log' = Append(log, [plan |-> p, occ |-> o]) /\ Len(log) < MaxRows
        /\ apc' = [apc EXCEPT ![a] = "row"] /\ arow' = [arow EXCEPT ![a] = Len(log) + 1]
        /\ UNCHANGED <<registered, outcome, anchors, aocc, certifiers, certs, revoked, gates>>
    BY <1>2, Zenon DEF Assign
  <2>2. log' \in Seq(Row) /\ Len(log') = Len(log) + 1 /\ Len(log) + 1 \in Rows
    BY PromotionBounds, <1>t, <2>1 DEF Row, Rows
  <2> QED BY PromotionBounds, <1>t, <2>1, <2>2 DEF TrialTypeOK, LogBounded, anchors,
                                  certifiers, gates
<1>a. AnyPlan \in Plans /\ AnyOccasion \in Occasions
  BY PromotionBounds, Zenon DEF AnyPlan, AnyOccasion
<1>3. ASSUME NEW a \in Agents, AnchorRow(a) \/ AnchorOutcome(a) \/ AgentCrash(a)
      PROVE  TrialTypeOK' /\ LogBounded'
  <2>1. CASE AnchorRow(a)
    BY <2>1, Zenon DEF TrialTypeOK, LogBounded, AnchorRow, trial, certifiers, gates
  <2>2. CASE AnchorOutcome(a)
    <3>1. {<<aocc[a], p>> : p \in registered} \subseteq Occasions \X Plans
      BY DEF TrialTypeOK
    <3> QED BY <2>2, <3>1, <1>a, Zenon DEF TrialTypeOK, LogBounded, AnchorOutcome, trial,
                                    certifiers, gates
  <2>3. CASE AgentCrash(a)
    BY <2>3, <1>a, Zenon DEF TrialTypeOK, LogBounded, AgentCrash, trial, anchors,
                      certifiers, gates
  <2> QED BY <1>3, <2>1, <2>2, <2>3, Zenon
<1>4. ASSUME NEW a \in Agents, NEW o \in Occasions, NEW v \in {"good", "bad"}, RecordOutcome(a, o, v)
      PROVE  TrialTypeOK' /\ LogBounded'
  BY <1>4, Zenon DEF TrialTypeOK, LogBounded, RecordOutcome, anchors, certifiers, gates
<1>5. ASSUME NEW c \in Certifiers, NEW p \in Plans, CertifyRead(c, p) PROVE TrialTypeOK' /\ LogBounded'
  <2>1. RowsOf(p) \subseteq Rows
    BY <1>t, Zenon DEF RowsOf
  <2> QED BY <1>5, <2>1, Zenon DEF TrialTypeOK, LogBounded, CertifyRead, trial, anchors,
                            agents, gates
<1>6. ASSUME NEW c \in Certifiers, CertifyAudit(c) \/ CertifyLeaves(c) \/ CertifyCheck(c)
      PROVE  TrialTypeOK' /\ LogBounded'
  <2>1. CASE CertifyAudit(c)
    BY <2>1, Zenon DEF TrialTypeOK, LogBounded, CertifyAudit, trial, anchors,
                agents, gates
  <2>2. CASE CertifyLeaves(c)
    BY <2>2, Zenon DEF TrialTypeOK, LogBounded, CertifyLeaves, trial, agents,
                anchors, gates
  <2>3. CASE CertifyCheck(c)
    BY <2>3, Zenon DEF TrialTypeOK, LogBounded, CertifyCheck, trial, anchors,
                agents, gates
  <2> QED BY <1>6, <2>1, <2>2, <2>3, Zenon
<1>7. ASSUME NEW c \in Certifiers, CertifyIssue(c) PROVE TrialTypeOK' /\ LogBounded'
  <2>1. /\ certs' = Append(certs, [plan |-> cplan[c], rows |-> crows[c], old |-> cold[c]])
        /\ ForgetCertify(c) /\ UNCHANGED <<trial, anchors, agents, revoked, gates>>
    BY <1>7, Zenon DEF CertifyIssue
  <2>2. [plan |-> cplan[c], rows |-> crows[c], old |-> cold[c]] \in Certificate
    BY Zenon DEF TrialTypeOK, Certificate
  <2>3. certs' \in Seq(Certificate) /\ Len(certs') = Len(certs) + 1
    BY <1>t, <2>1, <2>2
  <2>4. revoked' \subseteq 1..Len(certs')
    BY <1>t, <2>1, <2>3 DEF TrialTypeOK
  <2> QED BY <1>a, <2>1, <2>3, <2>4 DEF TrialTypeOK, LogBounded, ForgetCertify, trial,
                                        anchors, agents, gates
<1>8. ASSUME NEW c \in Certifiers, CertifyRefused(c) PROVE TrialTypeOK' /\ LogBounded'
  BY <1>8, <1>a, Zenon DEF TrialTypeOK, LogBounded, CertifyRefused, ForgetCertify,
                    trial, anchors, agents, gates
<1>9. ASSUME NEW k \in 1..MaxCerts, Rollback(k) PROVE TrialTypeOK' /\ LogBounded'
  BY <1>9, Zenon DEF TrialTypeOK, LogBounded, Rollback, verify, trial, anchors,
              agents, certifiers, gates
<1>10. ASSUME NEW g \in Gates, NEW k \in 1..MaxCerts, GateFind(g, k) PROVE TrialTypeOK' /\ LogBounded'
  BY <1>10, <1>t DEF TrialTypeOK, LogBounded, GateFind, verify, trial,
                     anchors, agents, certifiers
<1>11. ASSUME NEW g \in Gates, GatePublish(g) PROVE TrialTypeOK' /\ LogBounded'
  BY <1>11, Zenon DEF TrialTypeOK, LogBounded, GatePublish, trial, anchors,
               agents, certifiers
<1>12. ASSUME UNCHANGED trialVars PROVE TrialTypeOK' /\ LogBounded'
  BY <1>12, Zenon DEF TrialTypeOK, LogBounded, trialVars, trial, anchors, agents,
               certifiers, gates
<1>13. ASSUME NEW a \in Agents, NEW o \in Occasions, NEW v \in {"good", "bad"}, RecordAgain(a, o, v)
       PROVE  TrialTypeOK' /\ LogBounded'
  BY <1>12, <1>13, Zenon DEF RecordAgain
<1> QED BY <1>1, <1>2, <1>3, <1>4, <1>5, <1>6, <1>7, <1>8, <1>9, <1>10, <1>11, <1>12, <1>13, Zenon DEF TrialNext

\* Each read of certify adds to what its call knows; no other step takes away.
LEMMA CallsStep == TrialInv /\ [TrialNext]_trialVars => CallsKnow'
<1> SUFFICES ASSUME TrialInv, [TrialNext]_trialVars, NEW d \in Certifiers, cpc'[d] # "idle" PROVE CallKnows(d)'
  BY Zenon DEF CallsKnow
<1>t. TrialTypeOK /\ Grows /\ (cpc[d] # "idle" => CallKnows(d))
  BY GrowsStep, Zenon DEF TrialInv, CallsKnow
<1>k. ASSUME cpc[d] # "idle", UNCHANGED <<cplan[d], crows[d], cold[d]>>
      PROVE  /\ cplan[d] \in registered' /\ Evidence(cplan[d], crows[d])' /\ cold[d]' \subseteq RowsOf(cplan[d])'
             /\ cpc[d] # "read" => Evidence(cplan[d], cold[d])'
             /\ \A i \in crows[d] : log'[i] = log[i]
  <2>1. Evidence(cplan[d], crows[d])' /\ \A i \in crows[d] : log'[i] = log[i]
    BY <1>t, <1>k, EvidenceKept, Zenon DEF CallKnows
  <2>2. cpc[d] # "read" => Evidence(cplan[d], cold[d])'
    BY <1>t, <1>k, EvidenceKept, Zenon DEF CallKnows
  <2>3. cold[d] \subseteq RowsOf(cplan[d])'
    BY <1>t, <1>k, Zenon DEF CallKnows, RowsOf, Grows
  <2> QED BY <1>t, <1>k, <2>1, <2>2, <2>3, Zenon DEF CallKnows, Grows
<1>1. ASSUME UNCHANGED <<cpc[d], cplan[d], crows[d], cold[d], cleaves[d], couts[d]>> PROVE CallKnows(d)'
  <2>1. cpc[d] \in {"leaves", "signed"} =>
         cleaves[d]' \subseteq rowAnchors' /\ \A o \in couts[d]' : <<o, cplan[d]'>> \in outAnchors'
    BY <1>t, <1>1, Zenon DEF CallKnows, Grows
  <2>2. cpc[d] = "signed" => OneRowPerTask(d)' /\ Vouched(cplan[d], crows[d])'
    <3> SUFFICES ASSUME cpc[d] = "signed" PROVE OneRowPerTask(d)' /\ Vouched(cplan[d], crows[d])'
      BY Zenon
    <3>1. OneRowPerTask(d)'
      BY <1>t, <1>k, <1>1, Zenon DEF CallKnows, OneRowPerTask
    <3>2. Vouched(cplan[d], crows[d])'
      BY <1>t, <1>1, VouchedKept, Zenon DEF CallKnows
    <3> QED BY <3>1, <3>2, Zenon
  <2> QED BY <1>k, <1>1, <2>1, <2>2, Zenon DEF CallKnows
<1>2. ASSUME UNCHANGED certifiers PROVE CallKnows(d)'
  BY <1>1, <1>2, Zenon DEF certifiers
<1>3. ASSUME NEW c \in Certifiers, NEW p \in Plans, CertifyRead(c, p) PROVE CallKnows(d)'
  <2>1. CASE c # d
    BY <1>1, <1>3, <1>t, <2>1, Zenon DEF CertifyRead, TrialTypeOK
  <2>2. CASE c = d
    <3>1. /\ p \in registered /\ cpc'[d] = "read" /\ cplan'[d] = p
          /\ crows'[d] = {i \in RowsOf(p) : Resolved(i)} /\ cold'[d] = RowsOf(p)
          /\ UNCHANGED <<registered, log, outcome>>
      BY <1>3, <1>t, <2>2, Zenon DEF CertifyRead, TrialTypeOK, trial
    <3> QED BY <3>1, Zenon DEF CallKnows, Evidence, RowsOf, Resolved
  <2> QED BY <2>1, <2>2, Zenon
<1>4. ASSUME NEW c \in Certifiers, CertifyAudit(c) PROVE CallKnows(d)'
  <2>1. CASE c # d
    BY <1>1, <1>4, <1>t, <2>1, Zenon DEF CertifyAudit, TrialTypeOK
  <2>2. CASE c = d
    <3>1. /\ cpc[d] = "read" /\ cpc'[d] = "audited" /\ UNCHANGED <<cplan, crows, cold, registered, log, outcome>>
          /\ \A i \in RowsOf(cplan[d]) : Resolved(i)
      BY <1>4, <1>t, <2>2, Zenon DEF CertifyAudit, TrialTypeOK, trial
    <3> QED BY <1>t, <3>1, Zenon DEF CallKnows, Evidence, RowsOf, Resolved
  <2> QED BY <2>1, <2>2, Zenon
<1>5. ASSUME NEW c \in Certifiers, CertifyLeaves(c) PROVE CallKnows(d)'
  <2>1. CASE c # d
    BY <1>1, <1>5, <1>t, <2>1, Zenon DEF CertifyLeaves, TrialTypeOK
  <2>2. CASE c = d
    <3>1. /\ cpc[d] = "audited" /\ cpc'[d] = "leaves"
          /\ UNCHANGED <<cplan, crows, cold, registered, log, outcome, rowAnchors, outAnchors>>
          /\ cleaves'[d] = rowAnchors /\ couts'[d] = {o \in Occasions : <<o, cplan[d]>> \in outAnchors}
      BY <1>5, <1>t, <2>2, Zenon DEF CertifyLeaves, TrialTypeOK, trial, anchors
    <3> QED BY <1>t, <3>1, Zenon DEF CallKnows, Evidence, RowsOf, Resolved
  <2> QED BY <2>1, <2>2, Zenon
<1>6. ASSUME NEW c \in Certifiers, CertifyCheck(c) PROVE CallKnows(d)'
  <2>1. CASE c # d
    BY <1>1, <1>6, <1>t, <2>1, Zenon DEF CertifyCheck, TrialTypeOK
  <2>2. CASE c = d
    <3>1. /\ cpc[d] = "leaves" /\ cpc'[d] = "signed" /\ Anchored(d) /\ OneRowPerTask(d)
          /\ UNCHANGED <<cplan, crows, cold, cleaves, couts, registered, log, outcome, rowAnchors, outAnchors>>
      BY <1>6, <1>t, <2>2, Zenon DEF CertifyCheck, TrialTypeOK, trial, anchors
    <3>2. Vouched(cplan[d], crows[d])
      BY <1>t, <3>1, Zenon DEF CallKnows, Evidence, Anchored, Vouched
    <3> QED BY <1>t, <3>1, <3>2, Zenon DEF CallKnows, Evidence, RowsOf, Resolved,
                                    OneRowPerTask, Vouched
  <2> QED BY <2>1, <2>2, Zenon
<1>7. ASSUME NEW c \in Certifiers, CertifyIssue(c) \/ CertifyRefused(c) PROVE CallKnows(d)'
  <2>1. c # d
    BY <1>7, <1>t, Zenon DEF CertifyIssue, CertifyRefused, ForgetCertify, TrialTypeOK
  <2> QED BY <1>1, <1>7, <1>t, <2>1, ZenonT(30) DEF CertifyIssue, CertifyRefused,
                                        ForgetCertify, TrialTypeOK
<1>8. ASSUME NEW a \in Agents, NEW p \in Plans, NEW o \in Occasions, Assign(a, p, o) PROVE CallKnows(d)'
  BY <1>2, <1>8, Zenon DEF Assign
<1>9. ASSUME NEW a \in Agents, NEW o \in Occasions, NEW v \in {"good", "bad"},
             RecordOutcome(a, o, v) \/ RecordAgain(a, o, v)
      PROVE  CallKnows(d)'
  BY <1>2, <1>9, Zenon DEF RecordOutcome, RecordAgain, trialVars
<1>10. ASSUME NEW a \in Agents, AnchorRow(a) \/ AnchorOutcome(a) \/ AgentCrash(a) PROVE CallKnows(d)'
  BY <1>2, <1>10, Zenon DEF AnchorRow, AnchorOutcome, AgentCrash
<1>11. ASSUME NEW p \in Plans, Register(p) PROVE CallKnows(d)'
  BY <1>2, <1>11, Zenon DEF Register
<1>12. ASSUME NEW k \in 1..MaxCerts, Rollback(k) PROVE CallKnows(d)'
  BY <1>2, <1>12, Zenon DEF Rollback
<1>13. ASSUME NEW g \in Gates, GatePublish(g) \/ \E k \in 1..MaxCerts : GateFind(g, k) PROVE CallKnows(d)'
  BY <1>2, <1>13, Zenon DEF GatePublish, GateFind
<1>14. CASE UNCHANGED trialVars
  BY <1>2, <1>14, Zenon DEF trialVars
<1> QED BY <1>3, <1>4, <1>5, <1>6, <1>7, <1>8, <1>9, <1>10, <1>11, <1>12, <1>13, <1>14, Zenon DEF TrialNext

\* A certificate is appended only by a call that knows enough, and kept.
LEMMA CertsStep == TrialInv /\ [TrialNext]_trialVars => CertsKept'
<1> SUFFICES ASSUME TrialInv, [TrialNext]_trialVars PROVE CertsKept'
  BY Zenon
<1>t. TrialTypeOK /\ Grows /\ CertsKept /\ CallsKnow /\ certs \in Seq(Certificate) /\ Len(certs) \in Nat
  <2>1. TrialTypeOK /\ certs \in Seq(Certificate)
    BY Zenon DEF TrialInv, TrialTypeOK
  <2> QED BY <2>1, GrowsStep DEF TrialInv
<1>1. ASSUME NEW k \in 1..Len(certs), certs'[k] = certs[k] PROVE CertKept(certs[k])'
  <2>1. PICK x : x = certs[k]
    BY Zenon
  <2>2. CertKept(x)'
    BY <1>t, <2>1, CertStep, Zenon DEF CertsKept
  <2> QED BY <1>1, <2>1, <2>2, Zenon
<1>2. ASSUME UNCHANGED certs PROVE CertsKept'
  BY <1>1, <1>2, Zenon DEF CertsKept
<1>3. ASSUME NEW c \in Certifiers, CertifyIssue(c) PROVE CertsKept'
  <2>1. PICK x : x = [plan |-> cplan[c], rows |-> crows[c], old |-> cold[c]]
    BY Zenon
  <2>2. cpc[c] = "signed" /\ certs' = Append(certs, x)
    BY <1>3, <2>1, Zenon DEF CertifyIssue
  <2>3. CertKept(x)
    BY <1>t, <2>1, <2>2, Zenon DEF CallsKnow, CallKnows, CertKept, OneRowPerTask
  <2>4. CertKept(x)'
    BY <1>t, <2>3, CertStep, Zenon
  <2>5. x \in Certificate
    BY <1>t, <2>1, Zenon DEF TrialTypeOK, Certificate
  <2>6. /\ Len(certs') = Len(certs) + 1 /\ certs'[Len(certs) + 1] = x
        /\ \A k \in 1..Len(certs) : certs'[k] = certs[k]
    BY <1>t, <2>2, <2>5
  <2>7. ASSUME NEW k \in 1..Len(certs'), k \notin 1..Len(certs) PROVE CertKept(certs[k])'
    <3>1. certs'[k] = x
      BY <1>t, <2>6, <2>7
    <3> QED BY <2>4, <3>1, Zenon
  <2> QED BY <1>1, <2>6, <2>7, Zenon DEF CertsKept
<1>4. ASSUME NEW c \in Certifiers, \/ \E p \in Plans : CertifyRead(c, p)
                                   \/ CertifyAudit(c) \/ CertifyLeaves(c) \/ CertifyCheck(c) \/ CertifyRefused(c)
      PROVE  CertsKept'
  BY <1>2, <1>4, Zenon DEF CertifyRead, CertifyAudit, CertifyLeaves, CertifyCheck,
                    CertifyRefused
<1>5. ASSUME NEW a \in Agents, NEW o \in Occasions,
             \/ \E p \in Plans : Assign(a, p, o)
             \/ \E v \in {"good", "bad"} : RecordOutcome(a, o, v) \/ RecordAgain(a, o, v)
      PROVE  CertsKept'
  BY <1>2, <1>5, Zenon DEF Assign, RecordOutcome, RecordAgain, trialVars
<1>6. ASSUME NEW a \in Agents, AnchorRow(a) \/ AnchorOutcome(a) \/ AgentCrash(a) PROVE CertsKept'
  BY <1>2, <1>6, Zenon DEF AnchorRow, AnchorOutcome, AgentCrash
<1>7. ASSUME NEW p \in Plans, Register(p) PROVE CertsKept'
  BY <1>2, <1>7, Zenon DEF Register
<1>8. ASSUME NEW k \in 1..MaxCerts, Rollback(k) PROVE CertsKept'
  BY <1>2, <1>8, Zenon DEF Rollback
<1>9. ASSUME NEW g \in Gates, GatePublish(g) \/ \E k \in 1..MaxCerts : GateFind(g, k) PROVE CertsKept'
  BY <1>2, <1>9, Zenon DEF GatePublish, GateFind
<1>10. CASE UNCHANGED trialVars
  BY <1>2, <1>10, Zenon DEF trialVars
<1> QED BY <1>3, <1>4, <1>5, <1>6, <1>7, <1>8, <1>9, <1>10, Zenon DEF TrialNext

-----------------------------------------------------------------------------
\* The invariant holds in every reachable state.
LEMMA TrialInvariant == TrialSpec => []TrialInv
<1>1. TrialInit => TrialInv
  BY PromotionBounds DEF TrialInit, TrialInv, TrialTypeOK, LogBounded, CallsKnow,
         CertsKept, AnyPlan, AnyOccasion, Row, Certificate, Rows
<1>2. TrialInv /\ [TrialNext]_trialVars => TrialInv'
  BY TrialTypes, CallsStep, CertsStep, Zenon DEF TrialInv
<1> QED BY <1>1, <1>2, PTL DEF TrialSpec

\* The logs, leaves, certificates and calls of promotion.py keep their types.
THEOREM TrialTypeCorrect == TrialSpec => []TrialTypeOK
<1>1. TrialInv => TrialTypeOK
  BY Zenon DEF TrialInv
<1> QED BY TrialInvariant, <1>1, PTL

\* What certify computed a certificate from is anchored, resolved and once per
\* task, whatever agents and other certifiers do meanwhile and later.
THEOREM Soundness == TrialSpec => []CertificateSound
<1>1. TrialInv => CertificateSound
  BY Zenon DEF TrialInv, CertsKept, CertKept, Evidence, Vouched, CertificateSound
<1> QED BY <1>1, TrialInvariant, PTL

\* Nothing assigned before certify began is pending once its certificate exists.
THEOREM Complete == TrialSpec => []NothingPending
<1>1. TrialInv => NothingPending
  BY Zenon DEF TrialInv, CertsKept, CertKept, Evidence, NothingPending
<1> QED BY <1>1, TrialInvariant, PTL

\* record_outcome never replaces a recorded outcome, nor does anybody else.
THEOREM Final == TrialSpec => OutcomesFinal
<1>1. TrialInv /\ [TrialNext]_trialVars => [\A o \in Occasions : outcome[o] # "none" => outcome'[o] = outcome[o]]_trialVars
  BY GrowsStep, Zenon DEF TrialInv, Grows
<1> QED BY <1>1, TrialInvariant, PTL DEF TrialSpec, OutcomesFinal
==============================================================================
