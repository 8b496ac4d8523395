----------------------------- MODULE Completion -----------------------------
(***************************************************************************)
(* llm.complete with the completion cache (llm_cache.LLMCache) over the    *)
(* single-flight memory cache (runtime_cache.RuntimeCache), for the        *)
(* threads of one process and one prompt.  Each section under the cache's  *)
(* lock and each SQLite connection is one step.  The provider call, which  *)
(* ProviderCall models, is one that takes time and returns or raises.      *)
(*                                                                         *)
(* A text is the number of its store; the row in SQLite is its text, and   *)
(* its created_at the time of that store.  Time is relative: ages count    *)
(* up, and what is left of a lifetime counts down.  A flight is named by   *)
(* its owner.  Other prompts appear as displaced entries, and other        *)
(* processes, which share the row, as calls of set.                        *)
(***************************************************************************)
EXTENDS Integers, Sequences

CONSTANTS
    Callers,
    TTL,               \* of the row
    HotTTL,            \* of the entry in memory
    None,
    MaxTexts,          \* bound on answers of the provider
    MaxSets,           \* bound on calls of set
    MaxFaults          \* bound on failures of SQLite and displaced entries

ASSUME CompletionAssumption ==
    /\ TTL \in Nat \ {0} /\ HotTTL \in Nat \ {0}
    /\ MaxTexts \in Nat /\ MaxSets \in Nat /\ MaxFaults \in Nat

ASSUME NoneAssumption == None \notin Callers \cup Nat \cup [text: Nat, left: Nat]

VARIABLES
    age,               \* of each text, up to twice its lifetime
    pc,
    disk,              \* the row
    hot,               \* the entry: its text, what is left to expires, and of HotTTL
    flight,            \* owner of the current flight
    waits,             \* owner of the flight a caller waits for
    before, text,      \* locals of load: time since it read the clock, and the text
    got,               \* what get_or_load returned: text and what is left to expires
    again,             \* callers that found an expired item and load again
    setting,           \* the text of a set between store and invalidate
    popped,            \* history: owners whose flight was invalidated
    dead, since,       \* history: texts too old, and last set, when a call began
    floor,             \* history: text of the last finished set
    sets, faults

shared == <<disk, hot, flight>>
locals == <<waits, before, text, got, again>>
history == <<popped, dead, since>>
world == <<setting, floor, sets>>
vars == <<age, pc, shared, locals, history, world, faults>>

Init ==
    /\ age = <<>> /\ pc = [c \in Callers |-> "idle"]
    /\ disk = None /\ hot = None /\ flight = None
    /\ waits = [c \in Callers |-> None] /\ before = [c \in Callers |-> 0]
    /\ text = [c \in Callers |-> None] /\ got = [c \in Callers |-> None] /\ again = {}
    /\ popped = {} /\ dead = [c \in Callers |-> {}] /\ since = [c \in Callers |-> 0]
    /\ setting = None /\ floor = 0 /\ sets = 0 /\ faults = 0

\* SQLite fails, or other keys displace an entry.
Fault == faults < MaxFaults /\ faults' = faults + 1

\* Phases in which a caller owns a flight.
Loading == {"read", "compute", "created", "finish"}

Step(c, from, to) == pc[c] = from /\ pc' = [pc EXCEPT ![c] = to]

-----------------------------------------------------------------------------
complete(c) ==
    /\ Step(c, "idle", "lookup")
    /\ dead' = [dead EXCEPT ![c] = {n \in 1..Len(age) : age[n] = 2 * TTL}]
    /\ since' = [since EXCEPT ![c] = floor]
    /\ UNCHANGED <<age, shared, locals, popped, world, faults>>

\* The end of calls; what they kept is dropped.
Ends(C) ==
    /\ again' = again \ C
    /\ dead' = [d \in Callers |-> IF d \in C THEN {} ELSE dead[d]]
    /\ since' = [d \in Callers |-> IF d \in C THEN 0 ELSE since[d]]

Join(c) ==
    /\ flight # None /\ Step(c, "lookup", "wait")
    /\ waits' = [waits EXCEPT ![c] = flight] /\ UNCHANGED flight

\* Mutant: every miss loads.
OwnAlways(c) == Step(c, "lookup", "read") /\ flight' = c /\ UNCHANGED waits

Own(c) ==
    /\ flight = None /\ Step(c, "lookup", "read")
    /\ flight' = c /\ UNCHANGED waits

\* The first section of get_or_load; an entry at its end is removed.
get_or_load(c) ==
    /\ \/ /\ hot # None /\ hot.until > 0
          /\ Step(c, "lookup", "check")
          /\ got' = [got EXCEPT ![c] = hot.item] /\ UNCHANGED <<hot, flight, waits>>
       \/ /\ hot # None => hot.until = 0
          /\ hot' = None /\ UNCHANGED got
          /\ Join(c) \/ Own(c)
    /\ UNCHANGED <<age, disk, before, text, again, history, world, faults>>

Live == disk # None /\ age[disk] < TTL

\* load begins with LLMCache.get: a live row, or a miss, also if SQLite fails.
get(c) ==
    /\ \/ /\ Live /\ Step(c, "read", "created")
          /\ text' = [text EXCEPT ![c] = disk] /\ UNCHANGED faults
       \/ /\ Step(c, "read", "compute") /\ UNCHANGED text
          /\ IF Live THEN Fault ELSE UNCHANGED faults
    /\ before' = [before EXCEPT ![c] = 0]
    /\ UNCHANGED <<age, shared, waits, got, again, history, world>>

Minted == Len(age) + 1

\* The provider answers; a failure to store its text is only logged.
_store(c) ==
    /\ Step(c, "compute", "created")
    /\ Len(age) < MaxTexts + sets /\ age' = Append(age, 0)
    /\ text' = [text EXCEPT ![c] = Minted]
    /\ \/ disk' = Minted /\ UNCHANGED faults
       \/ UNCHANGED disk /\ Fault
    /\ UNCHANGED <<hot, flight, waits, before, got, again, history, world>>

\* min(before + ttl, created + ttl), as what is left of it.
Left(elapsed, created) ==
    LET oldest == IF elapsed < created THEN created ELSE elapsed IN
    IF oldest < TTL THEN TTL - oldest ELSE 0

\* The end of load: created_at is read by a connection of its own.
Expires(c) ==
    /\ Step(c, "created", "finish")
    /\ \/ /\ disk # None /\ UNCHANGED faults
          /\ got' = [got EXCEPT ![c] = [text |-> text[c], left |-> Left(before[c], age[disk])]]
       \/ /\ IF disk = None THEN UNCHANGED faults ELSE Fault
          /\ got' = [got EXCEPT ![c] = [text |-> text[c], left |-> Left(before[c], 0)]]
    /\ before' = [before EXCEPT ![c] = 0] /\ text' = [text EXCEPT ![c] = None]
    /\ UNCHANGED <<age, shared, waits, again, history, world>>

Waiting(c) == {w \in Callers : pc[w] = "wait" /\ waits[w] = c}

\* Mutant: the flight stays registered.
ReadyKept(c, label) ==
    /\ pc' = [d \in Callers |-> IF d = c \/ d \in Waiting(c) THEN label ELSE pc[d]]
    /\ waits' = [d \in Callers |-> IF d \in Waiting(c) THEN None ELSE waits[d]]
    /\ popped' = popped \ {c} /\ UNCHANGED flight

\* flight.ready.set: the owner and its waiters go on at a label.
Ready(c, label) ==
    /\ pc' = [d \in Callers |-> IF d = c \/ d \in Waiting(c) THEN label ELSE pc[d]]
    /\ waits' = [d \in Callers |-> IF d \in Waiting(c) THEN None ELSE waits[d]]
    /\ flight' = IF flight = c THEN None ELSE flight
    /\ popped' = popped \ {c}

\* Mutant: an invalidated flight is published.
PublishAny(c) == hot' = [item |-> got[c], until |-> HotTTL]

Publish(c) == hot' = IF flight = c THEN [item |-> got[c], until |-> HotTTL] ELSE hot

\* Mutant: only the current flight wakes its waiters.
FinishCurrent(c) ==
    /\ pc[c] = "finish" /\ Publish(c)
    /\ IF flight = c
       THEN /\ Ready(c, "check")
            /\ got' = [d \in Callers |-> IF d \in Waiting(c) THEN got[c] ELSE got[d]]
       ELSE /\ pc' = [pc EXCEPT ![c] = "check"] /\ popped' = popped \ {c}
            /\ UNCHANGED <<waits, flight, got>>
    /\ UNCHANGED <<age, disk, before, text, again, dead, since, world, faults>>

\* The last section of get_or_load after a load.
Finish(c) ==
    /\ pc[c] = "finish" /\ Publish(c) /\ Ready(c, "check")
    /\ got' = [d \in Callers |-> IF d \in Waiting(c) THEN got[c] ELSE got[d]]
    /\ UNCHANGED <<age, disk, before, text, again, dead, since, world, faults>>

\* The same after an exception: the owner and its waiters raise.
Raise(c) ==
    /\ pc[c] = "compute" /\ Ready(c, "idle")
    /\ Ends({c} \cup Waiting(c))
    /\ before' = [before EXCEPT ![c] = 0]
    /\ UNCHANGED <<age, disk, hot, text, got, world, faults>>

\* Mutant: what is in memory is taken as it is.
ExpiredNever(c) == FALSE

Expired(c) == c \notin again /\ got[c].left = 0

\* Mutant: a load in flight survives.
invalidateEntry == hot' = None /\ UNCHANGED <<flight, popped>>

invalidate ==
    /\ hot' = None /\ flight' = None
    /\ popped' = IF flight = None THEN popped ELSE popped \cup {flight}

\* get_or_compute finds an expired item, once.
Reload(c) ==
    /\ Step(c, "check", "lookup") /\ Expired(c)
    /\ invalidate /\ again' = again \cup {c} /\ got' = [got EXCEPT ![c] = None]
    /\ UNCHANGED <<age, disk, waits, before, text, dead, since, world, faults>>

Return(c) ==
    /\ Step(c, "check", "idle") /\ ~Expired(c)
    /\ Ends({c}) /\ got' = [got EXCEPT ![c] = None]
    /\ UNCHANGED <<age, shared, waits, before, text, popped, world, faults>>

-----------------------------------------------------------------------------
\* LLMCache.set stores, if SQLite does not fail, and then invalidates.
set ==
    /\ setting = None /\ sets < MaxSets /\ sets' = sets + 1
    /\ \/ /\ disk' = Minted /\ age' = Append(age, 0) /\ setting' = Minted
          /\ UNCHANGED faults
       \/ UNCHANGED <<disk, age>> /\ setting' = floor /\ Fault
    /\ UNCHANGED <<pc, hot, flight, locals, history, floor>>

SetReturns ==
    /\ setting # None /\ setting' = None /\ floor' = setting
    /\ invalidate
    /\ UNCHANGED <<age, pc, disk, locals, dead, since, sets, faults>>

\* Other keys displace the entry or the row.
Displace ==
    /\ \/ hot # None /\ hot' = None /\ UNCHANGED disk
       \/ disk # None /\ disk' = None /\ UNCHANGED hot
    /\ Fault
    /\ UNCHANGED <<age, pc, flight, locals, history, world>>

Up(n, limit) == IF n < limit THEN n + 1 ELSE limit
Down(n) == IF n = 0 THEN 0 ELSE n - 1
Aged(item) == IF item = None THEN None ELSE [item EXCEPT !.left = Down(item.left)]

Tick ==
    /\ age' = [n \in DOMAIN age |-> Up(age[n], 2 * TTL)]
    /\ hot' = IF hot = None THEN None ELSE [item |-> Aged(hot.item), until |-> Down(hot.until)]
    /\ got' = [c \in Callers |-> Aged(got[c])]
    /\ before' = [c \in Callers |-> IF pc[c] \in {"compute", "created"} THEN Up(before[c], TTL) ELSE before[c]]
    /\ UNCHANGED <<pc, disk, flight, waits, text, again, history, world, faults>>

Next ==
    \/ \E c \in Callers :
         \/ complete(c) \/ get_or_load(c) \/ get(c) \/ _store(c) \/ Expires(c)
         \/ Finish(c) \/ Raise(c) \/ Reload(c) \/ Return(c)
    \/ set \/ SetReturns \/ Displace \/ Tick

Spec == Init /\ [][Next]_vars

-----------------------------------------------------------------------------
Texts == 1..Len(age)
Items == [text: Texts, left: 0..TTL]

\* Every variable has its type, the current flight is a load under way, and a load
\* that ends, or a caller that checks an item, has one.
TypeOK ==
    /\ age \in Seq(0..2 * TTL)
    /\ pc \in [Callers -> Loading \cup {"idle", "lookup", "wait", "check"}]
    /\ disk \in {None} \cup Texts /\ hot \in {None} \cup [item: Items, until: 0..HotTTL]
    /\ flight # None => flight \in Callers /\ pc[flight] \in Loading
    /\ waits \in [Callers -> {None} \cup Callers] /\ before \in [Callers -> 0..TTL]
    /\ text \in [Callers -> {None} \cup Texts] /\ got \in [Callers -> {None} \cup Items]
    /\ \A c \in Callers : pc[c] = "created" => text[c] # None
    /\ \A c \in Callers : pc[c] \in {"finish", "check"} => got[c] # None
    /\ again \subseteq Callers /\ popped \subseteq Callers
    /\ dead \in [Callers -> SUBSET Texts] /\ since \in [Callers -> 0..floor]
    /\ floor \in 0..Len(age) /\ setting \in {None} \cup floor..Len(age)
    /\ sets \in Nat /\ faults \in Nat

\* A load that is under way is the current flight, which everybody joins, unless
\* somebody invalidated it (by set, or having found an expired item).
SharedLoad == \A c \in Callers : pc[c] \in Loading => flight = c \/ c \in popped

\* Whoever waits, waits for a load that is under way, so a load that ends, by any
\* way and after any invalidation, leaves nobody waiting.
WaiterServed == \A c \in Callers : pc[c] = "wait" => waits[c] \in Callers /\ pc[waits[c]] \in Loading

Returns(c) == pc[c] = "check" /\ ~Expired(c)

\* A text that a call returns had not been stored twice its lifetime before the
\* call: the memory cache extends what the row allows by one lifetime at most.
BoundedAge == \A c \in Callers : Returns(c) => got[c].text \notin dead[c]

\* A call that starts after a set returns its text or one stored later.
SetWins == \A c \in Callers : Returns(c) => got[c].text >= since[c]
==============================================================================
