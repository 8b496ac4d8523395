-------------------------- MODULE CompletionProofs --------------------------
(***************************************************************************)
(* The single-flight cache for any callers, lifetimes and faults.  First   *)
(* who loads, who waits for whom, and which flight is current: none of it  *)
(* depends on the texts, so its invariant, IInv, leaves them out.  Then    *)
(* which text a call returns, by an invariant, SInv, that adds where a     *)
(* text is held and for whom it is still good.  Last how old it can be, by *)
(* an invariant, BInv, on the ages and the lifetimes left.                 *)
(***************************************************************************)
EXTENDS Completion, TLAPS

Phases == Loading \cup {"idle", "lookup", "wait", "check"}

\* The current flight is owned by a caller that loads; together with SharedLoad
\* and WaiterServed this is inductive: a load ends for its waiters as well, and a
\* flight that is replaced while its owner loads was invalidated before.
Flights ==
    /\ pc \in [Callers -> Phases]
    /\ waits \in [Callers -> {None} \cup Callers]
    /\ flight # None => flight \in Callers /\ pc[flight] \in Loading

IInv == Flights /\ SharedLoad /\ WaiterServed

-----------------------------------------------------------------------------
LEMMA Initial == Init => IInv
  BY Zenon DEF Init, IInv, Flights, Phases, SharedLoad, WaiterServed, Loading

LEMMA NotCaller == ASSUME NEW c \in Callers PROVE c # None
  BY NoneAssumption, Zenon

\* A step of one caller that neither begins nor ends a load, or moves on in one.
LEMMA StepOf ==
  ASSUME IInv, NEW c \in Callers, NEW from, NEW to \in Phases, Step(c, from, to),
         from # "wait", to # "wait", from \in Loading <=> to \in Loading,
         UNCHANGED <<flight, waits, popped>>
  PROVE  IInv'
  <1>1. pc' \in [Callers -> Phases] /\ \A d \in Callers : pc'[d] = IF d = c THEN to ELSE pc[d]
    BY Zenon DEF IInv, Flights, Step
  <1>2. pc[c] = from
    BY Zenon DEF Step
  <1>3. \A d \in Callers : pc'[d] \in Loading <=> pc[d] \in Loading
    BY <1>1, <1>2, Zenon
  <1>4. Flights'
    BY <1>1, <1>3, Zenon DEF IInv, Flights, Phases, Loading
  <1>5. SharedLoad'
    BY <1>3, Zenon DEF IInv, SharedLoad, Loading
  <1>6. WaiterServed'
    BY <1>1, <1>2, <1>3, Zenon DEF IInv, WaiterServed, Loading
  <1> QED BY <1>4, <1>5, <1>6, Zenon DEF IInv

LEMMA GetOrLoadStep == ASSUME IInv, NEW c \in Callers, get_or_load(c) PROVE IInv'
  <1>1. CASE Step(c, "lookup", "check") /\ UNCHANGED <<flight, waits>>
    BY <1>1, StepOf, Zenon DEF get_or_load, history, Phases, Loading
  <1>2. CASE Join(c)
    <2>1. /\ flight # None /\ flight' = flight /\ popped' = popped
          /\ \A d \in Callers : pc'[d] = IF d = c THEN "wait" ELSE pc[d]
          /\ \A d \in Callers : waits'[d] = IF d = c THEN flight ELSE waits[d]
          /\ pc[c] = "lookup" /\ flight \in Callers /\ pc[flight] \in Loading
      BY <1>2, Zenon DEF get_or_load, Join, Step, history, IInv, Flights
    <2>2. pc' \in [Callers -> Phases] /\ waits' \in [Callers -> {None} \cup Callers]
      BY <1>2, <2>1, Zenon DEF Join, Step, IInv, Flights, Phases
    <2>3. \A d \in Callers : pc'[d] \in Loading <=> pc[d] \in Loading
      BY <2>1, Zenon DEF Loading
    <2>4. Flights'
      BY <2>1, <2>2, <2>3, Zenon DEF Flights, Phases, Loading
    <2>5. SharedLoad'
      BY <2>1, <2>3, Zenon DEF IInv, SharedLoad, Loading
    <2>6. WaiterServed'
      BY <2>1, <2>3, Zenon DEF IInv, WaiterServed, Loading
    <2> QED BY <2>4, <2>5, <2>6, Zenon DEF IInv
  <1>3. CASE Own(c)
    <2>1. /\ flight = None /\ flight' = c /\ popped' = popped /\ waits' = waits
          /\ \A d \in Callers : pc'[d] = IF d = c THEN "read" ELSE pc[d]
          /\ pc[c] = "lookup" /\ pc' \in [Callers -> Phases]
      BY <1>3, Zenon DEF get_or_load, Own, Step, history, IInv, Flights, Phases, Loading
    <2>2. \A d \in Callers : pc[d] \in Loading => d # c /\ pc'[d] \in Loading
      BY <2>1, Zenon DEF Loading
    <2>3. Flights'
      BY <2>1, Zenon DEF IInv, Flights, Phases, Loading
    <2>4. SharedLoad'
      BY <2>1, NotCaller, Zenon DEF IInv, SharedLoad, Loading
    <2>5. WaiterServed'
      BY <2>1, <2>2, Zenon DEF IInv, WaiterServed, Loading
    <2> QED BY <2>3, <2>4, <2>5, Zenon DEF IInv
  <1> QED BY <1>1, <1>2, <1>3, Zenon DEF get_or_load

\* The end of a load, for its owner and its waiters.
LEMMA ReadyStep ==
  ASSUME IInv, NEW c \in Callers, pc[c] \in Loading, NEW label \in {"check", "idle"}, Ready(c, label)
  PROVE  IInv'
  <1>1. /\ \A d \in Callers : pc'[d] = IF d = c \/ d \in Waiting(c) THEN label ELSE pc[d]
        /\ \A d \in Callers : waits'[d] = IF d \in Waiting(c) THEN None ELSE waits[d]
        /\ flight' = IF flight = c THEN None ELSE flight
        /\ popped' = popped \ {c} /\ label \in Phases /\ label \notin Loading /\ label # "wait"
    BY Zenon DEF Ready, Phases, Loading
  <1>2. pc' \in [Callers -> Phases] /\ waits' \in [Callers -> {None} \cup Callers]
    BY <1>1, Zenon DEF Ready, IInv, Flights
  <1>3. \A d \in Callers : pc'[d] \in Loading <=> d # c /\ pc[d] \in Loading
    BY <1>1, Zenon DEF Waiting, Loading
  <1>4. Flights'
    BY <1>1, <1>2, <1>3, Zenon DEF IInv, Flights, Phases, Loading
  <1>5. SharedLoad'
    BY <1>1, <1>3, Zenon DEF IInv, SharedLoad, Loading
  <1>6. \A d \in Callers : pc'[d] = "wait" => pc[d] = "wait" /\ waits[d] # c /\ waits'[d] = waits[d]
    BY <1>1, Zenon DEF Waiting, Loading
  <1>7. WaiterServed'
    BY <1>3, <1>6 DEF IInv, WaiterServed, Loading
  <1> QED BY <1>4, <1>5, <1>7, Zenon DEF IInv

\* An invalidation, alone or with a step of a caller that does not load.
LEMMA Invalidated ==
  ASSUME IInv, invalidate, waits' = waits, pc' \in [Callers -> Phases],
         \A d \in Callers : pc'[d] \in Loading <=> pc[d] \in Loading,
         \A d \in Callers : pc'[d] = "wait" => pc[d] = "wait"
  PROVE  IInv'
  <1>1. Flights'
    BY Zenon DEF invalidate, IInv, Flights, Phases, Loading
  <1>2. SharedLoad'
    BY NotCaller, Zenon DEF invalidate, IInv, SharedLoad, Loading
  <1>3. WaiterServed'
    BY Zenon DEF IInv, WaiterServed, Loading
  <1> QED BY <1>1, <1>2, <1>3, Zenon DEF IInv

LEMMA ReloadStep == ASSUME IInv, NEW c \in Callers, Reload(c) PROVE IInv'
  <1>1. /\ invalidate /\ waits' = waits /\ pc[c] = "check"
        /\ pc' \in [Callers -> Phases]
        /\ \A d \in Callers : pc'[d] = IF d = c THEN "lookup" ELSE pc[d]
    BY Zenon DEF Reload, Step, IInv, Flights, Phases
  <1>2. \A d \in Callers : pc'[d] \in Loading <=> pc[d] \in Loading
    BY <1>1, Zenon DEF Loading
  <1>3. \A d \in Callers : pc'[d] = "wait" => pc[d] = "wait"
    BY <1>1, Zenon
  <1> QED BY <1>1, <1>2, <1>3, Invalidated, Zenon

LEMMA Unmoved == ASSUME IInv, UNCHANGED <<pc, flight, waits, popped>> PROVE IInv'
  BY Zenon DEF IInv, Flights, SharedLoad, WaiterServed, Phases, Loading

LEMMA Inductive == IInv /\ [Next]_vars => IInv'
  <1> SUFFICES ASSUME IInv, [Next]_vars PROVE IInv'
    BY Zenon
  <1>1. ASSUME NEW c \in Callers, complete(c) PROVE IInv'
    BY <1>1, StepOf, Zenon DEF complete, shared, locals, Phases, Loading
  <1>2. ASSUME NEW c \in Callers, get_or_load(c) PROVE IInv'
    BY <1>2, GetOrLoadStep, Zenon
  <1>3. ASSUME NEW c \in Callers, get(c) PROVE IInv'
    BY <1>3, StepOf, Zenon DEF get, shared, history, Phases, Loading
  <1>4. ASSUME NEW c \in Callers, _store(c) PROVE IInv'
    BY <1>4, StepOf, Zenon DEF _store, history, Phases, Loading
  <1>5. ASSUME NEW c \in Callers, Expires(c) PROVE IInv'
    BY <1>5, StepOf, Zenon DEF Expires, shared, history, Phases, Loading
  <1>6. ASSUME NEW c \in Callers, Finish(c) PROVE IInv'
    BY <1>6, ReadyStep, Zenon DEF Finish, Loading
  <1>7. ASSUME NEW c \in Callers, Raise(c) PROVE IInv'
    BY <1>7, ReadyStep, Zenon DEF Raise, Loading
  <1>8. ASSUME NEW c \in Callers, Reload(c) PROVE IInv'
    BY <1>8, ReloadStep, Zenon
  <1>9. ASSUME NEW c \in Callers, Return(c) PROVE IInv'
    BY <1>9, StepOf, Zenon DEF Return, shared, Phases, Loading
  <1>10. CASE set
    BY <1>10, Unmoved, Zenon DEF set, locals, history
  <1>11. CASE SetReturns
    BY <1>11, Invalidated, Zenon DEF SetReturns, locals, IInv, Flights
  <1>12. CASE Displace
    BY <1>12, Unmoved, Zenon DEF Displace, locals, history
  <1>13. CASE Tick
    BY <1>13, Unmoved, Zenon DEF Tick, history
  <1>14. CASE UNCHANGED vars
    BY <1>14, Unmoved, Zenon DEF vars, shared, locals, history
  <1> QED BY <1>1, <1>2, <1>3, <1>4, <1>5, <1>6, <1>7, <1>8, <1>9, <1>10, <1>11, <1>12, <1>13, <1>14, Zenon
         DEF Next

\* Flights, loads and waiters of RuntimeCache.get_or_load always match.
THEOREM Invariant == Spec => []IInv
  BY Initial, Inductive, PTL DEF Spec

\* Every load under way is the current flight or was invalidated
\* (RuntimeCache.get_or_load, invalidate): nobody starts a second load beside one
\* that still stands.
THEOREM SharedLoadHolds == Spec => []SharedLoad
  <1>1. IInv => SharedLoad
    BY Zenon DEF IInv
  <1> QED BY <1>1, Invariant, PTL

\* Whoever waits in RuntimeCache.get_or_load waits for a load that is under way,
\* whatever was invalidated or failed meanwhile.
THEOREM WaiterServedHolds == Spec => []WaiterServed
  <1>1. IInv => WaiterServed
    BY Zenon DEF IInv
  <1> QED BY <1>1, Invariant, PTL
-----------------------------------------------------------------------------
(***************************************************************************)
(* Which text a call returns.  A text is held by the caller that loads it  *)
(* and by the entry in memory; what the current flight or the entry holds  *)
(* may still be given to a call that starts now, so it is not older than   *)
(* the last finished set, while a flight that was invalidated only has to  *)
(* suit the callers that wait for it.                                      *)
(***************************************************************************)
Item == [text: Nat, left: Nat]

Clock ==
    /\ age \in Seq(Nat) /\ before \in [Callers -> Nat]
    /\ floor \in 0..Len(age) /\ (setting # None => setting \in floor..Len(age))
    /\ since \in [Callers -> 0..floor]

Row == disk # None => disk \in floor..Len(age) /\ disk > 0 /\ (setting # None => disk >= setting)

Entry == hot # None => hot.item \in Item /\ hot.item.text >= floor

Holds(c) == pc[c] \in {"created", "finish", "check"}

Held(c) == IF pc[c] = "created" THEN text[c] ELSE got[c].text

Typed ==
    /\ DOMAIN text = Callers /\ DOMAIN got = Callers
    /\ \A c \in Callers : pc[c] = "created" => text[c] \in Nat
    /\ \A c \in Callers : pc[c] \in {"finish", "check"} => got[c] \in Item

FlightSuits == flight # None /\ Holds(flight) => Held(flight) >= floor

HolderSuits == \A c \in Callers : Holds(c) => Held(c) >= since[c]

WaiterSuits == \A c \in Callers : pc[c] = "wait" /\ Holds(waits[c]) => Held(waits[c]) >= since[c]

SInv == IInv /\ Clock /\ Row /\ Entry /\ Typed /\ FlightSuits /\ HolderSuits /\ WaiterSuits

LEMMA SetInitial == Init => SInv
  <1> SUFFICES ASSUME Init PROVE SInv
    BY Zenon
  <1>1. IInv
    BY Initial, Zenon
  <1>2. Clock /\ Row /\ Entry /\ Typed
    BY DEF Init, Clock, Row, Entry, Typed
  <1>3. FlightSuits /\ HolderSuits /\ WaiterSuits
    BY Zenon DEF Init, FlightSuits, HolderSuits, WaiterSuits, Holds
  <1> QED BY <1>1, <1>2, <1>3, Zenon DEF SInv

\* What the invariant says of the numbers in use.
LEMMA Numbers ==
  ASSUME SInv
  PROVE  /\ Len(age) \in Nat /\ floor \in Nat /\ floor <= Len(age)
         /\ \A d \in Callers : since[d] \in Nat /\ since[d] <= floor
         /\ \A d \in Callers : Holds(d) => Held(d) \in Nat
         /\ \A i \in Item : i.text \in Nat /\ i # None
         /\ flight # None => flight \in Callers /\ pc[flight] \in Loading
         /\ \A d \in Callers : pc[d] = "wait" => waits[d] \in Callers /\ pc[waits[d]] \in Loading
         /\ None \notin Nat
  <1>1. Len(age) \in Nat /\ floor \in Nat /\ floor <= Len(age)
    BY DEF SInv, Clock
  <1>2. \A d \in Callers : since[d] \in Nat /\ since[d] <= floor
    BY <1>1 DEF SInv, Clock
  <1>3. \A i \in Item : i.text \in Nat /\ i # None
    BY NoneAssumption, Zenon DEF Item
  <1>4. \A d \in Callers : Holds(d) => Held(d) \in Nat
    BY <1>3, Zenon DEF SInv, Typed, Holds, Held
  <1>5. /\ flight # None => flight \in Callers /\ pc[flight] \in Loading
        /\ \A d \in Callers : pc[d] = "wait" => waits[d] \in Callers /\ pc[waits[d]] \in Loading
    BY Zenon DEF SInv, IInv, Flights, WaiterServed
  <1> QED BY <1>1, <1>2, <1>3, <1>4, <1>5, NoneAssumption, Zenon

\* What a step that does not touch them keeps.
LEMMA ClockKept == ASSUME Clock, UNCHANGED <<age, before, floor, setting, since>> PROVE Clock'
  BY Zenon DEF Clock

LEMMA RowKept == ASSUME Row, UNCHANGED <<age, disk, floor, setting>> PROVE Row'
  BY Zenon DEF Row

LEMMA EntryKept == ASSUME Entry, hot' = None \/ hot' = hot, floor' = floor PROVE Entry'
  BY Zenon DEF Entry

LEMMA Moves ==
  ASSUME SInv, NEW c \in Callers, NEW from, NEW to, Step(c, from, to)
  PROVE  pc[c] = from /\ pc'[c] = to /\ \A d \in Callers : d # c => pc'[d] = pc[d]
  BY Zenon DEF SInv, IInv, Flights, Step

LEMMA Domains == SInv => DOMAIN text = Callers /\ DOMAIN got = Callers /\ DOMAIN since = Callers
  BY Zenon DEF SInv, Typed, Clock

LEMMA SinceKept ==
  ASSUME Clock, UNCHANGED <<age, before, floor, setting>>, since' \in [Callers -> 0..floor] PROVE Clock'
  BY Zenon DEF Clock

LEMMA SinceEnds == ASSUME Clock, NEW C, Ends(C) PROVE since' \in [Callers -> 0..floor]
  BY DEF Clock, Ends

\* The flights after a step.
LEMMA Owners ==
  ASSUME IInv'
  PROVE  /\ flight' # None => flight' \in Callers /\ pc'[flight'] \in Loading
         /\ \A d \in Callers : pc'[d] = "wait" => waits'[d] \in Callers /\ pc'[waits'[d]] \in Loading
  BY Zenon DEF IInv, Flights, WaiterServed, Loading

LEMMA AgedSeq ==
  ASSUME NEW s \in Seq(Nat), NEW aged, aged = [n \in DOMAIN s |-> Up(s[n], 2 * TTL)]
  PROVE  aged \in Seq(Nat) /\ Len(aged) = Len(s)
  <1>1. \A n \in Nat : Up(n, 2 * TTL) \in Nat
    BY CompletionAssumption DEF Up
  <1>2. DOMAIN s = 1..Len(s) /\ Len(s) \in Nat /\ \A n \in 1..Len(s) : s[n] \in Nat
    OBVIOUS
  <1>3. aged \in [1..Len(s) -> Nat]
    BY <1>1, <1>2, Zenon
  <1> QED BY <1>2, <1>3

LEMMA LeftNat == ASSUME NEW e \in Nat, NEW a \in Nat PROVE Left(e, a) \in Nat
  BY CompletionAssumption DEF Left

LEMMA NewItem ==
  ASSUME NEW t \in Nat, NEW n \in Nat, NEW i, i = [text |-> t, left |-> n]
  PROVE  i \in Item /\ i.text = t
  BY Zenon DEF Item

LEMMA TypedStep ==
  ASSUME Typed, NEW c \in Callers, DOMAIN text' = Callers, DOMAIN got' = Callers,
         \A d \in Callers : d # c => pc'[d] = pc[d] /\ text'[d] = text[d] /\ got'[d] = got[d],
         pc'[c] = "created" => text'[c] \in Nat,
         pc'[c] \in {"finish", "check"} => got'[c] \in Item
  PROVE  Typed'
  BY Zenon DEF Typed

LEMMA ExpiresItem ==
  ASSUME NEW c \in Callers, Expires(c), DOMAIN got = Callers, text[c] \in Nat, before[c] \in Nat,
         disk # None => age[disk] \in Nat
  PROVE  got'[c] \in Item /\ got'[c].text = text[c]
  <1>1. got'[c] = [text |-> text[c], left |-> Left(before[c], 0)] \/
        (disk # None /\ got'[c] = [text |-> text[c], left |-> Left(before[c], age[disk])])
    BY Zenon DEF Expires
  <1> QED BY <1>1, LeftNat, NewItem, Zenon

\* A step of c that leaves the others, and whom they wait for, as they are: what
\* c holds in a load afterwards it held before, or it suits everybody.
LEMMA HolderStep ==
  ASSUME SInv, IInv', Clock', Row', Entry', Typed', NEW c \in Callers, floor' = floor,
         pc[c] # "wait", pc'[c] # "wait", waits' = waits,
         flight' # None => flight' = flight \/ (flight' = c /\ pc'[c] = "read"),
         \A d \in Callers : d # c => /\ pc'[d] = pc[d] /\ since'[d] = since[d]
                                     /\ text'[d] = text[d] /\ got'[d] = got[d],
         Holds(c)' => Held(c)' >= since'[c],
         pc'[c] \in {"created", "finish"} =>
            \/ Held(c)' \in Nat /\ Held(c)' >= floor
            \/ pc[c] \in {"created", "finish"} /\ Held(c)' = Held(c)
  PROVE  SInv'
  <1>1. \A d \in Callers : d # c => (Holds(d)' <=> Holds(d)) /\ Held(d)' = Held(d)
    BY Zenon DEF Holds, Held
  <1>2. HolderSuits'
    BY <1>1, Zenon DEF SInv, HolderSuits
  <1>3. \A d \in Callers : pc'[d] \in Loading /\ Holds(d)' => pc'[d] \in {"created", "finish"}
    BY Zenon DEF Holds, Loading
  <1>4. ASSUME flight' # None, Holds(flight)' PROVE Held(flight)' >= floor'
    <2>1. flight' \in Callers /\ pc'[flight'] \in Loading
      BY <1>4, Zenon DEF IInv, Flights, Loading
    <2>2. flight' = flight
      BY <1>4, Zenon DEF Holds
    <2>3. CASE flight = c
      <3>1. pc'[c] \in {"created", "finish"}
        BY <2>1, <2>2, <2>3, <1>4, Zenon DEF Holds, Loading
      <3>2. ASSUME Holds(c), Held(c)' = Held(c) PROVE Held(c)' >= floor
        BY <1>4, <2>2, <2>3, <3>2, Zenon DEF SInv, FlightSuits
      <3>3. Held(c)' >= floor
        BY <3>1, <3>2, Zenon DEF Holds
      <3> QED BY <2>2, <2>3, <3>3, Zenon DEF Held
    <2>4. CASE flight # c
      <3>1. Holds(flight) /\ Held(flight)' = Held(flight)
        BY <1>1, <1>4, <2>1, <2>2, <2>4, Zenon DEF Holds, Held
      <3> QED BY <1>4, <2>2, <3>1, Zenon DEF SInv, FlightSuits
    <2> QED BY <2>3, <2>4, Zenon
  <1>5. ASSUME NEW d \in Callers, pc'[d] = "wait", Holds(waits[d])' PROVE Held(waits[d])' >= since'[d]
    <2>1. /\ d # c /\ pc[d] = "wait" /\ since'[d] = since[d]
          /\ waits[d] \in Callers /\ pc'[waits[d]] \in Loading
      BY <1>5, Zenon DEF IInv, WaiterServed, Loading
    <2>2. PICK w \in Callers : w = waits[d]
      BY <2>1, Zenon
    <2>3. pc'[w] \in Loading /\ Holds(w)'
      BY <1>5, <2>1, <2>2, Zenon DEF Holds
    <2>4. Holds(w) => Held(w) >= since[d]
      BY <2>1, <2>2, Zenon DEF SInv, WaiterSuits
    <2>5. Held(w)' >= since[d]
      <3>1. CASE w = c
        <4>1. pc'[c] \in {"created", "finish"}
          BY <1>3, <2>3, <3>1, Zenon
        <4>2. CASE Held(c)' \in Nat /\ Held(c)' >= floor
          BY <4>2, <3>1, Numbers
        <4>3. CASE pc[c] \in {"created", "finish"} /\ Held(c)' = Held(c)
          BY <4>3, <3>1, <2>4, Zenon DEF Holds
        <4> QED BY <4>1, <4>2, <4>3, Zenon
      <3>2. CASE w # c
        BY <1>1, <2>3, <2>4, <3>2, Zenon
      <3> QED BY <3>1, <3>2, Zenon
    <2> QED BY <2>1, <2>2, <2>5, Zenon DEF Held
  <1>6. FlightSuits'
    BY <1>4, Zenon DEF FlightSuits, Holds, Held
  <1>7. WaiterSuits'
    BY <1>5, Zenon DEF WaiterSuits, Holds, Held
  <1> QED BY <1>2, <1>6, <1>7, Zenon DEF SInv

LEMMA SetComplete == ASSUME SInv, IInv', NEW c \in Callers, complete(c) PROVE SInv'
  <1>1. /\ pc[c] = "idle" /\ pc'[c] = "lookup" /\ since'[c] = floor
        /\ \A d \in Callers : d # c => pc'[d] = pc[d] /\ since'[d] = since[d]
        /\ UNCHANGED <<age, disk, hot, flight, waits, before, text, got, floor, setting>>
    BY Moves, Domains, Zenon DEF complete, shared, locals, world
  <1>2. since' \in [Callers -> 0..floor]
    BY Numbers DEF complete, SInv, Clock
  <1>3. Clock' /\ Row' /\ Entry'
    BY <1>1, <1>2, SinceKept, RowKept, EntryKept, Zenon DEF SInv
  <1>4. Typed'
    BY <1>1, Domains, TypedStep, Zenon DEF SInv
  <1> QED BY <1>1, <1>2, <1>3, <1>4, HolderStep, Zenon DEF Holds

LEMMA SetGetOrLoad == ASSUME SInv, IInv', NEW c \in Callers, get_or_load(c) PROVE SInv'
  <1>1. /\ pc[c] = "lookup" /\ \A d \in Callers : d # c => pc'[d] = pc[d]
        /\ UNCHANGED <<age, disk, before, text, since, floor, setting>>
    BY Moves, Zenon DEF get_or_load, Join, Own, history, world
  <1>2. Clock' /\ Row'
    BY <1>1, ClockKept, RowKept, Zenon DEF SInv
  <1>3. CASE /\ hot # None /\ Step(c, "lookup", "check") /\ got' = [got EXCEPT ![c] = hot.item]
             /\ UNCHANGED <<hot, flight, waits>>
    <2>1. /\ pc'[c] = "check" /\ got'[c] = hot.item /\ DOMAIN got' = Callers
          /\ \A d \in Callers : d # c => got'[d] = got[d]
      BY <1>3, Moves, Domains, Zenon
    <2>2. Entry' /\ hot.item \in Item /\ hot.item.text >= floor
      BY <1>1, <1>3, Zenon DEF SInv, Entry
    <2>3. Typed'
      BY <1>1, <2>1, <2>2, Domains, TypedStep, Zenon DEF SInv
    <2>4. Held(c)' >= since'[c]
      BY <1>1, <2>1, <2>2, Numbers DEF Held
    <2> QED BY <1>1, <1>2, <1>3, <2>1, <2>2, <2>3, <2>4, HolderStep
  <1>4. CASE hot' = None /\ UNCHANGED got /\ Own(c)
    <2>1. pc'[c] = "read" /\ flight' = c /\ waits' = waits
      BY <1>4, Moves, Zenon DEF Own
    <2>2. Entry' /\ Typed'
      BY <1>1, <1>4, <2>1, Domains, EntryKept, TypedStep, Zenon DEF SInv
    <2> QED BY <1>1, <1>2, <1>4, <2>1, <2>2, HolderStep, Zenon DEF Holds
  <1>5. CASE hot' = None /\ UNCHANGED got /\ Join(c)
    <2>1. /\ pc'[c] = "wait" /\ flight' = flight /\ flight # None /\ waits'[c] = flight
          /\ \A d \in Callers : d # c => waits'[d] = waits[d]
      BY <1>5, Zenon DEF Join, Step, SInv, IInv, Flights
    <2>2. Entry' /\ Typed'
      BY <1>1, <1>5, <2>1, Domains, EntryKept, TypedStep, Zenon DEF SInv
    <2>3. \A d \in Callers : (Holds(d)' <=> Holds(d)) /\ Held(d)' = Held(d)
      BY <1>1, <1>5, <2>1, Zenon DEF Holds, Held
    <2>4. HolderSuits'
      BY <1>1, <2>3, Zenon DEF SInv, HolderSuits
    <2>5. FlightSuits'
      <3>1. flight \in Callers
        BY <2>1, Numbers, Zenon
      <3>2. Holds(flight)' => Holds(flight)
        BY <2>1, <2>3, <3>1, Zenon DEF Holds
      <3>3. Held(flight)' = Held(flight)
        BY <2>1, <2>3, <3>1, Zenon DEF Held
      <3> QED BY <1>1, <2>1, <3>2, <3>3, Zenon DEF SInv, FlightSuits
    <2>6. ASSUME NEW d \in Callers, pc'[d] = "wait", NEW w \in Callers, w = waits'[d], Holds(w)'
          PROVE  Held(w)' >= since'[d]
      <3>1. Holds(w) /\ Held(w)' = Held(w) /\ since'[d] = since[d]
        BY <1>1, <2>3, <2>6, Zenon
      <3>2. CASE d = c
        BY <2>1, <2>6, <3>1, <3>2, Numbers DEF SInv, FlightSuits
      <3>3. CASE d # c
        BY <1>1, <2>1, <2>6, <3>1, <3>3, Zenon DEF SInv, WaiterSuits
      <3> QED BY <3>2, <3>3, Zenon
    <2>7. WaiterSuits'
      BY <2>6, Owners, Zenon DEF WaiterSuits, Holds, Held
    <2> QED BY <1>2, <2>2, <2>4, <2>5, <2>7, Zenon DEF SInv
  <1> QED BY <1>3, <1>4, <1>5, Zenon DEF get_or_load

LEMMA SetGet == ASSUME SInv, IInv', NEW c \in Callers, get(c) PROVE SInv'
  <1>1. /\ pc[c] = "read" /\ pc'[c] \in {"created", "compute"}
        /\ \A d \in Callers : d # c => pc'[d] = pc[d] /\ text'[d] = text[d]
        /\ UNCHANGED <<age, disk, hot, flight, waits, got, since, floor, setting>>
        /\ pc'[c] = "created" => disk # None /\ text'[c] = disk
        /\ DOMAIN text' = Callers
    BY Moves, Domains DEF get, Live, shared, history, world
  <1>2. Clock'
    BY <1>1, Zenon DEF get, SInv, Clock
  <1>3. Row' /\ Entry'
    BY <1>1, RowKept, EntryKept, Zenon DEF SInv
  <1>4. pc'[c] = "created" => text'[c] \in Nat /\ text'[c] >= floor
    BY <1>1, Numbers, SMTT(30) DEF SInv, Row
  <1>5. Typed'
    BY <1>1, <1>4, Domains, TypedStep, Zenon DEF SInv
  <1>6. Holds(c)' => Held(c)' \in Nat /\ Held(c)' >= floor
    BY <1>1, <1>4, Zenon DEF Holds, Held
  <1>7. Holds(c)' => Held(c)' >= since'[c]
    BY <1>1, <1>6, Numbers
  <1> QED BY <1>1, <1>2, <1>3, <1>5, <1>6, <1>7, HolderStep, Zenon DEF Holds

LEMMA Grown == ASSUME SInv, age' = Append(age, 0) PROVE age' \in Seq(Nat) /\ Len(age') = Len(age) + 1
  BY DEF SInv, Clock

LEMMA SetStore == ASSUME SInv, IInv', NEW c \in Callers, _store(c) PROVE SInv'
  <1>1. /\ pc[c] = "compute" /\ pc'[c] = "created" /\ text'[c] = Len(age) + 1
        /\ \A d \in Callers : d # c => pc'[d] = pc[d] /\ text'[d] = text[d]
        /\ UNCHANGED <<hot, flight, waits, before, got, since, floor, setting>>
        /\ age' = Append(age, 0) /\ DOMAIN text' = Callers
        /\ disk' = Len(age) + 1 \/ disk' = disk
    BY Moves, Domains, Zenon DEF _store, Minted, history, world
  <1>2. Clock'
    BY <1>1, Grown, Numbers, SMTT(30) DEF SInv, Clock
  <1>3. Row'
    BY <1>1, Grown, Numbers, SMTT(30) DEF SInv, Row, Clock
  <1>4. Entry'
    BY <1>1, EntryKept, Zenon DEF SInv
  <1>5. Typed'
    BY <1>1, Numbers, Domains, TypedStep, SMTT(30) DEF SInv
  <1>6. Held(c)' \in Nat /\ Held(c)' >= floor /\ Held(c)' >= since'[c]
    BY <1>1, Numbers, SMTT(30) DEF Held
  <1> QED BY <1>1, <1>2, <1>3, <1>4, <1>5, <1>6, HolderStep, Zenon

LEMMA SetExpires == ASSUME SInv, IInv', NEW c \in Callers, Expires(c) PROVE SInv'
  <1>1. /\ pc[c] = "created" /\ pc'[c] = "finish" /\ before' = [before EXCEPT ![c] = 0]
        /\ \A d \in Callers : d # c => pc'[d] = pc[d] /\ text'[d] = text[d] /\ got'[d] = got[d]
        /\ UNCHANGED <<age, disk, hot, flight, waits, since, floor, setting>>
        /\ DOMAIN text' = Callers /\ DOMAIN got' = Callers
    BY Moves, Domains, Zenon DEF Expires, shared, history, world
  <1>2. text[c] \in Nat
    BY <1>1, Zenon DEF SInv, Typed
  <1>a. before[c] \in Nat
    BY Zenon DEF SInv, Clock
  <1>b. disk # None => age[disk] \in Nat
    BY Numbers, SMTT(30) DEF SInv, Clock, Row
  <1>3. got'[c] \in Item /\ got'[c].text = text[c]
    BY <1>2, <1>a, <1>b, Domains, ExpiresItem, Zenon
  <1>4. Clock'
    BY <1>1, Zenon DEF SInv, Clock
  <1>5. Row' /\ Entry'
    BY <1>1, RowKept, EntryKept, Zenon DEF SInv
  <1>6. Typed'
    BY <1>1, <1>3, TypedStep, Zenon DEF SInv
  <1>7. Held(c)' = Held(c)
    BY <1>1, <1>3, Zenon DEF Held
  <1>8. Held(c)' >= since'[c]
    BY <1>1, <1>7, Zenon DEF SInv, HolderSuits, Holds
  <1> QED BY <1>1, <1>4, <1>5, <1>6, <1>7, <1>8, HolderStep, Zenon

LEMMA SetReload == ASSUME SInv, IInv', NEW c \in Callers, Reload(c) PROVE SInv'
  <1>1. /\ pc[c] = "check" /\ pc'[c] = "lookup" /\ hot' = None /\ flight' = None
        /\ \A d \in Callers : d # c => pc'[d] = pc[d] /\ got'[d] = got[d]
        /\ UNCHANGED <<age, disk, waits, before, text, since, floor, setting>>
        /\ DOMAIN got' = Callers
    BY Moves, Domains, ZenonT(30) DEF Reload, invalidate, world
  <1>2. Clock' /\ Row' /\ Entry'
    BY <1>1, ClockKept, RowKept, EntryKept, Zenon DEF SInv
  <1>3. Typed'
    BY <1>1, Domains, TypedStep, Zenon DEF SInv
  <1> QED BY <1>1, <1>2, <1>3, HolderStep, Zenon DEF Holds

LEMMA SetReturn == ASSUME SInv, IInv', NEW c \in Callers, Return(c) PROVE SInv'
  <1>1. /\ pc[c] = "check" /\ pc'[c] = "idle"
        /\ \A d \in Callers : d # c => pc'[d] = pc[d] /\ got'[d] = got[d] /\ since'[d] = since[d]
        /\ UNCHANGED <<age, disk, hot, flight, waits, before, text, floor, setting>>
        /\ DOMAIN got' = Callers
    BY Moves, Domains, Zenon DEF Return, Ends, shared, world
  <1>2. since' \in [Callers -> 0..floor]
    BY SinceEnds, Zenon DEF Return, SInv
  <1>3. Clock' /\ Row' /\ Entry'
    BY <1>1, <1>2, SinceKept, RowKept, EntryKept, ZenonT(30) DEF SInv
  <1>4. Typed'
    BY <1>1, Domains, TypedStep, Zenon DEF SInv
  <1> QED BY <1>1, <1>2, <1>3, <1>4, HolderStep, Zenon DEF Holds

\* The end of a load: what its owner and its waiters hold afterwards suits them.
LEMMA SetReady ==
  ASSUME SInv, IInv', Clock', Row', Entry', Typed', floor' = floor, text' = text,
         NEW c \in Callers, NEW label \in {"check", "idle"}, pc[c] \in Loading, Ready(c, label),
         \A d \in Callers : d # c /\ d \notin Waiting(c) => since'[d] = since[d] /\ got'[d] = got[d],
         \A d \in Callers : (d = c \/ d \in Waiting(c)) /\ Holds(d)' => Held(d)' >= since'[d]
  PROVE  SInv'
  <1>1. /\ \A d \in Callers : d # c /\ d \notin Waiting(c) => pc'[d] = pc[d] /\ waits'[d] = waits[d]
        /\ \A d \in Callers : d = c \/ d \in Waiting(c) => pc'[d] = label
        /\ label # "wait" /\ label \notin Loading
        /\ flight' # None => flight' = flight
    BY Zenon DEF Ready, Loading
  <1>2. \A d \in Callers : d # c /\ d \notin Waiting(c) => (Holds(d)' <=> Holds(d)) /\ Held(d)' = Held(d)
    BY <1>1, Zenon DEF Holds, Held
  <1>3. HolderSuits'
    BY <1>2, ZenonT(30) DEF SInv, HolderSuits
  <1>4. \A d \in Callers : pc'[d] \in Loading => d # c /\ d \notin Waiting(c)
    BY <1>1, Zenon
  <1>5. ASSUME flight' # None, NEW w \in Callers, w = flight', Holds(w)' PROVE Held(w)' >= floor'
    <2>1. w = flight /\ w # c /\ w \notin Waiting(c)
      BY <1>1, <1>4, <1>5, Zenon DEF IInv, Flights, Ready, Loading
    <2>2. Holds(w) /\ Held(w)' = Held(w)
      BY <1>2, <1>5, <2>1, Zenon
    <2> QED BY <1>5, <2>1, <2>2, Zenon DEF SInv, FlightSuits
  <1>6. ASSUME NEW d \in Callers, pc'[d] = "wait", NEW w \in Callers, w = waits'[d], Holds(w)'
        PROVE  Held(w)' >= since'[d]
    <2>1. d # c /\ d \notin Waiting(c)
      BY <1>1, <1>6, Zenon
    <2>2. pc'[w] \in Loading
      BY <1>6, Zenon DEF IInv, WaiterServed, Loading
    <2>3. pc[d] = "wait" /\ w = waits[d] /\ since'[d] = since[d]
      BY <1>1, <1>6, <2>1, Zenon
    <2>4. Holds(w) /\ Held(w)' = Held(w)
      BY <1>2, <1>4, <1>6, <2>2, Zenon
    <2> QED BY <2>3, <2>4, Zenon DEF SInv, WaiterSuits
  <1>7. FlightSuits'
    BY <1>5, Owners, Zenon DEF FlightSuits, Holds, Held
  <1>8. WaiterSuits'
    BY <1>6, Owners, Zenon DEF WaiterSuits, Holds, Held
  <1> QED BY <1>3, <1>7, <1>8, ZenonT(30) DEF SInv

LEMMA SetFinish == ASSUME SInv, IInv', NEW c \in Callers, Finish(c) PROVE SInv'
  <1>1. /\ pc[c] = "finish" /\ Ready(c, "check") /\ Publish(c)
        /\ UNCHANGED <<age, disk, before, text, since, floor, setting>>
    BY Zenon DEF Finish, world
  <1>2. DOMAIN got' = Callers /\ \A d \in Callers : got'[d] = IF d \in Waiting(c) THEN got[c] ELSE got[d]
    BY Zenon DEF Finish
  <1>3. \A d \in Callers : pc'[d] = IF d = c \/ d \in Waiting(c) THEN "check" ELSE pc[d]
    BY <1>1, Zenon DEF Ready
  <1>4. c \notin Waiting(c) /\ pc[c] \in Loading
    BY <1>1, Zenon DEF Waiting, Loading
  <1>5. got[c] \in Item
    BY <1>1, Zenon DEF SInv, Typed
  <1>6. Holds(c) /\ Held(c) = got[c].text
    BY <1>1, Zenon DEF Holds, Held
  <1>7. Clock' /\ Row'
    BY <1>1, ClockKept, RowKept, Zenon DEF SInv
  <1>8. Entry'
    <2>1. flight = c => got[c].text >= floor
      BY <1>6, NotCaller, Zenon DEF SInv, FlightSuits
    <2> QED BY <1>1, <1>5, <2>1, Zenon DEF Publish, SInv, Entry
  <1>9. Typed'
    BY <1>1, <1>2, <1>3, <1>5, Zenon DEF SInv, Typed
  <1>10. ASSUME NEW d \in Callers, d = c \/ d \in Waiting(c) PROVE Held(d)' >= since'[d]
    <2>1. Held(d)' = Held(c)
      BY <1>2, <1>3, <1>4, <1>6, <1>10, Zenon DEF Held
    <2>2. since'[d] = since[d]
      BY <1>1, Zenon
    <2>3. CASE d = c
      BY <1>6, <2>1, <2>2, <2>3, Zenon DEF SInv, HolderSuits
    <2>4. CASE d \in Waiting(c)
      BY <1>6, <2>1, <2>2, <2>4, Zenon DEF SInv, WaiterSuits, Waiting
    <2> QED BY <1>10, <2>3, <2>4, Zenon
  <1>11. \A d \in Callers : d # c /\ d \notin Waiting(c) => since'[d] = since[d] /\ got'[d] = got[d]
    BY <1>1, <1>2, Zenon
  <1> QED BY <1>1, <1>4, <1>7, <1>8, <1>9, <1>10, <1>11, SetReady, Zenon

LEMMA SetRaise == ASSUME SInv, IInv', NEW c \in Callers, Raise(c) PROVE SInv'
  <1>1. /\ pc[c] = "compute" /\ Ready(c, "idle")
        /\ UNCHANGED <<age, disk, hot, text, got, floor, setting>>
        /\ \A d \in Callers : pc'[d] = IF d = c \/ d \in Waiting(c) THEN "idle" ELSE pc[d]
        /\ \A d \in Callers : d # c /\ d \notin Waiting(c) => since'[d] = since[d]
    BY Zenon DEF Raise, Ready, Ends, world
  <1>2. Clock'
    <2>1. since' \in [Callers -> 0..floor]
      BY SinceEnds, Zenon DEF Raise, SInv
    <2>2. before' \in [Callers -> Nat]
      BY Zenon DEF Raise, SInv, Clock
    <2> QED BY <1>1, <2>1, <2>2, Zenon DEF SInv, Clock
  <1>3. Row' /\ Entry'
    BY <1>1, RowKept, EntryKept, Zenon DEF SInv
  <1>4. Typed'
    BY <1>1, Zenon DEF SInv, Typed
  <1>5. \A d \in Callers : d = c \/ d \in Waiting(c) => ~Holds(d)'
    BY <1>1, Zenon DEF Holds
  <1>6. pc[c] \in Loading
    BY <1>1, Zenon DEF Loading
  <1> QED BY <1>1, <1>2, <1>3, <1>4, <1>5, <1>6, SetReady, Zenon

LEMMA SetSet == ASSUME SInv, IInv', set PROVE SInv'
  <1>1. /\ UNCHANGED <<pc, hot, flight, waits, before, text, got, since, floor>> /\ setting = None
        /\ \/ disk' = Len(age) + 1 /\ age' = Append(age, 0) /\ setting' = Len(age) + 1
           \/ disk' = disk /\ age' = age /\ setting' = floor
    BY Zenon DEF set, Minted, locals, history
  <1>2. Clock'
    BY <1>1, Grown, Numbers DEF SInv, Clock
  <1>3. Row'
    BY <1>1, Grown, Numbers DEF SInv, Row, Clock
  <1>4. Entry' /\ Typed'
    BY <1>1, Zenon DEF SInv, Entry, Typed
  <1>5. FlightSuits' /\ HolderSuits' /\ WaiterSuits'
    BY <1>1, Zenon DEF SInv, FlightSuits, HolderSuits, WaiterSuits, Holds, Held
  <1> QED BY <1>2, <1>3, <1>4, <1>5, Zenon DEF SInv

LEMMA SetSetReturns == ASSUME SInv, IInv', SetReturns PROVE SInv'
  <1>1. /\ UNCHANGED <<age, pc, disk, waits, before, text, got, since>>
        /\ hot' = None /\ flight' = None /\ setting # None /\ setting' = None /\ floor' = setting
    BY Zenon DEF SetReturns, invalidate, locals
  <1>2. setting \in Nat /\ floor <= setting /\ setting <= Len(age)
    BY <1>1, Numbers DEF SInv, Clock
  <1>3. Clock'
    BY <1>1, <1>2, Numbers DEF SInv, Clock
  <1>4. Row'
    BY <1>1, <1>2, Numbers, SMTT(30) DEF SInv, Row
  <1>5. Entry' /\ Typed' /\ FlightSuits'
    BY <1>1, Zenon DEF SInv, Entry, Typed, FlightSuits
  <1>6. HolderSuits' /\ WaiterSuits'
    BY <1>1, Zenon DEF SInv, HolderSuits, WaiterSuits, Holds, Held
  <1> QED BY <1>3, <1>4, <1>5, <1>6, Zenon DEF SInv

LEMMA SetDisplace == ASSUME SInv, IInv', Displace PROVE SInv'
  <1>1. /\ UNCHANGED <<age, pc, flight, waits, before, text, got, since, floor, setting>>
        /\ hot' = None \/ hot' = hot
        /\ disk' = None \/ disk' = disk
    BY Zenon DEF Displace, locals, history, world
  <1>2. Clock' /\ Row' /\ Entry' /\ Typed'
    BY <1>1, Zenon DEF SInv, Clock, Row, Entry, Typed
  <1>3. FlightSuits' /\ HolderSuits' /\ WaiterSuits'
    BY <1>1, Zenon DEF SInv, FlightSuits, HolderSuits, WaiterSuits, Holds, Held
  <1> QED BY <1>2, <1>3, Zenon DEF SInv

LEMMA AgedItem == ASSUME NEW i \in Item PROVE Aged(i) \in Item /\ Aged(i).text = i.text
  <1>1. i # None
    BY NoneAssumption, Zenon DEF Item
  <1>2. \A n \in Nat : Down(n) \in Nat
    BY DEF Down
  <1> QED BY <1>1, <1>2, Zenon DEF Aged, Item

LEMMA SetTick == ASSUME SInv, IInv', Tick PROVE SInv'
  <1>1. /\ UNCHANGED <<pc, disk, flight, waits, text, since, floor, setting>>
        /\ \A d \in Callers : got'[d] = Aged(got[d])
        /\ DOMAIN got' = Callers
    BY Zenon DEF Tick, history, world
  <1>2. \A n \in Nat : Up(n, TTL) \in Nat
    BY CompletionAssumption, SMTT(30) DEF Up
  <1>3. age' \in Seq(Nat) /\ Len(age') = Len(age)
    BY AgedSeq, Zenon DEF Tick, SInv, Clock
  <1>4. before' \in [Callers -> Nat]
    BY <1>2, Zenon DEF Tick, SInv, Clock
  <1>5. Clock'
    BY <1>1, <1>3, <1>4, Zenon DEF SInv, Clock
  <1>6. Row'
    BY <1>1, <1>3, Zenon DEF SInv, Row
  <1>7. Entry'
    <2>1. hot' # None => hot # None /\ hot'.item = Aged(hot.item)
      BY Zenon DEF Tick
    <2> QED BY <1>1, <2>1, AgedItem, Zenon DEF SInv, Entry
  <1>8. \A d \in Callers : pc[d] \in {"finish", "check"} => got'[d] \in Item /\ got'[d].text = got[d].text
    BY <1>1, AgedItem, Zenon DEF SInv, Typed
  <1>9. Typed'
    BY <1>1, <1>8, Zenon DEF SInv, Typed
  <1>10. \A d \in Callers : (Holds(d)' <=> Holds(d)) /\ (Holds(d) => Held(d)' = Held(d))
    BY <1>1, <1>8, Zenon DEF Holds, Held
  <1>11. HolderSuits'
    BY <1>1, <1>10, Zenon DEF SInv, HolderSuits
  <1>12. FlightSuits'
    <2>1. ASSUME NEW w \in Callers, w = flight, Holds(w) PROVE Held(w)' >= floor'
      BY <1>1, <1>10, <2>1, NotCaller, Zenon DEF SInv, FlightSuits
    <2> QED BY <1>1, <2>1, Numbers, Zenon DEF FlightSuits, Holds, Held
  <1>13. WaiterSuits'
    <2>1. ASSUME NEW d \in Callers, pc[d] = "wait", NEW w \in Callers, w = waits[d], Holds(w)
          PROVE  Held(w)' >= since'[d]
      BY <1>1, <1>10, <2>1, Zenon DEF SInv, WaiterSuits
    <2> QED BY <1>1, <2>1, Numbers, Zenon DEF WaiterSuits, Holds, Held
  <1> QED BY <1>5, <1>6, <1>7, <1>9, <1>11, <1>12, <1>13, Zenon DEF SInv

LEMMA SetInductive == SInv /\ [Next]_vars => SInv'
  <1> SUFFICES ASSUME SInv, [Next]_vars PROVE SInv'
    BY Zenon
  <1>1. IInv'
    BY Inductive, Zenon DEF SInv
  <1>2. CASE \E c \in Callers : complete(c) \/ get_or_load(c) \/ get(c) \/ _store(c) \/ Expires(c)
    BY <1>1, <1>2, SetComplete, SetGetOrLoad, SetGet, SetStore, SetExpires, Zenon
  <1>3. CASE \E c \in Callers : Finish(c) \/ Raise(c) \/ Reload(c) \/ Return(c)
    BY <1>1, <1>3, SetFinish, SetRaise, SetReload, SetReturn, Zenon
  <1>4. CASE set \/ SetReturns \/ Displace \/ Tick
    BY <1>1, <1>4, SetSet, SetSetReturns, SetDisplace, SetTick, Zenon
  <1>5. CASE UNCHANGED vars
    <2>1. UNCHANGED <<age, pc, disk, hot, flight, waits, before, text, got, since, floor, setting>>
      BY <1>5, Zenon DEF vars, shared, locals, history, world
    <2>2. Clock' /\ Row' /\ Entry' /\ Typed'
      BY <2>1, Zenon DEF SInv, Clock, Row, Entry, Typed
    <2>3. FlightSuits' /\ HolderSuits' /\ WaiterSuits'
      BY <2>1, Zenon DEF SInv, FlightSuits, HolderSuits, WaiterSuits, Holds, Held
    <2> QED BY <1>1, <2>2, <2>3, Zenon DEF SInv
  <1> QED BY <1>2, <1>3, <1>4, <1>5, Zenon DEF Next

\* A call of llm.complete that starts after LLMCache.set has returned gives the
\* text of that set or one stored later, whatever was in memory or in flight: the
\* publication by the current flight only (RuntimeCache.get_or_load) and the
\* invalidation after the store (LLMCache.set) together achieve it.
THEOREM SetWinsHolds == Spec => []SetWins
  <1>1. SInv => SetWins
    BY Zenon DEF SInv, HolderSuits, SetWins, Returns, Holds, Held
  <1> QED BY <1>1, SetInitial, SetInductive, PTL DEF Spec

-----------------------------------------------------------------------------
(***************************************************************************)
(* How old a text can be that a call returns.  What is left of an item     *)
(* bounds the age of its text, so an item with something left is young     *)
(* enough.  A caller that found nothing left loads again and takes what it *)
(* gets; whatever it can still be given by then, the entry, the current    *)
(* flight or the one it waits for, was read after its call began.          *)
(***************************************************************************)
Stored ==
    /\ age \in Seq(0..2 * TTL)
    /\ disk \in {None} \cup Texts /\ hot \in {None} \cup [item: Items, until: 0..HotTTL]
    /\ floor \in 0..Len(age) /\ setting \in {None} \cup floor..Len(age)
    /\ sets \in Nat /\ faults \in Nat

Local ==
    /\ before \in [Callers -> 0..TTL]
    /\ text \in [Callers -> {None} \cup Texts] /\ got \in [Callers -> {None} \cup Items]
    /\ \A c \in Callers : pc[c] = "created" => text[c] # None
    /\ \A c \in Callers : pc[c] \in {"finish", "check"} => got[c] # None
    /\ again \subseteq Callers /\ popped \subseteq Callers
    /\ dead \in [Callers -> SUBSET Texts] /\ since \in [Callers -> 0..floor]

Young(i) == i.left > 0 => age[i.text] + i.left < 2 * TTL

Ages ==
    /\ \A c \in Callers : \A n \in dead[c] : age[n] = 2 * TTL
    /\ \A c \in Callers : pc[c] = "created" => age[text[c]] < TTL + before[c] \/ before[c] = TTL
    /\ hot # None => Young(hot.item)
    /\ \A c \in Callers : got[c] # None => Young(got[c])

\* Caller d may be given what w holds.
Reaches(w, d) == w = flight \/ w = d \/ (pc[d] = "wait" /\ w = waits[d])

Fresh(d) ==
    /\ pc[d] # "idle"
    /\ hot # None => hot.item.text \notin dead[d]
    /\ \A w \in Callers : Holds(w) /\ Reaches(w, d) => Held(w) \notin dead[d]

BInv == IInv /\ Stored /\ Local /\ Ages /\ \A d \in again : Fresh(d)

LEMMA TypeParts == IInv /\ Stored /\ Local => TypeOK
  BY Zenon DEF IInv, Flights, Phases, Stored, Local, TypeOK

LEMMA BoundedInitial == Init => BInv
  <1> SUFFICES ASSUME Init PROVE BInv
    BY Zenon
  <1>1. IInv
    BY Initial, Zenon
  <1>2. age \in Seq(0..2 * TTL) /\ Len(age) = 0 /\ Texts = {}
    <2> DEFINE S == 0..2 * TTL
    <2>1. age = <<>>
      BY Zenon DEF Init
    <2> HIDE DEF S
    <2>2. age \in Seq(S) /\ Len(age) = 0
      BY <2>1
    <2> QED BY <2>2 DEF S, Texts
  <1>3. Stored
    BY <1>2 DEF Init, Stored
  <1>4. Local
    BY <1>2, CompletionAssumption, SMTT(30) DEF Init, Local
  <1>5. Ages
    BY Zenon DEF Init, Ages
  <1> QED BY <1>1, <1>3, <1>4, <1>5, Zenon DEF BInv, Init

\* Texts and items are told apart from None.
LEMMA Kinds ==
  ASSUME Stored
  PROVE  /\ TTL \in Nat /\ TTL > 0 /\ HotTTL \in Nat /\ Len(age) \in Nat /\ floor \in Nat
         /\ \A n \in Texts : n \in Nat /\ n # None /\ age[n] \in 0..2 * TTL
         /\ \A i \in Items : i # None /\ i.text \in Texts /\ i.left \in 0..TTL
  <1>1. TTL \in Nat /\ TTL > 0 /\ HotTTL \in Nat
    BY CompletionAssumption
  <1>2. Len(age) \in Nat /\ \A n \in Texts : n \in Nat /\ age[n] \in 0..2 * TTL
    <2> DEFINE S == 0..2 * TTL
    <2>1. age \in Seq(S)
      BY Zenon DEF Stored
    <2> HIDE DEF S
    <2>2. Len(age) \in Nat /\ \A n \in 1..Len(age) : age[n] \in S
      BY <2>1
    <2> QED BY <2>2 DEF S, Texts
  <1>3. ASSUME NEW i \in Items PROVE i # None /\ i.text \in Texts /\ i.left \in 0..TTL
    <2>1. i \in [text: Nat, left: Nat]
      BY <1>1, <1>2 DEF Items
    <2> QED BY <2>1, NoneAssumption, Zenon DEF Items
  <1> QED BY <1>1, <1>2, <1>3, NoneAssumption DEF Stored

LEMMA MintedFacts ==
  ASSUME Stored, age' = Append(age, 0)
  PROVE  /\ age' \in Seq(0..2 * TTL) /\ Len(age') = Len(age) + 1
         /\ Texts' = Texts \cup {Len(age) + 1} /\ Len(age) + 1 \notin Texts /\ age'[Len(age) + 1] = 0
         /\ \A n \in Texts : age'[n] = age[n]
         /\ Items \subseteq Items'
  <1> DEFINE S == 0..2 * TTL
  <1>1. age \in Seq(S) /\ 0 \in S
    BY Kinds DEF Stored
  <1> HIDE DEF S
  <1>2. /\ age' \in Seq(S) /\ Len(age) \in Nat /\ Len(age') = Len(age) + 1 /\ age'[Len(age) + 1] = 0
        /\ \A n \in 1..Len(age) : age'[n] = age[n]
    BY <1>1
  <1>3. Texts' = Texts \cup {Len(age) + 1} /\ Len(age) + 1 \notin Texts
    BY <1>2 DEF Texts
  <1>4. Items \subseteq Items'
    BY <1>3, Zenon DEF Items
  <1> QED BY <1>2, <1>3, <1>4, Zenon DEF S, Texts

LEMMA MovesOf ==
  ASSUME IInv, NEW c \in Callers, NEW from, NEW to, Step(c, from, to)
  PROVE  pc[c] = from /\ pc'[c] = to /\ \A d \in Callers : d # c => pc'[d] = pc[d]
  BY Zenon DEF IInv, Flights, Step

LEMMA StoredKept == ASSUME Stored, UNCHANGED <<age, disk, hot, floor, setting, sets, faults>> PROVE Stored'
  BY Zenon DEF Stored, Texts, Items

\* Ages after a step that takes no time: the old texts keep theirs, and what is new
\* is young or counted from now.
LEMMA AgesStep ==
  ASSUME Stored, Local, Ages, \A n \in Texts : age'[n] = age[n],
         \A c \in Callers : dead'[c] = dead[c] \/ (\A n \in dead'[c] : age'[n] = 2 * TTL),
         \A c \in Callers : pc'[c] = "created" =>
            \/ pc[c] = "created" /\ text'[c] = text[c] /\ before'[c] = before[c]
            \/ age'[text'[c]] < TTL + before'[c],
         hot' # None => (hot # None /\ hot'.item = hot.item) \/ Young(hot.item)',
         \A c \in Callers : got'[c] # None => (got[c] # None /\ got'[c] = got[c]) \/ Young(got[c])'
  PROVE  Ages'
  <1>1. \A c \in Callers : \A n \in dead'[c] : age'[n] = 2 * TTL
    BY Zenon DEF Ages, Local
  <1>2. \A c \in Callers : pc'[c] = "created" => age'[text'[c]] < TTL + before'[c] \/ before'[c] = TTL
    BY Zenon DEF Ages, Local
  <1>3. \A i \in Items : Young(i) => (i.left > 0 => age'[i.text] + i.left < 2 * TTL)
    BY Kinds, Zenon DEF Young
  <1>4. hot' # None => Young(hot.item)'
    <2>1. hot # None => hot.item \in Items
      BY Zenon DEF Stored
    <2> QED BY <1>3, <2>1, Zenon DEF Ages, Young
  <1>5. \A c \in Callers : got'[c] # None => Young(got[c])'
    <2>1. \A c \in Callers : got[c] # None => got[c] \in Items
      BY Zenon DEF Local
    <2> QED BY <1>3, <2>1, Zenon DEF Ages, Young
  <1> QED BY <1>1, <1>2, <1>4, <1>5, Zenon DEF Ages

\* What still may be given to caller d after a step, it might be given before or
\* it is not among the texts that were too old.
LEMMA FreshStep ==
  ASSUME NEW d \in Callers, Fresh(d), dead'[d] = dead[d], pc'[d] # "idle",
         hot' # None => hot'.item.text \notin dead[d] \/ (hot # None /\ hot'.item.text = hot.item.text),
         \A w \in Callers : Holds(w)' /\ Reaches(w, d)' =>
            Held(w)' \notin dead[d] \/ (Holds(w) /\ Reaches(w, d) /\ Held(w)' = Held(w))
  PROVE  Fresh(d)'
  BY Zenon DEF Fresh

LEMMA BoundedComplete == ASSUME BInv, IInv', NEW c \in Callers, complete(c) PROVE BInv'
  <1>1. /\ pc[c] = "idle" /\ pc'[c] = "lookup" /\ \A d \in Callers : d # c => pc'[d] = pc[d]
        /\ UNCHANGED <<age, disk, hot, flight, waits, before, text, got, again, popped, setting, floor, sets, faults>>
    BY MovesOf, Zenon DEF BInv, complete, shared, locals, world
  <1>2. /\ dead' = [dead EXCEPT ![c] = {n \in Texts : age[n] = 2 * TTL}]
        /\ since' = [since EXCEPT ![c] = floor]
    BY Zenon DEF complete, Texts
  <1>3. Stored'
    BY <1>1, StoredKept, Zenon DEF BInv
  <1>4. dead' \in [Callers -> SUBSET Texts] /\ since' \in [Callers -> 0..floor]
    BY <1>2, Kinds, SMTT(30) DEF BInv, Local
  <1>5. Local'
    BY <1>1, <1>4, ZenonT(30) DEF BInv, Local, Texts, Items
  <1>6. Ages'
    BY <1>1, <1>2, AgesStep, ZenonT(30) DEF BInv, Local
  <1>7. ASSUME NEW d \in again' PROVE Fresh(d)'
    <2>1. d \in Callers /\ Fresh(d) /\ d # c
      BY <1>1, <1>7, ZenonT(30) DEF BInv, Local, Fresh
    <2>2. dead'[d] = dead[d] /\ pc'[d] # "idle"
      BY <1>1, <1>2, <2>1, Zenon DEF BInv, Local, Fresh
    <2>3. \A w \in Callers : Holds(w)' /\ Reaches(w, d)' => Holds(w) /\ Reaches(w, d) /\ Held(w)' = Held(w)
      BY <1>1, <2>1, ZenonT(30) DEF Holds, Held, Reaches
    <2> QED BY <1>1, <2>1, <2>2, <2>3, FreshStep, ZenonT(30)
  <1> QED BY <1>3, <1>5, <1>6, <1>7, Zenon DEF BInv

LEMMA BoundedGetOrLoad == ASSUME BInv, IInv', NEW c \in Callers, get_or_load(c) PROVE BInv'
  <1>1. /\ pc[c] = "lookup" /\ \A d \in Callers : d # c => pc'[d] = pc[d]
        /\ UNCHANGED <<age, disk, before, text, again, popped, dead, since, setting, floor, sets, faults>>
    BY MovesOf, ZenonT(30) DEF BInv, get_or_load, Join, Own, history, world
  <1>2. \/ /\ hot # None /\ pc'[c] = "check" /\ got' = [got EXCEPT ![c] = hot.item]
           /\ UNCHANGED <<hot, flight, waits>>
        \/ /\ hot' = None /\ UNCHANGED got /\ pc'[c] = "wait" /\ flight # None
           /\ waits' = [waits EXCEPT ![c] = flight] /\ flight' = flight
        \/ hot' = None /\ UNCHANGED <<got, waits>> /\ pc'[c] = "read" /\ flight' = c
    BY MovesOf, Zenon DEF BInv, get_or_load, Join, Own
  <1>3. hot # None => hot.item \in Items /\ hot.item # None
    BY Kinds, Zenon DEF BInv, Stored
  <1>4. hot' = None \/ hot' = hot
    BY <1>2, Zenon
  <1>5. Stored'
    BY <1>1, <1>4, Zenon DEF BInv, Stored, Texts, Items
  <1>6. got' \in [Callers -> {None} \cup Items] /\ (pc'[c] = "check" => got'[c] # None)
    BY <1>2, <1>3, Zenon DEF BInv, Local
  <1>7. pc'[c] \notin {"created", "finish"} /\ \A d \in Callers : d # c => got'[d] = got[d]
    BY <1>2, Zenon DEF BInv, Local
  <1>8. Local'
    BY <1>1, <1>6, <1>7, ZenonT(30) DEF BInv, Local, Texts, Items
  <1>9. got'[c] = got[c] \/ Young(got[c])'
    BY <1>1, <1>2, ZenonT(30) DEF BInv, Local, Ages, Young
  <1>10. Ages'
    BY <1>1, <1>4, <1>7, <1>9, AgesStep, ZenonT(30) DEF BInv
  <1>11. ASSUME NEW d \in again' PROVE Fresh(d)'
    <2>1. d \in Callers /\ d \in again /\ Fresh(d) /\ pc'[d] # "idle"
      BY <1>1, <1>2, <1>11, ZenonT(30) DEF BInv, Local, Fresh
    <2>2. ASSUME NEW w \in Callers, Holds(w)', Reaches(w, d)'
          PROVE  Held(w)' \notin dead[d] \/ (Holds(w) /\ Reaches(w, d) /\ Held(w)' = Held(w))
      <3>1. CASE w # c
        <4>1. Holds(w) /\ Held(w)' = Held(w)
          BY <1>1, <1>7, <2>2, <3>1, Zenon DEF Holds, Held
        <4>2. Reaches(w, d)
          BY <1>1, <1>2, <2>1, <2>2, <3>1, Zenon DEF Reaches, BInv, IInv, Flights
        <4> QED BY <4>1, <4>2, Zenon
      <3>2. CASE w = c
        <4>1. /\ hot # None /\ pc'[c] = "check" /\ got' = [got EXCEPT ![c] = hot.item]
              /\ UNCHANGED <<hot, flight, waits>>
          BY <1>2, <2>2, <3>2, Zenon DEF Holds
        <4>2. d = c
          BY <1>1, <4>1, <2>1, <2>2, <3>2, NotCaller, Zenon DEF Reaches, BInv, IInv, Flights, WaiterServed, Loading
        <4>3. Held(c)' = hot.item.text
          BY <4>1, Zenon DEF Held, BInv, Local
        <4> QED BY <2>1, <3>2, <4>1, <4>2, <4>3, ZenonT(30) DEF Fresh
      <3> QED BY <3>1, <3>2, Zenon
    <2> QED BY <1>1, <1>4, <2>1, <2>2, FreshStep, ZenonT(30)
  <1> QED BY <1>5, <1>8, <1>10, <1>11, Zenon DEF BInv

\* A step of c from one phase to another after which it holds what it held, or a
\* text that is not too old for anybody.
LEMMA FreshAlone ==
  ASSUME BInv, NEW c \in Callers, UNCHANGED <<hot, waits, again>>, flight' = flight,
         pc'[c] \notin {"idle", "wait"}, pc[c] # "wait",
         \A d \in Callers : d # c => pc'[d] = pc[d] /\ text'[d] = text[d] /\ got'[d] = got[d],
         \A d \in Callers : dead'[d] = dead[d],
         Holds(c)' => \/ Holds(c) /\ Held(c)' = Held(c)
                      \/ \A d \in Callers : Held(c)' \notin dead[d]
  PROVE  \A d \in again' : Fresh(d)'
  <1> SUFFICES ASSUME NEW d \in again' PROVE Fresh(d)'
    BY Zenon
  <1>1. d \in Callers /\ Fresh(d) /\ pc'[d] # "idle" /\ dead'[d] = dead[d]
    BY ZenonT(30) DEF BInv, Local, Fresh
  <1>2. ASSUME NEW w \in Callers, Holds(w)', Reaches(w, d)'
        PROVE  Held(w)' \notin dead[d] \/ (Holds(w) /\ Reaches(w, d) /\ Held(w)' = Held(w))
    <2>1. Reaches(w, d)
      BY <1>1, <1>2, Zenon DEF Reaches
    <2>2. w # c => Holds(w) /\ Held(w)' = Held(w)
      BY <1>2, Zenon DEF Holds, Held
    <2> QED BY <1>1, <1>2, <2>1, <2>2, Zenon
  <1> QED BY <1>1, <1>2, FreshStep, Zenon

LEMMA BoundedGet == ASSUME BInv, IInv', NEW c \in Callers, get(c) PROVE BInv'
  <1>1. /\ pc[c] = "read" /\ pc'[c] \in {"created", "compute"} /\ \A d \in Callers : d # c => pc'[d] = pc[d]
        /\ before' = [before EXCEPT ![c] = 0]
        /\ UNCHANGED <<age, disk, hot, flight, waits, got, again, popped, dead, since, setting, floor, sets>>
    BY MovesOf, Zenon DEF BInv, get, shared, history, world
  <1>2. \/ pc'[c] = "created" /\ Live /\ text' = [text EXCEPT ![c] = disk]
        \/ pc'[c] = "compute" /\ text' = text
    BY MovesOf, Zenon DEF BInv, get
  <1>3. faults' \in Nat
    BY SMTT(30) DEF get, Fault, BInv, Stored
  <1>4. Stored'
    BY <1>1, <1>3, Zenon DEF BInv, Stored, Texts, Items
  <1>5. disk # None => disk \in Texts
    BY Zenon DEF BInv, Stored
  <1>6. /\ text' \in [Callers -> {None} \cup Texts] /\ (pc'[c] = "created" => text'[c] # None)
        /\ before' \in [Callers -> 0..TTL] /\ before'[c] = 0
        /\ \A d \in Callers : d # c => text'[d] = text[d] /\ before'[d] = before[d]
    <2>1. text \in [Callers -> {None} \cup Texts] /\ before \in [Callers -> 0..TTL] /\ 0 \in 0..TTL
      BY Kinds DEF BInv, Local
    <2>2. text' \in [Callers -> {None} \cup Texts] /\ (pc'[c] = "created" => text'[c] # None)
      BY <1>2, <1>5, <2>1, Zenon DEF Live
    <2>3. \A d \in Callers : d # c => text'[d] = text[d]
      BY <1>2, <2>1, Zenon
    <2>4. /\ before' \in [Callers -> 0..TTL] /\ before'[c] = 0
          /\ \A d \in Callers : d # c => before'[d] = before[d]
      BY <1>1, <2>1, Zenon
    <2> QED BY <2>2, <2>3, <2>4, Zenon
  <1>7. Local'
    BY <1>1, <1>6, ZenonT(30) DEF BInv, Local, Texts, Items
  <1>8. pc'[c] = "created" => text'[c] = disk /\ age[disk] \in Nat /\ age[disk] < TTL
    BY <1>2, <1>5, Kinds DEF BInv, Local, Live
  <1>9. Ages'
    BY <1>1, <1>6, <1>8, Kinds, AgesStep DEF BInv
  <1>10. Holds(c)' => \A d \in Callers : Held(c)' \notin dead[d]
    <2> SUFFICES ASSUME Holds(c)', NEW d \in Callers, Held(c)' \in dead[d] PROVE FALSE
      BY ZenonT(30)
    <2>1. pc'[c] = "created" /\ Held(c)' = disk
      BY <1>1, <1>8, Zenon DEF Holds, Held
    <2>2. age[disk] = 2 * TTL
      BY <2>1, Zenon DEF BInv, Ages
    <2> QED BY <1>8, <2>1, <2>2, Kinds DEF BInv
  <1>11. \A d \in again' : Fresh(d)'
    BY <1>1, <1>6, <1>10, FreshAlone, ZenonT(30)
  <1> QED BY <1>4, <1>7, <1>9, <1>11, Zenon DEF BInv

LEMMA BoundedStore == ASSUME BInv, IInv', NEW c \in Callers, _store(c) PROVE BInv'
  <1>1. /\ pc[c] = "compute" /\ pc'[c] = "created" /\ \A d \in Callers : d # c => pc'[d] = pc[d]
        /\ age' = Append(age, 0) /\ text' = [text EXCEPT ![c] = Len(age) + 1]
        /\ disk' = Len(age) + 1 \/ disk' = disk
        /\ UNCHANGED <<hot, flight, waits, before, got, again, popped, dead, since, setting, floor, sets>>
    BY MovesOf, ZenonT(30) DEF BInv, _store, Minted, history, world
  <1>2. faults' \in Nat
    BY DEF _store, Fault, BInv, Stored
  <1>3. /\ age' \in Seq(0..2 * TTL) /\ Len(age') = Len(age) + 1
        /\ Texts' = Texts \cup {Len(age) + 1} /\ Len(age) + 1 \notin Texts /\ age'[Len(age) + 1] = 0
        /\ (\A n \in Texts : age'[n] = age[n]) /\ Items \subseteq Items'
    BY <1>1, MintedFacts, ZenonT(30) DEF BInv
  <1>4. hot \in {None} \cup [item: Items', until: 0..HotTTL]
    BY <1>3, ZenonT(30) DEF BInv, Stored
  <1>5. floor \in 0..Len(age') /\ setting \in {None} \cup floor..Len(age')
    <2>1. Len(age) \in Nat /\ floor \in 0..Len(age) /\ setting \in {None} \cup floor..Len(age)
      BY Kinds, Zenon DEF BInv, Stored
    <2>2. Len(age') = Len(age) + 1
      BY <1>3, Zenon
    <2> QED BY <2>1, <2>2, SMTT(30)
  <1>6. Stored'
    BY <1>1, <1>2, <1>3, <1>4, <1>5, Zenon DEF BInv, Stored
  <1>7. Len(age) + 1 # None /\ Len(age) + 1 \in Nat
    BY Kinds, NoneAssumption, SMTT(30) DEF BInv
  <1>8. /\ text' \in [Callers -> {None} \cup Texts'] /\ text'[c] = Len(age) + 1
        /\ got \in [Callers -> {None} \cup Items'] /\ dead \in [Callers -> SUBSET (Texts')]
        /\ \A d \in Callers : d # c => text'[d] = text[d]
    <2>1. Len(age) + 1 \in Texts' /\ Texts \subseteq Texts' /\ Items \subseteq Items'
      BY <1>3, Zenon
    <2>2. /\ text \in [Callers -> {None} \cup Texts] /\ got \in [Callers -> {None} \cup Items]
          /\ dead \in [Callers -> SUBSET Texts]
      BY Zenon DEF BInv, Local
    <2>3. got \in [Callers -> {None} \cup Items'] /\ dead \in [Callers -> SUBSET (Texts')]
      BY <2>1, <2>2, Zenon
    <2>4. text' = [text EXCEPT ![c] = Len(age) + 1]
      BY <1>1, Zenon
    <2>5. text' \in [Callers -> {None} \cup Texts'] /\ text'[c] = Len(age) + 1
          /\ \A d \in Callers : d # c => text'[d] = text[d]
      BY <2>1, <2>2, <2>4, Zenon
    <2> QED BY <2>3, <2>5, Zenon
  <1>9. Local'
    BY <1>1, <1>7, <1>8, ZenonT(30) DEF BInv, Local
  <1>10. age'[text'[c]] < TTL + before'[c]
    BY <1>1, <1>3, <1>8, Kinds, SMTT(30) DEF BInv, Local
  <1>11. Ages'
    BY <1>1, <1>3, <1>8, <1>10, AgesStep, ZenonT(30) DEF BInv
  <1>12. \A d \in Callers : Held(c)' \notin dead[d]
    BY <1>1, <1>3, <1>8, Zenon DEF Held, BInv, Local
  <1>13. \A d \in again' : Fresh(d)'
    BY <1>1, <1>8, <1>12, FreshAlone, Zenon
  <1> QED BY <1>6, <1>9, <1>11, <1>13, Zenon DEF BInv

LEMMA LeftFacts ==
  ASSUME NEW e \in 0..TTL, NEW a \in Nat
  PROVE  Left(e, a) \in 0..TTL /\ (Left(e, a) > 0 => e < TTL /\ Left(e, a) <= TTL - e)
  BY CompletionAssumption DEF Left

LEMMA BoundedExpires == ASSUME BInv, IInv', NEW c \in Callers, Expires(c) PROVE BInv'
  <1>1. /\ pc[c] = "created" /\ pc'[c] = "finish" /\ \A d \in Callers : d # c => pc'[d] = pc[d]
        /\ before' = [before EXCEPT ![c] = 0] /\ text' = [text EXCEPT ![c] = None]
        /\ UNCHANGED <<age, disk, hot, flight, waits, again, popped, dead, since, setting, floor, sets>>
    BY MovesOf, Zenon DEF BInv, Expires, shared, history, world
  <1>2. faults' \in Nat
    BY DEF Expires, Fault, BInv, Stored
  <1>3. Stored'
    BY <1>1, <1>2, ZenonT(30) DEF BInv, Stored, Texts, Items
  <1>4. text[c] \in Texts /\ before[c] \in 0..TTL /\ (disk # None => age[disk] \in Nat)
    BY <1>1, Kinds, SMTT(30) DEF BInv, Local, Stored
  <1>5. PICK a \in Nat : got' = [got EXCEPT ![c] = [text |-> text[c], left |-> Left(before[c], a)]]
    BY <1>4, ZenonT(30) DEF Expires
  <1>6. PICK n \in 0..TTL : n = Left(before[c], a) /\ (n > 0 => before[c] < TTL /\ n <= TTL - before[c])
    <2>1. PICK e \in 0..TTL : e = before[c]
      BY <1>4, Zenon
    <2>2. Left(e, a) \in 0..TTL /\ (Left(e, a) > 0 => e < TTL /\ Left(e, a) <= TTL - e)
      BY LeftFacts, Zenon
    <2> QED BY <2>1, <2>2, Zenon
  <1>7. PICK i \in Items : i = [text |-> text[c], left |-> n] /\ i.text = text[c] /\ i.left = n
    <2>1. PICK t \in Texts : t = text[c]
      BY <1>4, Zenon
    <2>2. [text |-> t, left |-> n] \in Items
      BY Zenon DEF Items
    <2> QED BY <2>1, <2>2, Zenon
  <1>8. got' = [got EXCEPT ![c] = i] /\ i # None
    BY <1>5, <1>6, <1>7, Kinds, Zenon DEF BInv
  <1>9. /\ got' \in [Callers -> {None} \cup Items] /\ got'[c] = i
        /\ \A d \in Callers : d # c => got'[d] = got[d] /\ text'[d] = text[d] /\ before'[d] = before[d]
        /\ text' \in [Callers -> {None} \cup Texts] /\ before' \in [Callers -> 0..TTL]
    BY <1>1, <1>8, Kinds DEF BInv, Local
  <1>10. Local'
    BY <1>1, <1>8, <1>9, ZenonT(30) DEF BInv, Local, Texts, Items
  <1>11. Young(got[c])'
    <2>1. age[text[c]] \in Nat /\ (age[text[c]] < TTL + before[c] \/ before[c] = TTL)
      BY <1>1, <1>4, Kinds, SMTT(30) DEF BInv, Ages
    <2> QED BY <1>1, <1>4, <1>6, <1>7, <1>9, <2>1, Kinds, SMTT(30) DEF BInv, Young
  <1>12. Ages'
    BY <1>1, <1>9, <1>11, AgesStep, Zenon DEF BInv
  <1>13. Holds(c) /\ Held(c)' = Held(c)
    BY <1>1, <1>7, <1>9, Zenon DEF Holds, Held
  <1>14. \A d \in again' : Fresh(d)'
    BY <1>1, <1>9, <1>13, FreshAlone, ZenonT(30)
  <1> QED BY <1>3, <1>10, <1>12, <1>14, Zenon DEF BInv

LEMMA BoundedReload == ASSUME BInv, IInv', NEW c \in Callers, Reload(c) PROVE BInv'
  <1>1. /\ pc[c] = "check" /\ pc'[c] = "lookup" /\ \A d \in Callers : d # c => pc'[d] = pc[d]
        /\ hot' = None /\ flight' = None /\ again' = again \cup {c} /\ got' = [got EXCEPT ![c] = None]
        /\ UNCHANGED <<age, disk, waits, before, text, dead, since, setting, floor, sets, faults>>
    BY MovesOf, ZenonT(30) DEF BInv, Reload, invalidate, world
  <1>2. popped' \subseteq Callers
    BY Zenon DEF Reload, invalidate, BInv, Local, IInv, Flights
  <1>3. Stored'
    BY <1>1, ZenonT(30) DEF BInv, Stored, Texts, Items
  <1>4. /\ got' \in [Callers -> {None} \cup Items] /\ got'[c] = None
        /\ \A d \in Callers : d # c => got'[d] = got[d]
    BY <1>1, Zenon DEF BInv, Local
  <1>5. Local'
    BY <1>1, <1>2, <1>4, ZenonT(30) DEF BInv, Local, Texts, Items
  <1>6. Ages'
    BY <1>1, <1>4, AgesStep, Zenon DEF BInv
  <1>7. ASSUME NEW d \in again' PROVE Fresh(d)'
    <2>1. d \in Callers /\ pc'[d] # "idle"
      BY <1>1, <1>7, ZenonT(30) DEF BInv, Local, Fresh
    <2>2. ~Holds(c)'
      BY <1>1, Zenon DEF Holds
    <2>3. ASSUME NEW w \in Callers, Holds(w)', Reaches(w, d)' PROVE Held(w)' \notin dead[d]
      <3>1. w # c /\ Holds(w) /\ Held(w)' = Held(w)
        BY <1>1, <1>4, <2>2, <2>3, Zenon DEF Holds, Held
      <3>2. w # flight'
        BY <1>1, NotCaller, Zenon
      <3>3. w = d \/ (pc'[d] = "wait" /\ w = waits[d])
        BY <1>1, <2>3, <3>2, Zenon DEF Reaches
      <3>4. d # c /\ Reaches(w, d)
        BY <1>1, <2>1, <3>1, <3>3, Zenon DEF Reaches
      <3> QED BY <1>1, <1>7, <3>1, <3>4, Zenon DEF BInv, Fresh
    <2> QED BY <1>1, <2>1, <2>3, ZenonT(30) DEF Fresh
  <1> QED BY <1>3, <1>5, <1>6, <1>7, Zenon DEF BInv

\* What the calls that end keep.
LEMMA EndsFacts ==
  ASSUME Local, Stored, NEW C, Ends(C), floor' = floor, age' = age
  PROVE  /\ again' \subseteq again \ C
         /\ dead' \in [Callers -> SUBSET Texts] /\ since' \in [Callers -> 0..floor]
         /\ \A d \in Callers : dead'[d] = IF d \in C THEN {} ELSE dead[d]
  <1>1. dead' \in [Callers -> SUBSET Texts] /\ \A d \in Callers : dead'[d] = IF d \in C THEN {} ELSE dead[d]
    BY Zenon DEF Ends, Local
  <1>2. since' \in [Callers -> 0..floor]
    BY Kinds, SMTT(30) DEF Ends, Local
  <1> QED BY <1>1, <1>2, Zenon DEF Ends

LEMMA BoundedReturn == ASSUME BInv, IInv', NEW c \in Callers, Return(c) PROVE BInv'
  <1>1. /\ pc[c] = "check" /\ pc'[c] = "idle" /\ \A d \in Callers : d # c => pc'[d] = pc[d]
        /\ got' = [got EXCEPT ![c] = None]
        /\ UNCHANGED <<age, disk, hot, flight, waits, before, text, popped, setting, floor, sets, faults>>
    BY MovesOf, Zenon DEF BInv, Return, shared, world
  <1>2. /\ again' \subseteq again \ {c}
        /\ dead' \in [Callers -> SUBSET Texts] /\ since' \in [Callers -> 0..floor]
        /\ \A d \in Callers : dead'[d] = IF d = c THEN {} ELSE dead[d]
    BY <1>1, EndsFacts, SMTT(30) DEF BInv, Return
  <1>3. Stored'
    BY <1>1, StoredKept, ZenonT(30) DEF BInv
  <1>4. /\ got' \in [Callers -> {None} \cup Items] /\ got'[c] = None
        /\ \A d \in Callers : d # c => got'[d] = got[d]
    BY <1>1, Zenon DEF BInv, Local
  <1>5. Local'
    BY <1>1, <1>2, <1>4, ZenonT(30) DEF BInv, Local, Texts, Items
  <1>6. \A d \in Callers : dead'[d] = dead[d] \/ (\A n \in dead'[d] : age'[n] = 2 * TTL)
    BY <1>2, Zenon
  <1>7. Ages'
    BY <1>1, <1>4, <1>6, AgesStep, Zenon DEF BInv
  <1>8. ASSUME NEW d \in again' PROVE Fresh(d)'
    <2>1. d \in Callers /\ d # c /\ Fresh(d) /\ pc'[d] # "idle" /\ dead'[d] = dead[d]
      BY <1>1, <1>2, <1>8, ZenonT(30) DEF BInv, Local, Fresh
    <2>2. ASSUME NEW w \in Callers, Holds(w)', Reaches(w, d)'
          PROVE  Holds(w) /\ Reaches(w, d) /\ Held(w)' = Held(w)
      BY <1>1, <1>4, <2>1, <2>2, ZenonT(30) DEF Holds, Held, Reaches
    <2> QED BY <1>1, <2>1, <2>2, FreshStep, ZenonT(30)
  <1> QED BY <1>3, <1>5, <1>7, <1>8, Zenon DEF BInv

\* Whom the end of a load does not concern.
LEMMA ReadyFacts ==
  ASSUME IInv, NEW c \in Callers, pc[c] \in Loading, NEW label \in {"check", "idle"}, Ready(c, label)
  PROVE  /\ \A d \in Callers : pc'[d] = IF d = c \/ d \in Waiting(c) THEN label ELSE pc[d]
         /\ c \notin Waiting(c) /\ popped' \subseteq popped
         /\ flight' = None \/ (flight' = flight /\ flight # c)
         /\ \A d \in Callers : pc'[d] = "wait" =>
              pc[d] = "wait" /\ d # c /\ d \notin Waiting(c) /\ waits'[d] = waits[d] /\ waits[d] # c
         /\ \A w \in Callers : pc[w] \in Loading => w \notin Waiting(c)
  BY Zenon DEF Ready, Waiting, Loading

\* What others than the owner and its waiters may be given.
LEMMA ReadyReaches ==
  ASSUME BInv, NEW c \in Callers, pc[c] \in Loading, NEW label \in {"check", "idle"}, Ready(c, label),
         text' = text, \A d \in Callers : d # c /\ d \notin Waiting(c) => got'[d] = got[d],
         NEW d \in Callers, NEW w \in Callers, Holds(w)', Reaches(w, d)', w # d \/ (d # c /\ d \notin Waiting(c))
  PROVE  Holds(w) /\ Reaches(w, d) /\ Held(w)' = Held(w)
  <1>1. w # c /\ w \notin Waiting(c) /\ Reaches(w, d)
    <2>1. CASE w = flight'
      BY <2>1, ReadyFacts, NotCaller, SMTT(30) DEF Reaches, BInv, IInv, Flights
    <2>2. CASE pc'[d] = "wait" /\ w = waits'[d]
      BY <2>2, ReadyFacts, SMTT(30) DEF Reaches, BInv, IInv, WaiterServed
    <2>3. CASE w = d
      BY <2>3, Zenon DEF Reaches
    <2> QED BY <2>1, <2>2, <2>3, Zenon DEF Reaches
  <1>2. pc'[w] = pc[w] /\ got'[w] = got[w]
    BY <1>1, ReadyFacts DEF BInv
  <1> QED BY <1>1, <1>2, Zenon DEF Holds, Held

LEMMA BoundedFinish == ASSUME BInv, IInv', NEW c \in Callers, Finish(c) PROVE BInv'
  <1>1. /\ pc[c] = "finish" /\ Ready(c, "check") /\ Publish(c)
        /\ UNCHANGED <<age, disk, before, text, again, dead, since, setting, floor, sets, faults>>
    BY ZenonT(30) DEF Finish, world
  <1>2. pc[c] \in Loading /\ got[c] \in Items /\ got[c] # None /\ Holds(c) /\ Held(c) = got[c].text
    BY <1>1, Zenon DEF Loading, Holds, Held, BInv, Local
  <1>3. /\ got' \in [Callers -> {None} \cup Items]
        /\ \A d \in Callers : got'[d] = IF d \in Waiting(c) THEN got[c] ELSE got[d]
    BY <1>2, Zenon DEF Finish, BInv, Local
  <1>4. /\ \A d \in Callers : pc'[d] = IF d = c \/ d \in Waiting(c) THEN "check" ELSE pc[d]
        /\ c \notin Waiting(c) /\ popped' \subseteq popped
    BY <1>1, <1>2, ReadyFacts, ZenonT(30) DEF BInv
  <1>5. \/ hot' = hot
        \/ flight = c /\ hot' \in [item: Items, until: 0..HotTTL] /\ hot'.item = got[c]
    BY <1>1, <1>2, Kinds DEF Publish, BInv
  <1>6. Stored'
    BY <1>1, <1>5, ZenonT(30) DEF BInv, Stored, Texts, Items
  <1>7. Local'
    BY <1>1, <1>2, <1>3, <1>4, ZenonT(30) DEF BInv, Local, Texts, Items
  <1>8. Young(got[c]) /\ Young(got[c])'
    BY <1>1, <1>2, <1>3, <1>4, ZenonT(30) DEF BInv, Ages, Young
  <1>9. hot' # None => (hot # None /\ hot'.item = hot.item) \/ Young(hot.item)'
    BY <1>1, <1>5, <1>8, ZenonT(30) DEF Young
  <1>10. \A d \in Callers : got'[d] # None => (got[d] # None /\ got'[d] = got[d]) \/ Young(got[d])'
    BY <1>1, <1>3, <1>8, Zenon DEF Young
  <1>11. \A d \in Callers : pc'[d] = "created" => pc[d] = "created"
    <2>1. \A d \in Callers : pc'[d] \in {"check", pc[d]}
      BY <1>4, Zenon
    <2>2. "check" # "created"
      BY Zenon
    <2> QED BY <2>1, <2>2, Zenon
  <1>12. Ages'
    <2>1. UNCHANGED <<age, dead, text, before>> /\ Stored /\ Local /\ Ages
      BY <1>1, Zenon DEF BInv
    <2> QED BY <1>9, <1>10, <1>11, <2>1, AgesStep, Zenon
  <1>13. ASSUME NEW d \in again' PROVE Fresh(d)'
    <2>1. d \in Callers /\ Fresh(d) /\ pc'[d] # "idle" /\ dead'[d] = dead[d]
      BY <1>1, <1>4, <1>13, ZenonT(30) DEF BInv, Local, Fresh
    <2>2. hot' # None => hot'.item.text \notin dead[d] \/ (hot # None /\ hot'.item.text = hot.item.text)
      BY <1>2, <1>5, <2>1, Zenon DEF Fresh, Reaches
    <2>3. ASSUME NEW w \in Callers, Holds(w)', Reaches(w, d)'
          PROVE  Held(w)' \notin dead[d] \/ (Holds(w) /\ Reaches(w, d) /\ Held(w)' = Held(w))
      <3>1. CASE w # d \/ (d # c /\ d \notin Waiting(c))
        BY <1>1, <1>2, <1>3, <2>1, <2>3, <3>1, ReadyReaches, ZenonT(30)
      <3>2. CASE w = d /\ (d = c \/ d \in Waiting(c))
        <4>1. Held(w)' = Held(c)
          BY <1>2, <1>3, <1>4, <3>2, Zenon DEF Held
        <4>2. Reaches(c, d)
          BY <3>2, Zenon DEF Reaches, Waiting
        <4> QED BY <1>2, <2>1, <4>1, <4>2, ZenonT(30) DEF Fresh
      <3> QED BY <3>1, <3>2, Zenon
    <2> QED BY <2>1, <2>2, <2>3, FreshStep, ZenonT(30)
  <1> QED BY <1>6, <1>7, <1>12, <1>13, Zenon DEF BInv

LEMMA BoundedRaise == ASSUME BInv, IInv', NEW c \in Callers, Raise(c) PROVE BInv'
  <1> DEFINE C == {c} \cup Waiting(c)
  <1>1. /\ pc[c] = "compute" /\ Ready(c, "idle") /\ Ends(C) /\ before' = [before EXCEPT ![c] = 0]
        /\ UNCHANGED <<age, disk, hot, text, got, setting, floor, sets, faults>>
    BY Zenon DEF Raise, world
  <1>2. pc[c] \in Loading
    BY <1>1, Zenon DEF Loading
  <1>3. /\ \A d \in Callers : pc'[d] = IF d \in C THEN "idle" ELSE pc[d]
        /\ popped' \subseteq popped
    BY <1>1, <1>2, ReadyFacts, ZenonT(30) DEF BInv
  <1>4. /\ again' \subseteq again \ C
        /\ dead' \in [Callers -> SUBSET Texts] /\ since' \in [Callers -> 0..floor]
        /\ \A d \in Callers : dead'[d] = IF d \in C THEN {} ELSE dead[d]
    BY <1>1, EndsFacts, Zenon DEF BInv
  <1>5. before' \in [Callers -> 0..TTL] /\ \A d \in Callers : d # c => before'[d] = before[d]
    BY <1>1, Kinds, SMTT(30) DEF BInv, Local
  <1>6. \A d \in Callers : pc'[d] \in {"created", "finish", "check"} => pc'[d] = pc[d] /\ d # c
    BY <1>3, Zenon
  <1>7. Stored'
    BY <1>1, StoredKept, Zenon DEF BInv
  <1>8. Local'
    BY <1>1, <1>3, <1>4, <1>5, <1>6, ZenonT(30) DEF BInv, Local, Texts, Items
  <1>9. \A d \in Callers : dead'[d] = dead[d] \/ (\A n \in dead'[d] : age'[n] = 2 * TTL)
    BY <1>4, Zenon
  <1>10. Ages'
    BY <1>1, <1>5, <1>6, <1>9, AgesStep, ZenonT(30) DEF BInv
  <1>11. ASSUME NEW d \in again' PROVE Fresh(d)'
    <2>1. d \in Callers /\ d \notin C /\ Fresh(d) /\ pc'[d] # "idle" /\ dead'[d] = dead[d]
      BY <1>3, <1>4, <1>11, ZenonT(30) DEF BInv, Local, Fresh
    <2>2. ASSUME NEW w \in Callers, Holds(w)', Reaches(w, d)'
          PROVE  Holds(w) /\ Reaches(w, d) /\ Held(w)' = Held(w)
      BY <1>1, <1>2, <2>1, <2>2, ReadyReaches, ZenonT(30)
    <2> QED BY <1>1, <2>1, <2>2, FreshStep, ZenonT(30)
  <1> QED BY <1>7, <1>8, <1>10, <1>11, Zenon DEF BInv

\* No caller moves.
LEMMA FreshStill ==
  ASSUME BInv, UNCHANGED <<pc, waits, again, dead, text>>,
         flight' = None \/ flight' = flight,
         hot' # None => hot # None /\ hot'.item.text = hot.item.text,
         \A w \in Callers : pc[w] \in {"finish", "check"} => got'[w].text = got[w].text
  PROVE  \A d \in again' : Fresh(d)'
  <1> SUFFICES ASSUME NEW d \in again' PROVE Fresh(d)'
    BY Zenon
  <1>1. d \in Callers /\ Fresh(d)
    BY Zenon DEF BInv, Local
  <1>2. ASSUME NEW w \in Callers, Holds(w)', Reaches(w, d)'
        PROVE  Holds(w) /\ Reaches(w, d) /\ Held(w)' = Held(w)
    <2>1. Holds(w) /\ Held(w)' = Held(w)
      BY <1>2, Zenon DEF Holds, Held
    <2>2. Reaches(w, d)
      BY <1>2, NotCaller, Zenon DEF Reaches
    <2> QED BY <2>1, <2>2, ZenonT(30)
  <1> QED BY <1>1, <1>2, FreshStep, ZenonT(30) DEF Fresh

LEMMA BoundedSet == ASSUME BInv, IInv', set PROVE BInv'
  <1>1. /\ UNCHANGED <<pc, hot, flight, waits, before, text, got, again, popped, dead, since, floor>>
        /\ \/ disk' = Len(age) + 1 /\ age' = Append(age, 0) /\ setting' = Len(age) + 1
           \/ disk' = disk /\ age' = age /\ setting' = floor
    BY Zenon DEF set, Minted, locals, history
  <1>2. faults' \in Nat /\ sets' \in Nat
    BY SMTT(30) DEF set, Fault, BInv, Stored
  <1>3. /\ age' \in Seq(0..2 * TTL) /\ Len(age') \in Nat /\ Len(age) <= Len(age') /\ Len(age) \in Nat
        /\ Texts \subseteq Texts' /\ Items \subseteq Items' /\ (\A n \in Texts : age'[n] = age[n])
        /\ disk' \in {None} \cup Texts' /\ setting' \in floor..Len(age')
    <2>1. CASE disk' = Len(age) + 1 /\ age' = Append(age, 0) /\ setting' = Len(age) + 1
      <3>1. Len(age) \in Nat /\ floor \in 0..Len(age)
        BY Kinds, Zenon DEF BInv, Stored
      <3>2. setting' \in floor..(Len(age) + 1)
        BY <2>1, <3>1
      <3>3. /\ age' \in Seq(0..2 * TTL) /\ Len(age') = Len(age) + 1 /\ Texts' = Texts \cup {Len(age) + 1}
            /\ (\A n \in Texts : age'[n] = age[n]) /\ Items \subseteq Items'
        BY <2>1, MintedFacts, ZenonT(30) DEF BInv
      <3>4. Len(age') \in Nat /\ Len(age) <= Len(age') /\ setting' \in floor..Len(age')
        BY <3>1, <3>2, <3>3
      <3>5. Texts \subseteq Texts' /\ disk' \in {None} \cup Texts'
        BY <2>1, <3>3, Zenon
      <3> QED BY <3>1, <3>3, <3>4, <3>5, ZenonT(30)
    <2>2. CASE disk' = disk /\ age' = age /\ setting' = floor
      BY <2>2, Kinds DEF BInv, Stored, Texts, Items
    <2> QED BY <1>1, <2>1, <2>2, Zenon
  <1>4. hot \in {None} \cup [item: Items', until: 0..HotTTL]
    BY <1>3, Zenon DEF BInv, Stored
  <1>5. floor \in 0..Len(age')
    BY <1>3, Kinds, SMTT(30) DEF BInv, Stored
  <1>6. Stored'
    BY <1>1, <1>2, <1>3, <1>4, <1>5, Zenon DEF Stored
  <1>7. /\ text \in [Callers -> {None} \cup Texts'] /\ got \in [Callers -> {None} \cup Items']
        /\ dead \in [Callers -> SUBSET (Texts')]
    BY <1>3, Zenon DEF BInv, Local
  <1>8. Local'
    BY <1>1, <1>7, Zenon DEF BInv, Local
  <1>9. Ages'
    BY <1>1, <1>3, AgesStep, ZenonT(30) DEF BInv
  <1>10. \A d \in again' : Fresh(d)'
    BY <1>1, FreshStill, Zenon
  <1> QED BY <1>6, <1>8, <1>9, <1>10, Zenon DEF BInv

LEMMA BoundedSetReturns == ASSUME BInv, IInv', SetReturns PROVE BInv'
  <1>1. /\ UNCHANGED <<age, pc, disk, waits, before, text, got, again, dead, since, sets, faults>>
        /\ hot' = None /\ flight' = None /\ setting # None /\ setting' = None /\ floor' = setting
    BY Zenon DEF SetReturns, invalidate, locals
  <1>2. popped' \subseteq Callers
    BY Zenon DEF SetReturns, invalidate, BInv, Local, IInv, Flights
  <1>3. setting \in floor..Len(age) /\ floor \in Nat /\ Len(age) \in Nat
    BY <1>1, Kinds, Zenon DEF BInv, Stored
  <1>4. floor' \in 0..Len(age) /\ 0..floor \subseteq 0..floor'
    BY <1>1, <1>3, SMTT(30)
  <1>5. Stored'
    BY <1>1, <1>4, Zenon DEF BInv, Stored, Texts, Items
  <1>6. since \in [Callers -> 0..floor']
    BY <1>4, Zenon DEF BInv, Local
  <1>7. Local'
    BY <1>1, <1>2, <1>6, ZenonT(30) DEF BInv, Local, Texts, Items
  <1>8. Ages'
    BY <1>1, AgesStep, ZenonT(30) DEF BInv
  <1>9. \A d \in again' : Fresh(d)'
    BY <1>1, FreshStill, Zenon
  <1> QED BY <1>5, <1>7, <1>8, <1>9, Zenon DEF BInv

LEMMA BoundedDisplace == ASSUME BInv, IInv', Displace PROVE BInv'
  <1>1. /\ UNCHANGED <<age, pc, flight, waits, before, text, got, again, popped, dead, since, setting, floor, sets>>
        /\ hot' = None \/ hot' = hot
        /\ disk' = None \/ disk' = disk
    BY Zenon DEF Displace, locals, history, world
  <1>2. faults' \in Nat
    BY SMTT(30) DEF Displace, Fault, BInv, Stored
  <1>3. Stored'
    BY <1>1, <1>2, Zenon DEF BInv, Stored, Texts, Items
  <1>4. Local'
    BY <1>1, Zenon DEF BInv, Local, Texts, Items
  <1>5. Ages'
    BY <1>1, AgesStep, ZenonT(30) DEF BInv
  <1>6. \A d \in again' : Fresh(d)'
    BY <1>1, FreshStill, Zenon
  <1> QED BY <1>3, <1>4, <1>5, <1>6, Zenon DEF BInv

\* What a tick makes of an item, and of the age of its text.
LEMMA TickItem ==
  ASSUME Stored, NEW i \in Items
  PROVE  Aged(i) \in Items /\ Aged(i).text = i.text /\ Aged(i).left = Down(i.left)
  <1>1. i # None /\ i.left \in 0..TTL /\ TTL \in Nat
    BY Kinds, Zenon
  <1>2. Down(i.left) \in 0..TTL
    BY <1>1 DEF Down
  <1> QED BY <1>1, <1>2, Zenon DEF Aged, Items

LEMMA TickAges ==
  ASSUME Stored, Tick
  PROVE  /\ age' \in Seq(0..2 * TTL) /\ Len(age') = Len(age)
         /\ \A n \in Texts : age'[n] = Up(age[n], 2 * TTL)
  <1> DEFINE S == 0..2 * TTL
  <1>1. \A k \in S : Up(k, 2 * TTL) \in S
    BY Kinds, SMTT(30) DEF Up
  <1>2. age \in Seq(S) /\ age' = [n \in DOMAIN age |-> Up(age[n], 2 * TTL)]
    BY ZenonT(30) DEF Stored, Tick
  <1> HIDE DEF S
  <1>3. DOMAIN age = 1..Len(age) /\ Len(age) \in Nat /\ \A n \in 1..Len(age) : age[n] \in S
    BY <1>2
  <1>4. age' \in [1..Len(age) -> S]
    BY <1>1, <1>2, <1>3, Zenon
  <1>5. age' \in Seq(S) /\ Len(age') = Len(age)
    BY <1>3, <1>4
  <1> QED BY <1>2, <1>3, <1>5, Zenon DEF S, Texts

LEMMA TickYoung ==
  ASSUME Stored, Tick, NEW i \in Items, Young(i)
  PROVE  Down(i.left) > 0 => age'[i.text] + Down(i.left) < 2 * TTL
  <1>1. /\ i.left \in Nat /\ age[i.text] \in 0..2 * TTL /\ age'[i.text] = Up(age[i.text], 2 * TTL)
        /\ TTL \in Nat
    BY Kinds, TickAges, SMTT(30)
  <1> QED BY <1>1, SMTT(30) DEF Young, Down, Up

LEMMA BoundedTick == ASSUME BInv, IInv', Tick PROVE BInv'
  <1>1. /\ UNCHANGED <<pc, disk, flight, waits, text, again, popped, dead, since, setting, floor, sets, faults>>
        /\ \A d \in Callers : got'[d] = Aged(got[d])
        /\ hot' = IF hot = None THEN None ELSE [item |-> Aged(hot.item), until |-> Down(hot.until)]
    BY Zenon DEF Tick, history, world
  <1>2. /\ age' \in Seq(0..2 * TTL) /\ Len(age') = Len(age) /\ Texts' = Texts /\ Items' = Items
        /\ \A n \in Texts : age'[n] = Up(age[n], 2 * TTL)
    BY TickAges, ZenonT(30) DEF BInv, Texts, Items
  <1>3. hot # None => /\ hot' \in [item: Items, until: 0..HotTTL] /\ hot.item \in Items
                      /\ hot'.item = Aged(hot.item)
    <2> SUFFICES ASSUME hot # None
                 PROVE  /\ hot' \in [item: Items, until: 0..HotTTL] /\ hot.item \in Items
                        /\ hot'.item = Aged(hot.item)
      BY Zenon
    <2>1. hot.item \in Items /\ hot.until \in 0..HotTTL
      BY Zenon DEF BInv, Stored
    <2>2. Aged(hot.item) \in Items /\ Down(hot.until) \in 0..HotTTL
      BY <2>1, TickItem, CompletionAssumption DEF BInv, Down
    <2> QED BY <1>1, <2>1, <2>2, Zenon
  <1>4. hot = None => hot' = None
    BY <1>1, Zenon
  <1>5. Stored'
    BY <1>1, <1>2, <1>3, <1>4, ZenonT(30) DEF BInv, Stored
  <1>6. \A d \in Callers : (got[d] = None /\ got'[d] = None) \/
          (got[d] \in Items /\ got'[d] \in Items /\ got'[d] # None /\ got'[d].text = got[d].text)
    <2> SUFFICES ASSUME NEW d \in Callers, got[d] # None
                 PROVE  got[d] \in Items /\ got'[d] \in Items /\ got'[d] # None /\ got'[d].text = got[d].text
      BY <1>1, ZenonT(30) DEF Aged
    <2>1. got[d] \in Items
      BY Zenon DEF BInv, Local
    <2> QED BY <1>1, <2>1, TickItem, Kinds, Zenon DEF BInv
  <1>7. got' \in [Callers -> {None} \cup Items]
    BY <1>6, Zenon DEF Tick
  <1>8. before' \in [Callers -> 0..TTL]
    <2>1. \A n \in 0..TTL : Up(n, TTL) \in 0..TTL
      BY CompletionAssumption, SMTT(30) DEF Up
    <2> QED BY <2>1, Zenon DEF Tick, BInv, Local
  <1>9. Local'
    BY <1>1, <1>2, <1>6, <1>7, <1>8, ZenonT(30) DEF BInv, Local
  <1>10. \A c \in Callers : \A n \in dead'[c] : age'[n] = 2 * TTL
    <2> SUFFICES ASSUME NEW c \in Callers, NEW n \in dead[c] PROVE age'[n] = 2 * TTL
      BY <1>1, ZenonT(30)
    <2>1. n \in Texts /\ age[n] = 2 * TTL
      BY ZenonT(30) DEF BInv, Local, Ages
    <2> QED BY <1>2, <2>1, Kinds, SMTT(30) DEF BInv, Up
  <1>11. ASSUME NEW c \in Callers, pc'[c] = "created"
         PROVE  age'[text'[c]] < TTL + before'[c] \/ before'[c] = TTL
    <2>1. text[c] \in Texts /\ before[c] \in 0..TTL /\ before'[c] = Up(before[c], TTL) /\ text'[c] = text[c]
      BY <1>1, <1>11, Zenon DEF BInv, Local, Tick
    <2>2. age[text[c]] \in 0..2 * TTL /\ age'[text[c]] = Up(age[text[c]], 2 * TTL) /\ TTL \in Nat
      BY <1>2, <2>1, Kinds, ZenonT(30) DEF BInv
    <2>3. age[text[c]] < TTL + before[c] \/ before[c] = TTL
      BY <1>1, <1>11, ZenonT(30) DEF BInv, Ages
    <2> QED BY <2>1, <2>2, <2>3 DEF Up
  <1>12. hot' # None => Young(hot.item)'
    <2> SUFFICES ASSUME hot' # None PROVE Young(hot.item)'
      BY Zenon
    <2>1. hot # None /\ hot.item \in Items /\ hot'.item = Aged(hot.item) /\ Young(hot.item)
      BY <1>3, <1>4, Zenon DEF BInv, Ages
    <2> QED BY <2>1, TickItem, TickYoung, ZenonT(30) DEF BInv, Young
  <1>13. \A c \in Callers : got'[c] # None => Young(got[c])'
    <2> SUFFICES ASSUME NEW c \in Callers, got'[c] # None PROVE Young(got[c])'
      BY Zenon
    <2>1. got[c] \in Items /\ got'[c] = Aged(got[c]) /\ Young(got[c])
      BY <1>1, <1>6, Kinds, ZenonT(30) DEF BInv, Ages
    <2> QED BY <2>1, TickItem, TickYoung, Zenon DEF BInv, Young
  <1>14. Ages'
    BY <1>10, <1>11, <1>12, <1>13, Zenon DEF Ages
  <1>15. hot' # None => hot # None /\ hot'.item.text = hot.item.text
    BY <1>3, <1>4, TickItem, Zenon DEF BInv
  <1>16. \A w \in Callers : pc[w] \in {"finish", "check"} => got'[w].text = got[w].text
    BY <1>6, Zenon DEF BInv, Local
  <1>17. \A d \in again' : Fresh(d)'
    BY <1>1, <1>15, <1>16, FreshStill, ZenonT(30)
  <1> QED BY <1>5, <1>9, <1>14, <1>17, Zenon DEF BInv

LEMMA BoundedInductive == BInv /\ [Next]_vars => BInv'
  <1> SUFFICES ASSUME BInv, [Next]_vars PROVE BInv'
    BY Zenon
  <1>1. IInv'
    BY Inductive, Zenon DEF BInv
  <1>2. CASE \E c \in Callers : complete(c) \/ get_or_load(c) \/ get(c) \/ _store(c) \/ Expires(c)
    BY <1>1, <1>2, BoundedComplete, BoundedGetOrLoad, BoundedGet, BoundedStore, BoundedExpires, Zenon
  <1>3. CASE \E c \in Callers : Finish(c) \/ Raise(c) \/ Reload(c) \/ Return(c)
    BY <1>1, <1>3, BoundedFinish, BoundedRaise, BoundedReload, BoundedReturn, Zenon
  <1>4. CASE set \/ SetReturns \/ Displace \/ Tick
    BY <1>1, <1>4, BoundedSet, BoundedSetReturns, BoundedDisplace, BoundedTick, Zenon
  <1>5. CASE UNCHANGED vars
    <2>1. UNCHANGED <<age, pc, disk, hot, flight, waits, before, text, got, again, popped, dead, since,
                      floor, setting, sets, faults>>
      BY <1>5, Zenon DEF vars, shared, locals, history, world
    <2>2. Stored' /\ Local'
      BY <2>1, StoredKept, Zenon DEF BInv, Local, Texts, Items
    <2>3. Ages'
      BY <2>1, AgesStep, Zenon DEF BInv
    <2>4. \A d \in again' : Fresh(d)'
      BY <2>1, FreshStill, ZenonT(30)
    <2> QED BY <1>1, <2>2, <2>3, <2>4, Zenon DEF BInv
  <1> QED BY <1>2, <1>3, <1>4, <1>5, Zenon DEF Next

\* Every variable of the cache keeps its type, and a load that ends or a caller that
\* checks an item has one (RuntimeCache.get_or_load, llm.complete), for any number
\* of threads, lifetimes, stores and faults.
THEOREM TypeCorrect == Spec => []TypeOK
  <1>1. BInv => TypeOK
    BY TypeParts, Zenon DEF BInv
  <1> QED BY <1>1, BoundedInitial, BoundedInductive, PTL DEF Spec

\* No call of llm.complete returns a text that had been stored for two lifetimes
\* when the call began: an item with something left is younger, and a caller that
\* found nothing left (get_or_compute) is not given what it has seen expire.
THEOREM BoundedAgeHolds == Spec => []BoundedAge
  <1>1. BInv => BoundedAge
    <2> SUFFICES ASSUME BInv, NEW c \in Callers, Returns(c), got[c].text \in dead[c] PROVE FALSE
      BY ZenonT(30) DEF BoundedAge
    <2>1. pc[c] = "check" /\ got[c] \in Items /\ got[c] # None /\ (c \in again \/ got[c].left # 0)
      BY Zenon DEF Returns, Expired, BInv, Local
    <2>2. CASE c \in again
      BY <2>1, <2>2, ZenonT(30) DEF BInv, Fresh, Reaches, Holds, Held
    <2>3. CASE got[c].left # 0
      <3>1. got[c].left \in Nat /\ got[c].left > 0 /\ TTL \in Nat
        BY <2>1, <2>3, Kinds, SMTT(30) DEF BInv
      <3>2. age[got[c].text] = 2 * TTL /\ Young(got[c])
        BY <2>1, Zenon DEF BInv, Ages
      <3> QED BY <3>1, <3>2, SMTT(30) DEF Young
    <2> QED BY <2>1, <2>2, <2>3, Zenon
  <1> QED BY <1>1, BoundedInitial, BoundedInductive, PTL DEF Spec
==============================================================================
