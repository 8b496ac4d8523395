---------------------------- MODULE HoldoutProofs ----------------------------
(***************************************************************************)
(* For any lessons, occasions, retrievers and operators: as long as a      *)
(* publication takes less time from its clock to its append than the delay *)
(* after which it takes effect, every logged rate is the one the schedule  *)
(* chain sets, for ever.                                                   *)
(***************************************************************************)
EXTENDS Holdout, TLAPS

\* A planned or logged row is older than now, belongs to a minted salt and
\* carries the rate its schedule sets.
Settled(row) ==
    /\ row.at <= now /\ row.salt <= minted
    /\ row.rate = AssignedRate(schedules, row.salt, row.at, row.lesson)

RowsSettled == /\ \A row \in log : Settled(row)
               /\ \A r \in Retrievers : \A row \in rrows[r] : Settled(row)

\* Whichever schedules had taken effect by a moment, one of them is the last.
HasLatest ==
    \A salt \in Salts, at \in Times :
        LET I == Effective(schedules, salt, at)
        IN  I # {} => \E i \in I : \A j \in I : j <= i

\* Clocks were read in the past, and a stamped publication stalls boundedly.
ClocksPast ==
    /\ \A r \in Retrievers : rat[r] <= now
    /\ \A p \in Operators : opc[p] = "stamped" => ostamp[p] <= now /\ now - ostamp[p] <= MaxStall

\* Every salt in use was minted before.
SaltsMinted ==
    /\ config <= minted /\ configuring <= minted
    /\ \A r \in Retrievers : rsalt[r] <= minted

\* The inductive invariant. A row stays accounted for only because a schedule
\* is appended before it takes effect (ClocksPast), the rate configured with
\* its salt is final (SaltsMinted), and the governing schedule is well defined
\* (HasLatest).
IInv == TypeOK /\ RowsSettled /\ HasLatest /\ ClocksPast /\ SaltsMinted

-----------------------------------------------------------------------------
\* Appending a schedule that has not taken effect by `at` leaves the schedules
\* that had taken effect as they were.
LEMMA EffectiveKept ==
  ASSUME NEW ss \in Seq(Schedule), NEW s \in Schedule, NEW salt, NEW at, ~Governs(s, salt, at)
  PROVE  /\ Effective(Append(ss, s), salt, at) = Effective(ss, salt, at)
         /\ \A i \in Effective(ss, salt, at) : Append(ss, s)[i] = ss[i]
<1>1. Len(ss) \in Nat /\ Len(Append(ss, s)) = Len(ss) + 1
  OBVIOUS
<1>2. \A i \in 1..Len(ss) : Append(ss, s)[i] = ss[i]
  OBVIOUS
<1>3. Append(ss, s)[Len(ss) + 1] = s
  OBVIOUS
<1>4. \A i : i \in 1..(Len(ss) + 1) <=> i \in 1..Len(ss) \/ i = Len(ss) + 1
  BY <1>1
<1> QED BY <1>1, <1>2, <1>3, <1>4, Zenon DEF Effective

\* The last of a set of indices is in it.
LEMMA LatestIn ==
  ASSUME NEW I, \E i \in I : \A j \in I : j <= i
  PROVE  Latest(I) \in I
BY Zenon DEF Latest

\* A schedule that has not taken effect by `at` leaves the rate of `at` alone.
LEMMA RateKept ==
  ASSUME TypeOK, HasLatest, NEW s \in Schedule, NEW salt \in Salts, NEW at \in Times,
         NEW lesson, ~Governs(s, salt, at)
  PROVE  AssignedRate(Append(schedules, s), salt, at, lesson)
       = AssignedRate(schedules, salt, at, lesson)
<1> DEFINE I == Effective(schedules, salt, at)
<1>0. schedules \in Seq(Schedule)
  BY Zenon DEF TypeOK
<1>1. /\ Effective(Append(schedules, s), salt, at) = I
      /\ \A i \in I : Append(schedules, s)[i] = schedules[i]
  <2>1. Effective(Append(schedules, s), salt, at) = Effective(schedules, salt, at)
    BY <1>0, EffectiveKept, ZenonT(60)
  <2>2. \A i \in Effective(schedules, salt, at) : Append(schedules, s)[i] = schedules[i]
    BY <1>0, EffectiveKept, ZenonT(60)
  <2> QED BY <2>1, <2>2, Zenon
<1>2. CASE I = {}
  BY <1>1, <1>2, Zenon DEF AssignedRate, in_force
<1>3. CASE I # {}
  <2>1. Latest(I) \in I
    BY <1>3, LatestIn, Zenon DEF HasLatest
  <2> HIDE DEF I
  <2>2. Append(schedules, s)[Latest(I)] = schedules[Latest(I)]
    BY <1>1, <2>1, Zenon
  <2> QED BY <1>1, <2>2, Zenon DEF AssignedRate, in_force, rate_for, I
<1> QED BY <1>2, <1>3, Zenon

\* The rate a recall draws with is a rate.
LEMMA RateType ==
  ASSUME TypeOK, HasLatest, NEW salt \in Salts, NEW at \in Times, NEW lesson \in Lessons
  PROVE  AssignedRate(schedules, salt, at, lesson) \in Rates
<1> DEFINE I == Effective(schedules, salt, at)
<1>1. CASE ~in_force(schedules, salt, at)
  BY <1>1, Zenon DEF AssignedRate, TypeOK
<1>2. CASE in_force(schedules, salt, at)
  <2>1. I # {} BY <1>2, Zenon DEF in_force
  <2>2. Latest(I) \in I BY <2>1, LatestIn, Zenon DEF HasLatest
  <2>3. Latest(I) \in 1..Len(schedules) BY <2>2, Zenon DEF Effective
  <2>4. schedules[Latest(I)] \in Schedule BY <2>3 DEF TypeOK
  <2>5. schedules[Latest(I)].rates[lesson] \in Rates BY <2>4, Zenon DEF Schedule
  <2> QED BY <1>2, <2>5, Zenon DEF AssignedRate, rate_for
<1> QED BY <1>1, <1>2, Zenon

\* The empty store satisfies the invariant.
LEMMA InitIInv == Init => IInv
<1> SUFFICES ASSUME Init PROVE IInv
  BY Zenon
<1>0. AnyOccasion \in Occasions
  BY OccasionAssumption, Zenon DEF AnyOccasion
<1> USE <1>0, RateAssumption, BoundAssumption DEF Init, DefaultSalt
<1>1. TypeOK
  BY DEF TypeOK, Salts, Times, Rates, AllAt
<1>2. RowsSettled
  BY Zenon DEF RowsSettled
<1>3. HasLatest
  BY DEF HasLatest, Effective
<1>4. ClocksPast /\ SaltsMinted
  BY DEF ClocksPast, SaltsMinted
<1> QED BY <1>1, <1>2, <1>3, <1>4, Zenon DEF IInv

-----------------------------------------------------------------------------
(* Each part of the invariant is kept by every step.                       *)

\* Every variable keeps its type.
LEMMA TypeStep == ASSUME IInv, [Next]_vars PROVE TypeOK'
<1>0. AnyOccasion \in Occasions
  BY OccasionAssumption, Zenon DEF AnyOccasion
<1> USE <1>0, RateAssumption, BoundAssumption
    DEF IInv, TypeOK, DefaultSalt, readers, publishers, settings
<1>1. ASSUME NEW rate \in ConfiguredRates, ConfigureOpen(rate) PROVE TypeOK'
  BY <1>1 DEF ConfigureOpen, Salts
<1>2. CASE ConfigureWrite \/ ConfigureCrash
  BY <1>2, Zenon DEF ConfigureWrite, ConfigureCrash
<1>3. load_config \in Salts /\ rateOf[load_config] \in Rates
  BY DEF load_config, Salts
<1>4. ASSUME NEW r \in Retrievers, NEW occ \in Occasions, NEW ids \in SUBSET Lessons,
             RecallConfig(r, occ, ids)
      PROVE TypeOK'
  BY <1>3, <1>4, Zenon DEF RecallConfig
<1>5. ASSUME NEW r \in Retrievers, RecallMoment(r) PROVE TypeOK'
  BY <1>5, Zenon DEF RecallMoment
<1>6. ASSUME NEW r \in Retrievers, RecallPlan(r) PROVE TypeOK'
  <2>1. ASSUME NEW lesson \in rset[r] PROVE PlannedRow(r, lesson) \in Row
    <3> DEFINE rate == AssignedRate(schedules, rsalt[r], rat[r], lesson)
    <3>1. lesson \in Lessons /\ rsalt[r] \in Salts /\ rat[r] \in Times /\ rocc[r] \in Occasions
      BY Zenon
    <3>2. rate \in Rates
      BY <3>1, RateType, Zenon
    <3>3. (~is_held_out(lesson, rocc[r], rate, rsalt[r])) \in BOOLEAN
      BY Zenon
    <3> HIDE DEF rate, TypeOK, IInv
    <3> QED BY <3>1, <3>2, <3>3, Zenon DEF PlannedRow, Row, rate
  <2>2. {PlannedRow(r, lesson) : lesson \in rset[r]} \subseteq Row
    BY <2>1, Zenon
  <2> QED BY <1>6, <2>2 DEF RecallPlan, ForgetRecall, Salts, Times
<1>7. ASSUME NEW r \in Retrievers, RecallAppend(r) PROVE TypeOK'
  BY <1>7, Zenon DEF RecallAppend
<1>8. ASSUME NEW r \in Retrievers, RecallCrash(r) PROVE TypeOK'
  BY <1>8 DEF RecallCrash, ForgetRecall, Salts, Times
<1>9. ASSUME NEW p \in Operators, NEW salt \in Salts, NEW rates \in [Lessons -> Rates],
             NEW kind \in {"enable", "disable", "plan"}, Decide(p, salt, rates, kind)
      PROVE TypeOK'
  BY <1>9, Zenon DEF Decide
<1>10. ASSUME NEW p \in Operators, Enable(p) PROVE TypeOK'
  <2>1. config \in Salts /\ AllAt(Explore) \in [Lessons -> Rates]
    BY <1>10, Zenon DEF Enable, AllAt
  <2> QED BY <1>9, <1>10, <2>1, Zenon DEF Enable
<1>11. ASSUME NEW p \in Operators, Disable(p) PROVE TypeOK'
  <2>1. AllAt(rateOf[load_config]) \in [Lessons -> Rates]
    BY <1>3, Zenon DEF AllAt
  <2> QED BY <1>3, <1>9, <1>11, <2>1, Zenon DEF Disable
<1>12. ASSUME NEW p \in Operators, NEW rates \in [Lessons -> PlanRates], Plan(p, rates) PROVE TypeOK'
  <2>1. rates \in [Lessons -> Rates]
    BY Zenon
  <2> QED BY <1>3, <1>9, <1>12, <2>1, Zenon DEF Plan
<1>13. ASSUME NEW p \in Operators, PublishStamp(p) PROVE TypeOK'
  BY <1>13, Zenon DEF PublishStamp
<1>14. ASSUME NEW p \in Operators, ForgetCommand(p) PROVE
         /\ opc' \in [Operators -> {"idle", "decided", "stamped"}]
         /\ osalt' \in [Operators -> Salts] /\ orates' \in [Operators -> [Lessons -> Rates]]
         /\ okind' \in [Operators -> {"enable", "disable", "plan"}]
         /\ ostamp' \in [Operators -> Times]
  BY <1>14 DEF ForgetCommand, AllAt, Salts, Times
<1>15. ASSUME NEW p \in Operators, PublishAppend(p) PROVE TypeOK'
  <2>1. Published(p) \in Schedule
    BY DEF Published, Schedule, Times
  <2>2. schedules' \in Seq(Schedule)
    BY <1>15, <2>1 DEF PublishAppend
  <2> QED BY <1>14, <1>15, <2>2, Zenon DEF PublishAppend
<1>16. ASSUME NEW p \in Operators, PublishCrash(p) PROVE TypeOK'
  BY <1>14, <1>16, Zenon DEF PublishCrash
<1>17. CASE Tick
  BY <1>17 DEF Tick, Times
<1>18. CASE UNCHANGED vars
  BY <1>18, Zenon DEF vars
<1> QED
  BY <1>1, <1>2, <1>4, <1>5, <1>6, <1>7, <1>8, <1>10, <1>11, <1>12, <1>13, <1>15, <1>16, <1>17, <1>18, Zenon
    DEF Next, RecallUnrandomized

\* The chain grows at its end only, so a last effective schedule stays defined.
LEMMA LatestStep == ASSUME IInv, [Next]_vars PROVE HasLatest'
<1>1. CASE UNCHANGED schedules
  BY <1>1, Zenon DEF IInv, HasLatest, Effective
<1>2. ASSUME NEW p \in Operators, PublishAppend(p) PROVE HasLatest'
  <2> DEFINE s == Published(p)
  <2>1. schedules \in Seq(Schedule) /\ s \in Schedule
    BY BoundAssumption DEF IInv, TypeOK, Published, Schedule, Times
  <2>2. schedules' = Append(schedules, s)
    BY <1>2, Zenon DEF PublishAppend
  <2> HIDE DEF s
  <2> SUFFICES ASSUME NEW salt \in Salts, NEW at \in Times, Effective(schedules', salt, at) # {}
               PROVE  \E i \in Effective(schedules', salt, at) :
                          \A j \in Effective(schedules', salt, at) : j <= i
    BY Zenon DEF HasLatest
  <2>3. CASE ~Governs(s, salt, at)
    <3>1. Effective(schedules', salt, at) = Effective(schedules, salt, at)
      BY <2>1, <2>2, <2>3, EffectiveKept
    <3> QED BY <3>1, Zenon DEF IInv, HasLatest
  <2>4. CASE Governs(s, salt, at)
    <3>1. Len(schedules) \in Nat /\ Len(schedules') = Len(schedules) + 1
          /\ schedules'[Len(schedules) + 1] = s
      BY <2>1, <2>2
    <3>2. Len(schedules) + 1 \in Effective(schedules', salt, at)
      BY <2>4, <3>1 DEF Effective
    <3>3. \A j \in Effective(schedules', salt, at) : j <= Len(schedules) + 1
      BY <3>1 DEF Effective
    <3> QED BY <3>2, <3>3, Zenon
  <2> QED BY <2>3, <2>4, Zenon
<1> QED
  BY <1>1, <1>2, Zenon
    DEF Next, vars, settings, ConfigureOpen, ConfigureWrite, ConfigureCrash, RecallConfig,
      RecallUnrandomized, RecallMoment, RecallPlan, RecallAppend, RecallCrash, Enable, Disable,
      Plan, Decide, PublishStamp, PublishCrash, Tick

\* Clocks are read at the present, and time waits for a stamped publication.
LEMMA ClocksStep == ASSUME IInv, [Next]_vars PROVE ClocksPast'
<1> USE BoundAssumption DEF IInv, TypeOK, ClocksPast, Times
<1>1. ASSUME UNCHANGED <<now, rat, opc, ostamp>> PROVE ClocksPast'
  BY <1>1, Zenon
<1>2. ASSUME NEW r \in Retrievers, RecallMoment(r) PROVE ClocksPast'
  BY <1>2 DEF RecallMoment, publishers
<1>3. ASSUME NEW r \in Retrievers, RecallPlan(r) \/ RecallCrash(r) PROVE ClocksPast'
  <2>1. rat' = [rat EXCEPT ![r] = 0] /\ UNCHANGED <<now, opc, ostamp>>
    BY <1>3, Zenon DEF RecallPlan, RecallCrash, ForgetRecall, publishers
  <2> QED BY <2>1
<1>4. ASSUME NEW p \in Operators, NEW salt, NEW rates, NEW kind, Decide(p, salt, rates, kind)
      PROVE ClocksPast'
  BY <1>4, Zenon DEF Decide, readers
<1>5. ASSUME NEW p \in Operators, PublishStamp(p) PROVE ClocksPast'
  BY <1>5 DEF PublishStamp, readers
<1>6. ASSUME NEW p \in Operators, PublishAppend(p) \/ PublishCrash(p) PROVE ClocksPast'
  <2>1. opc' = [opc EXCEPT ![p] = "idle"] /\ ostamp' = [ostamp EXCEPT ![p] = 0] /\ UNCHANGED <<now, rat>>
    BY <1>6, Zenon DEF PublishAppend, PublishCrash, ForgetCommand, readers
  <2> QED BY <2>1, Zenon
<1>7. CASE Tick
  BY <1>7 DEF Tick, readers, publishers
<1> QED
  BY <1>1, <1>2, <1>3, <1>4, <1>5, <1>6, <1>7, Zenon
    DEF Next, vars, readers, publishers, settings, ConfigureOpen, ConfigureWrite, ConfigureCrash,
      RecallConfig, RecallUnrandomized, RecallAppend, Enable, Disable, Plan

\* configure mints a salt before it or anything else uses it.
LEMMA SaltsStep == ASSUME IInv, [Next]_vars PROVE SaltsMinted'
<1> USE BoundAssumption DEF IInv, TypeOK, SaltsMinted, Salts, DefaultSalt
<1>1. ASSUME UNCHANGED <<config, configuring, minted, rsalt>> PROVE SaltsMinted'
  BY <1>1, Zenon
<1>2. ASSUME NEW rate \in ConfiguredRates, ConfigureOpen(rate) PROVE SaltsMinted'
  BY <1>2 DEF ConfigureOpen, readers
<1>3. CASE ConfigureWrite \/ ConfigureCrash
  BY <1>3 DEF ConfigureWrite, ConfigureCrash, readers
<1>4. ASSUME NEW r \in Retrievers, NEW occ, NEW ids, RecallConfig(r, occ, ids) PROVE SaltsMinted'
  BY <1>4 DEF RecallConfig, load_config, settings
<1>5. ASSUME NEW r \in Retrievers, RecallPlan(r) \/ RecallCrash(r) PROVE SaltsMinted'
  <2>1. rsalt' = [rsalt EXCEPT ![r] = 0] /\ UNCHANGED <<config, configuring, minted>>
    BY <1>5, Zenon DEF RecallPlan, RecallCrash, ForgetRecall, settings
  <2> QED BY <2>1
<1> QED
  BY <1>1, <1>2, <1>3, <1>4, <1>5, Zenon
    DEF Next, vars, settings, readers, RecallUnrandomized, RecallMoment, RecallAppend, Enable,
      Disable, Plan, Decide, PublishStamp, PublishAppend, PublishCrash, Tick

\* A settled row stays settled while the chain stands still: clocks and salts
\* only grow and a minted salt keeps its rate.
LEMMA SettledKept ==
  ASSUME IInv, NEW row \in Row, Settled(row), schedules' = schedules,
         now' \in Times, now <= now', minted' \in Salts, minted <= minted',
         \A salt \in Salts : salt <= minted => rateOf'[salt] = rateOf[salt]
  PROVE  Settled(row)'
<1>1. row.salt \in Salts /\ row.at \in Times /\ row.salt <= minted /\ row.at <= now
  BY Zenon DEF Row, Settled
<1>2. row.at <= now' /\ row.salt <= minted'
  BY <1>1, BoundAssumption DEF IInv, TypeOK, Times, Salts
<1>3. rateOf'[row.salt] = rateOf[row.salt]
  BY <1>1, Zenon
<1>4. AssignedRate(schedules, row.salt, row.at, row.lesson)'
    = AssignedRate(schedules, row.salt, row.at, row.lesson)
  BY <1>3, Zenon DEF AssignedRate, in_force, rate_for
<1> QED BY <1>2, <1>4, Zenon DEF Settled

\* A publication leaves every settled row settled: it takes effect later than
\* any moment a row can carry.
LEMMA SettledPublish ==
  ASSUME IInv, MaxStall < EffectiveDelay, NEW p \in Operators, PublishAppend(p),
         NEW row \in Row, Settled(row)
  PROVE  Settled(row)'
<1> DEFINE s == Published(p)
<1>1. row.salt \in Salts /\ row.at \in Times /\ row.salt <= minted /\ row.at <= now
  BY Zenon DEF Row, Settled
<1>2. s \in Schedule /\ s.from = ostamp[p] + EffectiveDelay
  BY BoundAssumption DEF IInv, TypeOK, Published, Schedule, Times
<1>3. now - ostamp[p] <= MaxStall
  BY Zenon DEF PublishAppend, IInv, ClocksPast
<1>4. s.from > row.at
  BY <1>1, <1>2, <1>3, BoundAssumption DEF IInv, TypeOK, Times
<1>5. ~Governs(s, row.salt, row.at)
  BY <1>1, <1>2, <1>4, BoundAssumption DEF Governs, IInv, TypeOK, Times
<1>6. schedules' = Append(schedules, s) /\ UNCHANGED <<now, minted, rateOf>>
  BY Zenon DEF PublishAppend, settings
<1> HIDE DEF s
<1>7. AssignedRate(Append(schedules, s), row.salt, row.at, row.lesson)
    = AssignedRate(schedules, row.salt, row.at, row.lesson)
  BY <1>1, <1>2, <1>5, RateKept, Zenon DEF IInv
<1>8. AssignedRate(schedules, row.salt, row.at, row.lesson)'
    = AssignedRate(Append(schedules, s), row.salt, row.at, row.lesson)
  BY <1>6, Zenon DEF AssignedRate, in_force, rate_for
<1> QED BY <1>6, <1>7, <1>8, Zenon DEF Settled

\* Every step keeps the planned and the logged rows settled.
LEMMA RowsStep == ASSUME IInv, MaxStall < EffectiveDelay, [Next]_vars PROVE RowsSettled'
<1>0. log \subseteq Row /\ rrows \in [Retrievers -> SUBSET Row] /\ now \in Times /\ minted \in Salts
  BY Zenon DEF IInv, TypeOK
<1> USE <1>0, BoundAssumption
<1>1. ASSUME \A row \in Row : Settled(row) => Settled(row)',
             log' = log, \A r \in Retrievers : rrows'[r] \subseteq rrows[r]
      PROVE RowsSettled'
  BY <1>1, Zenon DEF IInv, RowsSettled
<1>2. ASSUME UNCHANGED <<now, minted, rateOf, schedules>>
      PROVE  \A row \in Row : Settled(row) => Settled(row)'
  BY <1>2, SettledKept DEF Salts, Times
<1>3. ASSUME NEW rate \in ConfiguredRates, ConfigureOpen(rate) PROVE RowsSettled'
  <2>1. minted' \in Salts /\ minted <= minted' /\ now' = now /\ schedules' = schedules
        /\ \A salt \in Salts : salt <= minted => rateOf'[salt] = rateOf[salt]
    BY <1>3 DEF ConfigureOpen, Salts, IInv, TypeOK
  <2>2. \A row \in Row : Settled(row) => Settled(row)'
    BY <2>1, SettledKept DEF Times
  <2> QED BY <1>1, <1>3, <2>2, Zenon DEF ConfigureOpen, readers
<1>4. CASE Tick
  <2>1. \A row \in Row : Settled(row) => Settled(row)'
    BY <1>4, SettledKept DEF Tick, Times, Salts, settings
  <2> QED BY <1>1, <1>4, <2>1, Zenon DEF Tick, readers
<1>5. ASSUME NEW p \in Operators, PublishAppend(p) PROVE RowsSettled'
  <2>1. \A row \in Row : Settled(row) => Settled(row)'
    BY <1>5, SettledPublish, Zenon
  <2> QED BY <1>1, <1>5, <2>1, Zenon DEF PublishAppend, readers
<1>6. ASSUME NEW r \in Retrievers, RecallPlan(r) PROVE RowsSettled'
  <2>1. UNCHANGED <<now, minted, rateOf, schedules, log>>
        /\ rrows' = [rrows EXCEPT ![r] = {PlannedRow(r, lesson) : lesson \in rset[r]}]
    BY <1>6, Zenon DEF RecallPlan, settings
  <2>2. rat[r] <= now /\ rsalt[r] <= minted
    BY Zenon DEF IInv, ClocksPast, SaltsMinted
  <2>3. \A lesson \in rset[r] : Settled(PlannedRow(r, lesson))
    BY <2>2, Zenon DEF Settled, PlannedRow
  <2>4. \A row \in rrows'[r] : Settled(row)
    BY <2>1, <2>3, Zenon
  <2>5. \A row \in rrows'[r] : row \in Row
    <3>1. TypeOK' BY <1>6, TypeStep, Zenon DEF Next
    <3> QED BY <3>1, Zenon DEF TypeOK
  <2>6. \A row \in Row : Settled(row) => Settled(row)'
    BY <1>2, <2>1, Zenon
  <2> QED BY <2>1, <2>4, <2>5, <2>6, Zenon DEF RowsSettled, IInv
<1>7. ASSUME NEW r \in Retrievers, RecallAppend(r) PROVE RowsSettled'
  <2>1. UNCHANGED <<now, minted, rateOf, schedules>> /\ log' = log \cup rrows[r]
        /\ rrows' = [rrows EXCEPT ![r] = {}]
    BY <1>7, Zenon DEF RecallAppend, settings
  <2>2. \A row \in Row : Settled(row) => Settled(row)'
    BY <1>2, <2>1, Zenon
  <2> QED BY <2>1, <2>2, Zenon DEF RowsSettled, IInv
<1>8. ASSUME NEW r \in Retrievers, RecallCrash(r) PROVE RowsSettled'
  BY <1>1, <1>2, <1>8, Zenon DEF RecallCrash, settings
<1>9. ASSUME UNCHANGED <<now, minted, rateOf, schedules, log, rrows>> PROVE RowsSettled'
  BY <1>1, <1>2, <1>9, Zenon
<1> QED
  BY <1>3, <1>4, <1>5, <1>6, <1>7, <1>8, <1>9, Zenon
    DEF Next, vars, settings, readers, RecallUnrandomized, ConfigureWrite, ConfigureCrash,
      RecallConfig, RecallMoment, Enable, Disable, Plan, Decide, PublishStamp, PublishCrash

-----------------------------------------------------------------------------
\* The invariant holds in every reachable state of a store whose publications
\* are appended before they take effect.
THEOREM Invariant == MaxStall < EffectiveDelay => (Spec => []IInv)
<1> SUFFICES ASSUME MaxStall < EffectiveDelay PROVE Spec => []IInv
  BY Zenon
<1>1. IInv /\ [Next]_vars => IInv'
  BY TypeStep, LatestStep, ClocksStep, SaltsStep, RowsStep, Zenon DEF IInv
<1> QED BY InitIInv, <1>1, PTL DEF Spec

\* Every variable of the experiment keeps its type.
THEOREM TypeCorrect == MaxStall < EffectiveDelay => (Spec => []TypeOK)
<1>1. IInv => TypeOK BY Zenon DEF IInv
<1> QED BY Invariant, <1>1, PTL

\* Any assignment ever logged can be re-checked against the schedule chain: the
\* chain, however much longer it has grown, still sets the rate the row was
\* drawn with (allocation._publish, holdout_io.plan_assignments).
THEOREM Accountability == MaxStall < EffectiveDelay => (Spec => []EveryRateAccounted)
<1>1. IInv => EveryRateAccounted
  BY Zenon DEF IInv, RowsSettled, Settled, EveryRateAccounted
<1> QED BY Invariant, <1>1, PTL

\* The drift check of the integrity audit finds every experiment to be one
\* randomization (integrity.check_assignment_drift).
THEOREM NoFalseDrift == MaxStall < EffectiveDelay => (Spec => []DriftAuditClean)
<1>1. IInv => DriftAuditClean
  <2> SUFFICES ASSUME IInv, NEW salt \in Salts PROVE check_assignment_drift(salt)
    BY Zenon DEF DriftAuditClean
  <2> DEFINE free == {row \in RowsOf(salt) : ~in_force(schedules, salt, row.at)}
  <2>1. \A row \in RowsOf(salt) : row.salt = salt /\
          row.rate = AssignedRate(schedules, row.salt, row.at, row.lesson)
    BY Zenon DEF IInv, RowsSettled, Settled, RowsOf
  <2>2. \A row \in free : row.rate = rateOf[salt]
    BY <2>1, Zenon DEF AssignedRate
  <2>3. \A row \in RowsOf(salt) \ free :
          row.rate = rate_for(schedules, row.salt, row.at, row.lesson)
    BY <2>1, Zenon DEF AssignedRate
  <2>4. unscheduled(RowsOf(salt) \ free) = {}
    BY <2>3, Zenon DEF unscheduled
  <2> QED BY <2>2, <2>4, Zenon DEF check_assignment_drift
<1> QED BY Invariant, <1>1, PTL
===============================================================================
