------------------------------- MODULE Holdout -------------------------------
(***************************************************************************)
(* The randomized holdout of one store: the experiment settings            *)
(* (holdout_io.configure / load_config), the hash-chained allocation       *)
(* schedules (allocation._publish, enable, disable, plan), the recalls     *)
(* that assign an arm to every recalled lesson (holdout_io.assign_and_log) *)
(* and the two integrity checks that read the assignment log back.         *)
(*                                                                         *)
(* A recall and an operator command are processes of several steps: the    *)
(* settings file, the clock, the schedule chain and the log are read and   *)
(* written one after the other, and only the appends are under a lock.     *)
(* Rates are tenths (0..10); the hash of (salt, lesson, occasion) that     *)
(* experiment.is_held_out compares with the rate is the constant Draw.     *)
(* A salt is minted by configure together with its rate, so rateOf[s] is   *)
(* the rate the settings file holds beside the salt s.                     *)
(***************************************************************************)
EXTENDS Integers, Sequences, FiniteSets

CONSTANTS
    Lessons,         \* lesson slugs
    Occasions,       \* occasion ids
    Retrievers,      \* processes that recall
    Operators,       \* processes that run `unimem allocate ...`
    Draw,            \* <<salt, lesson, occasion>> -> 0..9, the hash in tenths
    ConfiguredRates, \* rates an operator passes to configure
    PlanRates,       \* rates plan may set (verdict or thompson mode)
    Explore,         \* Policy.explore
    DefaultRate,     \* experiment.DEFAULT_HOLDOUT_RATE
    EffectiveDelay,  \* allocation.EFFECTIVE_DELAY_S
    MaxStall,        \* how long _publish may take from its clock to its append
    MaxSalts, MaxSchedules, MaxRows, MaxTime   \* bounds

AnyOccasion == CHOOSE o \in Occasions : TRUE
Salts == 0..MaxSalts
DefaultSalt == 0
Times == 0..MaxTime
Rates == 0..10
AllAt(rate) == [l \in Lessons |-> rate]

ASSUME RateAssumption ==
    /\ ConfiguredRates \subseteq Rates /\ PlanRates \subseteq Rates
    /\ Explore \in Rates /\ DefaultRate \in Rates
    /\ Draw \in [Salts \X Lessons \X Occasions -> 0..9]
ASSUME OccasionAssumption == Occasions # {}
ASSUME BoundAssumption ==
    /\ MaxSalts \in Nat /\ MaxSchedules \in Nat /\ MaxRows \in Nat /\ MaxTime \in Nat
    /\ EffectiveDelay \in Nat /\ MaxStall \in Nat

VARIABLES
    now,          \* the wall clock
    config,       \* experiment.json: the salt it holds, or -1 (no file, or empty)
    configuring,  \* the salt configure is about to write, or -1
    minted,       \* the newest salt configure has minted
    rateOf,       \* salt -> the rate configured with it
    schedules,    \* schedules.jsonl, oldest first
    log,          \* holdout_log.jsonl, as the set of its rows
    rpc, rocc, rset, rsalt, rat, rrows,   \* a recall's place and locals
    opc, osalt, orates, okind, ostamp       \* an operator command's place and locals

readers == <<rpc, rocc, rset, rsalt, rat, rrows>>
publishers == <<opc, osalt, orates, okind, ostamp>>
settings == <<config, configuring, minted, rateOf>>
vars == <<now, settings, schedules, log, readers, publishers>>

Row == [lesson: Lessons, occ: Occasions, salt: Salts, at: Times, rate: Rates, injected: BOOLEAN]
Schedule == [salt: Salts, from: Nat, rates: [Lessons -> Rates], basis: {"enable", "disable", "plan"}]

-----------------------------------------------------------------------------
(* The pure part: which schedule governs a moment, and what it sets.       *)

Governs(s, salt, at) == s.salt = salt /\ s.from <= at

\* A mutant: the newest schedule of the salt, whether or not it has taken effect.
EffectiveAtOnce(ss, salt, at) == {i \in 1..Len(ss) : ss[i].salt = salt}

\* Indices of the schedules of this salt that had taken effect.
Effective(ss, salt, at) == {i \in 1..Len(ss) : Governs(ss[i], salt, at)}

Latest(I) == CHOOSE i \in I : \A j \in I : j <= i

in_force(ss, salt, at) ==
    LET I == Effective(ss, salt, at)
    IN  I # {} /\ ss[Latest(I)].basis # "disable"

rate_for(ss, salt, at, lesson) == ss[Latest(Effective(ss, salt, at))].rates[lesson]

\* The rate plan_assignments logs for a lesson at a moment.
AssignedRate(ss, salt, at, lesson) ==
    IF in_force(ss, salt, at) THEN rate_for(ss, salt, at, lesson) ELSE rateOf[salt]

is_held_out(lesson, occ, rate, salt) == Draw[salt, lesson, occ] < rate

-----------------------------------------------------------------------------
Init ==
    /\ now = 0
    /\ config = -1 /\ configuring = -1 /\ minted = DefaultSalt
    /\ rateOf = [s \in Salts |-> DefaultRate]
    /\ schedules = <<>>
    /\ log = {}
    /\ rpc = [r \in Retrievers |-> "idle"]
    /\ rocc = [r \in Retrievers |-> AnyOccasion]
    /\ rset = [r \in Retrievers |-> {}]
    /\ rsalt = [r \in Retrievers |-> DefaultSalt]
    /\ rat = [r \in Retrievers |-> 0]
    /\ rrows = [r \in Retrievers |-> {}]
    /\ opc = [p \in Operators |-> "idle"]
    /\ osalt = [p \in Operators |-> DefaultSalt]
    /\ orates = [p \in Operators |-> AllAt(Explore)]
    /\ okind = [p \in Operators |-> "disable"]
    /\ ostamp = [p \in Operators |-> 0]

-----------------------------------------------------------------------------
(* configure: mint a salt, truncate the file, write it.                    *)

ConfigureOpen(rate) ==
    /\ configuring = -1 /\ minted < MaxSalts
    /\ minted' = minted + 1
    /\ configuring' = minted + 1
    /\ rateOf' = [rateOf EXCEPT ![minted + 1] = rate]
    /\ config' = -1
    /\ UNCHANGED <<now, schedules, log, readers, publishers>>

ConfigureWrite ==
    /\ configuring # -1
    /\ config' = configuring
    /\ configuring' = -1
    /\ UNCHANGED <<now, minted, rateOf, schedules, log, readers, publishers>>

\* The process dies between the two; the lock is released by the system.
ConfigureCrash ==
    /\ configuring # -1
    /\ configuring' = -1
    /\ UNCHANGED <<now, config, minted, rateOf, schedules, log, readers, publishers>>

\* load_config: the defaults stand in for a missing or unreadable file.
load_config == IF config = -1 THEN DefaultSalt ELSE config

-----------------------------------------------------------------------------
(* A recall: CausalMemory.recall_detailed down to assign_and_log.          *)

\* A recall's locals are dead once its rows are planned, and a command's once
\* it has appended; forgetting them keeps equal states equal.
ForgetRecall(r) ==
    /\ rocc' = [rocc EXCEPT ![r] = AnyOccasion]
    /\ rset' = [rset EXCEPT ![r] = {}]
    /\ rsalt' = [rsalt EXCEPT ![r] = DefaultSalt]
    /\ rat' = [rat EXCEPT ![r] = 0]

RecallConfig(r, occ, ids) ==
    /\ rpc[r] = "idle"
    /\ ids # {} /\ rateOf[load_config] > 0
    /\ Cardinality(log) + Cardinality(ids) <= MaxRows
    /\ rpc' = [rpc EXCEPT ![r] = "config"]
    /\ rocc' = [rocc EXCEPT ![r] = occ]
    /\ rset' = [rset EXCEPT ![r] = ids]
    /\ rsalt' = [rsalt EXCEPT ![r] = load_config]
    /\ UNCHANGED <<now, settings, schedules, log, rat, rrows, publishers>>

\* No recalled lesson is eligible, or the experiment is stopped: nothing is
\* randomized and nothing is logged.
RecallUnrandomized(r) ==
    /\ rpc[r] = "idle"
    /\ UNCHANGED vars

RecallMoment(r) ==
    /\ rpc[r] = "config"
    /\ rpc' = [rpc EXCEPT ![r] = "moment"]
    /\ rat' = [rat EXCEPT ![r] = now]
    /\ UNCHANGED <<now, settings, schedules, log, rocc, rset, rsalt, rrows, publishers>>

\* A mutant: the logged moment is rounded down.
PlannedRowEarly(r, lesson) ==
    LET rate == AssignedRate(schedules, rsalt[r], rat[r], lesson)
    IN  [lesson |-> lesson, occ |-> rocc[r], salt |-> rsalt[r], at |-> rat[r] - 1, rate |-> rate,
         injected |-> ~is_held_out(lesson, rocc[r], rate, rsalt[r])]

PlannedRow(r, lesson) ==
    LET rate == AssignedRate(schedules, rsalt[r], rat[r], lesson)
    IN  [lesson |-> lesson, occ |-> rocc[r], salt |-> rsalt[r], at |-> rat[r], rate |-> rate,
         injected |-> ~is_held_out(lesson, rocc[r], rate, rsalt[r])]

\* plan_assignments: read the schedule chain, freeze the arms.
RecallPlan(r) ==
    /\ rpc[r] = "moment"
    /\ rpc' = [rpc EXCEPT ![r] = "planned"]
    /\ rrows' = [rrows EXCEPT ![r] = {PlannedRow(r, lesson) : lesson \in rset[r]}]
    /\ ForgetRecall(r)
    /\ UNCHANGED <<now, settings, schedules, log, publishers>>

RecallAppend(r) ==
    /\ rpc[r] = "planned"
    /\ rpc' = [rpc EXCEPT ![r] = "idle"]
    /\ log' = log \cup rrows[r]
    /\ rrows' = [rrows EXCEPT ![r] = {}]
    /\ UNCHANGED <<now, settings, schedules, rocc, rset, rsalt, rat, publishers>>

\* The retriever dies before its append: nothing of the recall is logged.
RecallCrash(r) ==
    /\ rpc[r] # "idle"
    /\ rpc' = [rpc EXCEPT ![r] = "idle"]
    /\ rrows' = [rrows EXCEPT ![r] = {}]
    /\ ForgetRecall(r)
    /\ UNCHANGED <<now, settings, schedules, log, publishers>>

-----------------------------------------------------------------------------
(* The allocate commands: decide, stamp the clock, append under the lock.  *)

ForgetCommand(p) ==
    /\ opc' = [opc EXCEPT ![p] = "idle"]
    /\ osalt' = [osalt EXCEPT ![p] = DefaultSalt]
    /\ orates' = [orates EXCEPT ![p] = AllAt(Explore)]
    /\ okind' = [okind EXCEPT ![p] = "disable"]
    /\ ostamp' = [ostamp EXCEPT ![p] = 0]

Decide(p, salt, rates, kind) ==
    /\ opc[p] = "idle" /\ Len(schedules) < MaxSchedules
    /\ opc' = [opc EXCEPT ![p] = "decided"]
    /\ osalt' = [osalt EXCEPT ![p] = salt]
    /\ orates' = [orates EXCEPT ![p] = rates]
    /\ okind' = [okind EXCEPT ![p] = kind]
    /\ UNCHANGED <<now, settings, schedules, log, readers, ostamp>>

Enable(p) ==
    /\ config # -1 /\ rateOf[config] > 0
    /\ Decide(p, config, AllAt(Explore), "enable")

Disable(p) ==
    /\ Decide(p, load_config, AllAt(rateOf[load_config]), "disable")

\* plan: refused unless a schedule is in force; the verdicts decide the rates.
Plan(p, rates) ==
    /\ in_force(schedules, load_config, now)
    /\ Decide(p, load_config, rates, "plan")

PublishStamp(p) ==
    /\ opc[p] = "decided"
    /\ opc' = [opc EXCEPT ![p] = "stamped"]
    /\ ostamp' = [ostamp EXCEPT ![p] = now]
    /\ UNCHANGED <<now, settings, schedules, log, readers, osalt, orates, okind>>

\* A mutant: the schedule governs from the moment it is written.
PublishedAtOnce(p) ==
    [salt |-> osalt[p], from |-> ostamp[p], rates |-> orates[p], basis |-> okind[p]]

Published(p) ==
    [salt |-> osalt[p], from |-> ostamp[p] + EffectiveDelay, rates |-> orates[p], basis |-> okind[p]]

PublishAppend(p) ==
    /\ opc[p] = "stamped"
    /\ ForgetCommand(p)
    /\ schedules' = Append(schedules, Published(p))
    /\ UNCHANGED <<now, settings, log, readers>>

PublishCrash(p) ==
    /\ opc[p] # "idle"
    /\ ForgetCommand(p)
    /\ UNCHANGED <<now, settings, schedules, log, readers>>

-----------------------------------------------------------------------------
\* Time passes; a publisher that has read its clock stalls at most MaxStall.
Tick ==
    /\ now < MaxTime
    /\ \A p \in Operators : opc[p] = "stamped" => now - ostamp[p] < MaxStall
    /\ now' = now + 1
    /\ UNCHANGED <<settings, schedules, log, readers, publishers>>

Next ==
    \/ \E rate \in ConfiguredRates : ConfigureOpen(rate)
    \/ ConfigureWrite
    \/ ConfigureCrash
    \/ \E r \in Retrievers :
        \/ \E occ \in Occasions, ids \in SUBSET Lessons : RecallConfig(r, occ, ids)
        \/ RecallUnrandomized(r)
        \/ RecallMoment(r)
        \/ RecallPlan(r)
        \/ RecallAppend(r)
        \/ RecallCrash(r)
    \/ \E p \in Operators :
        \/ Enable(p)
        \/ Disable(p)
        \/ \E rates \in [Lessons -> PlanRates] : Plan(p, rates)
        \/ PublishStamp(p)
        \/ PublishAppend(p)
        \/ PublishCrash(p)
    \/ Tick

Spec == Init /\ [][Next]_vars

-----------------------------------------------------------------------------
(* What the integrity audit reads back.                                    *)

RowsOf(salt) == {row \in log : row.salt = salt}

\* allocation_schedule.unscheduled, over the rows a schedule governs.
unscheduled(rows) ==
    {row \in rows : rate_for(schedules, row.salt, row.at, row.lesson) # row.rate}

\* integrity.check_assignment_drift with the store's schedules: OK or not.
check_assignment_drift(salt) ==
    LET rows == RowsOf(salt)
        free == {row \in rows : ~in_force(schedules, salt, row.at)}
    IN  \/ \A a, b \in rows : a.rate = b.rate
        \/ /\ unscheduled(rows \ free) = {}
           /\ \A a, b \in free : a.rate = b.rate

-----------------------------------------------------------------------------
(* Properties.                                                             *)

\* Every variable has its type.
TypeOK ==
    /\ now \in Times
    /\ config \in Salts \cup {-1} /\ configuring \in Salts \cup {-1} /\ minted \in Salts
    /\ rateOf \in [Salts -> Rates]
    /\ schedules \in Seq(Schedule)
    /\ log \subseteq Row
    /\ rpc \in [Retrievers -> {"idle", "config", "moment", "planned"}]
    /\ rocc \in [Retrievers -> Occasions] /\ rset \in [Retrievers -> SUBSET Lessons]
    /\ rsalt \in [Retrievers -> Salts] /\ rat \in [Retrievers -> Times]
    /\ rrows \in [Retrievers -> SUBSET Row]
    /\ opc \in [Operators -> {"idle", "decided", "stamped"}]
    /\ osalt \in [Operators -> Salts] /\ orates \in [Operators -> [Lessons -> Rates]]
    /\ okind \in [Operators -> {"enable", "disable", "plan"}]
    /\ ostamp \in [Operators -> Times]

\* Every logged assignment can be re-checked: read against the schedule chain
\* as it stands now, the schedule in force at the row's moment still sets the
\* rate the row was drawn with, however publications, recalls and restarts of
\* the experiment interleaved (allocation: "every assignment can be re-checked
\* against the schedule that was in force when it was made").
EveryRateAccounted ==
    \A row \in log : row.rate = AssignedRate(schedules, row.salt, row.at, row.lesson)

\* The audit's drift check never calls an experiment reshuffled whose rates
\* were all set by configure and by published schedules.
DriftAuditClean == \A salt \in Salts : check_assignment_drift(salt)

\* The switches of the experiment that had taken effect by a moment.
Switches(salt, at) ==
    {i \in Effective(schedules, salt, at) : schedules[i].basis \in {"enable", "disable"}}

\* Once an `allocate disable` has taken effect, and no later `allocate enable`
\* has, assignments are drawn at the configured fixed rate: planning the next
\* era does not switch allocation back on (disable: "Return to the experiment's
\* configured fixed rate from the next assignment on").
DisableHolds ==
    \A row \in log :
        LET I == Switches(row.salt, row.at)
        IN  I # {} /\ schedules[Latest(I)].basis = "disable" => row.rate = rateOf[row.salt]
=============================================================================
