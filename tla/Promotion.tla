------------------------------ MODULE Promotion ------------------------------
(***************************************************************************)
(* Preregistered change trials and the certificates they earn              *)
(* (promotion.py), over the assignment and outcome logs of holdout_io and  *)
(* their anchors in the transparency log.                                  *)
(*                                                                         *)
(* An assignment and an outcome are each appended to their own log first   *)
(* and anchored in the transparency log in a second step, without a common *)
(* lock: an agent may die in between.  certify reads the logs, then reads  *)
(* them again, then the transparency leaves, then the raw log, and signs.  *)
(* The numbers of the doubly robust evaluation are left out: evaluate may  *)
(* clear the margin or not.                                                *)
(***************************************************************************)
EXTENDS Naturals, Sequences, FiniteSets

CONSTANTS
    Plans,       \* names of change plans
    Occasions,   \* trial tasks
    Agents,      \* processes that assign and report
    Certifiers,  \* processes that run certify
    Gates,       \* processes that run allocation.plan(require_certificate=True)
    MaxRows,     \* bound on holdout_log.jsonl
    MaxCerts     \* bound on promotion-certificates.jsonl

ASSUME PromotionBounds == MaxRows \in Nat /\ MaxCerts \in Nat /\ Plans # {} /\ Occasions # {}

VARIABLES
    registered,  \* change-plans.jsonl: the plans registered so far
    log,         \* holdout_log.jsonl: <<[plan, occ], ...>>, trial rows only
    rowAnchors,  \* indices of log anchored by a holdout-assignment leaf
    outcome,     \* occasion_outcomes.jsonl: occasion -> "none", "good" or "bad"
    outAnchors,  \* <<occasion, plan>>: a holdout-outcome leaf newer than the plan
    apc,         \* agent -> "idle" or what it still has to anchor
    arow, aocc,
    cpc, cplan, crows, cold, cleaves, couts,   \* a certify call and its locals
    certs,       \* promotion-certificates.jsonl
    revoked,     \* promotion-rollbacks.jsonl: indices of certs
    gpc, gcert,  \* a gated allocation.plan and the certificate it found
    planned      \* certificates named by published schedules (basis)

trial == <<registered, log, outcome>>
anchors == <<rowAnchors, outAnchors>>
agents == <<apc, arow, aocc>>
certifiers == <<cpc, cplan, crows, cold, cleaves, couts>>
gates == <<gpc, gcert, planned>>
trialVars == <<trial, anchors, agents, certifiers, certs, revoked, gates>>

Rows == 1..MaxRows
Row == [plan: Plans, occ: Occasions]
Certificate == [plan: Plans, rows: SUBSET Rows, old: SUBSET Rows]
AnyPlan == CHOOSE p \in Plans : TRUE
AnyOccasion == CHOOSE o \in Occasions : TRUE
RowsOf(p) == {i \in 1..Len(log) : log[i].plan = p}

TrialInit ==
    /\ registered = {} /\ log = <<>> /\ rowAnchors = {}
    /\ outcome = [o \in Occasions |-> "none"]
    /\ outAnchors = {}
    /\ apc = [a \in Agents |-> "idle"]
    /\ arow = [a \in Agents |-> 0] /\ aocc = [a \in Agents |-> AnyOccasion]
    /\ cpc = [c \in Certifiers |-> "idle"]
    /\ cplan = [c \in Certifiers |-> AnyPlan]
    /\ crows = [c \in Certifiers |-> {}] /\ cold = [c \in Certifiers |-> {}]
    /\ cleaves = [c \in Certifiers |-> {}] /\ couts = [c \in Certifiers |-> {}]
    /\ certs = <<>> /\ revoked = {}
    /\ gpc = [g \in Gates |-> "idle"] /\ gcert = [g \in Gates |-> 0]
    /\ planned = {}

-----------------------------------------------------------------------------
\* register: names are immutable, under the journal's writer lock.
Register(p) ==
    /\ p \notin registered
    /\ registered' = registered \cup {p}
    /\ UNCHANGED <<log, outcome, anchors, agents, certifiers, certs, revoked, gates>>

\* assign: append the row of a registered plan, its anchor still to come.
Assign(a, p, o) ==
    /\ apc[a] = "idle" /\ p \in registered /\ Len(log) < MaxRows
    /\ log' = Append(log, [plan |-> p, occ |-> o])
    /\ apc' = [apc EXCEPT ![a] = "row"]
    /\ arow' = [arow EXCEPT ![a] = Len(log) + 1]
    /\ UNCHANGED <<registered, outcome, anchors, aocc, certifiers, certs, revoked, gates>>

AnchorRow(a) ==
    /\ apc[a] = "row"
    /\ rowAnchors' = rowAnchors \cup {arow[a]}
    /\ apc' = [apc EXCEPT ![a] = "idle"]
    /\ arow' = [arow EXCEPT ![a] = 0]
    /\ UNCHANGED <<trial, outAnchors, aocc, certifiers, certs, revoked, gates>>

\* record_outcome of an occasion nobody has reported yet.
RecordOutcome(a, o, v) ==
    /\ apc[a] = "idle" /\ outcome[o] = "none"
    /\ outcome' = [outcome EXCEPT ![o] = v]
    /\ apc' = [apc EXCEPT ![a] = "outcome"]
    /\ aocc' = [aocc EXCEPT ![a] = o]
    /\ UNCHANGED <<registered, log, anchors, arow, certifiers, certs, revoked, gates>>

\* A mutant: the last report wins.
RecordAgainLast(a, o, v) ==
    /\ apc[a] = "idle" /\ outcome[o] # "none"
    /\ outcome' = [outcome EXCEPT ![o] = v]
    /\ UNCHANGED <<registered, log, anchors, agents, certifiers, certs, revoked, gates>>

\* record_outcome of a reported occasion: False for the same answer,
\* ConflictingOutcome for another one; nothing is written or anchored.
RecordAgain(a, o, v) ==
    /\ apc[a] = "idle" /\ outcome[o] # "none"
    /\ UNCHANGED trialVars

AnchorOutcome(a) ==
    /\ apc[a] = "outcome"
    /\ outAnchors' = outAnchors \cup {<<aocc[a], p>> : p \in registered}
    /\ apc' = [apc EXCEPT ![a] = "idle"]
    /\ aocc' = [aocc EXCEPT ![a] = AnyOccasion]
    /\ UNCHANGED <<trial, rowAnchors, arow, certifiers, certs, revoked, gates>>

\* The agent dies between its append and its anchor: nobody anchors it later.
AgentCrash(a) ==
    /\ apc[a] # "idle"
    /\ apc' = [apc EXCEPT ![a] = "idle"]
    /\ arow' = [arow EXCEPT ![a] = 0]
    /\ aocc' = [aocc EXCEPT ![a] = AnyOccasion]
    /\ UNCHANGED <<trial, anchors, certifiers, certs, revoked, gates>>

-----------------------------------------------------------------------------
(* certify, one step per read of the shared files.                         *)

Resolved(i) == outcome[log[i].occ] # "none"

\* logged_rows: the canonical rows are the resolved ones.
CertifyRead(c, p) ==
    /\ cpc[c] = "idle" /\ p \in registered /\ Len(certs) < MaxCerts
    /\ cpc' = [cpc EXCEPT ![c] = "read"]
    /\ cplan' = [cplan EXCEPT ![c] = p]
    /\ crows' = [crows EXCEPT ![c] = {i \in RowsOf(p) : Resolved(i)}]
    /\ cold' = [cold EXCEPT ![c] = RowsOf(p)]
    /\ UNCHANGED <<trial, anchors, agents, cleaves, couts, certs, revoked, gates>>

\* A mutant: unresolved assignments are ignored.
AuditSelective(c) ==
    /\ cpc[c] = "read"
    /\ cpc' = [cpc EXCEPT ![c] = "audited"]
    /\ UNCHANGED <<trial, anchors, agents, cplan, crows, cold, cleaves, couts, certs, revoked, gates>>

\* The second read: every assigned trial outcome must be resolved.
CertifyAudit(c) ==
    /\ cpc[c] = "read"
    /\ \A i \in RowsOf(cplan[c]) : Resolved(i)
    /\ cpc' = [cpc EXCEPT ![c] = "audited"]
    /\ UNCHANGED <<trial, anchors, agents, cplan, crows, cold, cleaves, couts, certs, revoked, gates>>

\* The third: the transparency leaves newer than the plan.
CertifyLeaves(c) ==
    /\ cpc[c] = "audited"
    /\ cpc' = [cpc EXCEPT ![c] = "leaves"]
    /\ cleaves' = [cleaves EXCEPT ![c] = rowAnchors]
    /\ couts' = [couts EXCEPT ![c] = {o \in Occasions : <<o, cplan[c]>> \in outAnchors}]
    /\ UNCHANGED <<trial, anchors, agents, cplan, crows, cold, certs, revoked, gates>>

\* Mutants: only the first row's anchor is looked up; repeated tasks are kept.
AnchoredSomewhere(c) ==
    /\ \A i \in RowsOf(cplan[c]) : i = 1 => i \in cleaves[c]
    /\ \A i \in crows[c] : log[i].occ \in couts[c]
OneRowAnyway(c) == crows[c] # {}

\* The fourth: every raw row and every canonical outcome is anchored.
Anchored(c) ==
    /\ RowsOf(cplan[c]) \subseteq cleaves[c]
    /\ \A i \in crows[c] : log[i].occ \in couts[c]

\* evaluate: one outcome per task, and something to score.
OneRowPerTask(c) ==
    /\ crows[c] # {}
    /\ \A i, j \in crows[c] : log[i].occ = log[j].occ => i = j

CertifyCheck(c) ==
    /\ cpc[c] = "leaves"
    /\ Anchored(c)
    /\ OneRowPerTask(c)
    /\ cpc' = [cpc EXCEPT ![c] = "signed"]
    /\ UNCHANGED <<trial, anchors, agents, cplan, crows, cold, cleaves, couts, certs, revoked, gates>>

ForgetCertify(c) ==
    /\ cpc' = [cpc EXCEPT ![c] = "idle"]
    /\ cplan' = [cplan EXCEPT ![c] = AnyPlan]
    /\ crows' = [crows EXCEPT ![c] = {}] /\ cold' = [cold EXCEPT ![c] = {}]
    /\ cleaves' = [cleaves EXCEPT ![c] = {}] /\ couts' = [couts EXCEPT ![c] = {}]

CertifyIssue(c) ==
    /\ cpc[c] = "signed"
    /\ certs' = Append(certs, [plan |-> cplan[c], rows |-> crows[c], old |-> cold[c]])
    /\ ForgetCertify(c)
    /\ UNCHANGED <<trial, anchors, agents, revoked, gates>>

\* Any of the refusals (unresolved, unanchored, unreadable audit, a repeated
\* task, margin not cleared), or the process dies.
CertifyRefused(c) ==
    /\ cpc[c] # "idle"
    /\ ForgetCertify(c)
    /\ UNCHANGED <<trial, anchors, agents, certs, revoked, gates>>

-----------------------------------------------------------------------------
(* Using and revoking certificates.                                        *)

verify(k) == k \in 1..Len(certs) /\ k \notin revoked

Rollback(k) ==
    /\ verify(k)
    /\ revoked' = revoked \cup {k}
    /\ UNCHANGED <<trial, anchors, agents, certifiers, certs, gates>>

\* allocation.plan: the newest certificate of the gate's plan that verifies; the
\* schedule is appended later, and a rollback in between is not noticed.
GateFind(g, k) ==
    /\ gpc[g] = "idle" /\ verify(k)
    /\ \A j \in 1..Len(certs) : j > k => certs[j].plan # certs[k].plan \/ ~verify(j)
    /\ gpc' = [gpc EXCEPT ![g] = "found"]
    /\ gcert' = [gcert EXCEPT ![g] = k]
    /\ UNCHANGED <<trial, anchors, agents, certifiers, certs, revoked, planned>>

GatePublish(g) ==
    /\ gpc[g] = "found"
    /\ planned' = planned \cup {gcert[g]}
    /\ gpc' = [gpc EXCEPT ![g] = "idle"]
    /\ gcert' = [gcert EXCEPT ![g] = 0]
    /\ UNCHANGED <<trial, anchors, agents, certifiers, certs, revoked>>

-----------------------------------------------------------------------------
TrialNext ==
    \/ \E p \in Plans : Register(p)
    \/ \E a \in Agents :
        \/ \E p \in Plans, o \in Occasions : Assign(a, p, o)
        \/ \E o \in Occasions, v \in {"good", "bad"} : RecordOutcome(a, o, v) \/ RecordAgain(a, o, v)
        \/ AnchorRow(a)
        \/ AnchorOutcome(a)
        \/ AgentCrash(a)
    \/ \E c \in Certifiers :
        \/ \E p \in Plans : CertifyRead(c, p)
        \/ CertifyAudit(c)
        \/ CertifyLeaves(c)
        \/ CertifyCheck(c)
        \/ CertifyIssue(c)
        \/ CertifyRefused(c)
    \/ \E k \in 1..MaxCerts : Rollback(k)
    \/ \E g \in Gates : GatePublish(g) \/ \E k \in 1..MaxCerts : GateFind(g, k)

TrialSpec == TrialInit /\ [][TrialNext]_trialVars

-----------------------------------------------------------------------------
(* Properties.                                                             *)

\* Every variable has its type.
TrialTypeOK ==
    /\ registered \subseteq Plans
    /\ log \in Seq(Row)
    /\ rowAnchors \subseteq Rows
    /\ outcome \in [Occasions -> {"none", "good", "bad"}]
    /\ outAnchors \subseteq Occasions \X Plans
    /\ apc \in [Agents -> {"idle", "row", "outcome"}]
    /\ arow \in [Agents -> Rows \cup {0}] /\ aocc \in [Agents -> Occasions]
    /\ cpc \in [Certifiers -> {"idle", "read", "audited", "leaves", "signed"}]
    /\ cplan \in [Certifiers -> Plans]
    /\ crows \in [Certifiers -> SUBSET Rows] /\ cold \in [Certifiers -> SUBSET Rows]
    /\ cleaves \in [Certifiers -> SUBSET Rows] /\ couts \in [Certifiers -> SUBSET Occasions]
    /\ certs \in Seq(Certificate)
    /\ revoked \subseteq 1..Len(certs)
    /\ gpc \in [Gates -> {"idle", "found"}] /\ gcert \in [Gates -> Nat]
    /\ \A g \in Gates : gpc[g] = "found" => gcert[g] \in 1..Len(certs)
    /\ planned \subseteq 1..Len(certs)

\* What a certificate stands for: every row it was computed from is a logged
\* row of its plan, anchored, resolved and anchored again with its outcome
\* after the plan was registered, one row per task; and it stays so.
CertificateSound ==
    \A k \in 1..Len(certs) :
        /\ certs[k].plan \in registered /\ certs[k].rows # {}
        /\ certs[k].rows \subseteq RowsOf(certs[k].plan) \cap rowAnchors
        /\ \A i \in certs[k].rows : Resolved(i) /\ <<log[i].occ, certs[k].plan>> \in outAnchors
        /\ \A i, j \in certs[k].rows : log[i].occ = log[j].occ => i = j

\* No certificate is issued over pending trials: every occasion assigned before
\* certify began has its outcome by the time the certificate exists (certify:
\* "resolve every assigned trial outcome before certification").
NothingPending ==
    \A k \in 1..Len(certs) : \A i \in certs[k].old : Resolved(i)

\* A recorded outcome is never replaced, whoever reports again.
OutcomesFinal ==
    [][\A o \in Occasions : outcome[o] # "none" => outcome'[o] = outcome[o]]_trialVars

\* A certificate is computed from every trial row assigned before certify began
\* (docs: "Selectively completing only favorable occasions cannot issue a
\* release certificate").
CertificateComplete ==
    \A k \in 1..Len(certs) : certs[k].old \subseteq certs[k].rows

=============================================================================
