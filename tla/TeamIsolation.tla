----------------------------- MODULE TeamIsolation -----------------------------
(***************************************************************************)
(* Optimistic isolation of team writes (team_io.py, team_isolation.py).    *)
(*                                                                         *)
(* An agent fetches facts with their versions, generates new facts from    *)
(* them for as long as that takes, and then writes in a transaction that   *)
(* validates what it declared to have read.  Policy changes, leases,       *)
(* fetches and write transactions exclude one another by the lock          *)
(* .team-isolation; time and the forgetting of facts do not take it and    *)
(* may happen inside a transaction.  A version is a hash of the whole body *)
(* of a fact: here, the body itself.  What an agent generates is a         *)
(* function of what it fetched: its program.                               *)
(***************************************************************************)
EXTENDS Naturals

CONSTANTS
    Facts, Agents, Spaces, Work,
    Body,                \* the bodies of facts
    Programs,            \* what agents set out to do
    Reads(_), Writes(_), \* the facts a program fetches, and those it writes
    Compute(_, _, _),    \* Compute(p, f, s): the body p generates for f, having read s
    MaxFence             \* bound on the fencing tokens of a work item

LEVELS == {"none", "snapshot", "serializable", "sequenced"}
Serial == {"serializable", "sequenced"}
Unset == "unset"                      \* a space the policy file does not name
Absent == "absent"
Nobody == "nobody"
Idle == "idle"
Contents == [Facts -> Body \cup {Absent}]

\* A program's read set is complete ("assumes a complete declared point-read set").
ASSUME TeamAssumption ==
    /\ MaxFence \in Nat /\ Nobody \notin Agents /\ Idle \notin Programs /\ Absent \notin Body
    /\ \A p \in Programs : Reads(p) \subseteq Facts /\ Writes(p) \subseteq Facts
    /\ \A p \in Programs, f \in Facts, s \in Contents : Compute(p, f, s) \in Body
    /\ \A p \in Programs, f \in Facts, s, t \in Contents :
         (\A g \in Reads(p) : s[g] = t[g]) => Compute(p, f, s) = Compute(p, f, t)

VARIABLES
    facts,      \* the canonical facts
    hidden,     \* facts admission refuses: forgotten, expired, without evidence
    level,      \* team-isolation.json: the level of each space
    leases,     \* team-leases.sqlite3: the row of each work item of a space
    token,      \* the last lease each agent was given
    doing,      \* the program an agent generates for
    read_set,   \* what it fetched for it
    locker,     \* the agent inside a write transaction, or Nobody
    space,      \* the space its request names
    changed,    \* the stale reads its validation found
    lastFence   \* history: the highest token of a sequenced commit on a work item

agent == <<doing, read_set>>
tx == <<locker, space, changed>>
teamVars == <<facts, hidden, level, leases, token, agent, tx, lastFence>>

Row == [principal: Agents, fence: 0..MaxFence, live: BOOLEAN]
Token == [space: Spaces, work: Work, fence: 0..MaxFence]
NoReads == [f \in Facts |-> Absent]

\* fence 0: the work item has no row yet.
TeamInit ==
    /\ facts \in Contents /\ hidden = {}
    /\ level = [s \in Spaces |-> Unset]
    /\ leases \in [Spaces \X Work -> [principal: Agents, fence: {0}, live: {FALSE}]]
    /\ token \in [Agents -> [space: Spaces, work: Work, fence: {0}]]
    /\ doing = [a \in Agents |-> Idle] /\ read_set = [a \in Agents |-> NoReads]
    /\ locker = Nobody /\ space \in Spaces /\ changed = {}
    /\ lastFence = [k \in Spaces \X Work |-> 0]

-----------------------------------------------------------------------------
(* Policy and reads.                                                       *)

isolation(s, l) ==
    /\ locker = Nobody
    /\ level' = [level EXCEPT ![s] = l]
    /\ UNCHANGED <<facts, hidden, leases, token, agent, tx, lastFence>>

\* With no policy at all every space is at none; otherwise it must be named.
_space(s) == level[s] # Unset \/ \A r \in Spaces : level[r] = Unset

_visible(f) == facts[f] # Absent /\ f \notin hidden

\* The fetched facts, or a refusal that changes nothing.
fetch(a, s, p) ==
    /\ locker = Nobody /\ doing[a] = Idle
    /\ _space(s) /\ \A f \in Reads(p) : _visible(f)
    /\ doing' = [doing EXCEPT ![a] = p]
    /\ read_set' = [read_set EXCEPT ![a] = [f \in Facts |-> IF f \in Reads(p) THEN facts[f] ELSE Absent]]
    /\ UNCHANGED <<facts, hidden, level, leases, token, tx, lastFence>>

\* Forgetting, its undoing, expiry and loss of evidence do not take the team lock.
Admission(h) ==
    /\ hidden' = h
    /\ UNCHANGED <<facts, level, leases, token, agent, tx, lastFence>>

-----------------------------------------------------------------------------
(* Work-item leases.                                                       *)

\* A new lease, unless one is live; its token is one more than the last.
lease(a, s, w) ==
    LET row == leases[<<s, w>>] IN
    /\ locker = Nobody /\ _space(s)
    /\ ~row.live /\ row.fence < MaxFence
    /\ leases' = [leases EXCEPT ![<<s, w>>] = [principal |-> a, fence |-> row.fence + 1, live |-> TRUE]]
    /\ token' = [token EXCEPT ![a] = [space |-> s, work |-> w, fence |-> row.fence + 1]]
    /\ UNCHANGED <<facts, hidden, level, agent, tx, lastFence>>

\* The agent's token is that of the row, which is its own.
Holds(a, s, w) == /\ leases[<<s, w>>].principal = a /\ leases[<<s, w>>].fence > 0
                  /\ token[a] = [space |-> s, work |-> w, fence |-> leases[<<s, w>>].fence]

release(a, s, w) ==
    /\ locker = Nobody /\ _space(s) /\ Holds(a, s, w)
    /\ leases' = [leases EXCEPT ![<<s, w>>].live = FALSE]
    /\ UNCHANGED <<facts, hidden, level, token, agent, tx, lastFence>>

\* Time passes, also inside a transaction.
Expire(s, w) ==
    /\ leases[<<s, w>>].live
    /\ leases' = [leases EXCEPT ![<<s, w>>].live = FALSE]
    /\ UNCHANGED <<facts, hidden, level, token, agent, tx, lastFence>>

\* Mutation of _fence: any live lease on the item the request names will do.
FenceLiveOnly(a, s) == level[s] = "sequenced" =>
    \E w \in Work : token[a].space = s /\ token[a].work = w /\ leases[<<s, w>>].live

_fence(a, s) == level[s] = "sequenced" => \E w \in Work : Holds(a, s, w) /\ leases[<<s, w>>].live

-----------------------------------------------------------------------------
(* The write transaction.                                                  *)

stale(a) == {f \in Reads(doing[a]) : ~_visible(f) \/ facts[f] # read_set[a][f]}

\* Mutation of Validated: only the level named serializable compares the reads.
ValidatedSerializableOnly(a, s) ==
    /\ _space(s)
    /\ level[s] = "serializable" => stale(a) = {}
    /\ _fence(a, s)

\* What is checked before the writer's body runs.
Validated(a, s) ==
    /\ _space(s)
    /\ level[s] \in Serial => stale(a) = {}
    /\ _fence(a, s)

begin(a, s) ==
    /\ locker = Nobody /\ doing[a] # Idle /\ Validated(a, s)
    /\ locker' = a /\ space' = s /\ changed' = stale(a)
    /\ UNCHANGED <<facts, hidden, level, leases, token, agent, lastFence>>

\* Mutation of Admitted: a snapshot write need only declare what it overwrites.
AdmittedDeclared(a, s) ==
    /\ \A f \in Writes(doing[a]) \cap Reads(doing[a]) : facts[f] # Absent
    /\ level[s] = "snapshot" =>
         \A f \in Writes(doing[a]) : facts[f] # Absent => f \in Reads(doing[a])
    /\ _fence(a, s)

\* The body finds the facts it updates (KeyError otherwise); after it, snapshot
\* write conflicts and the lease are checked.
Admitted(a, s) ==
    /\ \A f \in Writes(doing[a]) \cap Reads(doing[a]) : facts[f] # Absent
    /\ level[s] = "snapshot" =>
         \A f \in Writes(doing[a]) : facts[f] # Absent => f \in Reads(doing[a]) \ changed
    /\ _fence(a, s)

Finish(a) ==
    /\ doing' = [doing EXCEPT ![a] = Idle] /\ read_set' = [read_set EXCEPT ![a] = NoReads]
    /\ locker' = Nobody /\ changed' = {}

\* The facts generated from the fetched ones are committed.
commit(a) ==
    LET p == doing[a] IN
    /\ locker = a /\ Admitted(a, space)
    /\ facts' = [f \in Facts |-> IF f \in Writes(p) THEN Compute(p, f, read_set[a]) ELSE facts[f]]
    /\ lastFence' = [k \in Spaces \X Work |->
                       IF level[space] = "sequenced" /\ k = <<token[a].space, token[a].work>>
                       THEN token[a].fence ELSE lastFence[k]]
    /\ Finish(a)
    /\ UNCHANGED <<hidden, level, leases, token, space>>

\* STALE_GENERATION, before or after the body: nothing is committed.
refuse(a, s) ==
    /\ \/ locker = Nobody /\ doing[a] # Idle /\ ~Validated(a, s)
       \/ locker = a /\ space = s /\ ~Admitted(a, s)
    /\ Finish(a)
    /\ UNCHANGED <<facts, hidden, level, leases, token, space, lastFence>>

\* A writer that declares no request, while no space has a level above none.
Undeclared(f, b) ==
    /\ locker = Nobody /\ \A s \in Spaces : level[s] \in {Unset, "none"}
    /\ facts' = [facts EXCEPT ![f] = b]
    /\ UNCHANGED <<hidden, level, leases, token, agent, tx, lastFence>>

\* Privacy erasure removes facts and passes the checks by.  That their forgetting
\* is committed is checked before the lock is taken, and may be undone by now.
erasure(D) ==
    /\ locker = Nobody
    /\ facts' = [f \in Facts |-> IF f \in D THEN Absent ELSE facts[f]]
    /\ UNCHANGED <<hidden, level, leases, token, agent, tx, lastFence>>

TeamNext ==
    \/ \E s \in Spaces, l \in LEVELS : isolation(s, l)
    \/ \E a \in Agents, s \in Spaces :
         \/ \E p \in Programs : fetch(a, s, p)
         \/ \E w \in Work : lease(a, s, w) \/ release(a, s, w)
         \/ begin(a, s) \/ refuse(a, s)
    \/ \E a \in Agents : commit(a)
    \/ \E s \in Spaces, w \in Work : Expire(s, w)
    \/ \E D \in SUBSET Facts : Admission(D) \/ erasure(D)
    \/ \E f \in Facts, b \in Body : Undeclared(f, b)

TeamSpec == TeamInit /\ [][TeamNext]_teamVars

-----------------------------------------------------------------------------
(* Properties.                                                             *)

\* Every variable has its type, and only a generating agent is in a transaction.
TeamTypeOK ==
    /\ facts \in Contents /\ hidden \subseteq Facts
    /\ level \in [Spaces -> LEVELS \cup {Unset}]
    /\ leases \in [Spaces \X Work -> Row] /\ token \in [Agents -> Token]
    /\ doing \in [Agents -> Programs \cup {Idle}] /\ read_set \in [Agents -> Contents]
    /\ locker \in Agents \cup {Nobody} /\ space \in Spaces /\ changed \subseteq Facts
    /\ locker # Nobody => doing[locker] # Idle
    /\ lastFence \in [Spaces \X Work -> 0..MaxFence]

\* The program, run on the given facts in one step.
Run(p, s) == [f \in Facts |-> IF f \in Writes(p) THEN Compute(p, f, s) ELSE s[f]]

\* Serializability: a commit in a space at the serializable or sequenced level
\* has the effect of running the agent's whole program now, in one step, although
\* the agent read steps ago and other agents, writers at lower levels, erasures
\* and policy changes came in between (_checked).
Serializable == [][\A a \in Agents :
    commit(a) /\ level[space] \in Serial => facts' = Run(doing[a], facts)]_teamVars

\* No lost update from the snapshot level on: an agent that overwrites all that it
\* read commits as if it had run now ("none: ... lost updates remain possible").
NoLostUpdate == [][\A a \in Agents :
    commit(a) /\ level[space] # Unset /\ level[space] # "none"
      /\ Reads(doing[a]) \subseteq Writes(doing[a])
      => facts' = Run(doing[a], facts)]_teamVars

\* Fencing: the sequenced commits on a work item never go back to an older token,
\* however late a former holder writes ("Old tokens and leases that expire during
\* commit are refused").
FencesAdvance == [][\A k \in Spaces \X Work : lastFence'[k] >= lastFence[k]]_teamVars
===============================================================================
