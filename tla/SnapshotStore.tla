---------------------------- MODULE SnapshotStore ----------------------------
(***************************************************************************)
(* What persistent vector snapshots promise (vector_snapshots.py): every   *)
(* retained revision has one content, a set of <<key, checksum>> pairs; a  *)
(* builder's changes are private until they are published, all at once, on *)
(* the revision they were built on; publication leaves older revisions as  *)
(* they are; a pinned revision is retained; erasure removes a key from     *)
(* every revision and revokes all builders.                                *)
(***************************************************************************)
EXTENDS Integers

CONSTANTS Keys, Values, Revisions, Builders, Readers, None, Deleted, Unstaged

VARIABLES
    contents,   \* the retained revisions and the head: revision -> content
    head,       \* the revision published last, -1 before the first
    drafts,     \* the changes of each builder that may still publish
    pins        \* the revision each reader may still read

vars == <<contents, head, drafts, pins>>

Init == /\ contents = [r \in {-1} |-> {}] /\ head = -1
        /\ drafts = [b \in Builders |-> None] /\ pins = [p \in Readers |-> None]

\* A full build replaces the content, an incremental one changes it.
Overlay(base, full, delta) ==
    {e \in base : ~full /\ delta[e[1]] = Unstaged}
        \cup {<<k, delta[k]>> : k \in {i \in Keys : delta[i] \in Values}}

Begin(b, target, full) ==
    /\ drafts[b] = None /\ target > head
    /\ drafts' = [drafts EXCEPT ![b] = [base |-> head, target |-> target, full |-> full,
                                        delta |-> [k \in Keys |-> Unstaged]]]
    /\ UNCHANGED <<contents, head, pins>>

Stage(b, batch) ==
    /\ drafts[b] # None
    /\ drafts' = [drafts EXCEPT ![b] = [drafts[b] EXCEPT !.delta =
                    [k \in Keys |-> IF batch[k] = Unstaged THEN drafts[b].delta[k] ELSE batch[k]]]]
    /\ UNCHANGED <<contents, head, pins>>

Publish(b) ==
    /\ drafts[b] # None /\ drafts[b].base = head
    /\ head' = drafts[b].target
    /\ contents' = [r \in (DOMAIN contents \ {-1}) \cup {head'} |->
            IF r = head' THEN Overlay(contents[head], drafts[b].full, drafts[b].delta)
                         ELSE contents[r]]
    /\ drafts' = [drafts EXCEPT ![b] = None]
    /\ UNCHANGED pins

Erase(K) ==
    /\ contents' = [r \in DOMAIN contents |-> {e \in contents[r] : e[1] \notin K}]
    /\ drafts' = [b \in Builders |-> None]
    /\ UNCHANGED <<head, pins>>

Pin(p, r) ==
    /\ pins[p] = None /\ r \in DOMAIN contents
    /\ pins' = [pins EXCEPT ![p] = r]
    /\ UNCHANGED <<contents, head, drafts>>

\* Leases end, by their deadline or because they are given back.
Lapse(B, R) ==
    /\ drafts' = [b \in Builders |-> IF b \in B THEN None ELSE drafts[b]]
    /\ pins' = [p \in Readers |-> IF p \in R THEN None ELSE pins[p]]
    /\ UNCHANGED <<contents, head>>

\* Revisions nobody has pinned may go, except the head.
Reclaim(S) ==
    /\ \A p \in Readers : pins[p] \notin S
    /\ contents' = [r \in DOMAIN contents \ S |-> contents[r]]
    /\ UNCHANGED <<head, drafts, pins>>

Next ==
    \/ \E b \in Builders :
        \/ \E target \in Revisions, full \in BOOLEAN : Begin(b, target, full)
        \/ \E batch \in [Keys -> Values \cup {Deleted, Unstaged}] : Stage(b, batch)
        \/ Publish(b)
    \/ \E K \in SUBSET Keys : Erase(K)
    \/ \E p \in Readers, r \in DOMAIN contents : Pin(p, r)
    \/ \E B \in SUBSET Builders, R \in SUBSET Readers : Lapse(B, R)
    \/ \E S \in SUBSET (DOMAIN contents \ {head}) : Reclaim(S)

Spec == Init /\ [][Next]_vars
==============================================================================
