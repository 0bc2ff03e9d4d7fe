----------------------------- MODULE RemoteRefs -----------------------------
(***************************************************************************)
(* What a remote promises its clients, with no log, packs or retries: each *)
(* branch is a register that one atomic step moves forward, everything a   *)
(* ref reaches can be read, nothing readable is taken away, and a push is  *)
(* acknowledged only once it is in (Transport::update_ref in               *)
(* crates/repo/src/transport.rs, push in crates/repo/src/sync.rs).         *)
(***************************************************************************)
CONSTANTS Branch, Snapshot, Ancestors, None

VARIABLES
    refs,     \* the tip of each branch, or None
    objects,  \* what a client can read
    acked     \* <<branch, tip>> of every push that was reported done

rVars == <<refs, objects, acked>>

Init ==
    /\ refs = [b \in Branch |-> None]
    /\ objects = {}
    /\ acked = {}

\* A branch moves to a descendant of its tip, with all it reaches.
Push(b, s) ==
    /\ refs[b] # None => refs[b] \in Ancestors[s]
    /\ refs' = [refs EXCEPT ![b] = s]
    /\ objects \cup Ancestors[s] \subseteq objects'
    /\ objects' \subseteq Snapshot
    /\ UNCHANGED acked

\* A client is told that s is on branch b.
Acknowledge(b, s) ==
    /\ refs[b] # None /\ s \in Ancestors[refs[b]]
    /\ acked' = acked \cup {<<b, s>>}
    /\ UNCHANGED <<refs, objects>>

Next == \E b \in Branch, s \in Snapshot : Push(b, s) \/ Acknowledge(b, s)

Spec == Init /\ [][Next]_rVars
=============================================================================
