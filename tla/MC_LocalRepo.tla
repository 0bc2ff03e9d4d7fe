---------------------------- MODULE MC_LocalRepo ----------------------------
EXTENDS LocalRepo, TLC

Symmetry == Permutations(Snapshot)

FirstCommits(a, b) ==
    <<[from |-> Main, to |-> Main, branch |-> Main, before |-> None, after |-> a, win |-> 0],
      [from |-> Main, to |-> Main, branch |-> Main, before |-> a, after |-> b, win |-> 0]>>

\* Two commits on main, both logged, then another branch pushed on top of the first;
\* nothing packed yet.  The history counts as one command of the bound.
Forked(a, b, c, dev) ==
    /\ refs = (Main :> b @@ dev :> c) /\ head = Main
    /\ mergeHead = None /\ decided = None /\ work = b
    /\ oplog = FirstCommits(a, b)
    /\ loose = {a, b, c} /\ fresh = loose /\ packs = {}
    /\ cmd = NoCommand /\ push = [p \in Pusher |-> NoPush] /\ windows = 0
    /\ anc = [s \in Snapshot |-> IF s \in loose THEN {a, s} ELSE {}]
    /\ outside = loose
    /\ logged = oplog[2]
    /\ stop = [branch |-> Main, tip |-> None]
    /\ count = [commands |-> 1, pushes |-> 0, crashes |-> 0]

\* A repository just initialised, or one with two branches that have forked.
SeededInit ==
    \/ Init
    \/ \E a, b, c \in Snapshot, dev \in Branch \ {Main} :
          Cardinality({a, b, c}) = 3 /\ Forked(a, b, c, dev)

SeededSpec == SeededInit /\ [][Next]_vars
=============================================================================
