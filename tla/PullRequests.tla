---------------------------- MODULE PullRequests ----------------------------
(***************************************************************************)
(* What the forge's merge endpoint promises of a pull request, without the *)
(* journal, the git children and the crashes: a merge lands once, what     *)
(* landed becomes "merged" and is neither closed nor merged again.  Only a *)
(* base branch that someone rewrote can take a landed merge back, and even *)
(* that never takes back "merged".                                         *)
(***************************************************************************)
CONSTANT Pull

VARIABLES
    status,     \* of each pull request; "landed" until the forge says "merged"
    rewritten   \* whether the base branch was ever moved off its history

pullVars == <<status, rewritten>>

PullInit ==
    /\ status \in [Pull -> {"open"}]
    /\ rewritten = FALSE

Become(p, from, to) ==
    /\ status[p] = from
    /\ status' = [status EXCEPT ![p] = to]
    /\ UNCHANGED rewritten

Land(p) == Become(p, "open", "landed")
Record(p) == Become(p, "landed", "merged")
Close(p) == Become(p, "open", "closed")
Reopen(p) == Become(p, "closed", "open")
Lose(p) == rewritten /\ Become(p, "landed", "open")

Rewrite == rewritten' = TRUE /\ UNCHANGED status

PullNext ==
    \/ \E p \in Pull : Land(p) \/ Record(p) \/ Close(p) \/ Reopen(p) \/ Lose(p)
    \/ Rewrite

PullSpec == PullInit /\ [][PullNext]_pullVars
=============================================================================
