----------------------------- MODULE MC_Shared -----------------------------
(***************************************************************************)
(* Two places that many push to, in one run: a repository of the forge     *)
(* with its pull requests and merge journal, and a bucket whose pushers    *)
(* and compactors may stall over the grace window.  They share no state:   *)
(* one is picked (focus) and it alone moves.                               *)
(***************************************************************************)
EXTENDS ForgeMerge, MC_BucketCompaction

VARIABLE focus

SharedInit ==
    /\ MergeInit /\ AnyInit
    /\ focus \in {"forge", "bucket"}
    /\ focus = "forge" => manifest.ck = 1

SharedNext ==
    /\ \/ focus = "forge" /\ MergeNext /\ UNCHANGED <<allVars, roles>>
       \/ focus = "bucket" /\ RolesNext /\ UNCHANGED mergeVars
    /\ UNCHANGED focus

SharedSpec == SharedInit /\ [][SharedNext]_<<mergeVars, allVars, roles, focus>>

=============================================================================
