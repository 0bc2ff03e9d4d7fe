------------------------------ MODULE MC_Live ------------------------------
(***************************************************************************)
(* What a crash leaves behind is cleared up in the end: the lock file of   *)
(* `sc`, the journaled merges of the forge, and a rebase or cherry-pick    *)
(* that stopped, in one run.  The three share no state: one is picked      *)
(* (focus), it alone moves, and fairness is asked of the first two.        *)
(***************************************************************************)
EXTENDS RepoLock, ForgeMerge, Replays, TLC

VARIABLE focus

LiveInit ==
    /\ LockInit /\ MergeInit /\ ReplayInit
    /\ focus \in {"lock", "merge", "replay"}
    /\ focus # "replay" => clash = {} /\ shared = {} /\ newest.after = Original

LiveNext ==
    /\ \/ focus = "lock" /\ LockNext /\ UNCHANGED <<mergeVars, replayVars>>
       \/ focus = "merge" /\ MergeNext /\ UNCHANGED <<lockVars, replayVars>>
       \/ focus = "replay" /\ ReplayNext /\ UNCHANGED <<lockVars, mergeVars>>
    /\ UNCHANGED focus

\* The fairness of FairLockSpec and of FairMergeSpec.
LiveFairness ==
    /\ \A p \in Process : WF_lockVars(focus = "lock" /\ Work(p))
    /\ WF_mergeVars(focus = "merge" /\ GateStep)
    /\ WF_mergeVars(focus = "merge" /\ Publish)
    /\ WF_mergeVars(focus = "merge" /\ ReceivePack)
    /\ WF_mergeVars(focus = "merge" /\ ServerStarts)
    /\ SF_mergeVars(focus = "merge" /\ TakeGate("clean", NoPull))
    /\ SF_mergeVars(focus = "merge" /\ TakeGate("maintain", NoPull))
    /\ SF_mergeVars(focus = "merge" /\ CleanRepo /\ receive = NoReceive)
    /\ SF_mergeVars(focus = "merge" /\ Look)
    /\ SF_mergeVars(focus = "merge" /\ LookAgain)
    /\ SF_mergeVars(focus = "merge" /\ Finalize)

LiveSpec == LiveInit /\ [][LiveNext]_<<lockVars, mergeVars, replayVars, focus>> /\ LiveFairness

\* The type invariants of the three.
LiveTypeOK == LockTypeOK /\ MergeTypeOK /\ ReplayTypeOK
=============================================================================
