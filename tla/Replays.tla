------------------------------ MODULE Replays ------------------------------
(***************************************************************************)
(* `sc rebase` and `sc cherry-pick` on one branch, stopping at conflicts   *)
(* and resumed, abandoned, or cut off by a crash.                          *)
(* crates/repo/src/{replay,rebase_state,pick_state}.rs, and what gc keeps  *)
(* for a stopped one (gc.rs).                                              *)
(*                                                                         *)
(* Every command holds the repository lock, so one runs at a time and what *)
(* it will write is settled when it starts: a sequence of durable effects, *)
(* applied one by one.  A crash drops those that are left.                 *)
(*                                                                         *)
(* Content is abstracted to changes, numbered: 0 is what the target branch *)
(* has over the common base, 1..RangeLen are the commits of the rebased    *)
(* branch, then the picked commit and one a peer may push.                 *)
(***************************************************************************)
EXTENDS Integers, Sequences, SequencesExt

CONSTANTS
    RangeLen,          \* commits on the branch since the common base
    MaxReplays,        \* bound: rebases and cherry-picks begun
    MaxReplayCrashes   \* bound: commands killed

ASSUME ReplayAssumption ==
    RangeLen \in Nat \ {0} /\ MaxReplays \in Nat /\ MaxReplayCrashes \in Nat

VARIABLES
    clash,        \* changes that conflict with the line they are replayed on
    shared,       \* changes the target branch has already
    snapshots,    \* snapshots in the store
    trees,        \* decided trees in the store
    tip,          \* the branch
    side,         \* a ref still names the commit to be picked
    files,        \* the working tree
    newest,       \* the newest record of the operation log
    rebase,       \* REBASE_STATE
    rebaseRoot,   \* REBASE_DECIDED_ROOT
    pick,         \* PICK_HEAD
    pickRoot,     \* PICK_DECIDED_ROOT
    todo,         \* effects the running command still has to apply
    torn,         \* an abort has touched the files and did not end
    begun,        \* rebases and cherry-picks begun so far
    killed        \* commands killed so far

repoFiles == <<tip, files, newest, rebase, rebaseRoot, pick, pickRoot>>
replayVars == <<clash, shared, snapshots, trees, side, repoFiles, todo, torn, begun, killed>>

Target == 0
Own == 1..RangeLen
Picked == RangeLen + 1
Pushed == RangeLen + 2
Change == 0..RangeLen + 2

\* A tree holds changes, some as conflict markers.
Tree == [has : SUBSET Change, marks : SUBSET Change]

EmptyTree == [has |-> {}, marks |-> {}]

Present(t) == t.has \cup t.marks

\* A snapshot is its chain of first parents: what each added, and its tree.
Link == [change : Change, tree : Tree]

Base == <<>>

TreeOf(s) == IF s = Base THEN EmptyTree ELSE Last(s).tree

Changes(s) == [i \in DOMAIN s |-> s[i].change]

Ancestry(s) == {SubSeq(s, 1, n) : n \in 1..Len(s)}

With(t, c) == [has |-> t.has \cup {c}, marks |-> t.marks \ {c}]

Marked(t, c) == [has |-> t.has \ {c}, marks |-> t.marks \cup {c}]

Landed(s, c) == Append(s, [change |-> c, tree |-> With(TreeOf(s), c)])

\* The branch before anything here ran, its target, and the commit to pick.
Original == [i \in Own |-> [change |-> i, tree |-> [has |-> 1..i, marks |-> {}]]]
TargetTip == <<[change |-> Target, tree |-> [has |-> {Target} \cup shared, marks |-> {}]]>>
PickedTip == Landed(Base, Picked)

NoRebase ==
    [original |-> Base, acc |-> Base, conflicted |-> Base, rest |-> <<>>,
     resolved |-> FALSE, replayed |-> 0, skipped |-> 0]

NoPick == Base

ReplayTypeOK ==
    /\ clash \subseteq Change /\ shared \subseteq Own
    /\ \A s \in snapshots \cup {tip, pick} : s \in Seq(Link)
    /\ trees \subseteq Tree
    /\ {files, rebaseRoot, pickRoot} \subseteq Tree
    /\ {newest.before, newest.after} \subseteq Seq(Link)
    /\ {rebase.original, rebase.acc, rebase.conflicted} \subseteq Seq(Link)
    /\ rebase.rest \in Seq(Seq(Link)) /\ rebase.resolved \in BOOLEAN
    /\ rebase.replayed \in Nat /\ rebase.skipped \in Nat
    /\ {side, torn} \subseteq BOOLEAN
    /\ begun \in 0..MaxReplays /\ killed \in 0..MaxReplayCrashes

\* The last operation was a commit on the branch, or a switch to it, whose record
\* names no snapshot.
ReplayInit ==
    /\ clash \in SUBSET (Own \cup {Picked}) /\ shared \in SUBSET (Own \ clash)
    /\ snapshots = Ancestry(Original) \cup Ancestry(TargetTip) \cup Ancestry(PickedTip)
    /\ trees = {}
    /\ tip = Original /\ side = TRUE
    /\ files = TreeOf(Original)
    /\ \E switched \in BOOLEAN :
          newest = [before |-> Base, after |-> IF switched THEN Base ELSE Original]
    /\ rebase = NoRebase /\ rebaseRoot = EmptyTree
    /\ pick = NoPick /\ pickRoot = EmptyTree
    /\ todo = <<>> /\ torn = FALSE /\ begun = 0 /\ killed = 0

-----------------------------------------------------------------------------
(* Effects *)

Put(S) == [do |-> "put", ids |-> S]
PutTree(t) == [do |-> "putTree", tree |-> t]
Lay(new, old) == [do |-> "lay", tree |-> new, over |-> old, abort |-> FALSE]
Restore(new, old) == [do |-> "lay", tree |-> new, over |-> old, abort |-> TRUE]
MoveTip(s, why) == [do |-> "tip", id |-> s, why |-> why]
Record(why, before, after, n) ==
    [do |-> "record", why |-> why, before |-> before, after |-> after, count |-> n]
WriteRebaseRoot(t) == [do |-> "rebaseRoot", tree |-> t]
WriteRebase(st) == [do |-> "rebase", state |-> st]
WritePickRoot(t) == [do |-> "pickRoot", tree |-> t]
WritePick(s) == [do |-> "pick", id |-> s]

IdleRepo == todo = <<>>

Apply(effects) ==
    /\ IdleRepo /\ todo' = effects
    /\ UNCHANGED <<clash, shared, snapshots, trees, side, repoFiles, torn, killed>>

Run(effects) == Apply(effects) /\ UNCHANGED begun

RunNew(effects) == begun < MaxReplays /\ begun' = begun + 1 /\ Apply(effects)

\* worktree::materialize: what only the old tree has is deleted, then the new one
\* is written, here the part of it in `written`; other files stay.
LaidPart(new, old, written) ==
    LET dropped == Present(old) \ Present(new) IN
    [has |-> (files.has \ (dropped \cup written)) \cup (new.has \cap written),
     marks |-> (files.marks \ (dropped \cup written)) \cup (new.marks \cap written)]

Laid(new, old) == LaidPart(new, old, Present(new))

\* What a kill may leave: some of the deletions, or all of them and some files.
HalfLaid(new, old) ==
    {[has |-> files.has \ gone, marks |-> files.marks \ gone] : gone \in SUBSET (Present(old) \ Present(new))}
    \cup {LaidPart(new, old, written) : written \in SUBSET Present(new)}

\* refuse_untracked_overwrite: a path to be added has something on it already.
\* (A path in conflict is on both lines, so it is not added.)
Occupied(new, old) == (Present(new) \ (Present(old) \cup clash)) \cap Present(files) # {}

EffectStep ==
    /\ todo # <<>> /\ todo' = Tail(todo)
    /\ LET e == Head(todo) IN
          /\ snapshots' = IF e.do = "put" THEN snapshots \cup e.ids ELSE snapshots
          /\ trees' = IF e.do = "putTree" THEN trees \cup {e.tree} ELSE trees
          /\ files' = IF e.do = "lay" THEN Laid(e.tree, e.over) ELSE files
          /\ tip' = IF e.do = "tip" THEN e.id ELSE tip
          /\ newest' = IF e.do = "record" THEN [before |-> e.before, after |-> e.after] ELSE newest
          /\ rebase' = IF e.do = "rebase" THEN e.state ELSE rebase
          /\ rebaseRoot' = IF e.do = "rebaseRoot" THEN e.tree ELSE rebaseRoot
          /\ pick' = IF e.do = "pick" THEN e.id ELSE pick
          /\ pickRoot' = IF e.do = "pickRoot" THEN e.tree ELSE pickRoot
          /\ torn' = IF e \in {WriteRebase(NoRebase), WritePick(NoPick)} THEN FALSE
                     ELSE torn \/ (e.do = "lay" /\ e.abort)
    /\ UNCHANGED <<clash, shared, side, begun, killed>>

\* Killed, maybe while it lays a tree.
CrashCommand ==
    /\ todo # <<>> /\ killed < MaxReplayCrashes
    /\ killed' = killed + 1 /\ todo' = <<>>
    /\ LET e == Head(todo) IN
          IF e.do = "lay"
          THEN files' \in HalfLaid(e.tree, e.over) /\ torn' = (torn \/ e.abort)
          ELSE UNCHANGED <<files, torn>>
    /\ UNCHANGED <<clash, shared, snapshots, trees, side, tip, newest, rebase, rebaseRoot, pick, pickRoot, begun>>

NothingStopped == rebase = NoRebase /\ pick = NoPick

\* status: nothing modified or deleted.  (What is untracked is put away first.)
CleanFiles == files = TreeOf(tip)

-----------------------------------------------------------------------------
(* Rebase *)

CommitChange(s) == Last(s).change

\* replay_commit on the accumulator: a change it has already is skipped.
ReplayOnto(acc, s) ==
    IF CommitChange(s) \in Present(TreeOf(acc)) THEN acc ELSE Landed(acc, CommitChange(s))

\* A commit that repeats its parent's change has nothing to conflict with.
Conflicts(s) == CommitChange(s) \in clash \ Range(Changes(Front(s)))

\* The accumulator after the commits of a list.
Replayed(acc, list) ==
    LET line[n \in 0..Len(list)] == IF n = 0 THEN acc ELSE ReplayOnto(line[n - 1], list[n])
    IN  line[Len(list)]

\* How many of the commits replay before the first conflict.
CleanCount(list) ==
    LET hits == {i \in DOMAIN list : Conflicts(list[i])}
    IN  IF hits = {} THEN Len(list) ELSE Min(hits) - 1

\* rebase_fold_and_finish: replay what replays, then stop at the conflict or
\* finish.  Stopping writes REBASE_STATE last; finishing moves the branch, then
\* records it, then clears.
FoldEffects(st, disk) ==
    LET n == CleanCount(st.rest)
        acc == Replayed(st.acc, SubSeq(st.rest, 1, n))
        count == [replayed |-> st.replayed + Len(acc) - Len(st.acc),
                  skipped |-> st.skipped + n - (Len(acc) - Len(st.acc))]
        conflicted == st.rest[n + 1]
        stopTree == Marked(TreeOf(acc), CommitChange(conflicted))
        stopped == [original |-> st.original, acc |-> acc, conflicted |-> conflicted,
                    rest |-> SubSeq(st.rest, n + 2, Len(st.rest)), resolved |-> FALSE,
                    replayed |-> count.replayed, skipped |-> count.skipped]
        finish == <<Put(Ancestry(acc)), Lay(TreeOf(acc), disk), MoveTip(acc, "rebase"),
                    Record("rebase", st.original, acc, count.replayed + count.skipped), WriteRebase(NoRebase)>>
        stop == <<Put(Ancestry(acc)), PutTree(stopTree), Lay(stopTree, disk),
                  WriteRebaseRoot(stopTree), WriteRebase(stopped)>>
        refused == Occupied(IF n = Len(st.rest) THEN TreeOf(acc) ELSE stopTree, disk)
    IN  CASE refused -> <<>>
          [] n = Len(st.rest) /\ ~refused -> finish
          [] OTHER -> stop

\* A rebase whose target is not on the branch yet.  The range is the branch
\* back to the common base, oldest first.
Rebase ==
    /\ NothingStopped /\ CleanFiles
    /\ Target \notin Range(Changes(tip))
    /\ RunNew(FoldEffects([NoRebase EXCEPT !.original = tip, !.acc = TargetTip,
                                           !.rest = [i \in DOMAIN tip |-> SubSeq(tip, 1, i)]],
                          TreeOf(tip)))

\* The conflicted commit completed from the working tree.
Completed(st) ==
    [st EXCEPT !.acc = Append(@, [change |-> CommitChange(st.conflicted), tree |-> files]),
               !.resolved = TRUE,
               !.replayed = @ + 1]

\* Mutant: a --continue that failed half-way completes the commit once more.
AdvancedAgain == <<Completed(rebase), <<Put({Completed(rebase).acc}), WriteRebase(Completed(rebase))>> >>

\* The state --continue folds on from, and the effects that make it durable:
\* none if an earlier --continue has completed the commit.
Advanced ==
    IF rebase.resolved THEN <<rebase, <<>> >>
    ELSE <<Completed(rebase), <<Put({Completed(rebase).acc}), WriteRebase(Completed(rebase))>> >>

CanContinue ==
    /\ rebase # NoRebase /\ tip = rebase.original
    /\ ({rebase.acc, rebase.conflicted} \cup Range(rebase.rest)) \subseteq snapshots

RebaseContinue ==
    /\ CanContinue
    /\ Run(Advanced[2] \o FoldEffects(Advanced[1], TreeOf(Advanced[1].acc)))

\* A later commit of the range needs an identity that was not given.
RebaseContinueFails == CanContinue /\ ~rebase.resolved /\ Run(Advanced[2])

CanAbortRebase == rebase # NoRebase /\ rebase.original \in snapshots

RebaseAbort ==
    /\ CanAbortRebase
    /\ Run(<<Restore(TreeOf(rebase.original), rebaseRoot), WriteRebase(NoRebase)>>)

-----------------------------------------------------------------------------
(* Cherry-pick *)

CanPick ==
    /\ NothingStopped /\ CleanFiles /\ side
    /\ Picked \notin Present(TreeOf(tip))

PickClean ==
    /\ CanPick /\ Picked \notin clash
    /\ LET s == Landed(tip, Picked) IN
          RunNew(<<Put({s}), Lay(TreeOf(s), TreeOf(tip)), MoveTip(s, "pick"), Record("pick", tip, s, 1)>>)

\* pick_state::write: PICK_HEAD last.
PickStops ==
    /\ CanPick /\ Picked \in clash
    /\ LET t == Marked(TreeOf(tip), Picked) IN
          RunNew(<<PutTree(t), Lay(t, TreeOf(tip)), WritePickRoot(t), WritePick(PickedTip)>>)

\* commit completes a stopped pick from the working tree.
CommitPick ==
    /\ rebase = NoRebase /\ pick # NoPick /\ pick \in snapshots
    /\ LET s == Append(tip, [change |-> CommitChange(pick), tree |-> files]) IN
          Run(<<Put({s}), MoveTip(s, "pick"), WritePick(NoPick), Record("pick", tip, s, 1)>>)

PickAbort ==
    /\ pick # NoPick
    /\ Run(<<Restore(TreeOf(tip), pickRoot), WritePick(NoPick)>>)

-----------------------------------------------------------------------------
(* Others, between commands *)

\* update_ref: nothing may be stopped on the checked-out branch.
PushAllowed == IdleRepo /\ NothingStopped

\* A peer fast-forwards the branch.
PeerPush ==
    /\ PushAllowed
    /\ Pushed \notin Range(Changes(tip))
    /\ tip' = Landed(tip, Pushed)
    /\ snapshots' = snapshots \cup {tip'}
    /\ UNCHANGED <<clash, shared, trees, side, files, newest, rebase, rebaseRoot, pick, pickRoot, todo, torn, begun, killed>>

\* The ref that names the commit to pick moves on: a fetch, or a session branch
\* that is dropped.
SideMoves ==
    /\ IdleRepo /\ side /\ side' = FALSE
    /\ UNCHANGED <<clash, shared, snapshots, trees, repoFiles, todo, torn, begun, killed>>

Named == {tip, TargetTip, pick, newest.before, newest.after} \cup (IF side THEN {PickedTip} ELSE {})

\* Mutant: the accumulator of a stopped rebase is no root.
RootsWithoutAcc == Named

\* roots: branches, a stopped pick and rebase, the log.
ReplayRoots == Named \cup {rebase.acc}

\* gc with a grace window everything here is older than: only the newest record
\* is left of the log, and what no root reaches goes.  A decided tree counts
\* only while its operation is stopped.
GcRun ==
    /\ IdleRepo
    /\ snapshots' = snapshots \cap UNION {Ancestry(s) : s \in ReplayRoots}
    /\ trees' = {t \in trees : (rebase # NoRebase /\ t = rebaseRoot) \/ (pick # NoPick /\ t = pickRoot)}
    /\ UNCHANGED <<clash, shared, side, tip, files, newest, rebase, rebaseRoot, pick, pickRoot, todo, torn, begun, killed>>

\* The user edits the conflict away.
ResolveMarkers ==
    /\ IdleRepo /\ ~NothingStopped /\ files.marks # {}
    /\ files' = [has |-> Present(files), marks |-> {}]
    /\ UNCHANGED <<clash, shared, snapshots, trees, side, tip, newest, rebase, rebaseRoot, pick, pickRoot,
                   todo, torn, begun, killed>>

\* The user puts away what a killed command or a push left in the way.
TidyFiles ==
    /\ IdleRepo
    /\ \/ NothingStopped /\ files' = TreeOf(tip)
       \/ rebase.resolved /\ files' = TreeOf(rebase.acc)
    /\ UNCHANGED <<clash, shared, snapshots, trees, side, tip, newest, rebase, rebaseRoot, pick, pickRoot,
                   todo, torn, begun, killed>>

ReplayNext ==
    \/ EffectStep \/ CrashCommand
    \/ Rebase \/ RebaseContinue \/ RebaseContinueFails \/ RebaseAbort
    \/ PickClean \/ PickStops \/ CommitPick \/ PickAbort
    \/ PeerPush \/ SideMoves \/ GcRun \/ ResolveMarkers \/ TidyFiles

ReplaySpec == ReplayInit /\ [][ReplayNext]_replayVars

-----------------------------------------------------------------------------
(* Properties *)

\* A line of changes with one more, unless it or the target branch has it.
Extended(line, c, has) == IF c \in Range(line) \cup has THEN line ELSE Append(line, c)

\* The target, then what it lacks of a branch's changes, in their order.
Expected(s, has) ==
    LET line[n \in 0..Len(s)] == IF n = 0 THEN <<Target>> ELSE Extended(line[n - 1], s[n].change, has)
    IN  line[Len(s)]

\* A rebase moves the branch once, from where it was when the rebase began, to
\* every commit of the range on top of the target: each exactly once and in
\* order, whatever stops, failures, crashes and retries came between, and its
\* log record counts them all.  A pick keeps everything the branch has, also
\* when it is completed long after it stopped.  (rebase_fold_and_finish and
\* `resolved`; the guard of update_ref.)  Nothing is
\* promised to a user who continues after an abort that was killed.
ReplayLandsWhole ==
    [][todo # <<>> /\ killed' = killed /\ ~torn =>
          LET e == Head(todo)
              landed == Present(TreeOf(tip'))
          IN  /\ e.do = "tip" /\ e.why = "rebase" =>
                    /\ Changes(tip') = Expected(tip, shared)
                    /\ landed = Range(Changes(tip')) \cup shared
              /\ e.do = "record" /\ e.why = "rebase" => e.count = Len(e.before)
              /\ e.do = "tip" /\ e.why = "pick" => Present(TreeOf(tip)) \cup {Picked} \subseteq landed
      ]_replayVars

\* What --continue, --abort and the completing commit read of a stopped
\* operation outlives gc, whatever refs moved meanwhile.  (roots and run of
\* gc.rs; the order in which a stop is written.)
StopReadable ==
    IdleRepo =>
       /\ rebase # NoRebase /\ tip = rebase.original =>
             /\ ({rebase.acc, rebase.conflicted, rebase.original} \cup Range(rebase.rest)) \subseteq snapshots
             /\ rebaseRoot \in trees
       /\ pick # NoPick => pick \in snapshots /\ pickRoot \in trees

\* Wherever a command was killed, a rebase in progress can be continued or
\* abandoned.  (The comment before rebase_state::clear in
\* rebase_fold_and_finish, and the one on the moved branch in rebase_continue.)
StoppedRebaseCanEnd == IdleRepo /\ rebase # NoRebase => CanContinue \/ CanAbortRebase
=============================================================================
