-------------------------- MODULE ForgeMergeProofs --------------------------
(***************************************************************************)
(* Proofs about ForgeMerge, for any number of pull requests, merges,       *)
(* pushes and deaths: a pull request is merged once, no prune takes what a *)
(* merge is made of, the journaled merge implements PullRequests, and the  *)
(* compare-and-swap of a sync never puts an older head over a newer one.   *)
(***************************************************************************)
EXTENDS ForgeMerge, FiniteSetTheorems, TLAPS

IntentSet == SUBSET (1..MaxIntents)

Gate == [op : GateOp \cup {"none"}, pc : GatePc \cup {"idle"}, pass : 0..3, pull : Pull \cup {NoPull},
         todo : IntentSet \cup SUBSET Pull, round : Nat,
         kept : [Pull -> GitCommit \cup {NoCommit}], heads : [Pull -> 0..MaxHeads]]

Typed ==
    /\ base \in BaseTip
    /\ heads \in [Pull -> 0..MaxHeads] /\ lastHead \in [Pull -> 0..MaxHeads]
    /\ locked \in {"none", "publish", "push", "stale"}
    /\ objs \in SUBSET GitCommit /\ moved \in SUBSET GitCommit
    /\ rows \in [Pull -> PullRow]
    /\ \E k \in 0..MaxIntents : DOMAIN journal = 1..k
    /\ \A i \in DOMAIN journal : journal[i] \in Intent
    /\ marker \in SUBSET DOMAIN journal
    /\ kept \in [Pull -> GitCommit] /\ keptMerge \in [Pull -> GitCommit \cup {NoCommit}]
    /\ server \in {"down", "starting", "up"}
    /\ worker \in Gate
    /\ child \in [id : 0..MaxIntents, at : {"none", "run", "held", "committed", "failed"}]
    /\ receive \in [ref : Pull \cup {"base", "none"}, old : Nat, new : Nat, at : {"none", "run", "keep", "held"}]
    /\ receive.ref \in Pull => receive.new \in 0..MaxHeads
    /\ rewritten \in BOOLEAN
    /\ made \in 0..MaxMade /\ receives \in 0..MaxReceives

\* The journal, the rows and the base: at most one merge is pending, of an open
\* pull request, and what was put on the base is there, or was rewritten away.
JournalInv ==
    /\ \A i, j \in Pending : i = j
    /\ \A i \in DOMAIN journal : journal[i].merge.pull = journal[i].pull /\ journal[i].merge.n \in 1..made
    /\ \A i \in Pending : rows[journal[i].pull].state = "open"
    /\ \A i \in Pending : i \in marker => journal[i].merge \in moved
    /\ \A m \in moved : m.n \in 1..made
    /\ \A c \in base.has : c.n # 0 => c \in moved
    /\ ~rewritten => moved \subseteq base.has
    /\ ~rewritten => \A m \in moved :
          \/ rows[m.pull].state = "merged" /\ rows[m.pull].merge = m
          \/ \E i \in Pending : journal[i].merge = m

\* What the holder of the gate works on, where it is.
WorkInv ==
    LET pc == worker.pc  todo == worker.todo IN
    /\ worker.op \in {"merge", "close", "reopen", "branch"} => worker.pull \in Pull
    /\ pc = "idle" => worker = GateFree
    /\ pc # "idle" => worker.op # "none"
    /\ pc \notin {"write", "follow", "rewrite", "close"} => todo \subseteq DOMAIN journal
    /\ pc = "settle" => todo \subseteq Pending
    /\ pc \in {"lock", "look", "mark", "retain", "finalize", "publish", "judge", "retry"} =>
          todo = Pending /\ todo # {}
    /\ pc = "attempt" => todo = Pending
    /\ pc = "unmark" => Pending = {} /\ todo # {} /\ \A i, j \in todo : i = j
    /\ pc \in {"patch", "keep", "save", "kept", "heads", "write", "follow", "rewrite", "close", "prune"} => Pending = {}
    /\ pc \in {"attempt", "publish", "judge", "retry"} =>
          worker.op = "merge" /\ \A i \in todo : journal[i].pull = worker.pull
    /\ pc \in {"mark", "retain", "finalize"} => \A i \in todo : journal[i].merge \in moved
    /\ pc \in {"attempt", "retry"} =>
          \A i \in todo : i \notin marker /\ (~rewritten => journal[i].merge \notin moved)
    /\ pc \in {"patch", "keep", "save"} => worker.op \in {"close", "reopen"}
    /\ pc \in {"keep", "save"} => rows[worker.pull].state = "open"
    /\ pc \in {"branch", "hold", "delete"} => worker.op = "branch"
    /\ pc \in {"hold", "delete"} => worker.heads[worker.pull] # 0
    /\ pc \in {"write", "follow", "rewrite", "close"} => todo \subseteq {p \in Pull : rows[p].state = "open"}
    /\ pc \in {"follow", "rewrite", "close"} => worker.pull \in todo
    /\ pc = "follow" => worker.heads[worker.pull] # 0
    /\ pc \in {"rewrite", "close"} => worker.kept[worker.pull] \in GitCommit
    /\ pc \in {"journal", "prune"} => \A p \in Pull : rows[p].state = "merged" => keptMerge[p] = rows[p].merge

\* The git processes: the update-ref of a pending merge runs while its merge
\* waits for it, or outlives the server.
ChildInv ==
    /\ server = "down" => worker = GateFree
    /\ child.at = "none" => child = NoChild
    /\ child # NoChild => child.id \in Pending /\ (worker.pc = "publish" \/ server = "down")
    /\ child.at \in {"run", "held"} => journal[child.id].merge \notin moved
    /\ child.at = "committed" => journal[child.id].merge \in moved

\* What a prune must leave.
ObjectInv ==
    /\ MergesStayWhole
    /\ \A p \in Pull :
          /\ kept[p] \in objs
          /\ heads[p] # 0 => HeadCommit(p, heads[p]) \in objs
          /\ worker.heads[p] # 0 => HeadCommit(p, worker.heads[p]) \in objs
          /\ rows[p].state = "merged" => rows[p].final = HeadCommit(rows[p].merge.pull, rows[p].merge.head)

MergeInv == Typed /\ JournalInv /\ WorkInv /\ ChildInv /\ ObjectInv

\* Head branches that never return to an earlier commit: all that is kept or
\* listed is behind the last tip.
NewerInv ==
    /\ \A p \in Pull :
          /\ heads[p] \in {0, lastHead[p]}
          /\ kept[p].head <= lastHead[p] /\ rows[p].head.head <= lastHead[p] /\ rows[p].final.head <= lastHead[p]
          /\ worker.heads[p] <= lastHead[p] /\ worker.kept[p].head <= lastHead[p]
          /\ worker.pc \in {"write", "follow", "rewrite", "close"} /\ worker.heads[p] # 0 => worker.kept[p].head <= worker.heads[p]
          /\ receive.ref = p => receive.old \in {0, lastHead[p]} /\ (receive.new # 0 => receive.new > lastHead[p])
    /\ \A i \in DOMAIN journal : journal[i].merge.head <= lastHead[journal[i].pull]

-----------------------------------------------------------------------------
(* Frames: what a step that leaves the journal and the objects alone keeps   *)

\* The one intent the gate's holder works on.
LEMMA OldestIsPending ==
    ASSUME Typed, NEW S \in IntentSet, S # {}, \A i, j \in S : i = j
    PROVE  Oldest(S) \in S /\ S = {Oldest(S)}
<1>1. PICK i \in S : TRUE
  OBVIOUS
<1>2. \A j \in S : i <= j
  BY DEF IntentSet
<1>3. Oldest(S) \in S
  BY <1>1, <1>2 DEF Oldest
<1> QED BY <1>3

\* The journal's ids are ids.
LEMMA PendingTyped == ASSUME Typed PROVE Pending \in IntentSet /\ Pending \subseteq DOMAIN journal /\ DOMAIN journal \in IntentSet
BY MergeAssumption DEF Typed, Pending, IntentSet

\* The gate's holder waits for its update-ref, or there is none.
LEMMA NoChildAtWork ==
    ASSUME MergeInv, worker.pc \notin {"idle", "publish"}
    PROVE  child = NoChild /\ server # "down"
BY DEF MergeInv, ChildInv, GateFree

\* The free gate is a gate.
LEMMA FreeTyped ==
    /\ GateFree \in Gate
    /\ GateFree.op = "none" /\ GateFree.pc = "idle" /\ GateFree.todo = {}
    /\ \A p \in Pull : GateFree.heads[p] = 0 /\ GateFree.kept[p].head = 0
BY MergeAssumption DEF GateFree, Gate, IntentSet, NoCommit

Quiet == UNCHANGED <<base, heads, objs, marker, kept, keptMerge, rows, journal, receive,
                     moved, rewritten, lastHead, made, receives>>

LEMMA JournalFrame ==
    ASSUME JournalInv, UNCHANGED <<journal, rows, marker, moved, base, rewritten, made>>
    PROVE  JournalInv' /\ Pending' = Pending
BY DEF JournalInv, Pending

LEMMA ObjectFrame ==
    ASSUME ObjectInv, UNCHANGED <<journal, rows, heads, kept>>, objs \subseteq objs',
           \A p \in Pull : worker'.heads[p] \in {0, worker.heads[p], heads[p]}
    PROVE  ObjectInv'
BY DEF ObjectInv, MergesStayWhole, Pending, HeadCommit

\* A step of the gate's holder that changes neither the journal nor git's refs.
LEMMA GateMove ==
    ASSUME MergeInv, Quiet, child' = NoChild, server' \in {"starting", "up"},
           locked' \in {"none", "publish", "push", "stale"}, worker' \in Gate, WorkInv',
           \A p \in Pull : worker'.heads[p] \in {0, worker.heads[p], heads[p]}
    PROVE  MergeInv'
<1>1. JournalInv' /\ ObjectInv'
  BY JournalFrame, ObjectFrame DEF MergeInv, Quiet
<1>2. NoChild \in [id : 0..MaxIntents, at : {"none", "run", "held", "committed", "failed"}] /\ NoChild.at = "none"
  BY MergeAssumption DEF NoChild
<1>3. Typed'
  BY <1>2 DEF MergeInv, Typed, Quiet
<1>4. ChildInv'
  BY <1>2 DEF ChildInv
<1> QED BY <1>1, <1>3, <1>4 DEF MergeInv

\* The gate is released.
LEMMA ReleaseKeeps ==
    ASSUME MergeInv, Quiet, worker' = GateFree, child' = NoChild, server' \in {"starting", "up"},
           locked' \in {"none", "publish", "push", "stale"}
    PROVE  MergeInv'
<1>1. WorkInv'
  BY FreeTyped DEF WorkInv, GateFree
<1> QED BY <1>1, FreeTyped, GateMove

\* Release, as an action of an operation that holds the gate.
LEMMA Released ==
    ASSUME MergeInv, worker.pc \notin {"idle", "publish"}, Release
    PROVE  worker' = GateFree /\ server' \in {"starting", "up"} /\ child = NoChild
BY NoChildAtWork DEF MergeInv, Typed, Release

\* The handler answers: what is pending is judged first.
LEMMA Answered ==
    ASSUME MergeInv, Quiet, worker.pc \notin {"idle", "publish"}, AnswerMerge, UNCHANGED <<child, locked>>
    PROVE  MergeInv'
<1>1. CASE Release
  BY <1>1, Released, ReleaseKeeps DEF MergeInv, Typed
<1>2. CASE worker' = [worker EXCEPT !.pc = "settle", !.pass = 3, !.todo = Pending] /\ UNCHANGED server
  <2>1. /\ worker' \in Gate /\ worker'.pc = "settle" /\ worker'.todo = Pending /\ worker'.op = worker.op
        /\ worker'.pull = worker.pull /\ worker'.heads = worker.heads
    <3>1. worker \in Gate /\ Pending \in IntentSet /\ "settle" \in GatePc /\ 3 \in 0..3
      BY PendingTyped DEF MergeInv, Typed, GatePc
    <3> QED BY <1>2, <3>1 DEF Gate
  <2>2. WorkInv'
    BY <2>1, PendingTyped DEF MergeInv, WorkInv, Quiet, Pending
  <2> QED BY <1>2, <2>1, <2>2, GateMove, NoChildAtWork DEF MergeInv, Typed
<1> QED BY <1>1, <1>2 DEF AnswerMerge

\* What IsLanded says of a pending intent, whoever asks.
LEMMA Landed ==
    ASSUME MergeInv, NEW i \in Pending
    PROVE  /\ IsLanded(i) => journal[i].merge \in moved
           /\ ~IsLanded(i) => i \notin marker /\ (~rewritten => journal[i].merge \notin moved)
<1>1. i \in DOMAIN journal /\ journal[i].merge \in objs /\ journal[i].merge.n # 0
  BY DEF MergeInv, Typed, JournalInv, ObjectInv, MergesStayWhole, Pending
<1> QED BY <1>1 DEF MergeInv, JournalInv, IsLanded

\* Where there is work there is one intent, pending.
LEMMA TheIntent ==
    ASSUME MergeInv, worker.todo # {}, worker.pc = "settle" \/ worker.todo = Pending
    PROVE  /\ Oldest(worker.todo) \in Pending /\ worker.todo = {Oldest(worker.todo)} /\ worker.todo = Pending
           /\ Oldest(worker.todo) \in DOMAIN journal
<1>1. worker.todo = Pending /\ \A i, j \in Pending : i = j
  <2>1. \A i, j \in Pending : i = j
    BY DEF MergeInv, JournalInv
  <2>2. worker.todo \subseteq Pending
    BY DEF MergeInv, WorkInv
  <2> QED BY <2>1, <2>2
<1>2. Pending \in IntentSet /\ Pending \subseteq DOMAIN journal
  BY PendingTyped DEF MergeInv
<1> QED BY <1>1, <1>2, OldestIsPending DEF MergeInv

\* A step of the gate's holder that only changes its label.
LEMMA Goto ==
    ASSUME MergeInv, NEW pc \in GatePc, GateTo(pc)
    PROVE  /\ worker' \in Gate /\ worker'.pc = pc /\ worker'.op = worker.op /\ worker'.pull = worker.pull
           /\ worker'.todo = worker.todo /\ worker'.heads = worker.heads /\ worker'.kept = worker.kept
           /\ worker'.pass = worker.pass
BY DEF MergeInv, Typed, Gate, GateTo

LEMMA QuietGoto ==
    ASSUME MergeInv, Quiet, worker.pc \notin {"idle", "publish"}, NEW pc \in GatePc, GateTo(pc), WorkInv',
           UNCHANGED <<server, child, locked>>
    PROVE  MergeInv'
<1>1. worker' \in Gate /\ worker'.heads = worker.heads
  BY Goto
<1> QED BY <1>1, GateMove, NoChildAtWork DEF MergeInv, Typed

\* recover_locked: the verdicts of git, and where they lead.
LEMMA SettleKeeps ==
    ASSUME MergeInv, Settle
    PROVE  MergeInv'
<1> DEFINE next == AfterSettle(Pending # {})
<1>0. /\ worker.pc = "settle" /\ worker.todo = {} /\ Quiet /\ UNCHANGED <<child, locked>>
      /\ child = NoChild /\ server # "down"
  BY NoChildAtWork DEF Settle, Quiet, git, db, mergeHist, mergeBounds
<1>1. CASE next = "idle"
  BY <1>0, <1>1, Released, ReleaseKeeps DEF Settle, MergeInv, Typed
<1>2. CASE next # "idle"
  <2>1. /\ next \in {"drop", "attempt", "patch", "kept", "repair"}
        /\ next = "attempt" => worker.op = "merge" /\ Pending = {}
        /\ next = "patch" => worker.op \in {"close", "reopen"} /\ Pending = {}
        /\ next = "kept" => Pending = {}
    BY <1>2 DEF AfterSettle
  <2>2. worker' = [worker EXCEPT !.pc = next, !.pass = IF next = "attempt" THEN 2 ELSE worker.pass] /\ UNCHANGED server
    BY <1>2 DEF Settle
  <2> HIDE DEF next
  <2>3. /\ worker' \in Gate /\ worker'.pc = next /\ worker'.op = worker.op /\ worker'.pull = worker.pull
        /\ worker'.todo = {} /\ worker'.heads = worker.heads
    <3>1. worker \in Gate /\ next \in GatePc /\ 2 \in 0..3
      BY <2>1 DEF MergeInv, Typed, GatePc
    <3> QED BY <1>0, <2>2, <3>1 DEF Gate
  <2>4. WorkInv'
    BY <1>0, <2>1, <2>3 DEF MergeInv, WorkInv, Quiet, Pending
  <2> QED BY <1>0, <2>2, <2>3, <2>4, GateMove DEF MergeInv, Typed
<1> QED BY <1>1, <1>2

LEMMA LookKeeps ==
    ASSUME MergeInv, Look \/ CannotTell \/ CheckLock \/ FinalizeFails
    PROVE  MergeInv'
<1>0. Quiet /\ UNCHANGED <<child, locked>> /\ child = NoChild /\ server # "down" /\ worker.pc \notin {"idle", "publish"}
  <2>1. worker.pc \notin {"idle", "publish"}
    BY DEF Look, CannotTell, CheckLock, FinalizeFails
  <2> QED BY <2>1, NoChildAtWork DEF Look, CannotTell, CheckLock, FinalizeFails, Quiet, git, db, mergeHist, mergeBounds
<1>1. CASE Release
  BY <1>0, <1>1, Released, ReleaseKeeps DEF MergeInv, Typed
<1>2. CASE Look
  <2> DEFINE pc == IF IsLanded(Oldest(worker.todo)) THEN "mark" ELSE "lock"
  <2>1. GateTo(pc) /\ pc \in GatePc /\ worker.pc = "settle" /\ worker.todo # {} /\ UNCHANGED server
    BY <1>2 DEF Look, GatePc
  <2>2. worker'.pc = pc /\ worker'.op = worker.op /\ worker'.pull = worker.pull /\ worker'.todo = worker.todo
    BY <2>1, Goto
  <2>3. /\ Oldest(worker.todo) \in Pending /\ worker.todo = {Oldest(worker.todo)} /\ worker.todo = Pending
        /\ worker.todo \subseteq DOMAIN journal
    BY <2>1, TheIntent DEF MergeInv, WorkInv
  <2>4. pc = "mark" => \A i \in worker.todo : journal[i].merge \in moved
    BY <2>3, Landed
  <2>5. pc \in {"mark", "lock"}
    OBVIOUS
  <2> HIDE DEF pc
  <2>6. WorkInv'
    BY <1>0, <2>1, <2>2, <2>3, <2>4, <2>5 DEF MergeInv, WorkInv, Quiet, Pending
  <2> QED BY <1>0, <2>1, <2>6, QuietGoto
<1>3. CASE CheckLock
  <2>1. worker.pc = "lock" /\ worker.todo # {} /\ worker.todo = Pending /\ worker \in Gate /\ UNCHANGED server
    BY <1>3 DEF CheckLock, MergeInv, WorkInv, Typed
  <2>2. worker.todo \in IntentSet /\ worker.todo = {Oldest(worker.todo)} /\ worker.todo \subseteq DOMAIN journal
    BY <2>1, TheIntent, PendingTyped DEF MergeInv
  <2>3. CASE locked # "none"
    <3>1. worker' = [worker EXCEPT !.pc = "settle", !.todo = {}]
      BY <1>3, <2>2, <2>3 DEF CheckLock
    <3>2. /\ worker' \in Gate /\ worker'.pc = "settle" /\ worker'.op = worker.op /\ worker'.pull = worker.pull
          /\ worker'.todo = {} /\ worker'.heads = worker.heads
      BY <2>1, <3>1 DEF Gate, GatePc, IntentSet
    <3>3. WorkInv'
      BY <1>0, <3>2 DEF MergeInv, WorkInv, Quiet, Pending
    <3> QED BY <1>0, <2>1, <3>2, <3>3, GateMove DEF MergeInv, Typed
  <2>4. CASE locked = "none"
    <3>1. GateTo("look") /\ "look" \in GatePc
      BY <1>3, <2>4 DEF CheckLock, GateTo, GatePc
    <3>2. worker'.pc = "look" /\ worker'.op = worker.op /\ worker'.pull = worker.pull /\ worker'.todo = worker.todo
      BY <3>1, Goto
    <3>3. WorkInv'
      BY <1>0, <2>1, <2>2, <3>2 DEF MergeInv, WorkInv, Quiet, Pending
    <3> QED BY <1>0, <2>1, <3>1, <3>3, QuietGoto
  <2> QED BY <2>3, <2>4
<1>4. CASE FinalizeFails /\ AnswerMerge
  BY <1>0, <1>4, Answered
<1> QED BY <1>1, <1>2, <1>3, <1>4 DEF CannotTell, FinalizeFails, RecoverFails

\* The verdict on a publish that failed or was killed, and the next round.
LEMMA JudgeKeeps ==
    ASSUME MergeInv, MergeRefuses \/ Judge \/ MergeRetries
    PROVE  MergeInv'
<1>0. /\ Quiet /\ UNCHANGED <<child, locked>> /\ worker.pc \in {"attempt", "judge", "retry"}
      /\ worker.pc \notin {"idle", "publish"}
  BY DEF MergeRefuses, Judge, MergeRetries, Quiet, git, db, mergeHist, mergeBounds
<1>1. CASE AnswerMerge
  BY <1>0, <1>1, Answered
<1>2. CASE Judge /\ ~AnswerMerge
  <2> DEFINE pc == IF IsLanded(Oldest(worker.todo)) THEN "mark" ELSE "retry"
  <2>1. GateTo(pc) /\ pc \in GatePc /\ worker.pc = "judge" /\ UNCHANGED server
    BY <1>2 DEF Judge, GatePc
  <2>2. worker'.pc = pc /\ worker'.op = worker.op /\ worker'.pull = worker.pull /\ worker'.todo = worker.todo
    BY <2>1, Goto
  <2>3. /\ worker.todo # {} /\ worker.todo = Pending /\ worker.todo \subseteq DOMAIN journal
        /\ worker.op = "merge" /\ \A i \in worker.todo : journal[i].pull = worker.pull
    BY <2>1 DEF MergeInv, WorkInv
  <2>4. Oldest(worker.todo) \in Pending /\ worker.todo = {Oldest(worker.todo)}
    BY <2>3, TheIntent
  <2>5. /\ pc = "mark" => \A i \in worker.todo : journal[i].merge \in moved
        /\ pc = "retry" => \A i \in worker.todo : i \notin marker /\ (~rewritten => journal[i].merge \notin moved)
        /\ pc \in {"mark", "retry"}
    BY <2>4, Landed
  <2> HIDE DEF pc
  <2>6. WorkInv'
    BY <1>0, <2>1, <2>2, <2>3, <2>5 DEF MergeInv, WorkInv, Quiet, Pending
  <2> QED BY <1>0, <2>1, <2>6, QuietGoto
<1>3. CASE MergeRetries /\ ~AnswerMerge
  <2>1. GateTo("attempt") /\ "attempt" \in GatePc /\ worker.pc = "retry" /\ UNCHANGED server
    BY <1>3 DEF MergeRetries, GatePc
  <2>2. worker'.pc = "attempt" /\ worker'.op = worker.op /\ worker'.pull = worker.pull /\ worker'.todo = worker.todo
    BY <2>1, Goto
  <2>3. WorkInv'
    BY <1>0, <2>1, <2>2 DEF MergeInv, WorkInv, Quiet, Pending
  <2> QED BY <1>0, <2>1, <2>3, QuietGoto
<1> QED BY <1>1, <1>2, <1>3 DEF MergeRefuses

\* Refusals, the listing of a sync, and the cleaning of locks.
LEMMA SyncListKeeps ==
    ASSUME MergeInv, PatchRefuses \/ SyncLists \/ SyncEnds \/ (\E p \in Pull : SyncSkips(p)) \/ DeleteRefused \/ CleanRepo
    PROVE  MergeInv'
<1>0. /\ Quiet /\ UNCHANGED child /\ worker.pc \notin {"idle", "publish"} /\ worker \in Gate
      /\ child = NoChild /\ server \in {"starting", "up"} /\ locked' \in {"none", "publish", "push", "stale"}
  <2>1. worker.pc \notin {"idle", "publish"}
    BY DEF PatchRefuses, SyncLists, SyncEnds, SyncSkips, DeleteRefused, CleanRepo
  <2>2. Quiet /\ UNCHANGED child /\ (UNCHANGED locked \/ locked' = "none")
    BY DEF PatchRefuses, SyncLists, SyncEnds, SyncSkips, DeleteRefused, CleanRepo, Quiet, git, db, mergeHist, mergeBounds
  <2> QED BY <2>1, <2>2, NoChildAtWork DEF MergeInv, Typed
<1>1. CASE Release
  BY <1>0, <1>1, Released, ReleaseKeeps
<1>2. CASE SyncLists
  <2>1. UNCHANGED server
    BY <1>2 DEF SyncLists
  <2>2. CASE worker.pc = "kept"
    <3>1. worker' = [worker EXCEPT !.pc = "heads", !.kept = kept]
      BY <1>2, <2>2 DEF SyncLists
    <3>2. /\ worker' \in Gate /\ worker'.pc = "heads" /\ worker'.op = worker.op /\ worker'.pull = worker.pull
          /\ worker'.todo = worker.todo /\ worker'.heads = worker.heads
      <4>1. kept \in [Pull -> GitCommit \cup {NoCommit}] /\ "heads" \in GatePc
        BY DEF MergeInv, Typed, GatePc
      <4> QED BY <1>0, <3>1, <4>1 DEF Gate
    <3>3. WorkInv'
      BY <1>0, <2>2, <3>2 DEF MergeInv, WorkInv, Quiet, Pending
    <3> QED BY <1>0, <2>1, <3>2, <3>3, GateMove
  <2>3. CASE worker.pc = "heads"
    <3>1. worker' = [worker EXCEPT !.pc = "write", !.heads = heads, !.todo = {p \in Pull : rows[p].state = "open"}]
      BY <1>2, <2>3 DEF SyncLists
    <3>2. /\ worker' \in Gate /\ worker'.pc = "write" /\ worker'.op = worker.op /\ worker'.pull = worker.pull
          /\ worker'.todo = {p \in Pull : rows[p].state = "open"} /\ worker'.heads = heads
      <4>1. heads \in [Pull -> 0..MaxHeads] /\ "write" \in GatePc /\ {p \in Pull : rows[p].state = "open"} \in SUBSET Pull
        BY DEF MergeInv, Typed, GatePc
      <4> QED BY <1>0, <3>1, <4>1 DEF Gate
    <3>3. WorkInv'
      BY <1>0, <2>3, <3>2 DEF MergeInv, WorkInv, Quiet, Pending
    <3> QED BY <1>0, <2>1, <3>2, <3>3, GateMove
  <2> QED BY <1>2, <2>2, <2>3 DEF SyncLists
<1>3. CASE SyncEnds /\ ~Release
  <2>1. /\ GateTo("repair") /\ "repair" \in GatePc /\ worker.todo = {} /\ UNCHANGED <<server, child, locked>>
        /\ worker.pc = "write"
    BY <1>3 DEF SyncEnds, GatePc, git
  <2>2. worker'.pc = "repair" /\ worker'.op = worker.op /\ worker'.pull = worker.pull /\ worker'.todo = worker.todo
    BY <2>1, Goto
  <2>3. WorkInv'
    BY <1>0, <2>1, <2>2 DEF MergeInv, WorkInv, Quiet
  <2> QED BY <1>0, <2>1, <2>3, QuietGoto
<1>4. ASSUME NEW p \in Pull, SyncSkips(p) PROVE MergeInv'
  <2>1. /\ worker' = [worker EXCEPT !.pc = "write", !.todo = worker.todo \ {p}] /\ UNCHANGED server
        /\ worker.pc \in {"write", "follow", "rewrite", "close"}
    BY <1>4 DEF SyncSkips, SyncedOne
  <2>2. /\ worker' \in Gate /\ worker'.pc = "write" /\ worker'.op = worker.op /\ worker'.pull = worker.pull
        /\ worker'.todo = worker.todo \ {p} /\ worker'.heads = worker.heads
    <3>1. worker.todo \ {p} \in SUBSET Pull /\ "write" \in GatePc
      BY <2>1 DEF MergeInv, WorkInv, GatePc
    <3> QED BY <1>0, <2>1, <3>1 DEF Gate
  <2>3. WorkInv'
    BY <1>0, <2>1, <2>2 DEF MergeInv, WorkInv, Quiet, Pending
  <2> QED BY <1>0, <2>1, <2>2, <2>3, GateMove
<1> QED BY <1>1, <1>2, <1>3, <1>4 DEF PatchRefuses, DeleteRefused, CleanRepo

\* The gate is taken, or the server dies with it.
LEMMA TakeGateKeeps ==
    ASSUME MergeInv, NEW op \in GateOp, NEW p \in Pull \cup {NoPull}, TakeGate(op, p)
    PROVE  MergeInv'
<1>0. /\ Quiet /\ UNCHANGED <<child, locked, server>> /\ child = NoChild /\ server = "up" /\ Pending \in IntentSet
      /\ Pending \subseteq DOMAIN journal
  BY PendingTyped, FreeTyped DEF TakeGate, Quiet, git, db, mergeHist, mergeBounds, MergeInv, ChildInv
<1>1. PICK pc \in {"settle", "clean", "branch"}, pass \in {1, 3} :
         /\ worker' = [GateFree EXCEPT !.op = op, !.pc = pc, !.pass = pass, !.pull = p, !.todo = Pending]
         /\ pc = "branch" => op = "branch"
         /\ op \in {"merge", "close", "reopen", "branch"} => p \in Pull
  BY DEF TakeGate
<1>2. /\ worker' \in Gate /\ worker'.pc = pc /\ worker'.op = op /\ worker'.pull = p
      /\ worker'.todo = Pending /\ worker'.heads = GateFree.heads
  <2>1. pc \in GatePc /\ pass \in 0..3
    BY DEF GatePc
  <2> QED BY <1>0, <1>1, <2>1, FreeTyped DEF Gate
<1>3. WorkInv'
  BY <1>0, <1>1, <1>2 DEF WorkInv, Quiet, Pending, GateOp
<1> QED BY <1>0, <1>2, <1>3, GateMove, FreeTyped DEF MergeInv, Typed

LEMMA ServerDiesKeeps ==
    ASSUME MergeInv, ServerDies
    PROVE  MergeInv'
<1>1. /\ Quiet /\ UNCHANGED <<child, locked>> /\ worker' = GateFree /\ server' = "down"
  BY DEF ServerDies, Quiet, git, db, mergeHist
<1>2. JournalInv' /\ ObjectInv' /\ Pending' = Pending
  BY <1>1, JournalFrame, ObjectFrame, FreeTyped DEF MergeInv, Quiet
<1>3. Typed'
  BY <1>1, FreeTyped DEF MergeInv, Typed, Quiet
<1>4. WorkInv' /\ ChildInv'
  BY <1>1, <1>2, FreeTyped DEF MergeInv, WorkInv, ChildInv, Quiet
<1> QED BY <1>2, <1>3, <1>4 DEF MergeInv

\* orphans::sweep, and the gate of reconcile_all.
LEMMA ServerStartsKeeps ==
    ASSUME MergeInv, ServerStarts
    PROVE  MergeInv'
<1>1. /\ UNCHANGED <<base, heads, objs, marker, kept, keptMerge, rows, journal, moved, rewritten, lastHead, made, receives>>
      /\ locked' = "none" /\ child' = NoChild /\ receive' = NoReceive /\ server' = "starting"
      /\ worker' = [GateFree EXCEPT !.op = "boot", !.pc = "settle", !.pass = 1, !.todo = Pending]
  BY DEF ServerStarts, db, mergeHist, mergeBounds
<1>2. Pending \in IntentSet /\ Pending \subseteq DOMAIN journal
  BY PendingTyped DEF MergeInv
<1>3. /\ worker' \in Gate /\ worker'.pc = "settle" /\ worker'.op = "boot" /\ worker'.todo = Pending
      /\ worker'.heads = GateFree.heads
  <2>1. "settle" \in GatePc /\ "boot" \in GateOp /\ 1 \in 0..3
    BY DEF GatePc, GateOp
  <2> QED BY <1>1, <1>2, <2>1, FreeTyped DEF Gate
<1>4. JournalInv' /\ ObjectInv' /\ Pending' = Pending
  BY <1>1, <1>3, JournalFrame, ObjectFrame, FreeTyped DEF MergeInv
<1>5. /\ NoChild \in [id : 0..MaxIntents, at : {"none", "run", "held", "committed", "failed"}]
      /\ NoReceive \in [ref : Pull \cup {"base", "none"}, old : Nat, new : Nat, at : {"none", "run", "keep", "held"}]
      /\ NoReceive.ref \notin Pull /\ NoChild.at = "none"
  BY MergeAssumption DEF NoChild, NoReceive
<1>6. Typed'
  BY <1>1, <1>3, <1>5 DEF MergeInv, Typed
<1>7. WorkInv' /\ ChildInv'
  BY <1>1, <1>2, <1>3, <1>4, <1>5 DEF WorkInv, ChildInv
<1> QED BY <1>4, <1>6, <1>7 DEF MergeInv

\* A step that leaves the child as it is, or ends it, and the server up.
LEMMA NoChildNow ==
    ASSUME MergeInv, worker.pc \notin {"idle", "publish"}, UNCHANGED <<child, server>>
    PROVE  ChildInv' /\ child' = NoChild /\ server' # "down"
<1>1. child = NoChild /\ server # "down" /\ NoChild.at = "none"
  BY NoChildAtWork DEF NoChild
<1> QED BY <1>1 DEF ChildInv

\* An abort: git was asked again, and the merge is not on the base.
LEMMA LookAgainKeeps ==
    ASSUME MergeInv, LookAgain
    PROVE  MergeInv'
<1> DEFINE i == Oldest(worker.todo)
<1>0. /\ worker.pc = "look" /\ worker.todo # {} /\ worker.todo = Pending /\ worker \in Gate
      /\ UNCHANGED <<base, heads, locked, objs, marker, kept, keptMerge, rows, server, child, receive,
                     moved, rewritten, lastHead, made, receives>>
  BY DEF LookAgain, git, mergeHist, mergeBounds, MergeInv, WorkInv, Typed
<1>1. i \in Pending /\ Pending = {i} /\ i \in DOMAIN journal /\ worker.todo \subseteq DOMAIN journal
  BY <1>0, TheIntent DEF MergeInv, WorkInv
<1>2. CASE IsLanded(i)
  <2>1. GateTo("mark") /\ "mark" \in GatePc /\ Quiet
    BY <1>0, <1>2 DEF LookAgain, GatePc, Quiet
  <2>2. worker'.pc = "mark" /\ worker'.op = worker.op /\ worker'.pull = worker.pull /\ worker'.todo = worker.todo
    BY <2>1, Goto
  <2>3. \A j \in worker.todo : journal[j].merge \in moved
    BY <1>0, <1>1, <1>2, Landed
  <2>4. WorkInv'
    BY <1>0, <1>1, <2>1, <2>2, <2>3 DEF MergeInv, WorkInv, Quiet, Pending
  <2> QED BY <1>0, <2>1, <2>4, QuietGoto
<1>3. CASE ~IsLanded(i)
  <2>1. /\ journal' = [journal EXCEPT ![i].state = "aborted"]
        /\ worker' = [worker EXCEPT !.pc = "settle", !.todo = {}]
    BY <1>0, <1>1, <1>3 DEF LookAgain
  <2>2. journal[i].merge \notin moved \/ rewritten
    BY <1>1, <1>3, Landed
  <2> HIDE DEF i
  <2>3. /\ DOMAIN journal' = DOMAIN journal /\ Pending' = {}
        /\ \A j \in DOMAIN journal : journal'[j] \in Intent /\ journal'[j].merge = journal[j].merge
                                     /\ journal'[j].pull = journal[j].pull
    BY <1>1, <2>1 DEF MergeInv, Typed, Pending, Intent
  <2>4. /\ worker' \in Gate /\ worker'.pc = "settle" /\ worker'.op = worker.op /\ worker'.pull = worker.pull
        /\ worker'.todo = {} /\ worker'.heads = worker.heads
    BY <1>0, <2>1 DEF Gate, GatePc, IntentSet
  <2>5. JournalInv'
    BY <1>0, <1>1, <2>2, <2>3 DEF MergeInv, JournalInv
  <2>6. WorkInv'
    BY <1>0, <2>3, <2>4 DEF MergeInv, WorkInv
  <2>7. ObjectInv'
    BY <1>0, <2>3, <2>4 DEF MergeInv, ObjectInv, MergesStayWhole
  <2>8. Typed'
    BY <1>0, <2>3, <2>4 DEF MergeInv, Typed
  <2> QED BY <1>0, <2>5, <2>6, <2>7, <2>8, NoChildNow DEF MergeInv
<1> QED BY <1>2, <1>3

\* mark_landed.
LEMMA MarkKeeps ==
    ASSUME MergeInv, Mark
    PROVE  MergeInv'
<1> DEFINE i == Oldest(worker.todo)
<1>0. /\ worker.pc = "mark" /\ worker.todo # {} /\ worker.todo = Pending /\ worker.todo \subseteq DOMAIN journal
      /\ UNCHANGED <<base, heads, locked, objs, rows, journal, kept, keptMerge, server, child, receive,
                     moved, rewritten, lastHead, made, receives>>
      /\ GateTo("retain") /\ "retain" \in GatePc /\ marker' \in {marker, marker \cup {i}}
      /\ \A j \in worker.todo : journal[j].merge \in moved
  BY DEF Mark, GatePc, db, mergeHist, mergeBounds, MergeInv, WorkInv
<1>1. i \in Pending /\ Pending = {i} /\ i \in DOMAIN journal /\ Pending' = Pending
  BY <1>0, TheIntent DEF Pending
<1>2. /\ worker' \in Gate /\ worker'.pc = "retain" /\ worker'.op = worker.op /\ worker'.pull = worker.pull
      /\ worker'.todo = worker.todo /\ worker'.heads = worker.heads
  BY <1>0, Goto
<1> HIDE DEF i
<1>3. JournalInv'
  BY <1>0, <1>1 DEF MergeInv, JournalInv
<1>4. WorkInv'
  BY <1>0, <1>1, <1>2 DEF MergeInv, WorkInv
<1>5. ObjectInv'
  BY <1>0, <1>2, ObjectFrame DEF MergeInv
<1>6. Typed'
  BY <1>0, <1>1, <1>2 DEF MergeInv, Typed
<1> QED BY <1>0, <1>3, <1>4, <1>5, <1>6, NoChildNow DEF MergeInv

\* The retention refs of finish.
LEMMA RetainKeeps ==
    ASSUME MergeInv, Retain
    PROVE  MergeInv'
<1> DEFINE i == Oldest(worker.todo)
<1>0. /\ worker.pc = "retain" /\ worker.todo # {} /\ worker.todo = Pending /\ worker.todo \subseteq DOMAIN journal
      /\ UNCHANGED <<base, heads, locked, objs, rows, journal, marker, server, child, receive,
                     moved, rewritten, lastHead, made, receives>>
      /\ GateTo("finalize") /\ "finalize" \in GatePc
      /\ \A j \in worker.todo : journal[j].merge \in moved
  BY DEF Retain, GatePc, db, mergeHist, mergeBounds, MergeInv, WorkInv
<1>1. i \in Pending /\ Pending = {i} /\ i \in DOMAIN journal /\ Pending' = Pending
  BY <1>0, TheIntent DEF Pending
<1>2. /\ worker' \in Gate /\ worker'.pc = "finalize" /\ worker'.op = worker.op /\ worker'.pull = worker.pull
      /\ worker'.todo = worker.todo /\ worker'.heads = worker.heads
  BY <1>0, Goto
<1>3. /\ journal[i] \in Intent /\ journal[i].pull \in Pull
      /\ HeadCommit(journal[i].pull, journal[i].merge.head) \in objs /\ objs \subseteq GitCommit
  BY <1>1 DEF MergeInv, Typed, ObjectInv, MergesStayWhole, Intent
<1>4. /\ kept' = kept \/ kept' = [kept EXCEPT ![journal[i].pull] = HeadCommit(journal[i].pull, journal[i].merge.head)]
      /\ keptMerge' = keptMerge \/ keptMerge' = [keptMerge EXCEPT ![journal[i].pull] = journal[i].merge]
  BY DEF Retain
<1> HIDE DEF i
<1>5. kept' \in [Pull -> GitCommit] /\ \A p \in Pull : kept'[p] \in objs
  BY <1>3, <1>4 DEF MergeInv, Typed, ObjectInv
<1>6. keptMerge' \in [Pull -> GitCommit \cup {NoCommit}]
  BY <1>3, <1>4 DEF MergeInv, Typed, Intent
<1>7. JournalInv'
  BY <1>0, JournalFrame DEF MergeInv
<1>8. WorkInv'
  BY <1>0, <1>1, <1>2 DEF MergeInv, WorkInv
<1>9. ObjectInv'
  BY <1>0, <1>1, <1>2, <1>5 DEF MergeInv, ObjectInv, MergesStayWhole
<1>10. Typed'
  BY <1>0, <1>2, <1>5, <1>6 DEF MergeInv, Typed
<1> QED BY <1>0, <1>7, <1>8, <1>9, <1>10, NoChildNow DEF MergeInv

\* finalize_rows.
LEMMA FinalizeKeeps ==
    ASSUME MergeInv, Finalize
    PROVE  MergeInv'
<1>0. /\ worker.pc = "finalize" /\ worker.todo # {} /\ worker.todo = Pending /\ worker.todo \subseteq DOMAIN journal
      /\ UNCHANGED <<base, heads, locked, objs, kept, keptMerge, marker, server, child, receive,
                     moved, rewritten, lastHead, made, receives>>
      /\ GateTo("unmark") /\ "unmark" \in GatePc
      /\ \A j \in worker.todo : journal[j].merge \in moved
  BY DEF Finalize, GatePc, git, mergeHist, mergeBounds, MergeInv, WorkInv
<1> PICK i \in DOMAIN journal : i = Oldest(worker.todo)
  BY <1>0, TheIntent
<1>1. i \in Pending /\ Pending = {i}
  BY <1>0, TheIntent
<1> PICK p \in Pull : p = journal[i].pull
  BY DEF MergeInv, Typed, Intent
<1> PICK m \in GitCommit : m = journal[i].merge
  BY DEF MergeInv, Typed, Intent
<1>2. /\ m.pull = p /\ m \in objs /\ HeadCommit(p, m.head) \in objs /\ rows[p].state = "open"
      /\ objs \subseteq GitCommit
  BY <1>1 DEF MergeInv, JournalInv, ObjectInv, MergesStayWhole, Typed
<1> DEFINE r == [state |-> "merged", head |-> HeadCommit(p, m.head), final |-> HeadCommit(p, m.head), merge |-> m,
                 gone |-> FALSE]
<1>3. rows' = [rows EXCEPT ![p] = r] /\ journal' = [journal EXCEPT ![i].state = "done"]
  BY <1>2 DEF Finalize
<1>4. /\ r \in PullRow /\ r.state = "merged" /\ r.final \in objs /\ r.merge = m /\ r.merge \in objs
      /\ r.final = HeadCommit(r.merge.pull, r.merge.head)
  BY <1>2 DEF PullRow
<1> HIDE DEF r
<1>5. /\ DOMAIN journal' = DOMAIN journal /\ Pending' = {}
      /\ \A j \in DOMAIN journal : journal'[j] \in Intent /\ journal'[j].merge = journal[j].merge
                                   /\ journal'[j].pull = journal[j].pull
  BY <1>1, <1>3 DEF MergeInv, Typed, Pending, Intent
<1>6. rows' \in [Pull -> PullRow] /\ rows'[p] = r /\ \A q \in Pull : q # p => rows'[q] = rows[q]
  BY <1>3, <1>4 DEF MergeInv, Typed
<1>7. /\ worker' \in Gate /\ worker'.pc = "unmark" /\ worker'.op = worker.op /\ worker'.pull = worker.pull
      /\ worker'.todo = worker.todo /\ worker'.heads = worker.heads
  BY <1>0, Goto
<1>8. JournalInv'
  <2>1. ASSUME ~rewritten, NEW n \in moved PROVE rows'[n.pull].state = "merged" /\ rows'[n.pull].merge = n
    <3>1. n.pull \in Pull
      BY DEF MergeInv, Typed, GitCommit
    <3>2. CASE n.pull = p
      <4>1. \E j \in Pending : journal[j].merge = n
        BY <1>2, <2>1, <3>2 DEF MergeInv, JournalInv
      <4> QED BY <1>1, <1>4, <1>6, <3>2, <4>1
    <3>3. CASE n.pull # p
      <4>1. ~\E j \in Pending : journal[j].merge = n
        BY <1>1, <1>2, <3>3
      <4> QED BY <1>6, <2>1, <3>1, <3>3, <4>1 DEF MergeInv, JournalInv
    <3> QED BY <3>2, <3>3
  <2> QED BY <1>0, <1>5, <2>1 DEF MergeInv, JournalInv
<1>9. WorkInv'
  <2>1. worker.todo # {} /\ (\A j, k \in worker.todo : j = k) /\ worker.todo \subseteq DOMAIN journal
    BY <1>0, <1>1
  <2>2. worker.op # "none" /\ (worker.op \in {"merge", "close", "reopen", "branch"} => worker.pull \in Pull)
    BY <1>0 DEF MergeInv, WorkInv
  <2> QED BY <1>5, <1>7, <2>1, <2>2 DEF WorkInv
<1>10. ObjectInv'
  BY <1>0, <1>4, <1>5, <1>6, <1>7 DEF MergeInv, ObjectInv, MergesStayWhole
<1>11. Typed'
  BY <1>0, <1>5, <1>6, <1>7 DEF MergeInv, Typed
<1> QED BY <1>0, <1>8, <1>9, <1>10, <1>11, NoChildNow DEF MergeInv

\* The marker goes, and the answer follows.
LEMMA UnmarkKeeps ==
    ASSUME MergeInv, Unmark
    PROVE  MergeInv'
<1> DEFINE i == Oldest(worker.todo)
<1>0. /\ worker.pc = "unmark" /\ worker.todo # {} /\ worker.todo \subseteq DOMAIN journal /\ worker \in Gate
      /\ Pending = {} /\ (\A j, k \in worker.todo : j = k)
      /\ UNCHANGED <<base, heads, locked, objs, kept, keptMerge, rows, journal, child, receive,
                     moved, rewritten, lastHead, made, receives>>
      /\ marker' \in {marker, marker \ {i}}
      /\ child = NoChild /\ server \in {"starting", "up"}
  BY NoChildAtWork DEF Unmark, db, mergeHist, mergeBounds, MergeInv, WorkInv, Typed
<1>1. worker.todo \in IntentSet /\ worker.todo = {i}
  BY <1>0, OldestIsPending, PendingTyped DEF MergeInv, IntentSet
<1>2. UNCHANGED server /\ worker' \in {[worker EXCEPT !.pc = "settle", !.pass = 3, !.todo = {}],
                                        [worker EXCEPT !.pc = "settle", !.todo = {}]}
  <2>1. CASE worker.pass = 2
    BY <1>0, <2>1 DEF Unmark, AnswerMerge
  <2>2. CASE worker.pass # 2
    <3>1. worker' = [worker EXCEPT !.pc = "settle", !.todo = worker.todo \ {i}] /\ UNCHANGED server
      BY <2>2 DEF Unmark
    <3>2. worker.todo \ {i} = {}
      BY <1>1
    <3> QED BY <3>1, <3>2
  <2> QED BY <2>1, <2>2
<1> HIDE DEF i
<1>3. /\ worker' \in Gate /\ worker'.pc = "settle" /\ worker'.op = worker.op /\ worker'.pull = worker.pull
      /\ worker'.todo = {} /\ worker'.heads = worker.heads
  <2>1. {} \in IntentSet /\ "settle" \in GatePc /\ 3 \in 0..3
    BY DEF IntentSet, GatePc
  <2> QED BY <1>0, <1>2, <2>1 DEF Gate
<1>4. JournalInv' /\ Pending' = {}
  BY <1>0 DEF MergeInv, JournalInv, Pending
<1>5. WorkInv'
  BY <1>0, <1>3, <1>4 DEF MergeInv, WorkInv
<1>6. ObjectInv'
  BY <1>0, <1>3, ObjectFrame DEF MergeInv
<1>7. Typed'
  BY <1>0, <1>2, <1>3 DEF MergeInv, Typed
<1> QED BY <1>0, <1>2, <1>4, <1>5, <1>6, <1>7, NoChildNow DEF MergeInv

\* update-ref exits, or the deadline kills it.
LEMMA PublishEndsKeeps ==
    ASSUME MergeInv, PublishEnds \/ PublishTimesOut
    PROVE  MergeInv'
<1>0. PICK pc \in {"mark", "judge"} :
        /\ GateTo(pc)
        /\ pc = "mark" => child.at = "committed"
  BY DEF PublishEnds, PublishTimesOut
<1>1. /\ worker.pc = "publish" /\ child # NoChild /\ child' = NoChild /\ Quiet /\ UNCHANGED server
      /\ locked' \in {locked, "stale"} /\ pc \in GatePc
  BY DEF PublishEnds, PublishTimesOut, Quiet, git, db, mergeHist, mergeBounds, NoChild, GatePc
<1>2. server \in {"starting", "up"}
  BY <1>1 DEF MergeInv, ChildInv, Typed, GateFree
<1>3. /\ worker.todo = Pending /\ worker.todo # {} /\ worker.todo \subseteq DOMAIN journal /\ worker.op = "merge"
      /\ worker.pull \in Pull /\ \A i \in worker.todo : journal[i].pull = worker.pull
  BY <1>1 DEF MergeInv, WorkInv
<1>4. /\ worker' \in Gate /\ worker'.pc = pc /\ worker'.op = worker.op /\ worker'.pull = worker.pull
      /\ worker'.todo = worker.todo /\ worker'.heads = worker.heads
  BY <1>0, <1>1, Goto
<1>5. pc = "mark" => \A i \in worker.todo : journal[i].merge \in moved
  BY <1>0, <1>1, <1>3 DEF MergeInv, ChildInv, JournalInv
<1>6. WorkInv'
  BY <1>1, <1>3, <1>4, <1>5 DEF WorkInv, Quiet, Pending
<1> QED BY <1>1, <1>2, <1>4, <1>6, GateMove DEF MergeInv, Typed

\* update-ref --stdin takes the lock, or fails its comparison.
LEMMA PublishPreparesKeeps ==
    ASSUME MergeInv, PublishPrepares
    PROVE  MergeInv'
<1>1. /\ Quiet /\ UNCHANGED <<server, worker>> /\ child.at = "run"
      /\ locked' \in {"publish", locked} /\ child' \in {[child EXCEPT !.at = "held"], [child EXCEPT !.at = "failed"]}
  BY DEF PublishPrepares, Quiet, db, mergeHist, mergeBounds
<1>2. /\ child' \in [id : 0..MaxIntents, at : {"none", "run", "held", "committed", "failed"}]
      /\ child'.id = child.id /\ child'.at \in {"held", "failed"} /\ child # NoChild
  BY <1>1 DEF MergeInv, Typed, NoChild
<1>3. JournalInv' /\ ObjectInv' /\ Pending' = Pending
  BY <1>1, JournalFrame, ObjectFrame DEF MergeInv, Quiet
<1>4. Typed'
  BY <1>1, <1>2 DEF MergeInv, Typed, Quiet
<1>5. WorkInv'
  BY <1>1, <1>3 DEF MergeInv, WorkInv, Quiet
<1>6. ChildInv'
  BY <1>1, <1>2, <1>3 DEF MergeInv, ChildInv, Quiet
<1> QED BY <1>3, <1>4, <1>5, <1>6 DEF MergeInv

\* The base moves to the merge.
LEMMA PublishCommitsKeeps ==
    ASSUME MergeInv, PublishCommits
    PROVE  MergeInv'
<1>1. /\ UNCHANGED <<heads, objs, marker, kept, keptMerge, rows, journal, server, worker, receive, rewritten, lastHead,
                     made, receives>>
      /\ child.at = "held" /\ child # NoChild /\ child' = [child EXCEPT !.at = "committed"] /\ locked' = "none"
  BY DEF PublishCommits, db, mergeBounds, NoChild
<1>2. PICK i \in DOMAIN journal : i = child.id /\ i \in Pending
  BY <1>1 DEF MergeInv, ChildInv, Pending
<1>3. PICK m \in GitCommit : m = journal[i].merge
  BY DEF MergeInv, Typed, Intent
<1>4. /\ base' = [rev |-> MaxReceives + m.n, has |-> base.has \cup {m, HeadCommit(m.pull, m.head)}]
      /\ moved' = moved \cup {m}
  BY <1>2, <1>3 DEF PublishCommits
<1>5. m.n \in 1..made /\ m.n \in Nat /\ m.n <= MaxMade
  BY <1>3, MergeAssumption DEF MergeInv, JournalInv, Typed
<1>6. base' \in BaseTip
  <2>1. HeadCommit(m.pull, m.head) \in GitCommit
    BY MergeAssumption DEF HeadCommit, GitCommit
  <2>2. MaxReceives + m.n \in 0..(MaxReceives + MaxMade)
    BY <1>5, MergeAssumption
  <2> QED BY <1>4, <2>1, <2>2 DEF BaseTip, MergeInv, Typed
<1>7. /\ child' \in [id : 0..MaxIntents, at : {"none", "run", "held", "committed", "failed"}]
      /\ child'.id = child.id /\ child'.at = "committed"
  BY <1>1 DEF MergeInv, Typed
<1>8. Typed'
  BY <1>1, <1>4, <1>6, <1>7 DEF MergeInv, Typed
<1>9. Pending' = Pending
  BY <1>1 DEF Pending
<1>10. JournalInv'
  <2>1. base'.has = base.has \cup {m, HeadCommit(m.pull, m.head)} /\ HeadCommit(m.pull, m.head).n = 0
    BY <1>4 DEF HeadCommit
  <2>2. \A c \in base'.has : c.n # 0 => c \in moved'
    BY <1>4, <2>1 DEF MergeInv, JournalInv
  <2>3. \A n \in moved' : n.n \in 1..made
    BY <1>4, <1>5 DEF MergeInv, JournalInv
  <2>4. ~rewritten => moved' \subseteq base'.has
    BY <1>4, <2>1 DEF MergeInv, JournalInv
  <2>5. ~rewritten => \A n \in moved' :
            \/ rows[n.pull].state = "merged" /\ rows[n.pull].merge = n
            \/ \E j \in Pending : journal[j].merge = n
    BY <1>2, <1>3, <1>4 DEF MergeInv, JournalInv
  <2> QED BY <1>1, <1>4, <1>9, <2>2, <2>3, <2>4, <2>5 DEF MergeInv, JournalInv
<1>11. WorkInv'
  <2>1. worker.pc = "publish" \/ worker.pc = "idle"
    BY <1>1 DEF MergeInv, ChildInv, GateFree
  <2> QED BY <1>1, <1>9, <2>1 DEF MergeInv, WorkInv
<1>12. ChildInv'
  BY <1>1, <1>2, <1>3, <1>4, <1>7, <1>9 DEF MergeInv, ChildInv
<1>13. ObjectInv'
  BY <1>1, ObjectFrame DEF MergeInv
<1> QED BY <1>8, <1>10, <1>11, <1>12, <1>13 DEF MergeInv

\* A merge commit is made and journaled, in a new intent or in its own.
LEMMA MergeAttemptsKeeps ==
    ASSUME MergeInv, MergeAttempts
    PROVE  MergeInv'
<1>0. /\ worker.pc = "attempt" /\ worker.todo = Pending /\ worker.op = "merge" /\ worker \in Gate
      /\ worker.todo \subseteq DOMAIN journal
      /\ \A i \in worker.todo : i \notin marker /\ (~rewritten => journal[i].merge \notin moved)
      /\ child = NoChild /\ server # "down"
      /\ UNCHANGED <<base, heads, locked, marker, kept, keptMerge, rows, server, receive, moved, rewritten, lastHead, receives>>
  BY NoChildAtWork DEF MergeAttempts, MergeInv, WorkInv, Typed, mergeHist
<1> PICK p \in Pull : p = worker.pull
  BY <1>0 DEF MergeInv, WorkInv
<1> PICK m : m = MergeCommit(p, heads[p], made + 1)
  OBVIOUS
<1> PICK new : new = [pull |-> p, base |-> base, merge |-> m, state |-> "pending"]
  OBVIOUS
<1>1. /\ m \in GitCommit /\ m.pull = p /\ m.head = heads[p] /\ m.n = made + 1 /\ m \notin moved
      /\ made + 1 \in 0..MaxMade /\ heads[p] # 0 /\ rows[p].state = "open" /\ made \in Nat
  <2>1. heads[p] \in 1..MaxHeads /\ made + 1 \in 0..MaxMade /\ made \in Nat /\ heads[p] # 0 /\ rows[p].state = "open"
    <3>1. heads[p] # 0 /\ rows[p].state = "open" /\ made < MaxMade
      BY DEF MergeAttempts
    <3>2. heads \in [Pull -> 0..MaxHeads] /\ made \in 0..MaxMade
      BY DEF MergeInv, Typed
    <3> QED BY <3>1, <3>2, MergeAssumption
  <2>2. m \in GitCommit /\ m.pull = p /\ m.head = heads[p] /\ m.n = made + 1
    BY <2>1 DEF MergeCommit, GitCommit
  <2>3. m \notin moved
    BY <2>1, <2>2 DEF MergeInv, JournalInv
  <2> QED BY <2>1, <2>2, <2>3
<1>2. new \in Intent /\ new.pull = p /\ new.merge = m /\ new.state = "pending"
  BY <1>1 DEF Intent, MergeInv, Typed
<1>3. PICK k \in 0..MaxIntents : DOMAIN journal = 1..k
  BY DEF MergeInv, Typed
<1>4. PICK id : /\ id = IF worker.todo = {} THEN Cardinality(DOMAIN journal) + 1 ELSE Oldest(worker.todo)
                /\ id <= MaxIntents
  BY DEF MergeAttempts
<1>5. /\ made' = made + 1 /\ objs' = objs \cup {m}
      /\ journal' = [i \in DOMAIN journal \cup {id} |-> IF i = id THEN new ELSE journal[i]]
      /\ worker' = [worker EXCEPT !.pc = "publish", !.todo = {id}, !.round = worker.round + 1]
      /\ child' = [id |-> id, at |-> "run"]
  BY <1>4 DEF MergeAttempts
<1>6. /\ id \in 1..MaxIntents /\ id \notin marker /\ Pending \subseteq {id}
      /\ \E j \in 0..MaxIntents : DOMAIN journal \cup {id} = 1..j
  <2>1. CASE worker.todo = {}
    <3>1. Cardinality(1..k) = k
      <4>1. 1 \in Int /\ k \in Int /\ k >= 0
        BY MergeAssumption
      <4>2. Cardinality(1..k) = IF 1 > k THEN 0 ELSE k - 1 + 1
        BY <4>1, FS_Interval
      <4> QED BY <4>1, <4>2
    <3>2. id = k + 1
      BY <1>3, <1>4, <2>1, <3>1
    <3>3. k + 1 \in 0..MaxIntents /\ 1..k \cup {k + 1} = 1..(k + 1)
      BY <1>4, <3>2, MergeAssumption
    <3>4. id \notin DOMAIN journal
      BY <1>3, <3>2, MergeAssumption
    <3>5. id \in 1..MaxIntents /\ Pending \subseteq {id}
      BY <1>0, <2>1, <3>2, <3>3, MergeAssumption
    <3>6. id \notin marker
      BY <3>4 DEF MergeInv, Typed
    <3>7. DOMAIN journal \cup {id} = 1..(k + 1)
      BY <1>3, <3>2, <3>3
    <3> QED BY <3>3, <3>5, <3>6, <3>7
  <2>2. CASE worker.todo # {}
    <3>1. id \in Pending /\ Pending = {id} /\ id \in DOMAIN journal
      BY <1>0, <1>4, <2>2, TheIntent
    <3>2. DOMAIN journal \cup {id} = 1..k /\ id \in 1..k /\ id \in 1..MaxIntents
      BY <1>3, <3>1, MergeAssumption
    <3> QED BY <1>0, <3>1, <3>2
  <2> QED BY <2>1, <2>2
<1>7. /\ DOMAIN journal' = DOMAIN journal \cup {id} /\ journal'[id] = new
      /\ \A i \in DOMAIN journal : i # id => journal'[i] = journal[i]
  BY <1>5
<1>8. Pending' = {id}
  BY <1>2, <1>6, <1>7 DEF Pending
<1>9. /\ worker' \in Gate /\ worker'.pc = "publish" /\ worker'.op = "merge" /\ worker'.pull = p /\ worker'.todo = {id}
      /\ worker'.heads = worker.heads
  <2>1. {id} \in IntentSet /\ "publish" \in GatePc /\ worker.round + 1 \in Nat
    BY <1>0, <1>6 DEF IntentSet, GatePc, Gate
  <2> QED BY <1>0, <1>5, <2>1 DEF Gate
<1>10. child' \in [id : 0..MaxIntents, at : {"none", "run", "held", "committed", "failed"}] /\ child'.id = id /\ child'.at = "run"
  BY <1>5, <1>6, MergeAssumption
<1>11. Typed'
  <2>1. \A i \in DOMAIN journal' : journal'[i] \in Intent
    BY <1>2, <1>7 DEF MergeInv, Typed
  <2>2. (\E j \in 0..MaxIntents : DOMAIN journal' = 1..j) /\ marker \in SUBSET DOMAIN journal'
    BY <1>6, <1>7 DEF MergeInv, Typed
  <2>3. objs' \in SUBSET GitCommit /\ made' \in 0..MaxMade
    BY <1>1, <1>5 DEF MergeInv, Typed
  <2> QED BY <1>0, <1>9, <1>10, <2>1, <2>2, <2>3 DEF MergeInv, Typed
<1>12. JournalInv'
  <2>1. \A i \in DOMAIN journal' : journal'[i].merge.pull = journal'[i].pull /\ journal'[i].merge.n \in 1..made'
    BY <1>1, <1>2, <1>5, <1>7 DEF MergeInv, JournalInv
  <2>2. \A n \in moved : n.n \in 1..made'
    BY <1>1, <1>5 DEF MergeInv, JournalInv
  <2>3. ~rewritten => \A n \in moved : rows[n.pull].state = "merged" /\ rows[n.pull].merge = n
    BY <1>0 DEF MergeInv, JournalInv
  <2> QED BY <1>0, <1>1, <1>2, <1>6, <1>7, <1>8, <2>1, <2>2, <2>3 DEF MergeInv, JournalInv
<1>13. WorkInv'
  BY <1>2, <1>7, <1>8, <1>9 DEF WorkInv
<1>14. ChildInv'
  BY <1>0, <1>1, <1>2, <1>7, <1>8, <1>9, <1>10 DEF ChildInv
<1>15. ObjectInv'
  BY <1>0, <1>1, <1>2, <1>5, <1>7, <1>8, <1>9 DEF MergeInv, ObjectInv, MergesStayWhole
<1> QED BY <1>11, <1>12, <1>13, <1>14, <1>15 DEF MergeInv

\* A step of the gate's holder that writes rows, branches and retention refs, and
\* touches no merged row.
LEMMA GateWrites ==
    ASSUME MergeInv, UNCHANGED <<base, objs, journal, receive, moved, rewritten, lastHead, made, receives, locked>>,
           child' = NoChild, server' \in {"starting", "up"}, worker' \in Gate, WorkInv',
           \A p \in Pull : worker'.heads[p] \in {0, worker.heads[p], heads[p]},
           marker' \subseteq marker,
           heads' \in [Pull -> 0..MaxHeads], \A p \in Pull : heads'[p] \in {0, heads[p]},
           kept' \in [Pull -> GitCommit], \A p \in Pull : kept'[p] \in objs,
           keptMerge' \in [Pull -> GitCommit \cup {NoCommit}],
           rows' \in [Pull -> PullRow], rows' = rows \/ Pending = {},
           \A p \in Pull : rows'[p] = rows[p] \/ (rows[p].state # "merged" /\ rows'[p].state # "merged")
    PROVE  MergeInv'
<1>1. Pending' = Pending
  BY DEF Pending
<1>2. JournalInv'
  <2>1. \A i \in Pending : rows'[journal[i].pull].state = "open"
    BY DEF MergeInv, JournalInv
  <2>2. ASSUME ~rewritten, NEW m \in moved
        PROVE  \/ rows'[m.pull].state = "merged" /\ rows'[m.pull].merge = m
               \/ \E i \in Pending : journal[i].merge = m
    <3>1. m.pull \in Pull
      BY DEF MergeInv, Typed, GitCommit
    <3> QED BY <2>2, <3>1 DEF MergeInv, JournalInv
  <2> QED BY <1>1, <2>1, <2>2 DEF MergeInv, JournalInv
<1>3. ObjectInv'
  <2>1. ASSUME NEW p \in Pull, rows'[p].state = "merged"
        PROVE  /\ {rows'[p].final, rows'[p].merge} \subseteq objs
               /\ rows'[p].final = HeadCommit(rows'[p].merge.pull, rows'[p].merge.head)
    BY <2>1 DEF MergeInv, ObjectInv, MergesStayWhole
  <2>2. ASSUME NEW p \in Pull
        PROVE  /\ heads'[p] # 0 => HeadCommit(p, heads'[p]) \in objs
               /\ worker'.heads[p] # 0 => HeadCommit(p, worker'.heads[p]) \in objs
    BY DEF MergeInv, ObjectInv
  <2> QED BY <1>1, <2>1, <2>2 DEF MergeInv, ObjectInv, MergesStayWhole
<1>4. NoChild \in [id : 0..MaxIntents, at : {"none", "run", "held", "committed", "failed"}] /\ NoChild.at = "none"
  BY MergeAssumption DEF NoChild
<1>5. Typed'
  BY <1>4 DEF MergeInv, Typed
<1>6. ChildInv'
  BY <1>4 DEF ChildInv
<1> QED BY <1>2, <1>3, <1>5, <1>6 DEF MergeInv

\* The gate's holder as it works: no update-ref, and a server to work in.
LEMMA AtWork ==
    ASSUME MergeInv, worker.pc \notin {"idle", "publish"}
    PROVE  /\ child = NoChild /\ server \in {"starting", "up"} /\ worker \in Gate
           /\ worker.op # "none"
           /\ worker.op \in {"merge", "close", "reopen", "branch"} => worker.pull \in Pull
           /\ heads \in [Pull -> 0..MaxHeads] /\ rows \in [Pull -> PullRow] /\ kept \in [Pull -> GitCommit]
           /\ keptMerge \in [Pull -> GitCommit \cup {NoCommit}] /\ objs \subseteq GitCommit
           /\ \A p \in Pull : /\ kept[p] \in objs
                              /\ heads[p] # 0 => HeadCommit(p, heads[p]) \in objs
                              /\ worker.heads[p] # 0 => HeadCommit(p, worker.heads[p]) \in objs
BY NoChildAtWork DEF MergeInv, Typed, WorkInv, ObjectInv

\* What an operation that has written goes on with: the intents, and a sync.
LEMMA SyncNextWork ==
    ASSUME MergeInv, worker.pc \notin {"idle", "publish"}, SyncNext, UNCHANGED journal
    PROVE  worker' \in Gate /\ WorkInv' /\ worker'.heads = worker.heads
<1>1. worker \in Gate /\ Pending \in IntentSet /\ Pending \subseteq DOMAIN journal /\ "settle" \in GatePc /\ 3 \in 0..3
  BY PendingTyped DEF MergeInv, Typed, GatePc
<1>2. /\ worker' \in Gate /\ worker'.pc = "settle" /\ worker'.todo = Pending /\ worker'.op = worker.op
      /\ worker'.pull = worker.pull /\ worker'.heads = worker.heads
  BY <1>1 DEF SyncNext, Gate
<1>3. Pending' = Pending
  BY DEF Pending
<1>4. WorkInv'
  BY <1>1, <1>2, <1>3 DEF WorkInv, MergeInv
<1> QED BY <1>2, <1>4

\* The three steps of closing a pull request.
LEMMA PatchCloseKeeps ==
    ASSUME MergeInv, PatchClose
    PROVE  MergeInv'
<1>0. /\ UNCHANGED <<base, heads, locked, objs, marker, keptMerge, journal, server, child, receive, moved, rewritten,
                     lastHead, made, receives>>
      /\ worker.pc \in {"patch", "keep", "save"} /\ worker.pc \notin {"idle", "publish"}
  BY DEF PatchClose, mergeHist, mergeBounds
<1>1. /\ Pending = {} /\ Pending' = {} /\ worker.op \in {"close", "reopen"}
      /\ worker.todo \subseteq DOMAIN journal
  BY <1>0 DEF MergeInv, WorkInv, Pending
<1> PICK p \in Pull : p = worker.pull
  BY <1>0, <1>1, AtWork
<1>2. CASE worker.pc = "patch"
  <2>1. worker' = [worker EXCEPT !.pc = "keep", !.heads = heads] /\ UNCHANGED <<kept, rows>> /\ rows[p].state = "open"
    BY <1>2 DEF PatchClose
  <2>2. /\ worker' \in Gate /\ worker'.pc = "keep" /\ worker'.todo = worker.todo /\ worker'.op = worker.op
        /\ worker'.pull = p /\ worker'.heads = heads
    <3>1. "keep" \in GatePc /\ worker \in Gate /\ heads \in [Pull -> 0..MaxHeads]
      BY <1>0, AtWork DEF GatePc
    <3> QED BY <2>1, <3>1 DEF Gate
  <2>3. WorkInv'
    BY <1>0, <1>1, <2>1, <2>2 DEF WorkInv
  <2> QED BY <1>0, <2>1, <2>2, <2>3, AtWork, GateWrites
<1>3. CASE worker.pc # "patch"
  <2> PICK at : at = IF worker.heads[p] # 0 THEN HeadCommit(p, worker.heads[p]) ELSE kept[p]
    OBVIOUS
  <2>1. at \in objs /\ at \in GitCommit
    BY <1>0, AtWork
  <2>2. rows[p].state = "open"
    BY <1>0, <1>3 DEF MergeInv, WorkInv
  <2>3. CASE worker.pc = "keep"
    <3>1. kept' = [kept EXCEPT ![p] = at] /\ GateTo("save") /\ UNCHANGED rows /\ "save" \in GatePc
      BY <2>3 DEF PatchClose, GatePc
    <3>2. /\ worker' \in Gate /\ worker'.pc = "save" /\ worker'.todo = worker.todo /\ worker'.op = worker.op
          /\ worker'.pull = p /\ worker'.heads = worker.heads
      BY <3>1, Goto
    <3>3. WorkInv'
      BY <1>0, <1>1, <2>2, <3>1, <3>2 DEF WorkInv
    <3>4. kept' \in [Pull -> GitCommit] /\ \A q \in Pull : kept'[q] \in objs
      BY <1>0, <2>1, <3>1, AtWork
    <3> QED BY <1>0, <3>1, <3>2, <3>3, <3>4, AtWork, GateWrites
  <2>4. CASE worker.pc = "save"
    <3>1. /\ rows' = [rows EXCEPT ![p].state = "closed", ![p].head = at, ![p].final = at]
          /\ SyncNext /\ UNCHANGED kept
      BY <2>4 DEF PatchClose
    <3>2. rows' \in [Pull -> PullRow] /\ (\A q \in Pull : q # p => rows'[q] = rows[q])
          /\ rows'[p].state = "closed" /\ rows'[p].head = at /\ rows'[p].final = at
      BY <1>0, <2>1, <3>1, AtWork DEF PullRow
    <3>3. worker' \in Gate /\ WorkInv' /\ worker'.heads = worker.heads
      BY <1>0, <3>1, SyncNextWork
    <3>4. \A q \in Pull : rows'[q] = rows[q] \/ (rows[q].state # "merged" /\ rows'[q].state # "merged")
      BY <2>2, <3>2
    <3> QED BY <1>0, <1>1, <3>1, <3>2, <3>3, <3>4, AtWork, GateWrites
  <2> QED BY <1>0, <1>3, <2>3, <2>4
<1> QED BY <1>2, <1>3

LEMMA PatchReopenKeeps ==
    ASSUME MergeInv, PatchReopen
    PROVE  MergeInv'
<1>0. /\ UNCHANGED <<base, heads, locked, objs, marker, kept, keptMerge, journal, server, child, receive, moved, rewritten,
                     lastHead, made, receives>>
      /\ worker.pc = "patch" /\ worker.pc \notin {"idle", "publish"} /\ SyncNext /\ Pending = {} /\ worker.op = "reopen"
  BY DEF PatchReopen, git, mergeHist, mergeBounds, MergeInv, WorkInv
<1> PICK p \in Pull : p = worker.pull
  BY <1>0, AtWork
<1>1. /\ rows' = [rows EXCEPT ![p].state = "open", ![p].final = NoCommit, ![p].gone = (heads[p] = 0)]
      /\ rows[p].state = "closed"
  BY DEF PatchReopen
<1>2. rows' \in [Pull -> PullRow] /\ (\A q \in Pull : q # p => rows'[q] = rows[q])
      /\ rows'[p].state = "open"
  <2>1. (heads[p] = 0) \in BOOLEAN /\ rows \in [Pull -> PullRow]
    BY <1>0, AtWork
  <2> QED BY <1>1, <2>1 DEF PullRow
<1>3. worker' \in Gate /\ WorkInv' /\ worker'.heads = worker.heads
  BY <1>0, SyncNextWork
<1> QED BY <1>0, <1>1, <1>2, <1>3, AtWork, GateWrites

\* What sync_one goes on with when it is done with a pull request.
LEMMA SyncedOneWork ==
    ASSUME MergeInv, worker.pc \in {"write", "follow", "rewrite", "close"}, NEW p \in Pull, SyncedOne(p),
           Pending' = {}, \A q \in Pull : q # p => rows'[q] = rows[q]
    PROVE  worker' \in Gate /\ WorkInv' /\ worker'.heads = worker.heads
<1>1. /\ worker.todo \subseteq {q \in Pull : rows[q].state = "open"} /\ worker \in Gate /\ worker.op # "none"
      /\ worker.op \in {"merge", "close", "reopen", "branch"} => worker.pull \in Pull
  BY DEF MergeInv, Typed, WorkInv
<1>2. worker.todo \ {p} \in SUBSET Pull /\ "write" \in GatePc
  BY <1>1 DEF GatePc
<1>3. /\ worker' \in Gate /\ worker'.pc = "write" /\ worker'.op = worker.op /\ worker'.pull = worker.pull
      /\ worker'.todo = worker.todo \ {p} /\ worker'.heads = worker.heads
  BY <1>1, <1>2 DEF SyncedOne, Gate
<1>4. worker'.todo \subseteq {q \in Pull : rows'[q].state = "open"}
  BY <1>1, <1>3
<1>5. WorkInv'
  BY <1>1, <1>3, <1>4 DEF WorkInv
<1> QED BY <1>3, <1>5

\* sync_one takes a pull request up: the retained head of a branch that is there
\* follows it, that of one that is gone is read once more.
LEMMA SyncTakesUpKeeps ==
    ASSUME MergeInv, NEW p \in Pull, SyncFollows(p) \/ SyncRereads(p)
    PROVE  MergeInv'
<1>0. /\ UNCHANGED <<base, heads, locked, objs, marker, keptMerge, rows, journal, server, child, receive, moved, rewritten,
                     lastHead, made, receives>>
      /\ worker.pc = "write" /\ worker.pc \notin {"idle", "publish"} /\ p \in worker.todo
  BY DEF SyncFollows, SyncRereads, git, db, mergeHist, mergeBounds
<1>1. /\ Pending = {} /\ Pending' = {} /\ worker.todo \subseteq {q \in Pull : rows[q].state = "open"}
      /\ worker.todo \in SUBSET Pull /\ worker.todo \ {p} \in SUBSET Pull
  BY <1>0 DEF MergeInv, WorkInv, Pending
<1>2. CASE SyncFollows(p)
  <2> PICK tip : tip = HeadCommit(p, worker.heads[p])
    OBVIOUS
  <2>1. worker.heads[p] # 0 /\ tip \in objs /\ tip \in GitCommit
    BY <1>0, <1>2, AtWork DEF SyncFollows
  <2>2. kept' \in {kept, [kept EXCEPT ![p] = tip]} /\ worker' = [worker EXCEPT !.pc = "follow", !.pull = p]
    BY <1>2 DEF SyncFollows, TakeUp
  <2>3. kept' \in [Pull -> GitCommit] /\ \A q \in Pull : kept'[q] \in objs
    BY <1>0, <2>1, <2>2, AtWork
  <2>4. /\ worker' \in Gate /\ worker'.pc = "follow" /\ worker'.op = worker.op /\ worker'.pull = p
        /\ worker'.todo = worker.todo /\ worker'.heads = worker.heads
    <3>1. worker \in Gate /\ "follow" \in GatePc
      BY <1>0, AtWork DEF GatePc
    <3> QED BY <2>2, <3>1 DEF Gate
  <2>5. WorkInv'
    BY <1>0, <1>1, <2>1, <2>4, AtWork DEF WorkInv
  <2> QED BY <1>0, <2>3, <2>4, <2>5, AtWork, GateWrites
<1>3. CASE SyncRereads(p) /\ ~rows[p].gone
  <2> PICK k : k = [worker.kept EXCEPT ![p] = kept[p]]
    OBVIOUS
  <2>1. worker' = [worker EXCEPT !.pc = "rewrite", !.pull = p, !.kept = k] /\ UNCHANGED kept
    BY <1>3 DEF SyncRereads, git
  <2>2. k \in [Pull -> GitCommit \cup {NoCommit}] /\ k[p] \in GitCommit
    BY <1>0, AtWork DEF Gate
  <2>3. /\ worker' \in Gate /\ worker'.pc = "rewrite" /\ worker'.op = worker.op /\ worker'.pull = p
        /\ worker'.todo = worker.todo /\ worker'.heads = worker.heads /\ worker'.kept = k
    <3>1. worker \in Gate /\ "rewrite" \in GatePc
      BY <1>0, AtWork DEF GatePc
    <3> QED BY <2>1, <2>2, <3>1 DEF Gate
  <2>4. WorkInv'
    BY <1>0, <1>1, <2>2, <2>3, AtWork DEF WorkInv
  <2> QED BY <1>0, <2>1, <2>3, <2>4, AtWork, GateWrites
<1>4. CASE SyncRereads(p) /\ rows[p].gone
  <2>1. SyncedOne(p) /\ UNCHANGED kept
    BY <1>4 DEF SyncRereads, git
  <2>2. worker' \in Gate /\ WorkInv' /\ worker'.heads = worker.heads
    BY <1>0, <1>1, <2>1, SyncedOneWork
  <2> QED BY <1>0, <2>1, <2>2, AtWork, GateWrites
<1> QED BY <1>2, <1>3, <1>4

\* Its row is saved after that, or the reread head is written back.
LEMMA SyncWritesKeeps ==
    ASSUME MergeInv, SyncSaves \/ SyncRewrites \/ SyncCloses
    PROVE  MergeInv'
<1>0. /\ UNCHANGED <<base, heads, locked, objs, marker, keptMerge, journal, server, child, receive, moved, rewritten,
                     lastHead, made, receives>>
      /\ worker.pc \in {"follow", "rewrite", "close"} /\ worker.pc \notin {"idle", "publish"}
  BY DEF SyncSaves, SyncRewrites, SyncCloses, git, db, mergeHist, mergeBounds
<1> PICK p : p = worker.pull
  OBVIOUS
<1>1. /\ Pending = {} /\ Pending' = {} /\ worker.todo \subseteq {q \in Pull : rows[q].state = "open"}
      /\ p \in worker.todo /\ p \in Pull /\ rows[p].state = "open" /\ worker.todo \in SUBSET Pull
  BY <1>0 DEF MergeInv, WorkInv, Pending
<1>2. CASE SyncRewrites
  <2>1. /\ worker.pc = "rewrite" /\ GateTo("close") /\ "close" \in GatePc /\ UNCHANGED rows
        /\ worker.kept[p] \in objs /\ kept' = [kept EXCEPT ![p] = worker.kept[p]]
    BY <1>2 DEF SyncRewrites, GatePc, db
  <2>2. kept' \in [Pull -> GitCommit] /\ \A q \in Pull : kept'[q] \in objs
    BY <1>0, <1>1, <2>1, AtWork
  <2>3. /\ worker' \in Gate /\ worker'.pc = "close" /\ worker'.op = worker.op /\ worker'.pull = p
        /\ worker'.todo = worker.todo /\ worker'.heads = worker.heads /\ worker'.kept = worker.kept
    BY <2>1, Goto
  <2>4. worker.kept[p] \in GitCommit
    BY <2>1 DEF MergeInv, WorkInv
  <2>5. WorkInv'
    BY <1>0, <1>1, <2>1, <2>3, <2>4, AtWork DEF WorkInv
  <2> QED BY <1>0, <2>1, <2>2, <2>3, <2>5, AtWork, GateWrites
<1>3. CASE SyncSaves \/ SyncCloses
  <2>0. rows[p] \in PullRow /\ rows[p].state # "merged" /\ rows \in [Pull -> PullRow]
    BY <1>0, <1>1, AtWork
  <2> PICK r : rows' = [rows EXCEPT ![p] = r] /\ r \in PullRow /\ r.state # "merged"
    <3>1. CASE SyncSaves
      <4> PICK tip : tip = HeadCommit(p, worker.heads[p])
        OBVIOUS
      <4>1. tip \in GitCommit
        BY <1>0, <1>1, <3>1, AtWork DEF SyncSaves, MergeInv, WorkInv
      <4> PICK r : r = [rows[p] EXCEPT !.head = tip, !.gone = FALSE]
        OBVIOUS
      <4>2. rows' = [rows EXCEPT ![p] = r]
        BY <1>1, <2>0, <3>1 DEF SyncSaves
      <4>3. r \in PullRow /\ r.state # "merged"
        BY <2>0, <4>1 DEF PullRow
      <4> QED BY <4>2, <4>3
    <3>2. CASE SyncCloses
      <4> PICK at : at = worker.kept[p]
        OBVIOUS
      <4>1. at \in GitCommit
        BY <3>2 DEF SyncCloses, MergeInv, WorkInv
      <4> PICK r : r = [rows[p] EXCEPT !.state = "closed", !.head = at, !.final = at]
        OBVIOUS
      <4>2. rows' = [rows EXCEPT ![p] = r]
        BY <1>1, <2>0, <3>2 DEF SyncCloses
      <4>3. r \in PullRow /\ r.state # "merged"
        BY <2>0, <4>1 DEF PullRow
      <4> QED BY <4>2, <4>3
    <3> QED BY <1>3, <3>1, <3>2
  <2>1. SyncedOne(p) /\ UNCHANGED kept
    BY <1>3 DEF SyncSaves, SyncCloses, git
  <2>2. /\ rows' \in [Pull -> PullRow] /\ \A q \in Pull : q # p => rows'[q] = rows[q]
        /\ rows'[p].state # "merged"
    BY <1>1, <2>0
  <2>3. worker' \in Gate /\ WorkInv' /\ worker'.heads = worker.heads
    BY <1>0, <1>1, <2>1, <2>2, SyncedOneWork
  <2> QED BY <1>0, <1>1, <2>1, <2>2, <2>3, AtWork, GateWrites
<1> QED BY <1>0, <1>2, <1>3

\* DELETE /branches/{branch}, its three steps.
LEMMA DeleteBranchKeeps ==
    ASSUME MergeInv, DeleteBranch
    PROVE  MergeInv'
<1>0. /\ UNCHANGED <<base, locked, objs, marker, keptMerge, rows, journal, server, child, receive, moved, rewritten,
                     lastHead, made, receives>>
      /\ worker.pc \in {"branch", "hold", "delete"} /\ worker.pc \notin {"idle", "publish"}
  BY DEF DeleteBranch, db, mergeHist, mergeBounds
<1>1. worker.op = "branch" /\ worker.todo \subseteq DOMAIN journal /\ Pending' = Pending
  BY <1>0 DEF MergeInv, WorkInv, Pending
<1> PICK p \in Pull : p = worker.pull
  BY <1>0, <1>1, AtWork
<1>2. CASE worker.pc = "branch"
  <2>1. /\ worker' = [worker EXCEPT !.pc = "hold", !.heads = heads, !.round = worker.round + 1]
        /\ UNCHANGED <<heads, kept>> /\ heads[p] # 0
    BY <1>2 DEF DeleteBranch
  <2>2. /\ worker' \in Gate /\ worker'.pc = "hold" /\ worker'.todo = worker.todo /\ worker'.op = worker.op
        /\ worker'.pull = p /\ worker'.heads = heads
    <3>1. "hold" \in GatePc /\ worker \in Gate /\ heads \in [Pull -> 0..MaxHeads] /\ worker.round + 1 \in Nat
      BY <1>0, AtWork DEF GatePc, Gate
    <3> QED BY <2>1, <3>1 DEF Gate
  <2>3. WorkInv'
    BY <1>0, <1>1, <2>1, <2>2 DEF WorkInv
  <2> QED BY <1>0, <2>1, <2>2, <2>3, AtWork, GateWrites
<1>3. CASE worker.pc = "hold"
  <2>1. /\ kept' \in {kept, [kept EXCEPT ![p] = HeadCommit(p, worker.heads[p])]}
        /\ GateTo("delete") /\ UNCHANGED heads /\ "delete" \in GatePc
    BY <1>3 DEF DeleteBranch, GatePc
  <2>2. worker.heads[p] # 0
    BY <1>3 DEF MergeInv, WorkInv
  <2>3. /\ worker' \in Gate /\ worker'.pc = "delete" /\ worker'.todo = worker.todo /\ worker'.op = worker.op
        /\ worker'.pull = p /\ worker'.heads = worker.heads
    BY <2>1, Goto
  <2>4. kept' \in [Pull -> GitCommit] /\ \A q \in Pull : kept'[q] \in objs
    BY <1>0, <2>1, <2>2, AtWork
  <2>5. WorkInv'
    BY <1>0, <1>1, <2>2, <2>3 DEF WorkInv
  <2> QED BY <1>0, <2>1, <2>3, <2>4, <2>5, AtWork, GateWrites
<1>4. CASE worker.pc = "delete"
  <2>1. /\ heads' \in {heads, [heads EXCEPT ![p] = 0]} /\ UNCHANGED kept
        /\ worker' \in {GateFree, [worker EXCEPT !.pc = "branch"]}
    BY <1>4 DEF DeleteBranch
  <2>2. heads' \in [Pull -> 0..MaxHeads] /\ \A q \in Pull : heads'[q] \in {0, heads[q]}
    BY <1>0, <2>1, AtWork, MergeAssumption
  <2>3. CASE worker' = GateFree
    <3>1. WorkInv'
      BY <2>3, FreeTyped DEF WorkInv
    <3> QED BY <1>0, <2>1, <2>2, <2>3, <3>1, FreeTyped, AtWork, GateWrites
  <2>4. CASE worker' = [worker EXCEPT !.pc = "branch"]
    <3>1. GateTo("branch") /\ "branch" \in GatePc
      BY <2>4 DEF GateTo, GatePc
    <3>2. /\ worker' \in Gate /\ worker'.pc = "branch" /\ worker'.todo = worker.todo /\ worker'.op = worker.op
          /\ worker'.pull = p /\ worker'.heads = worker.heads
      BY <3>1, Goto
    <3>3. WorkInv'
      BY <1>0, <1>1, <3>2 DEF WorkInv
    <3> QED BY <1>0, <2>1, <2>2, <3>2, <3>3, AtWork, GateWrites
  <2> QED BY <2>1, <2>3, <2>4
<1> QED BY <1>0, <1>2, <1>3, <1>4

\* drop_stale_receipts.
LEMMA DropReceiptsKeeps ==
    ASSUME MergeInv, DropReceipts
    PROVE  MergeInv'
<1>0. /\ UNCHANGED <<base, heads, locked, objs, kept, keptMerge, rows, journal, server, child, receive, moved, rewritten,
                     lastHead, made, receives>>
      /\ worker.pc \notin {"idle", "publish"} /\ SyncNext /\ marker' \subseteq marker
  BY DEF DropReceipts, db, mergeHist, mergeBounds
<1>1. worker' \in Gate /\ WorkInv' /\ worker'.heads = worker.heads
  BY <1>0, SyncNextWork
<1> QED BY <1>0, <1>1, AtWork, GateWrites

\* repair_refs: what a row asks for is stored.
LEMMA RepairKeeps ==
    ASSUME MergeInv, Repair
    PROVE  MergeInv'
<1>0. /\ UNCHANGED <<base, heads, locked, objs, marker, rows, journal, child, receive, moved, rewritten,
                     lastHead, made, receives>>
      /\ worker.pc = "repair" /\ worker.pc \notin {"idle", "publish"}
  BY DEF Repair, db, mergeHist, mergeBounds
<1>1. PICK R \in SUBSET Pull :
          /\ \A p \in R : Wanted(p) \in objs
          /\ kept' = [p \in Pull |-> IF p \in R THEN Wanted(p) ELSE kept[p]]
          /\ keptMerge' = [p \in Pull |->
                IF p \in R /\ rows[p].state = "merged" THEN rows[p].merge ELSE keptMerge[p]]
          /\ IF worker.op = "maintain" /\ R = Pull
             THEN GateTo("list") /\ UNCHANGED server
             ELSE Release
  BY DEF Repair
<1>2. ASSUME NEW p \in Pull PROVE kept'[p] \in objs
  BY <1>0, <1>1, AtWork
<1>3. kept' \in [Pull -> GitCommit] /\ \A p \in Pull : kept'[p] \in objs
  BY <1>0, <1>1, <1>2, AtWork
<1>4. keptMerge' \in [Pull -> GitCommit \cup {NoCommit}]
  <2>1. \A p \in Pull : rows[p].merge \in GitCommit \cup {NoCommit} /\ keptMerge[p] \in GitCommit \cup {NoCommit}
    BY <1>0, AtWork DEF PullRow
  <2> QED BY <1>1, <2>1
<1>5. CASE Release
  <2>1. worker' = GateFree /\ server' \in {"starting", "up"} /\ child = NoChild
    BY <1>0, <1>5, Released
  <2>2. WorkInv'
    BY <2>1, FreeTyped DEF WorkInv
  <2> QED BY <1>0, <1>3, <1>4, <2>1, <2>2, FreeTyped, AtWork, GateWrites
<1>6. CASE GateTo("list") /\ UNCHANGED server
  <2>1. "list" \in GatePc /\ worker.todo \subseteq DOMAIN journal
    BY <1>0 DEF GatePc, MergeInv, WorkInv
  <2>2. /\ worker' \in Gate /\ worker'.pc = "list" /\ worker'.todo = worker.todo /\ worker'.op = worker.op
        /\ worker'.pull = worker.pull /\ worker'.heads = worker.heads
    BY <1>6, <2>1, Goto
  <2>3. WorkInv'
    BY <1>0, <2>1, <2>2, AtWork DEF WorkInv
  <2> QED BY <1>0, <1>3, <1>4, <1>6, <2>2, <2>3, AtWork, GateWrites
<1> QED BY <1>1, <1>5, <1>6

\* verify_roots and pending_checked: what they saw of the merged rows and of the
\* journal stays true, for only the holder of the gate writes either.
LEMMA VerifyKeeps ==
    ASSUME MergeInv, VerifyRoots \/ NothingPending \/ MaintainSkips
    PROVE  MergeInv'
<1>0. /\ Quiet /\ UNCHANGED <<child, locked>> /\ worker.pc \notin {"idle", "publish"}
      /\ worker.pc \in {"list", "verify", "journal"} /\ worker.todo \subseteq DOMAIN journal
  BY DEF VerifyRoots, NothingPending, MaintainSkips, Quiet, git, db, mergeHist, mergeBounds, MergeInv, WorkInv
<1>1. CASE MaintainSkips
  BY <1>0, <1>1, Released, ReleaseKeeps DEF MaintainSkips, MergeInv, Typed
<1>2. CASE VerifyRoots /\ worker.pc = "list"
  <2>1. worker' = [worker EXCEPT !.pc = "verify", !.kept = kept] /\ UNCHANGED server
    BY <1>2 DEF VerifyRoots
  <2>2. /\ worker' \in Gate /\ worker'.pc = "verify" /\ worker'.op = worker.op /\ worker'.pull = worker.pull
        /\ worker'.todo = worker.todo /\ worker'.heads = worker.heads
    <3>1. kept \in [Pull -> GitCommit \cup {NoCommit}] /\ "verify" \in GatePc /\ worker \in Gate
      BY <1>0, AtWork DEF GatePc
    <3> QED BY <2>1, <3>1 DEF Gate
  <2>3. WorkInv'
    BY <1>0, <2>2, AtWork DEF WorkInv, Quiet
  <2> QED BY <1>0, <2>1, <2>2, <2>3, GateMove, AtWork DEF MergeInv, Typed
<1>3. CASE (VerifyRoots /\ worker.pc = "verify") \/ NothingPending
  <2> PICK pc \in {"journal", "prune"} : GateTo(pc) /\ (pc = "prune" => Pending = {})
    BY <1>3 DEF VerifyRoots, NothingPending
  <2>1. pc \in GatePc /\ UNCHANGED server
    BY <1>3 DEF GatePc, VerifyRoots, NothingPending
  <2>2. worker'.pc = pc /\ worker'.op = worker.op /\ worker'.pull = worker.pull /\ worker'.todo = worker.todo
    BY <2>1, Goto
  <2>3. \A p \in Pull : rows[p].state = "merged" => keptMerge[p] = rows[p].merge
    BY <1>3 DEF VerifyRoots, RootsHeld, NothingPending, MergeInv, WorkInv
  <2>4. WorkInv'
    BY <1>0, <2>2, <2>3, AtWork DEF WorkInv, Quiet, Pending
  <2> QED BY <1>0, <2>1, <2>4, QuietGoto
<1> QED BY <1>0, <1>1, <1>2, <1>3 DEF VerifyRoots

\* git prune: the retention ref of a merged row roots its merge commit and the
\* head that one has for a parent, whatever pushes did since the verification.
LEMMA PruneKeeps ==
    ASSUME MergeInv, Prune
    PROVE  MergeInv'
<1>0. /\ UNCHANGED <<base, heads, locked, marker, kept, keptMerge, rows, journal, child, receive, moved, rewritten,
                     lastHead, made, receives>>
      /\ worker.pc = "prune" /\ worker.pc \notin {"idle", "publish"} /\ Release
  BY DEF Prune, db, mergeHist, mergeBounds
<1>1. worker' = GateFree /\ server' \in {"starting", "up"} /\ child' = NoChild
  BY <1>0, Released
<1>2. objs' \subseteq objs /\ objs \cap Rooted \subseteq objs'
  BY DEF Prune
<1>3. /\ \A p \in Pull : kept[p] \in Rooted /\ (heads[p] # 0 => HeadCommit(p, heads[p]) \in Rooted)
      /\ \A p \in Pull : {keptMerge[p], HeadCommit(keptMerge[p].pull, keptMerge[p].head)} \subseteq Rooted
  BY DEF Rooted
<1>4. ASSUME NEW p \in Pull, rows[p].state = "merged"
      PROVE  {rows[p].final, rows[p].merge} \subseteq objs'
  <2>1. keptMerge[p] = rows[p].merge /\ rows[p].final = HeadCommit(rows[p].merge.pull, rows[p].merge.head)
    BY <1>0, <1>4 DEF MergeInv, WorkInv, ObjectInv
  <2>2. {rows[p].final, rows[p].merge} \subseteq objs
    BY <1>4 DEF MergeInv, ObjectInv, MergesStayWhole
  <2> QED BY <1>2, <1>3, <2>1, <2>2
<1>5. Pending = {}
  BY <1>0 DEF MergeInv, WorkInv
<1>6. JournalInv' /\ Pending' = {}
  BY <1>0, <1>5, JournalFrame DEF MergeInv
<1>7. \A p \in Pull : kept[p] \in objs' /\ (heads[p] # 0 => HeadCommit(p, heads[p]) \in objs')
  BY <1>2, <1>3 DEF MergeInv, ObjectInv
<1>8. ObjectInv'
  BY <1>0, <1>1, <1>4, <1>6, <1>7, FreeTyped DEF MergeInv, ObjectInv, MergesStayWhole
<1>9. NoChild \in [id : 0..MaxIntents, at : {"none", "run", "held", "committed", "failed"}] /\ NoChild.at = "none"
  BY MergeAssumption DEF NoChild
<1>10. Typed'
  BY <1>0, <1>1, <1>2, <1>9, FreeTyped DEF MergeInv, Typed
<1>11. WorkInv' /\ ChildInv'
  BY <1>1, <1>6, <1>9, FreeTyped DEF WorkInv, ChildInv
<1> QED BY <1>6, <1>8, <1>10, <1>11 DEF MergeInv

\* A push: it never touches the database, the gate, or a merge's update-ref.
LEMMA PushFrame ==
    ASSUME MergeInv, UNCHANGED <<marker, keptMerge, rows, journal, server, worker, child, moved, made>>,
           objs \subseteq objs', objs' \subseteq GitCommit,
           locked' \in {"none", "publish", "push", "stale"},
           receive' \in [ref : Pull \cup {"base", "none"}, old : Nat, new : Nat, at : {"none", "run", "keep", "held"}],
           receive'.ref \in Pull => receive'.new \in 0..MaxHeads,
           heads' \in [Pull -> 0..MaxHeads], lastHead' \in [Pull -> 0..MaxHeads],
           \A p \in Pull : heads'[p] # 0 => HeadCommit(p, heads'[p]) \in objs',
           kept' \in [Pull -> GitCommit], \A p \in Pull : kept'[p] \in objs',
           base' \in BaseTip, base'.has \subseteq base.has,
           rewritten' \in BOOLEAN, rewritten => rewritten', ~rewritten' => base'.has = base.has,
           receives' \in 0..MaxReceives
    PROVE  MergeInv'
<1>1. Pending' = Pending
  BY DEF Pending
<1>2. Typed'
  BY DEF MergeInv, Typed
<1>3. JournalInv'
  BY <1>1 DEF MergeInv, JournalInv
<1>4. WorkInv'
  BY <1>1 DEF MergeInv, WorkInv
<1>5. ChildInv'
  BY <1>1 DEF MergeInv, ChildInv
<1>6. ObjectInv'
  BY <1>1 DEF MergeInv, ObjectInv, MergesStayWhole
<1> QED BY <1>2, <1>3, <1>4, <1>5, <1>6 DEF MergeInv

\* What a push leaves as it was.
LEMMA PushTyped ==
    ASSUME MergeInv
    PROVE  /\ base \in BaseTip /\ heads \in [Pull -> 0..MaxHeads] /\ lastHead \in [Pull -> 0..MaxHeads]
           /\ locked \in {"none", "publish", "push", "stale"} /\ objs \subseteq GitCommit
           /\ receive \in [ref : Pull \cup {"base", "none"}, old : Nat, new : Nat, at : {"none", "run", "keep", "held"}]
           /\ receive.ref \in Pull => receive.new \in 0..MaxHeads
           /\ kept \in [Pull -> GitCommit] /\ rewritten \in BOOLEAN /\ receives \in 0..MaxReceives
           /\ \A p \in Pull : kept[p] \in objs /\ (heads[p] # 0 => HeadCommit(p, heads[p]) \in objs)
           /\ NoReceive \in [ref : Pull \cup {"base", "none"}, old : Nat, new : Nat, at : {"none", "run", "keep", "held"}]
           /\ NoReceive.ref \notin Pull
BY MergeAssumption DEF MergeInv, Typed, ObjectInv, NoReceive

LEMMA PushStartsKeeps ==
    ASSUME MergeInv, NEW ref \in Pull \cup {"base"}, NEW new \in Nat, ref \in Pull => new \in 0..MaxHeads,
           PushStarts(ref, new)
    PROVE  MergeInv'
<1>1. /\ UNCHANGED <<base, heads, locked, objs, marker, kept, keptMerge, rows, journal, server, worker, child, moved, rewritten,
                     lastHead, made>>
      /\ receives < MaxReceives /\ receives' = receives + 1
  BY DEF PushStarts, git, db, mergeHist
<1>2. PICK old : old = (IF ref = "base" THEN base.rev ELSE heads[ref]) /\ receive' = [ref |-> ref, old |-> old, new |-> new, at |-> "run"]
  BY DEF PushStarts
<1>3. old \in Nat
  BY <1>2, PushTyped, MergeAssumption DEF BaseTip
<1>4. /\ receive' \in [ref : Pull \cup {"base", "none"}, old : Nat, new : Nat, at : {"none", "run", "keep", "held"}]
      /\ receive'.ref \in Pull => receive'.new \in 0..MaxHeads
  BY <1>2, <1>3
<1>5. receives' \in 0..MaxReceives
  BY <1>1, PushTyped, MergeAssumption
<1> QED BY <1>1, <1>4, <1>5, PushTyped, PushFrame

LEMMA PushBaseKeeps ==
    ASSUME MergeInv, PushBaseLocks \/ PushBaseCommits \/ PushDies
    PROVE  MergeInv'
<1>0. UNCHANGED <<heads, objs, marker, kept, keptMerge, rows, journal, server, worker, child, moved, lastHead, made, receives>>
  BY DEF PushBaseLocks, PushBaseCommits, PushDies, db, mergeHist, mergeBounds
<1>1. CASE PushBaseLocks
  <2>1. receive' = [receive EXCEPT !.at = "held"] /\ locked' = "push" /\ UNCHANGED <<base, rewritten>>
    BY <1>1 DEF PushBaseLocks, mergeHist
  <2>2. /\ receive' \in [ref : Pull \cup {"base", "none"}, old : Nat, new : Nat, at : {"none", "run", "keep", "held"}]
        /\ receive'.ref = receive.ref /\ receive'.new = receive.new
    BY <2>1, PushTyped
  <2> QED BY <1>0, <2>1, <2>2, PushTyped, PushFrame
<1>2. CASE PushBaseCommits
  <2>1. /\ receive' = NoReceive /\ locked' = "none" /\ rewritten' = (rewritten \/ receive.new = 0)
        /\ base' = [rev |-> receives, has |-> IF receive.new = 0 THEN {} ELSE base.has]
    BY <1>2 DEF PushBaseCommits
  <2>2. base' \in BaseTip /\ base'.has \subseteq base.has /\ (receive.new # 0 => base'.has = base.has)
    <3>1. receives \in 0..(MaxReceives + MaxMade) /\ base.has \in SUBSET GitCommit
      BY PushTyped, MergeAssumption DEF BaseTip
    <3> QED BY <2>1, <3>1 DEF BaseTip
  <2>3. rewritten' \in BOOLEAN /\ (rewritten => rewritten') /\ (~rewritten' => receive.new # 0)
    BY <2>1, PushTyped
  <2> QED BY <1>0, <2>1, <2>2, <2>3, PushTyped, PushFrame
<1>3. CASE PushDies
  <2>1. receive' = NoReceive /\ locked' \in {locked, "none", "stale"} /\ UNCHANGED <<base, rewritten>>
    BY <1>3 DEF PushDies, mergeHist
  <2> QED BY <1>0, <2>1, PushTyped, PushFrame
<1> QED BY <1>1, <1>2, <1>3

LEMMA PushHeadKeeps ==
    ASSUME MergeInv, NEW p \in Pull, PushHeadHook(p) \/ PushHeadRetains(p) \/ PushHeadCommits(p)
    PROVE  MergeInv'
<1>0. UNCHANGED <<base, locked, marker, keptMerge, rows, journal, server, worker, child, moved, rewritten, made, receives>>
  BY DEF PushHeadHook, PushHeadRetains, PushHeadCommits, git, db, mergeHist, mergeBounds
<1>1. CASE PushHeadHook(p) \/ PushHeadRetains(p)
  <2>1. /\ receive' \in {[receive EXCEPT !.at = "keep"], [receive EXCEPT !.at = "held"]} /\ UNCHANGED <<heads, objs, lastHead>>
        /\ kept' = kept \/ (kept' = [kept EXCEPT ![p] = HeadCommit(p, receive.old)] /\ HeadCommit(p, receive.old) \in objs)
    BY <1>1 DEF PushHeadHook, PushHeadRetains, git, mergeHist
  <2>2. /\ receive' \in [ref : Pull \cup {"base", "none"}, old : Nat, new : Nat, at : {"none", "run", "keep", "held"}]
        /\ receive'.ref = receive.ref /\ receive'.new = receive.new
    BY <2>1, PushTyped
  <2>3. kept' \in [Pull -> GitCommit] /\ \A q \in Pull : kept'[q] \in objs
    BY <2>1, PushTyped
  <2> QED BY <1>0, <2>1, <2>2, <2>3, PushTyped, PushFrame
<1>2. CASE PushHeadCommits(p)
  <2> PICK new \in 0..MaxHeads : new = receive.new
    BY <1>2, PushTyped DEF PushHeadCommits
  <2>1. /\ receive' = NoReceive /\ UNCHANGED kept
        /\ heads' = [heads EXCEPT ![p] = new]
        /\ objs' = IF new = 0 THEN objs ELSE objs \cup {HeadCommit(p, new)}
        /\ lastHead' = IF new = 0 THEN lastHead ELSE [lastHead EXCEPT ![p] = new]
    BY <1>2 DEF PushHeadCommits
  <2>2. new # 0 => HeadCommit(p, new) \in GitCommit
    BY MergeAssumption DEF HeadCommit, GitCommit
  <2>3. /\ heads' \in [Pull -> 0..MaxHeads] /\ lastHead' \in [Pull -> 0..MaxHeads]
        /\ objs \subseteq objs' /\ objs' \subseteq GitCommit
    BY <2>1, <2>2, PushTyped
  <2>4. \A q \in Pull : heads'[q] # 0 => HeadCommit(q, heads'[q]) \in objs'
    BY <2>1, PushTyped
  <2>5. \A q \in Pull : kept'[q] \in objs'
    BY <2>1, <2>3, PushTyped
  <2> QED BY <1>0, <2>1, <2>3, <2>4, <2>5, PushTyped, PushFrame
<1> QED BY <1>1, <1>2

-----------------------------------------------------------------------------
(* The invariant                                                            *)

LEMMA InitMergeInv == MergeInit => MergeInv
<1> SUFFICES ASSUME MergeInit PROVE MergeInv
  OBVIOUS
<1>0. /\ DOMAIN journal = {} /\ Pending = {} /\ 1 \in 0..MaxHeads /\ 0 \in 0..MaxMade /\ 0 \in 0..MaxIntents
      /\ 0 \in 0..(MaxReceives + MaxMade) /\ 0 \in 0..MaxReceives /\ 1..0 = {}
  BY MergeAssumption DEF MergeInit, Pending
<1>1. \A p \in Pull : HeadCommit(p, 1) \in GitCommit /\ HeadCommit(p, 1) \in objs
  BY <1>0, MergeAssumption DEF HeadCommit, GitCommit, MergeInit
<1>2. \A p \in Pull : rows[p] \in PullRow /\ rows[p].state = "open" /\ rows[p].gone = FALSE /\ heads[p] = 1 /\ kept[p] = HeadCommit(p, 1)
  BY <1>1 DEF MergeInit, PullRow
<1>3. Typed
  <2>1. base \in BaseTip /\ base.has = {}
    BY <1>0 DEF MergeInit, BaseTip
  <2>2. objs \in SUBSET GitCommit
    BY <1>1 DEF MergeInit
  <2>3. \E k \in 0..MaxIntents : DOMAIN journal = 1..k
    BY <1>0
  <2>4. heads \in [Pull -> 0..MaxHeads] /\ lastHead \in [Pull -> 0..MaxHeads] /\ kept \in [Pull -> GitCommit]
        /\ keptMerge \in [Pull -> GitCommit \cup {NoCommit}] /\ rows \in [Pull -> PullRow]
    BY <1>0, <1>1, <1>2 DEF MergeInit
  <2>5. child \in [id : 0..MaxIntents, at : {"none", "run", "held", "committed", "failed"}]
        /\ receive \in [ref : Pull \cup {"base", "none"}, old : Nat, new : Nat, at : {"none", "run", "keep", "held"}]
        /\ receive.ref \notin Pull
    BY <1>0, MergeAssumption DEF MergeInit, NoChild, NoReceive
  <2> QED BY <1>0, <2>1, <2>2, <2>3, <2>4, <2>5, FreeTyped DEF MergeInit, Typed
<1>4. JournalInv
  BY <1>0 DEF MergeInit, JournalInv
<1>5. WorkInv
  BY <1>0, FreeTyped DEF MergeInit, WorkInv
<1>6. ChildInv
  BY DEF MergeInit, ChildInv, NoChild
<1>7. ObjectInv
  BY <1>0, <1>1, <1>2, FreeTyped DEF MergeInit, ObjectInv, MergesStayWhole
<1> QED BY <1>3, <1>4, <1>5, <1>6, <1>7 DEF MergeInv

LEMMA StutterMergeInv == MergeInv /\ UNCHANGED mergeVars => MergeInv'
<1> SUFFICES ASSUME MergeInv, UNCHANGED mergeVars PROVE MergeInv'
  OBVIOUS
<1>1. UNCHANGED <<base, heads, locked, objs, marker, kept, keptMerge, rows, journal, server, worker, child, receive, moved,
                  rewritten, lastHead, made, receives>> /\ Pending' = Pending
  BY DEF mergeVars, git, db, mergeHist, mergeBounds, Pending
<1>2. Typed'
  BY <1>1 DEF MergeInv, Typed
<1>3. JournalInv'
  BY <1>1 DEF MergeInv, JournalInv
<1>4. WorkInv'
  BY <1>1 DEF MergeInv, WorkInv
<1>5. ChildInv'
  BY <1>1 DEF MergeInv, ChildInv
<1>6. ObjectInv'
  BY <1>1 DEF MergeInv, ObjectInv, MergesStayWhole
<1> QED BY <1>2, <1>3, <1>4, <1>5, <1>6 DEF MergeInv

\* Where a head can be pushed to.
LEMMA NextHeadTyped == \A p \in Pull : NextHead(p) \subseteq 0..MaxHeads /\ NextHead(p) \subseteq Nat
BY MergeAssumption DEF NextHead

LEMMA NextMergeInv == MergeInv /\ [MergeNext]_mergeVars => MergeInv'
<1> SUFFICES ASSUME MergeInv, MergeNext PROVE MergeInv'
  BY StutterMergeInv
<1>1. CASE \E op \in GateOp \ {"boot"}, p \in Pull \cup {NoPull} : TakeGate(op, p)
  BY <1>1, TakeGateKeeps
<1>2. CASE GateStep
  BY <1>2, SettleKeeps, LookKeeps, LookAgainKeeps, MarkKeeps, RetainKeeps, FinalizeKeeps, UnmarkKeeps, MergeAttemptsKeeps,
     JudgeKeeps, PublishEndsKeeps, PatchCloseKeeps, PatchReopenKeeps, SyncListKeeps, SyncTakesUpKeeps, SyncWritesKeeps,
     DeleteBranchKeeps, DropReceiptsKeeps, RepairKeeps, VerifyKeeps, PruneKeeps DEF GateStep
<1>3. CASE Publish
  BY <1>3, PublishPreparesKeeps, PublishCommitsKeeps DEF Publish
<1>4. CASE ReceivePack
  BY <1>4, PushBaseKeeps, PushHeadKeeps DEF ReceivePack
<1>5. CASE \E new \in {0, 1} : PushStarts("base", new)
  BY <1>5, PushStartsKeeps, MergeAssumption
<1>6. CASE \E p \in Pull : \E new \in NextHead(p) : PushStarts(p, new)
  BY <1>6, PushStartsKeeps, NextHeadTyped
<1>7. CASE ServerDies \/ ServerStarts
  BY <1>7, ServerDiesKeeps, ServerStartsKeeps
<1> QED BY <1>1, <1>2, <1>3, <1>4, <1>5, <1>6, <1>7 DEF MergeNext

\* The inductive invariant holds of every state the forge's merge machinery can
\* reach, for any number of pull requests, intents, pushes and server deaths.
THEOREM MergeInvariant == MergeSpec => []MergeInv
<1>1. MergeInit => MergeInv
  BY InitMergeInv
<1>2. MergeInv /\ [MergeNext]_mergeVars => MergeInv'
  BY NextMergeInv
<1> QED BY <1>1, <1>2, PTL DEF MergeSpec

\* The type invariant of the forge's merge tables, refs and gate.
THEOREM MergeTypeCorrect == MergeSpec => []MergeTypeOK
<1>1. MergeInv => MergeTypeOK
  <2> SUFFICES ASSUME MergeInv PROVE MergeTypeOK
    OBVIOUS
  <2>1. DOMAIN journal \subseteq 1..MaxIntents
    BY PendingTyped DEF MergeInv, IntentSet
  <2>2. worker # GateFree => worker.op \in GateOp /\ worker.pc \in GatePc
    BY DEF MergeInv, WorkInv, Typed, Gate
  <2>3. child # NoChild => child.id \in DOMAIN journal
    BY DEF MergeInv, ChildInv, Pending
  <2> QED BY <2>1, <2>2, <2>3 DEF MergeInv, Typed, MergeTypeOK
<1> QED BY <1>1, MergeInvariant, PTL

\* merges.rs: no retry, recovery or second request puts another merge of a pull
\* request on a base that still holds the first.
THEOREM NothingIsMergedTwice == MergeSpec => []MergedOnce
<1>1. MergeInv => MergedOnce
  <2> SUFFICES ASSUME MergeInv, NEW m \in moved, NEW n \in moved, ~rewritten, m.pull = n.pull PROVE m = n
    BY DEF MergedOnce
  <2>1. /\ \/ rows[m.pull].state = "merged" /\ rows[m.pull].merge = m
           \/ \E i \in Pending : journal[i].merge = m
        /\ \/ rows[n.pull].state = "merged" /\ rows[n.pull].merge = n
           \/ \E i \in Pending : journal[i].merge = n
    BY DEF MergeInv, JournalInv
  <2>2. \A i \in Pending : rows[journal[i].merge.pull].state = "open"
    BY DEF MergeInv, JournalInv, Pending
  <2>3. \A i, j \in Pending : i = j
    BY DEF MergeInv, JournalInv
  <2> QED BY <2>1, <2>2, <2>3
<1> QED BY <1>1, MergeInvariant, PTL

\* maintenance.rs: no prune takes the merge commit or the final head of a merged
\* pull request, nor those of a merge that is still pending, although pushes move
\* branches and retained heads between verify_roots, pending_checked and git prune.
THEOREM PruneSparesMerges == MergeSpec => []MergesStayWhole
<1>1. MergeInv => MergesStayWhole
  BY DEF MergeInv, ObjectInv
<1> QED BY <1>1, MergeInvariant, PTL

-----------------------------------------------------------------------------
(* The journaled merge implements PullRequests                              *)

\* What a pull request's status is, with the one intent there can be.
LEMMA StatusIs ==
    ASSUME MergeInv
    PROVE  /\ Pending = {} => \A p \in Pull : Status[p] = rows[p].state
           /\ \A i \in Pending : \A p \in Pull :
                  Status[p] = IF p = journal[i].pull /\ journal[i].merge \in moved THEN "landed" ELSE rows[p].state
<1>1. \A i, j \in Pending : i = j
  BY DEF MergeInv, JournalInv
<1> QED BY <1>1 DEF Status

\* The same, after a step.
LEMMA StatusNext ==
    ASSUME MergeInv'
    PROVE  /\ Pending' = {} => \A p \in Pull : Status'[p] = rows'[p].state
           /\ \A i \in Pending' : \A p \in Pull :
                  Status'[p] = IF p = journal'[i].pull /\ journal'[i].merge \in moved' THEN "landed" ELSE rows'[p].state
<1>1. \A i, j \in Pending' : i = j
  BY DEF MergeInv, JournalInv
<1> QED BY <1>1 DEF Status

LEMMA StatusSame ==
    ASSUME \A p \in Pull : Status'[p] = Status[p]
    PROVE  Status' = Status
BY DEF Status

LEMMA StatusFrame ==
    ASSUME UNCHANGED <<journal, moved>>, \A p \in Pull : rows'[p].state = rows[p].state
    PROVE  Status' = Status
BY DEF Status, Pending

LEMMA StatusBecomes ==
    ASSUME NEW p \in Pull, NEW from, NEW to, Status[p] = from, Status'[p] = to,
           \A q \in Pull : q # p => Status'[q] = Status[q], UNCHANGED rewritten
    PROVE  PR!Become(p, from, to)
<1>1. Status' = [Status EXCEPT ![p] = to]
  BY DEF Status
<1> QED BY <1>1 DEF PR!Become

\* The update-ref commits: the pull request lands.
LEMMA PublishLands ==
    ASSUME MergeInv, MergeInv', PublishCommits
    PROVE  PR!PullNext
<1>1. /\ UNCHANGED <<rows, journal, rewritten>> /\ child.at = "held" /\ child # NoChild
  BY DEF PublishCommits, db, NoChild
<1>2. PICK i \in DOMAIN journal : i = child.id /\ i \in Pending
  BY <1>1 DEF MergeInv, ChildInv, Pending
<1> PICK p \in Pull : p = journal[i].pull
  BY DEF MergeInv, Typed, Intent
<1>3. moved' = moved \cup {journal[i].merge} /\ journal[i].merge \notin moved /\ rows[p].state = "open" /\ i \in Pending'
  BY <1>1, <1>2 DEF PublishCommits, MergeInv, ChildInv, JournalInv, Pending
<1>4. Status[p] = "open" /\ \A q \in Pull : Status[q] = rows[q].state
  BY <1>2, <1>3, StatusIs
<1>5. Status'[p] = "landed" /\ \A q \in Pull : q # p => Status'[q] = rows[q].state
  BY <1>1, <1>3, StatusNext
<1> QED BY <1>1, <1>4, <1>5, StatusBecomes DEF PR!PullNext, PR!Land

\* finalize_rows: what landed is merged.
LEMMA FinalizeRecords ==
    ASSUME MergeInv, MergeInv', Finalize
    PROVE  PR!PullNext
<1>0. /\ worker.pc = "finalize" /\ worker.todo # {} /\ worker.todo = Pending
      /\ UNCHANGED <<moved, rewritten>> /\ \A j \in worker.todo : journal[j].merge \in moved
  BY DEF Finalize, mergeHist, MergeInv, WorkInv
<1> PICK i \in DOMAIN journal : i = Oldest(worker.todo)
  BY <1>0, TheIntent
<1>1. i \in Pending /\ Pending = {i}
  BY <1>0, TheIntent
<1> PICK p \in Pull : p = journal[i].pull
  BY DEF MergeInv, Typed, Intent
<1>2. rows[p].state = "open"
  BY <1>1 DEF MergeInv, JournalInv
<1>3. /\ journal' = [journal EXCEPT ![i].state = "done"]
      /\ rows'[p].state = "merged" /\ \A q \in Pull : q # p => rows'[q] = rows[q]
  BY <1>2 DEF Finalize, MergeInv, Typed
<1>4. Pending' = {}
  BY <1>1, <1>3 DEF Pending, MergeInv, Typed, Intent
<1>5. Status[p] = "landed" /\ \A q \in Pull : q # p => Status[q] = rows[q].state
  BY <1>0, <1>1, StatusIs
<1>6. Status'[p] = "merged" /\ \A q \in Pull : q # p => Status'[q] = rows[q].state
  BY <1>3, <1>4, StatusNext
<1> QED BY <1>0, <1>5, <1>6, StatusBecomes DEF PR!PullNext, PR!Record

\* An abort, or a retry that takes the intent over: only a rewritten base can
\* have lost what landed.
LEMMA IntentGone ==
    ASSUME MergeInv, MergeInv', NEW i \in Pending, journal[i].merge \in moved => rewritten,
           UNCHANGED <<rows, moved, rewritten>>, \A j \in Pending' : journal'[j].merge \notin moved
    PROVE  PR!PullNext \/ UNCHANGED PR!pullVars
<1> PICK p \in Pull : p = journal[i].pull
  BY DEF MergeInv, Typed, Intent, Pending
<1>1. rows[p].state = "open"
  BY DEF MergeInv, JournalInv
<1>2. \A q \in Pull : Status'[q] = rows[q].state
  BY StatusNext
<1>3. CASE journal[i].merge \in moved
  <2>1. Status[p] = "landed" /\ \A q \in Pull : q # p => Status[q] = rows[q].state
    BY <1>3, StatusIs
  <2>2. PR!Become(p, "landed", "open")
    BY <1>1, <1>2, <2>1, StatusBecomes
  <2> QED BY <1>3, <2>2 DEF PR!PullNext, PR!Lose
<1>4. CASE journal[i].merge \notin moved
  <2>1. \A q \in Pull : Status[q] = rows[q].state
    BY <1>4, StatusIs
  <2> QED BY <1>2, <2>1, StatusSame DEF PR!pullVars
<1> QED BY <1>3, <1>4

LEMMA LookAgainRefines ==
    ASSUME MergeInv, MergeInv', LookAgain
    PROVE  PR!PullNext \/ UNCHANGED PR!pullVars
<1> DEFINE i == Oldest(worker.todo)
<1>0. /\ worker.pc = "look" /\ worker.todo # {} /\ worker.todo = Pending /\ UNCHANGED <<rows, moved, rewritten>>
  BY DEF LookAgain, mergeHist, MergeInv, WorkInv
<1>1. i \in Pending /\ Pending = {i} /\ i \in DOMAIN journal
  BY <1>0, TheIntent
<1>2. CASE IsLanded(i)
  <2>1. UNCHANGED journal
    BY <1>2 DEF LookAgain
  <2> QED BY <1>0, <2>1, StatusFrame DEF PR!pullVars
<1>3. CASE ~IsLanded(i)
  <2>1. journal' = [journal EXCEPT ![i].state = "aborted"]
    BY <1>3 DEF LookAgain
  <2>2. journal[i].merge \in moved => rewritten
    BY <1>1, <1>3, Landed
  <2> HIDE DEF i
  <2>3. Pending' = {}
    BY <1>1, <2>1 DEF Pending, MergeInv, Typed, Intent
  <2> QED BY <1>0, <1>1, <2>2, <2>3, IntentGone
<1> QED BY <1>2, <1>3

LEMMA MergeAttemptsRefines ==
    ASSUME MergeInv, MergeInv', MergeAttempts
    PROVE  PR!PullNext \/ UNCHANGED PR!pullVars
<1>0. /\ worker.pc = "attempt" /\ worker.todo = Pending /\ UNCHANGED <<rows, moved, rewritten>>
      /\ \A i \in worker.todo : ~rewritten => journal[i].merge \notin moved
      /\ child'.at = "run"
  BY DEF MergeAttempts, mergeHist, MergeInv, WorkInv
<1>1. \A j \in Pending' : journal'[j].merge \notin moved
  <2>1. child' # NoChild /\ \A i, j \in Pending' : i = j
    BY <1>0 DEF NoChild, MergeInv, JournalInv
  <2>2. child'.id \in Pending' /\ journal'[child'.id].merge \notin moved'
    BY <1>0, <2>1 DEF MergeInv, ChildInv
  <2> QED BY <1>0, <2>1, <2>2
<1>2. CASE Pending = {}
  <2>1. \A q \in Pull : Status[q] = rows[q].state
    BY <1>2, StatusIs
  <2>2. \A q \in Pull : Status'[q] = rows[q].state
    BY <1>0, <1>1, StatusNext
  <2> QED BY <1>0, <2>1, <2>2, StatusSame DEF PR!pullVars
<1>3. CASE Pending # {}
  <2>1. PICK i \in Pending : TRUE
    BY <1>3
  <2>2. journal[i].merge \in moved => rewritten
    BY <1>0, <2>1
  <2> QED BY <1>0, <1>1, <2>2, IntentGone
<1> QED BY <1>2, <1>3

\* A row is closed or opened, by PATCH or by a sync, with nothing pending.
LEMMA RowRefines ==
    ASSUME MergeInv, MergeInv', PatchClose \/ PatchReopen \/ SyncSaves \/ SyncCloses
    PROVE  PR!PullNext \/ UNCHANGED PR!pullVars
<1>0. /\ UNCHANGED <<journal, moved, rewritten>> /\ worker.pc \in {"patch", "keep", "save", "follow", "close"}
  BY DEF PatchClose, PatchReopen, SyncSaves, SyncCloses, mergeHist
<1>1. Pending = {} /\ Pending' = {}
  BY <1>0 DEF MergeInv, WorkInv, Pending
<1>2. (\A q \in Pull : Status[q] = rows[q].state) /\ \A q \in Pull : Status'[q] = rows'[q].state
  BY <1>1, StatusIs, StatusNext
<1>3. rows \in [Pull -> PullRow]
  BY DEF MergeInv, Typed
<1>4. \/ \A q \in Pull : rows'[q].state = rows[q].state
      \/ \E p \in Pull :
            /\ \A q \in Pull : q # p => rows'[q] = rows[q]
            /\ \/ rows[p].state = "open" /\ rows'[p].state = "closed"
               \/ rows[p].state = "closed" /\ rows'[p].state = "open"
  <2>1. CASE PatchClose
    <3>1. worker.pull \in Pull /\ (worker.pc = "save" => rows[worker.pull].state = "open")
      <4>1. worker.pc \in {"patch", "keep", "save"}
        BY <2>1 DEF PatchClose
      <4> QED BY <4>1 DEF MergeInv, WorkInv
    <3> PICK p \in Pull : p = worker.pull
      BY <3>1
    <3>2. CASE worker.pc # "save"
      BY <2>1, <3>2 DEF PatchClose
    <3>3. CASE worker.pc = "save"
      <4>1. PICK at : rows' = [rows EXCEPT ![p].state = "closed", ![p].head = at, ![p].final = at]
        BY <2>1, <3>3 DEF PatchClose
      <4>2. rows'[p].state = "closed" /\ \A q \in Pull : q # p => rows'[q] = rows[q]
        BY <1>3, <4>1 DEF PullRow
      <4> QED BY <3>1, <3>3, <4>2
    <3> QED BY <3>2, <3>3
  <2>2. CASE PatchReopen
    <3>1. worker.pull \in Pull
      BY <2>2 DEF MergeInv, WorkInv, PatchReopen
    <3>2. /\ rows[worker.pull].state = "closed"
          /\ \E g, f : rows' = [rows EXCEPT ![worker.pull].state = "open", ![worker.pull].final = f, ![worker.pull].gone = g]
      BY <2>2 DEF PatchReopen
    <3> QED BY <1>3, <3>1, <3>2 DEF PullRow
  <2>3. CASE SyncSaves
    <3>1. \E tip : rows' = [rows EXCEPT ![worker.pull].head = tip, ![worker.pull].gone = FALSE]
      BY <2>3 DEF SyncSaves
    <3> QED BY <1>3, <3>1 DEF PullRow
  <2>4. CASE SyncCloses
    <3>1. worker.pull \in Pull /\ rows[worker.pull].state = "open"
      BY <2>4 DEF SyncCloses, MergeInv, WorkInv
    <3> PICK p \in Pull : p = worker.pull
      BY <3>1
    <3>2. \E at : rows' = [rows EXCEPT ![p].state = "closed", ![p].head = at, ![p].final = at]
      BY <2>4 DEF SyncCloses
    <3>3. rows'[p].state = "closed" /\ \A q \in Pull : q # p => rows'[q] = rows[q]
      BY <1>3, <3>2 DEF PullRow
    <3> QED BY <3>1, <3>3
  <2> QED BY <2>1, <2>2, <2>3, <2>4
<1>5. CASE \A q \in Pull : rows'[q].state = rows[q].state
  BY <1>0, <1>2, <1>5, StatusSame DEF PR!pullVars
<1>6. ASSUME NEW p \in Pull, \A q \in Pull : q # p => rows'[q] = rows[q],
             \/ rows[p].state = "open" /\ rows'[p].state = "closed"
             \/ rows[p].state = "closed" /\ rows'[p].state = "open"
      PROVE  PR!PullNext
  <2>1. PR!Become(p, "open", "closed") \/ PR!Become(p, "closed", "open")
    BY <1>0, <1>2, <1>6, StatusBecomes
  <2> QED BY <2>1 DEF PR!PullNext, PR!Close, PR!Reopen
<1> QED BY <1>4, <1>5, <1>6

\* A push can only rewrite the base.
LEMMA PushRefines ==
    ASSUME MergeInv, ReceivePack
    PROVE  PR!PullNext \/ UNCHANGED PR!pullVars
<1>0. rewritten \in BOOLEAN
  BY DEF MergeInv, Typed
<1>1. UNCHANGED <<journal, moved, rows>> /\ (rewritten' = rewritten \/ rewritten' = TRUE)
  BY <1>0 DEF ReceivePack, PushBaseLocks, PushBaseCommits, PushDies, PushHeadHook, PushHeadRetains,
     PushHeadCommits, git, db, mergeHist
<1>2. Status' = Status
  BY <1>1, StatusFrame
<1> QED BY <1>1, <1>2 DEF PR!PullNext, PR!Rewrite, PR!pullVars

\* Everything else leaves the journal, the rows' states and the base's history alone.
LEMMA OthersStutter ==
    ASSUME \/ Settle \/ Look \/ CannotTell \/ CheckLock \/ Mark \/ Retain \/ FinalizeFails \/ Unmark
           \/ MergeRefuses \/ PublishEnds \/ PublishTimesOut \/ Judge \/ MergeRetries \/ PatchRefuses \/ SyncLists \/ SyncEnds
           \/ (\E p \in Pull : SyncFollows(p) \/ SyncRereads(p) \/ SyncSkips(p)) \/ SyncRewrites
           \/ DeleteBranch \/ DeleteRefused \/ DropReceipts \/ Repair \/ VerifyRoots \/ NothingPending \/ MaintainSkips
           \/ Prune \/ CleanRepo \/ PublishPrepares \/ (\E op \in GateOp, p \in Pull \cup {NoPull} : TakeGate(op, p))
           \/ (\E ref, new : PushStarts(ref, new)) \/ ServerDies \/ ServerStarts \/ UNCHANGED mergeVars
    PROVE  UNCHANGED PR!pullVars
<1>1. UNCHANGED <<journal, moved, rows, rewritten>>
  BY DEF Settle, Look, CannotTell, CheckLock, Mark, Retain, FinalizeFails, Unmark, MergeRefuses, PublishEnds, PublishTimesOut,
     Judge, MergeRetries, PatchRefuses, SyncLists, SyncEnds, SyncFollows, SyncRereads, SyncSkips, SyncRewrites, DeleteBranch,
     DeleteRefused, DropReceipts, Repair, VerifyRoots, NothingPending, MaintainSkips, Prune, CleanRepo, PublishPrepares, TakeGate, PushStarts, ServerDies, ServerStarts, mergeVars, db, mergeHist
<1>2. Status' = Status
  BY <1>1, StatusFrame
<1> QED BY <1>1, <1>2 DEF PR!pullVars

LEMMA MergeStepRefines == MergeInv /\ MergeInv' /\ [MergeNext]_mergeVars => [PR!PullNext]_(PR!pullVars)
<1> SUFFICES ASSUME MergeInv, MergeInv', MergeNext \/ UNCHANGED mergeVars PROVE PR!PullNext \/ UNCHANGED PR!pullVars
  OBVIOUS
<1>1. CASE Publish
  BY <1>1, PublishLands, OthersStutter DEF Publish
<1>2. CASE ReceivePack
  BY <1>2, PushRefines
<1>3. CASE GateStep
  BY <1>3, FinalizeRecords, LookAgainRefines, MergeAttemptsRefines, RowRefines, OthersStutter DEF GateStep
<1>4. CASE UNCHANGED mergeVars \/ ServerDies \/ ServerStarts
  BY <1>4, OthersStutter
<1>5. CASE \E op \in GateOp \ {"boot"}, p \in Pull \cup {NoPull} : TakeGate(op, p)
  BY <1>5, OthersStutter
<1>6. CASE (\E new \in {0, 1} : PushStarts("base", new)) \/ \E p \in Pull : \E new \in NextHead(p) : PushStarts(p, new)
  BY <1>6, OthersStutter
<1> QED BY <1>1, <1>2, <1>3, <1>4, <1>5, <1>6 DEF MergeNext

\* The journaled merge, with its crashes, retries and git children, implements
\* the merge the endpoint promises: each of its steps is one of PullRequests,
\* or leaves the pull requests' status as it was.
THEOREM MergesAsPromised == MergeSpec => MergesLikePromised
<1>1. MergeInit => PR!PullInit
  <2> SUFFICES ASSUME MergeInit PROVE PR!PullInit
    OBVIOUS
  <2>1. Pending = {}
    BY DEF MergeInit, Pending
  <2>2. \A p \in Pull : Status[p] = "open"
    BY <2>1 DEF Status, MergeInit
  <2> QED BY <2>2 DEF PR!PullInit, MergeInit, Status
<1>2. MergeInv /\ MergeInv' /\ [MergeNext]_mergeVars => [PR!PullNext]_(PR!pullVars)
  BY MergeStepRefines
<1> QED BY <1>1, <1>2, MergeInvariant, PTL DEF MergeSpec, MergesLikePromised, PR!PullSpec

-----------------------------------------------------------------------------
(* A stale sync and a newer retained head                                    *)

\* What the gate's holder listed is what it goes on with: it forgets it, or reads
\* the refs again, and never comes to write on another way; while it writes it
\* rereads only what is kept of branches that are gone.
ListsStay ==
    /\ \A p \in Pull : /\ worker'.heads[p] \in {0, worker.heads[p], heads[p]}
                       /\ worker'.kept[p].head \in {0, worker.kept[p].head, kept[p].head}
    /\ worker'.pc \in {"write", "follow", "rewrite", "close"} =>
          /\ worker.pc \in {"write", "follow", "rewrite", "close"} /\ worker'.heads = worker.heads
          /\ \A p \in Pull : worker.heads[p] # 0 => worker'.kept[p] = worker.kept[p]

LEMMA FreeLists == ASSUME worker' = GateFree PROVE ListsStay
BY FreeTyped DEF ListsStay

LEMMA SameLists ==
    ASSUME worker'.heads \in {worker.heads, heads}, worker'.kept \in {worker.kept, kept},
           worker'.pc \notin {"write", "follow", "rewrite", "close"}
    PROVE  ListsStay
BY DEF ListsStay

LEMMA ReleaseLists == ASSUME Release PROVE ListsStay
BY FreeLists DEF Release

LEMMA GotoLists ==
    ASSUME MergeInv, NEW pc \in GatePc, pc \notin {"write", "follow", "rewrite", "close"}, GateTo(pc)
    PROVE  ListsStay
BY Goto, SameLists

LEMMA SettleLists ==
    ASSUME MergeInv, NEW S, NEW n, worker' = [worker EXCEPT !.pc = "settle", !.pass = n, !.todo = S]
    PROVE  ListsStay
BY SameLists DEF MergeInv, Typed, Gate

LEMMA AnswerLists == ASSUME MergeInv, AnswerMerge \/ SyncNext PROVE ListsStay
BY SettleLists, ReleaseLists DEF AnswerMerge, SyncNext

LEMMA GateLists ==
    ASSUME MergeInv, GateStep, ~SyncLists
    PROVE  ListsStay
<1>0. worker \in Gate
  BY DEF MergeInv, Typed
<1>1. CASE Settle
  <2> DEFINE next == AfterSettle(Pending # {})
  <2>1. next \notin {"write", "follow", "rewrite", "close"}
    BY DEF AfterSettle
  <2>2. CASE next = "idle"
    BY <1>1, <2>2, ReleaseLists DEF Settle
  <2>3. CASE next # "idle"
    <3>1. worker' = [worker EXCEPT !.pc = next, !.pass = IF next = "attempt" THEN 2 ELSE worker.pass]
      BY <1>1, <2>3 DEF Settle
    <3> HIDE DEF next
    <3>2. worker'.pc = next /\ worker'.heads = worker.heads /\ worker'.kept = worker.kept
      BY <1>0, <3>1 DEF Gate
    <3> QED BY <2>1, <3>2, SameLists
  <2> QED BY <2>2, <2>3
<1>2. CASE Look \/ Mark \/ Retain \/ Finalize \/ PublishEnds \/ PublishTimesOut
  <2>1. PICK pc \in GatePc : pc \notin {"write", "follow", "rewrite", "close"} /\ GateTo(pc)
    BY <1>2 DEF Look, Mark, Retain, Finalize, PublishEnds, PublishTimesOut, GatePc
  <2> QED BY <2>1, GotoLists
<1>3. CASE CannotTell \/ PatchRefuses \/ DeleteRefused \/ MaintainSkips \/ Prune \/ CleanRepo
  BY <1>3, ReleaseLists DEF CannotTell, PatchRefuses, DeleteRefused, MaintainSkips, Prune, CleanRepo
<1>4. CASE FinalizeFails \/ MergeRefuses \/ PatchReopen \/ DropReceipts
  BY <1>4, ReleaseLists, AnswerLists DEF FinalizeFails, RecoverFails, MergeRefuses, PatchReopen, DropReceipts
<1>5. CASE CheckLock
  <2>1. worker'.heads = worker.heads /\ worker'.kept = worker.kept /\ worker'.pc \in {"settle", "look"}
    BY <1>0, <1>5 DEF CheckLock, Gate
  <2> QED BY <2>1, SameLists
<1>6. CASE LookAgain
  <2>1. worker'.heads = worker.heads /\ worker'.kept = worker.kept /\ worker'.pc \in {"settle", "mark"}
    BY <1>0, <1>6 DEF LookAgain, GateTo, Gate
  <2> QED BY <2>1, SameLists
<1>7. CASE Unmark
  <2>1. CASE worker.pass = 2
    BY <1>7, <2>1, AnswerLists DEF Unmark
  <2>2. CASE worker.pass # 2
    <3>1. worker'.heads = worker.heads /\ worker'.kept = worker.kept /\ worker'.pc = "settle"
      BY <1>0, <1>7, <2>2 DEF Unmark, Gate
    <3> QED BY <3>1, SameLists
  <2> QED BY <2>1, <2>2
<1>8. CASE MergeAttempts
  <2>1. PICK id : worker' = [worker EXCEPT !.pc = "publish", !.todo = {id}, !.round = worker.round + 1]
    BY <1>8 DEF MergeAttempts
  <2>2. worker'.heads = worker.heads /\ worker'.kept = worker.kept /\ worker'.pc = "publish"
    BY <1>0, <2>1 DEF Gate
  <2> QED BY <2>2, SameLists
<1>9. CASE Judge \/ MergeRetries
  <2>1. AnswerMerge \/ \E pc \in GatePc : pc \notin {"write", "follow", "rewrite", "close"} /\ GateTo(pc)
    BY <1>9 DEF Judge, MergeRetries, GatePc
  <2> QED BY <2>1, AnswerLists, GotoLists
<1>10. CASE PatchClose
  <2>1. SyncNext \/ worker' = [worker EXCEPT !.pc = "keep", !.heads = heads] \/ GateTo("save")
    BY <1>10 DEF PatchClose
  <2>2. CASE worker' = [worker EXCEPT !.pc = "keep", !.heads = heads]
    <3>1. worker'.heads = heads /\ worker'.kept = worker.kept /\ worker'.pc = "keep"
      BY <1>0, <2>2 DEF Gate
    <3> QED BY <3>1, SameLists
  <2> QED BY <2>1, <2>2, AnswerLists, GotoLists DEF GatePc
<1>11. CASE SyncEnds
  BY <1>11, ReleaseLists, GotoLists DEF SyncEnds, GatePc
<1>12. ASSUME NEW p \in Pull, SyncFollows(p) \/ SyncRereads(p) \/ SyncSkips(p) PROVE ListsStay
  <2>1. CASE TakeUp(p, "follow") \/ SyncedOne(p)
    <3>1. worker'.heads = worker.heads /\ worker'.kept = worker.kept
      BY <1>0, <2>1 DEF TakeUp, SyncedOne, Gate
    <3>2. worker.pc \in {"write", "follow", "rewrite", "close"}
      BY <1>12 DEF SyncFollows, SyncRereads, SyncSkips
    <3> QED BY <3>1, <3>2 DEF ListsStay
  <2>2. CASE worker' = [worker EXCEPT !.pc = "rewrite", !.pull = p, !.kept = [@ EXCEPT ![p] = kept[p]]] /\ SyncRereads(p)
    <3>1. worker.pc = "write" /\ worker.heads[p] = 0
      BY <2>2 DEF SyncRereads
    <3> PICK k : k = [worker.kept EXCEPT ![p] = kept[p]]
      OBVIOUS
    <3>2. worker'.heads = worker.heads /\ worker'.kept = k
      BY <1>0, <2>2 DEF Gate
    <3>3. \A q \in Pull : k[q] \in {worker.kept[q], kept[q]} /\ (q # p => k[q] = worker.kept[q])
      BY <1>0 DEF Gate
    <3> QED BY <3>1, <3>2, <3>3 DEF ListsStay
  <2> QED BY <1>12, <2>1, <2>2 DEF SyncFollows, SyncRereads, SyncSkips
<1>13. CASE DeleteBranch
  <2>1. \/ worker' = [worker EXCEPT !.pc = "hold", !.heads = heads, !.round = worker.round + 1]
        \/ GateTo("delete") \/ GateTo("branch") \/ worker' = GateFree
    BY <1>13 DEF DeleteBranch, GateTo
  <2>2. CASE worker' = [worker EXCEPT !.pc = "hold", !.heads = heads, !.round = worker.round + 1]
    <3>1. worker'.heads = heads /\ worker'.kept = worker.kept /\ worker'.pc = "hold"
      BY <1>0, <2>2 DEF Gate
    <3> QED BY <3>1, SameLists
  <2> QED BY <2>1, <2>2, FreeLists, GotoLists DEF GatePc
<1>14. CASE Repair \/ NothingPending
  BY <1>14, ReleaseLists, GotoLists DEF Repair, NothingPending, GatePc
<1>15. CASE VerifyRoots
  <2>1. GateTo("journal") \/ worker' = [worker EXCEPT !.pc = "verify", !.kept = kept]
    BY <1>15 DEF VerifyRoots
  <2>2. CASE worker' = [worker EXCEPT !.pc = "verify", !.kept = kept]
    <3>1. worker'.heads = worker.heads /\ worker'.kept = kept /\ worker'.pc = "verify"
      BY <1>0, <2>2 DEF Gate
    <3> QED BY <3>1, SameLists
  <2> QED BY <2>1, <2>2, GotoLists DEF GatePc
<1>16. CASE SyncSaves \/ SyncRewrites \/ SyncCloses
  <2>1. worker'.heads = worker.heads /\ worker'.kept = worker.kept /\ worker.pc \in {"write", "follow", "rewrite", "close"}
    BY <1>0, <1>16 DEF SyncSaves, SyncRewrites, SyncCloses, SyncedOne, GateTo, Gate
  <2> QED BY <2>1 DEF ListsStay
<1> QED BY <1>1, <1>2, <1>3, <1>4, <1>5, <1>6, <1>7, <1>8, <1>9, <1>10, <1>11, <1>12, <1>13, <1>14, <1>15, <1>16 DEF GateStep

LEMMA NewerGate ==
    ASSUME MergeInv, NewerInv, ListsStay, UNCHANGED lastHead, receive' \in {receive, NoReceive},
           \A p \in Pull : /\ heads'[p] \in {0, heads[p]}
                           /\ kept'[p].head <= lastHead[p]
                           /\ rows'[p].head.head <= lastHead[p] /\ rows'[p].final.head <= lastHead[p],
           \A i \in DOMAIN journal' : journal'[i].merge.head <= lastHead[journal'[i].pull]
    PROVE  NewerInv'
<1>1. \A p \in Pull : lastHead[p] \in Nat /\ heads[p] \in Nat /\ worker.heads[p] \in Nat /\ NoReceive.ref # p
  BY MergeAssumption DEF MergeInv, Typed, Gate, NoReceive
<1>2. ASSUME NEW p \in Pull
      PROVE  /\ heads'[p] \in {0, lastHead[p]} /\ worker'.heads[p] <= lastHead[p] /\ worker'.kept[p].head <= lastHead[p]
             /\ worker'.pc \in {"write", "follow", "rewrite", "close"} /\ worker'.heads[p] # 0 =>
                   worker'.kept[p].head <= worker'.heads[p]
             /\ receive'.ref = p => receive'.old \in {0, lastHead[p]} /\ (receive'.new # 0 => receive'.new > lastHead[p])
  BY <1>1 DEF NewerInv, ListsStay
<1> QED BY <1>2 DEF NewerInv

\* A step of the gate's holder that leaves rows, refs and journal alone.
LEMMA NewerQuiet ==
    ASSUME MergeInv, NewerInv, ListsStay, UNCHANGED <<lastHead, heads, kept, rows, journal>>, receive' \in {receive, NoReceive}
    PROVE  NewerInv'
BY NewerGate DEF NewerInv

\* The numbers a comparison of heads is about.
LEMMA HeadNumbers ==
    ASSUME MergeInv, NEW p \in Pull
    PROVE  /\ lastHead[p] \in Nat /\ heads[p] \in Nat /\ worker.heads[p] \in Nat
           /\ kept[p].head \in Nat /\ worker.kept[p].head \in Nat
<1>1. /\ heads \in [Pull -> 0..MaxHeads] /\ lastHead \in [Pull -> 0..MaxHeads] /\ worker.heads \in [Pull -> 0..MaxHeads]
      /\ kept \in [Pull -> GitCommit] /\ worker.kept \in [Pull -> GitCommit \cup {NoCommit}]
  BY DEF MergeInv, Typed, Gate
<1>2. 0..MaxHeads \subseteq Nat /\ \A c \in GitCommit \cup {NoCommit} : c.head \in Nat
  BY MergeAssumption DEF GitCommit, NoCommit
<1> QED BY <1>1, <1>2

\* What is kept, and what a row names, after one of them is written.
LEMMA KeptPut ==
    ASSUME MergeInv, NewerInv, NEW p \in Pull, NEW c, c.head <= lastHead[p], kept' \in {kept, [kept EXCEPT ![p] = c]}
    PROVE  \A q \in Pull : kept'[q].head <= lastHead[q]
<1>1. kept \in [Pull -> GitCommit]
  BY DEF MergeInv, Typed
<1>2. \A q \in Pull : kept[q].head <= lastHead[q] /\ kept'[q] \in {kept[q], c} /\ (q # p => kept'[q] = kept[q])
  BY <1>1 DEF NewerInv
<1> QED BY <1>2

LEMMA RowPut ==
    ASSUME MergeInv, NewerInv, NEW p \in Pull, NEW r, r.head.head <= lastHead[p], r.final.head <= lastHead[p],
           rows' \in {rows, [rows EXCEPT ![p] = r]}
    PROVE  \A q \in Pull : rows'[q].head.head <= lastHead[q] /\ rows'[q].final.head <= lastHead[q]
<1>1. rows \in [Pull -> PullRow]
  BY DEF MergeInv, Typed
<1>2. \A q \in Pull : /\ rows[q].head.head <= lastHead[q] /\ rows[q].final.head <= lastHead[q]
                      /\ rows'[q] \in {rows[q], r} /\ (q # p => rows'[q] = rows[q])
  BY <1>1 DEF NewerInv
<1> QED BY <1>2

\* An intent that is settled names what it named.
LEMMA IntentMoves ==
    ASSUME MergeInv, NEW i \in DOMAIN journal, NEW st, journal' = [journal EXCEPT ![i].state = st]
    PROVE  \A j \in DOMAIN journal' : j \in DOMAIN journal /\ journal'[j].merge = journal[j].merge /\ journal'[j].pull = journal[j].pull
BY DEF MergeInv, Typed, Intent

LEMMA NewerGateStep ==
    ASSUME MergeInv, NewerInv, GateStep
    PROVE  NewerInv'
<1>0. CASE SyncLists
  <2>0. /\ UNCHANGED <<lastHead, heads, kept, rows, journal, receive>> /\ worker \in Gate
    BY <1>0 DEF SyncLists, git, db, mergeHist, MergeInv, Typed
  <2>1. CASE worker.pc = "kept"
    <3>1. worker'.kept = kept /\ worker'.heads = worker.heads /\ worker'.pc = "heads"
      BY <1>0, <2>0, <2>1 DEF SyncLists, Gate
    <3> QED BY <2>0, <3>1 DEF NewerInv
  <2>2. CASE worker.pc = "heads"
    <3>1. worker'.kept = worker.kept /\ worker'.heads = heads /\ worker'.pc = "write"
      BY <1>0, <2>0, <2>2 DEF SyncLists, Gate
    <3>2. \A p \in Pull : heads[p] <= lastHead[p] /\ (heads[p] # 0 => worker.kept[p].head <= heads[p])
      BY HeadNumbers DEF NewerInv
    <3> QED BY <2>0, <3>1, <3>2 DEF NewerInv
  <2> QED BY <1>0, <2>1, <2>2 DEF SyncLists
<1> SUFFICES ASSUME ~SyncLists PROVE NewerInv'
  BY <1>0
<1>1. ListsStay
  BY GateLists
<1>2. UNCHANGED <<lastHead, receive>>
  BY DEF GateStep, Settle, Look, CannotTell, CheckLock, LookAgain, Mark, Retain, Finalize, FinalizeFails, Unmark, MergeAttempts,
     MergeRefuses, PublishEnds, PublishTimesOut, Judge, MergeRetries, PatchClose, PatchReopen, PatchRefuses, SyncEnds,
     SyncFollows, SyncSaves, SyncRereads, SyncRewrites, SyncCloses, SyncSkips, DeleteBranch, DeleteRefused, DropReceipts,
     Repair, VerifyRoots, NothingPending, MaintainSkips, Prune, CleanRepo, mergeHist
<1>3. CASE \/ Settle \/ Look \/ CannotTell \/ CheckLock \/ Mark \/ FinalizeFails \/ Unmark \/ MergeRefuses
           \/ PublishEnds \/ PublishTimesOut \/ Judge \/ MergeRetries \/ PatchRefuses \/ SyncEnds
           \/ (\E p \in Pull : SyncRereads(p) \/ SyncSkips(p)) \/ DeleteRefused \/ DropReceipts
           \/ VerifyRoots \/ NothingPending \/ MaintainSkips \/ Prune \/ CleanRepo
  <2>1. UNCHANGED <<heads, kept, rows, journal>>
    BY <1>3 DEF Settle, Look, CannotTell, CheckLock, Mark, FinalizeFails, Unmark, MergeRefuses, PublishEnds, PublishTimesOut,
       Judge, MergeRetries, PatchRefuses, SyncEnds, SyncRereads, SyncSkips, DeleteRefused, DropReceipts, VerifyRoots,
       NothingPending, MaintainSkips, Prune, CleanRepo, git, db
  <2> QED BY <1>1, <1>2, <2>1, NewerQuiet
<1>4. CASE LookAgain
  <2>1. UNCHANGED <<heads, kept, rows>>
    BY <1>4 DEF LookAgain, git
  <2> PICK i \in DOMAIN journal : i = Oldest(worker.todo)
    <3>1. worker.todo = Pending /\ worker.todo # {}
      BY <1>4 DEF LookAgain, MergeInv, WorkInv
    <3> QED BY <3>1, TheIntent
  <2>2. journal' = journal \/ journal' = [journal EXCEPT ![i].state = "aborted"]
    BY <1>4 DEF LookAgain
  <2>3. \A j \in DOMAIN journal' : j \in DOMAIN journal /\ journal'[j].merge = journal[j].merge /\ journal'[j].pull = journal[j].pull
    BY <2>2, IntentMoves
  <2> QED BY <1>1, <1>2, <2>1, <2>3, NewerGate DEF NewerInv
<1>5. CASE Retain
  <2>1. UNCHANGED <<heads, rows, journal>> /\ worker.todo = Pending /\ worker.todo # {}
    BY <1>5 DEF Retain, db, MergeInv, WorkInv
  <2> PICK i \in DOMAIN journal : i = Oldest(worker.todo)
    BY <2>1, TheIntent
  <2>2. journal[i].pull \in Pull /\ journal[i].merge.head <= lastHead[journal[i].pull]
    BY DEF MergeInv, Typed, Intent, NewerInv
  <2>3. kept' \in {kept, [kept EXCEPT ![journal[i].pull] = HeadCommit(journal[i].pull, journal[i].merge.head)]}
    BY <1>5 DEF Retain
  <2>4. \A p \in Pull : kept'[p].head <= lastHead[p]
    BY <2>2, <2>3, KeptPut DEF HeadCommit
  <2> QED BY <1>1, <1>2, <2>1, <2>4, NewerGate DEF NewerInv
<1>6. CASE Finalize
  <2>1. UNCHANGED <<heads, kept>> /\ worker.todo = Pending /\ worker.todo # {}
    BY <1>6 DEF Finalize, git, MergeInv, WorkInv
  <2> PICK i \in DOMAIN journal : i = Oldest(worker.todo)
    BY <2>1, TheIntent
  <2> PICK p \in Pull : p = journal[i].pull
    BY DEF MergeInv, Typed, Intent
  <2> PICK m : m = journal[i].merge
    OBVIOUS
  <2>2. m.head <= lastHead[p]
    BY DEF NewerInv
  <2>3. /\ journal' = [journal EXCEPT ![i].state = "done"]
        /\ \/ rows' = rows
           \/ rows' = [rows EXCEPT ![p] = [state |-> "merged", head |-> HeadCommit(p, m.head), final |-> HeadCommit(p, m.head),
                                           merge |-> m, gone |-> FALSE]]
    BY <1>6 DEF Finalize
  <2>4. \A j \in DOMAIN journal' : j \in DOMAIN journal /\ journal'[j].merge = journal[j].merge /\ journal'[j].pull = journal[j].pull
    BY <2>3, IntentMoves
  <2>5. \A q \in Pull : rows'[q].head.head <= lastHead[q] /\ rows'[q].final.head <= lastHead[q]
    BY <2>2, <2>3, RowPut DEF HeadCommit
  <2> QED BY <1>1, <1>2, <2>1, <2>4, <2>5, NewerGate DEF NewerInv
<1>7. CASE MergeAttempts
  <2>1. UNCHANGED <<heads, kept, rows>> /\ worker.pull \in Pull /\ heads[worker.pull] <= lastHead[worker.pull]
    BY <1>7, HeadNumbers DEF MergeAttempts, MergeInv, WorkInv, NewerInv
  <2>2. PICK id, new : /\ journal' = [i \in DOMAIN journal \cup {id} |-> IF i = id THEN new ELSE journal[i]]
                       /\ new.pull = worker.pull /\ new.merge.head = heads[worker.pull]
    BY <1>7 DEF MergeAttempts, MergeCommit
  <2>3. \A i \in DOMAIN journal' : journal'[i].merge.head <= lastHead[journal'[i].pull]
    BY <2>1, <2>2 DEF NewerInv
  <2> QED BY <1>1, <1>2, <2>1, <2>3, NewerGate DEF NewerInv
<1>8. CASE PatchClose
  <2>1. UNCHANGED <<heads, journal>> /\ worker.pull \in Pull
    <3>1. worker.pc \in {"patch", "keep", "save"} /\ UNCHANGED <<heads, journal>>
      BY <1>8 DEF PatchClose
    <3> QED BY <3>1 DEF MergeInv, WorkInv
  <2> PICK p \in Pull : p = worker.pull
    BY <2>1
  <2> PICK at : at = IF worker.heads[p] # 0 THEN HeadCommit(p, worker.heads[p]) ELSE kept[p]
    OBVIOUS
  <2>2. at.head <= lastHead[p]
    BY DEF NewerInv, HeadCommit
  <2>3. /\ kept' \in {kept, [kept EXCEPT ![p] = at]}
        /\ rows' \in {rows, [rows EXCEPT ![p].state = "closed", ![p].head = at, ![p].final = at]}
    BY <1>8 DEF PatchClose
  <2>4. \A q \in Pull : kept'[q].head <= lastHead[q]
    BY <2>2, <2>3, KeptPut
  <2>5. \A q \in Pull : rows'[q].head.head <= lastHead[q] /\ rows'[q].final.head <= lastHead[q]
    <3> PICK r : r = [rows[p] EXCEPT !.state = "closed", !.head = at, !.final = at]
      OBVIOUS
    <3>1. rows' \in {rows, [rows EXCEPT ![p] = r]} /\ r.head = at /\ r.final = at
      <4>1. rows \in [Pull -> PullRow]
        BY DEF MergeInv, Typed
      <4>2. rows' \in {rows, [rows EXCEPT ![p] = r]}
        BY <2>3, <4>1
      <4>3. r.head = at /\ r.final = at
        BY <4>1 DEF PullRow
      <4> QED BY <4>2, <4>3
    <3> QED BY <2>2, <3>1, RowPut
  <2> QED BY <1>1, <1>2, <2>1, <2>4, <2>5, NewerGate DEF NewerInv
<1>9. CASE PatchReopen
  <2>1. UNCHANGED <<heads, kept, journal>> /\ worker.pull \in Pull
    BY <1>9 DEF PatchReopen, git, MergeInv, WorkInv
  <2>2. PICK g : rows' = [rows EXCEPT ![worker.pull].state = "open", ![worker.pull].final = NoCommit, ![worker.pull].gone = g]
    BY <1>9 DEF PatchReopen
  <2>3. \A q \in Pull : NoCommit.head <= lastHead[q]
    BY HeadNumbers DEF NoCommit
  <2>4. \A q \in Pull : rows'[q].head.head <= lastHead[q] /\ rows'[q].final.head <= lastHead[q]
    BY <2>1, <2>2, <2>3 DEF NewerInv, MergeInv, Typed, PullRow
  <2> QED BY <1>1, <1>2, <2>1, <2>4, NewerGate DEF NewerInv
<1>10. ASSUME NEW p \in Pull, SyncFollows(p) PROVE NewerInv'
  <2> PICK tip : tip = HeadCommit(p, worker.heads[p])
    OBVIOUS
  <2>1. tip.head <= lastHead[p] /\ UNCHANGED <<heads, rows, journal>>
    BY <1>10 DEF NewerInv, HeadCommit, SyncFollows, db
  <2>2. kept' \in {kept, [kept EXCEPT ![p] = tip]}
    BY <1>10 DEF SyncFollows
  <2>3. \A q \in Pull : kept'[q].head <= lastHead[q]
    BY <2>1, <2>2, KeptPut
  <2> QED BY <1>1, <1>2, <2>1, <2>3, NewerGate DEF NewerInv
<1>11. CASE SyncSaves \/ SyncRewrites \/ SyncCloses
  <2>1. UNCHANGED <<heads, journal>> /\ worker.pull \in Pull
    <3>1. worker.pc \in {"follow", "rewrite", "close"} /\ UNCHANGED <<heads, journal>>
      BY <1>11 DEF SyncSaves, SyncRewrites, SyncCloses, git, db
    <3> QED BY <3>1 DEF MergeInv, WorkInv
  <2> PICK p \in Pull : p = worker.pull
    BY <2>1
  <2>2. CASE SyncRewrites
    <3>1. UNCHANGED rows /\ kept' = [kept EXCEPT ![p] = worker.kept[p]] /\ worker.kept[p].head <= lastHead[p]
      BY <2>2 DEF SyncRewrites, db, NewerInv
    <3>2. \A q \in Pull : kept'[q].head <= lastHead[q]
      BY <3>1, KeptPut
    <3> QED BY <1>1, <1>2, <2>1, <3>1, <3>2, NewerGate DEF NewerInv
  <2>3. CASE SyncSaves \/ SyncCloses
    <3>1. UNCHANGED kept /\ rows \in [Pull -> PullRow]
      BY <2>3 DEF SyncSaves, SyncCloses, git, MergeInv, Typed
    <3> PICK tip : tip = HeadCommit(p, worker.heads[p])
      OBVIOUS
    <3> PICK at : at = worker.kept[p]
      OBVIOUS
    <3>2. tip.head <= lastHead[p] /\ at.head <= lastHead[p] /\ rows[p].final.head <= lastHead[p]
      BY DEF NewerInv, HeadCommit
    <3>3. \/ rows' = [rows EXCEPT ![p].head = tip, ![p].gone = FALSE]
          \/ rows' = [rows EXCEPT ![p].state = "closed", ![p].head = at, ![p].final = at]
      BY <2>3 DEF SyncSaves, SyncCloses
    <3> PICK r \in {[rows[p] EXCEPT !.head = tip, !.gone = FALSE],
                   [rows[p] EXCEPT !.state = "closed", !.head = at, !.final = at]} : rows' = [rows EXCEPT ![p] = r]
      BY <3>1, <3>3
    <3>4. r.head.head <= lastHead[p] /\ r.final.head <= lastHead[p]
      <4>1. rows[p] \in PullRow
        BY <3>1
      <4>2. r.head \in {tip, at} /\ r.final \in {rows[p].final, at}
        BY <4>1 DEF PullRow
      <4> QED BY <3>2, <4>2
    <3>5. \A q \in Pull : rows'[q].head.head <= lastHead[q] /\ rows'[q].final.head <= lastHead[q]
      BY <3>4, RowPut
    <3> QED BY <1>1, <1>2, <2>1, <3>1, <3>5, NewerGate DEF NewerInv
  <2> QED BY <1>11, <2>2, <2>3
<1>12. CASE DeleteBranch
  <2>1. UNCHANGED <<rows, journal>> /\ worker.pull \in Pull
    <3>1. worker.pc \in {"branch", "hold", "delete"} /\ UNCHANGED <<rows, journal>>
      BY <1>12 DEF DeleteBranch, db
    <3> QED BY <3>1 DEF MergeInv, WorkInv
  <2> PICK p \in Pull : p = worker.pull
    BY <2>1
  <2>2. /\ kept' \in {kept, [kept EXCEPT ![p] = HeadCommit(p, worker.heads[p])]}
        /\ heads' \in {heads, [heads EXCEPT ![p] = 0]}
    BY <1>12 DEF DeleteBranch
  <2>3. \A q \in Pull : kept'[q].head <= lastHead[q]
    <3>1. HeadCommit(p, worker.heads[p]).head <= lastHead[p]
      BY DEF NewerInv, HeadCommit
    <3> QED BY <2>2, <3>1, KeptPut
  <2>4. \A q \in Pull : heads'[q] \in {0, heads[q]}
    BY <2>2 DEF MergeInv, Typed
  <2> QED BY <1>1, <1>2, <2>1, <2>3, <2>4, NewerGate DEF NewerInv
<1>13. CASE Repair
  <2>1. UNCHANGED <<heads, rows, journal>>
    BY <1>13 DEF Repair, db
  <2>2. \A p \in Pull : kept'[p] \in {kept[p], rows[p].head, rows[p].final}
    BY <1>13 DEF Repair, Wanted
  <2>3. \A p \in Pull : kept'[p].head <= lastHead[p]
    BY <2>2 DEF NewerInv
  <2> QED BY <1>1, <1>2, <2>1, <2>3, NewerGate DEF NewerInv
<1> QED BY <1>3, <1>4, <1>5, <1>6, <1>7, <1>8, <1>9, <1>10, <1>11, <1>12, <1>13 DEF GateStep

\* The steps that are not of the gate's holder.
LEMMA NewerOutside ==
    ASSUME MergeInv, NewerInv,
           \/ \E op \in GateOp, p \in Pull \cup {NoPull} : TakeGate(op, p)
           \/ Publish \/ PushBaseLocks \/ PushBaseCommits \/ PushDies \/ ServerDies \/ ServerStarts \/ UNCHANGED mergeVars
    PROVE  NewerInv'
<1>1. UNCHANGED <<lastHead, heads, kept, rows, journal>>
  BY DEF TakeGate, Publish, PublishPrepares, PublishCommits, PushBaseLocks, PushBaseCommits, PushDies, ServerDies, ServerStarts,
     mergeVars, git, db, mergeHist
<1>2. CASE receive' \in {receive, NoReceive} /\ (worker' = worker \/ worker' = GateFree)
  <2>1. ListsStay
    BY <1>2, FreeLists DEF ListsStay
  <2> QED BY <1>1, <1>2, <2>1, NewerQuiet
<1>3. CASE Publish \/ PushBaseCommits \/ PushDies \/ ServerDies \/ UNCHANGED mergeVars
  <2>1. receive' \in {receive, NoReceive} /\ (worker' = worker \/ worker' = GateFree)
    BY <1>3 DEF Publish, PublishPrepares, PublishCommits, PushBaseCommits, PushDies, ServerDies, mergeVars
  <2> QED BY <1>2, <2>1
<1>4. CASE PushBaseLocks
  <2>1. UNCHANGED worker /\ \A p \in Pull : receive'.ref # p
    BY <1>4, MergeAssumption DEF PushBaseLocks, MergeInv, Typed
  <2> QED BY <1>1, <2>1 DEF NewerInv
<1>5. ASSUME NEW op \in GateOp, NEW p \in Pull \cup {NoPull}, TakeGate(op, p) PROVE NewerInv'
  <2>1. UNCHANGED receive
    BY <1>5 DEF TakeGate
  <2>2. worker'.heads = GateFree.heads /\ worker'.kept = GateFree.kept /\ worker'.pc \in {"settle", "clean", "branch"}
    BY <1>5 DEF TakeGate, GateFree
  <2>3. ListsStay
    BY <2>2, FreeTyped DEF ListsStay
  <2> QED BY <1>1, <2>1, <2>3, NewerQuiet
<1>6. CASE ServerStarts
  <2>1. receive' = NoReceive
    BY <1>6 DEF ServerStarts
  <2>2. worker'.heads = GateFree.heads /\ worker'.kept = GateFree.kept /\ worker'.pc = "settle"
    BY <1>6 DEF ServerStarts, GateFree
  <2>3. ListsStay
    BY <2>2, FreeTyped DEF ListsStay
  <2> QED BY <1>1, <2>1, <2>3, NewerQuiet
<1> QED BY <1>3, <1>4, <1>5, <1>6

LEMMA NewerPush ==
    ASSUME MergeInv, NewerInv, HeadsReturn = FALSE,
           \/ \E new \in {0, 1} : PushStarts("base", new)
           \/ \E p \in Pull : \E new \in NextHead(p) : PushStarts(p, new)
           \/ \E p \in Pull : PushHeadHook(p) \/ PushHeadRetains(p) \/ PushHeadCommits(p)
    PROVE  NewerInv'
<1>1. ASSUME NEW new \in {0, 1}, PushStarts("base", new) PROVE NewerInv'
  <2>1. UNCHANGED <<lastHead, heads, kept, rows, journal, worker>> /\ receive'.ref = "base"
    BY <1>1 DEF PushStarts, git, db, mergeHist
  <2> QED BY <2>1, MergeAssumption DEF NewerInv
<1>2. ASSUME NEW p \in Pull, NEW new \in NextHead(p), PushStarts(p, new) PROVE NewerInv'
  <2>1. UNCHANGED <<lastHead, heads, kept, rows, journal, worker>> /\ p # "base"
    BY <1>2, MergeAssumption DEF PushStarts, git, db, mergeHist
  <2>2. receive'.ref = p /\ receive'.old = heads[p] /\ receive'.new = new
    BY <1>2, <2>1 DEF PushStarts
  <2>3. new # 0 => new > lastHead[p]
    BY HeadNumbers, MergeAssumption DEF NextHead
  <2> QED BY <2>1, <2>2, <2>3 DEF NewerInv
<1>3. ASSUME NEW p \in Pull, PushHeadHook(p) \/ PushHeadRetains(p) PROVE NewerInv'
  <2>1. /\ UNCHANGED <<lastHead, heads, rows, journal, worker>> /\ receive.ref = p
        /\ kept' \in {kept, [kept EXCEPT ![p] = HeadCommit(p, receive.old)]}
        /\ receive' \in {[receive EXCEPT !.at = "keep"], [receive EXCEPT !.at = "held"]}
    BY <1>3 DEF PushHeadHook, PushHeadRetains, git, db, mergeHist
  <2>2. HeadCommit(p, receive.old).head <= lastHead[p]
    BY <2>1, HeadNumbers DEF NewerInv, HeadCommit
  <2>3. \A q \in Pull : kept'[q].head <= lastHead[q]
    BY <2>1, <2>2, KeptPut
  <2>4. receive'.ref = receive.ref /\ receive'.old = receive.old /\ receive'.new = receive.new
    BY <2>1 DEF MergeInv, Typed
  <2> QED BY <2>1, <2>3, <2>4 DEF NewerInv
<1>4. ASSUME NEW p \in Pull, PushHeadCommits(p) PROVE NewerInv'
  <2> PICK new \in 0..MaxHeads : new = receive.new
    BY <1>4, PushTyped DEF PushHeadCommits
  <2>1. /\ UNCHANGED <<kept, rows, journal, worker>> /\ receive.ref = p /\ receive' = NoReceive
        /\ heads' = [heads EXCEPT ![p] = new]
        /\ lastHead' = IF new = 0 THEN lastHead ELSE [lastHead EXCEPT ![p] = new]
    BY <1>4 DEF PushHeadCommits, db
  <2>2. new # 0 => new > lastHead[p]
    BY <2>1 DEF NewerInv
  <2>3. \A q \in Pull : /\ lastHead'[q] \in Nat /\ lastHead[q] \in Nat /\ lastHead[q] <= lastHead'[q]
                        /\ heads'[q] \in {0, lastHead'[q]}
    <3>1. heads \in [Pull -> 0..MaxHeads] /\ lastHead \in [Pull -> 0..MaxHeads] /\ new \in Nat
      BY PushTyped, MergeAssumption
    <3>2. \A q \in Pull : heads[q] \in {0, lastHead[q]} /\ lastHead[q] \in Nat
      BY HeadNumbers DEF NewerInv
    <3> QED BY <2>1, <2>2, <3>1, <3>2
  <2>4. ASSUME NEW q \in Pull
        PROVE  /\ kept[q].head <= lastHead'[q] /\ rows[q].head.head <= lastHead'[q] /\ rows[q].final.head <= lastHead'[q]
               /\ worker.heads[q] <= lastHead'[q] /\ worker.kept[q].head <= lastHead'[q] /\ receive'.ref # q
    <3>1. kept[q].head \in Nat /\ worker.heads[q] \in Nat /\ worker.kept[q].head \in Nat
      BY HeadNumbers
    <3>2. rows[q].head.head \in Nat /\ rows[q].final.head \in Nat
      <4>1. rows[q].head \in GitCommit /\ rows[q].final \in GitCommit \cup {NoCommit}
        BY DEF MergeInv, Typed, PullRow
      <4>2. \A c \in GitCommit \cup {NoCommit} : c.head \in Nat
        BY MergeAssumption DEF GitCommit, NoCommit
      <4> QED BY <4>1, <4>2
    <3>3. receive'.ref # q
      BY <2>1, PushTyped
    <3> QED BY <2>3, <3>1, <3>2, <3>3 DEF NewerInv
  <2>5. ASSUME NEW i \in DOMAIN journal PROVE journal[i].merge.head <= lastHead'[journal[i].pull]
    <3>1. journal[i].pull \in Pull /\ journal[i].merge.head \in Nat /\ journal[i].merge.head <= lastHead[journal[i].pull]
      <4>1. journal[i].pull \in Pull /\ journal[i].merge \in GitCommit
        BY DEF MergeInv, Typed, Intent
      <4>2. journal[i].merge.head \in Nat
        BY <4>1, MergeAssumption DEF GitCommit
      <4> QED BY <4>1, <4>2 DEF NewerInv
    <3> QED BY <2>3, <3>1
  <2> QED BY <2>1, <2>3, <2>4, <2>5 DEF NewerInv
<1> QED BY <1>1, <1>2, <1>3, <1>4

LEMMA NextNewerInv == HeadsReturn = FALSE /\ MergeInv /\ NewerInv /\ [MergeNext]_mergeVars => NewerInv'
<1> SUFFICES ASSUME HeadsReturn = FALSE, MergeInv, NewerInv, MergeNext \/ UNCHANGED mergeVars PROVE NewerInv'
  OBVIOUS
<1> QED BY NewerGateStep, NewerOutside, NewerPush DEF MergeNext, ReceivePack

LEMMA InitNewerInv == MergeInit => NewerInv
<1> SUFFICES ASSUME MergeInit PROVE NewerInv
  OBVIOUS
<1>1. ASSUME NEW p \in Pull
      PROVE  /\ heads[p] = 1 /\ lastHead[p] = 1 /\ kept[p].head = 1 /\ rows[p].head.head = 1 /\ rows[p].final.head = 0
             /\ worker.heads[p] = 0 /\ worker.kept[p].head = 0 /\ receive.ref # p
  BY FreeTyped, MergeAssumption DEF MergeInit, HeadCommit, NoCommit, NoReceive
<1>2. DOMAIN journal = {} /\ worker.pc = "idle"
  BY FreeTyped DEF MergeInit
<1> QED BY <1>1, <1>2 DEF NewerInv

\* A sync that comes late writes what it listed only where nothing newer is kept.
LEMMA LateSync ==
    ASSUME MergeInv, NewerInv, MergeNext, NEW p \in Pull, worker.pc = "write", heads[p] = 0,
           kept[p] = HeadCommit(p, lastHead[p])
    PROVE  kept'[p] = kept[p]
<1>0. kept \in [Pull -> GitCommit] /\ lastHead[p] \in Nat /\ worker.heads[p] \in Nat
  BY HeadNumbers DEF MergeInv, Typed
<1>1. CASE GateStep
  <2>1. ASSUME NEW q \in Pull, SyncFollows(q) PROVE kept'[p] = kept[p]
    <3>1. kept' = IF kept[q] = worker.kept[q] THEN [kept EXCEPT ![q] = HeadCommit(q, worker.heads[q])] ELSE kept
      BY <2>1 DEF SyncFollows
    <3>2. CASE q = p /\ kept[p] = worker.kept[p]
      <4>1. worker.heads[p] # 0 /\ worker.kept[p].head = lastHead[p]
        BY <2>1, <3>2 DEF SyncFollows, HeadCommit
      <4>2. worker.heads[p] = lastHead[p]
        <5>1. worker.heads[p] <= lastHead[p] /\ worker.kept[p].head <= worker.heads[p]
          BY <4>1 DEF NewerInv
        <5> QED BY <1>0, <4>1, <5>1
      <4> QED BY <1>0, <3>1, <3>2, <4>2
    <3>3. CASE ~(q = p /\ kept[p] = worker.kept[p])
      BY <1>0, <3>1, <3>3
    <3> QED BY <3>2, <3>3
  <2>2. ASSUME ~\E q \in Pull : SyncFollows(q) PROVE UNCHANGED kept
    BY <1>1, <2>2 DEF GateStep, Settle, Look, CannotTell, CheckLock, LookAgain, Mark, Retain, Finalize, FinalizeFails, Unmark,
       MergeAttempts, MergeRefuses, PublishEnds, PublishTimesOut, Judge, MergeRetries, PatchClose, PatchReopen, PatchRefuses,
       SyncLists, SyncEnds, SyncSaves, SyncRereads, SyncRewrites, SyncCloses, SyncSkips, DeleteBranch, DeleteRefused,
       DropReceipts, Repair, VerifyRoots, NothingPending, MaintainSkips, Prune, CleanRepo, git
  <2> QED BY <2>1, <2>2
<1>2. ASSUME NEW q \in Pull, PushHeadRetains(q) PROVE kept'[p] = kept[p]
  <2>1. /\ receive.ref = q /\ HeadCommit(q, receive.old) \in objs
        /\ kept' = [kept EXCEPT ![q] = HeadCommit(q, receive.old)]
    BY <1>2 DEF PushHeadRetains
  <2>2. receive.old # 0
    BY <2>1, MergeAssumption DEF MergeInv, Typed, HeadCommit, GitCommit
  <2>3. q = p => receive.old = lastHead[p]
    BY <2>1, <2>2 DEF NewerInv
  <2> QED BY <1>0, <2>1, <2>3
<1>3. CASE ~GateStep /\ ~\E q \in Pull : PushHeadRetains(q)
  <2>1. UNCHANGED kept
    BY <1>3 DEF MergeNext, Publish, ReceivePack, TakeGate, PublishPrepares, PublishCommits, PushBaseLocks, PushBaseCommits,
       PushDies, PushHeadHook, PushHeadCommits, PushStarts, ServerDies, ServerStarts, git
  <2> QED BY <2>1
<1> QED BY <1>1, <1>2, <1>3

\* pulls.rs retain_cas: a sync that listed a branch before it was deleted does not
\* put the listed tip over the newer one its deletion recorded, as long as no
\* forced push moves a head branch back.
THEOREM FollowingKeepsNewerHead == ASSUME HeadsReturn = FALSE PROVE MergeSpec => FollowKeepsNewerHead
<1>1. MergeInit => MergeInv /\ NewerInv
  BY InitMergeInv, InitNewerInv
<1>2. (MergeInv /\ NewerInv) /\ [MergeNext]_mergeVars => (MergeInv /\ NewerInv)'
  BY NextMergeInv, NextNewerInv
<1>3. MergeInv /\ NewerInv /\ [MergeNext]_mergeVars
         => [worker.pc = "write" => \A p \in Pull : KeepsNewest(p)]_mergeVars
  <2> SUFFICES ASSUME MergeInv, NewerInv, MergeNext, NEW p \in Pull, worker.pc = "write", heads[p] = 0,
                      kept[p] = HeadCommit(p, lastHead[p])
               PROVE  kept'[p] = kept[p]
    BY DEF KeepsNewest
  <2> QED BY LateSync
<1> QED BY <1>1, <1>2, <1>3, PTL DEF MergeSpec, FollowKeepsNewerHead
=============================================================================
