----------------------------- MODULE ForgeMerge -----------------------------
(***************************************************************************)
(* One repository of the forge: its base branch, the head branches of its  *)
(* pull requests, their rows and the merge journal in SQLite, and the refs *)
(* under refs/forge.  crates/forge/src/{merges,pulls,pulls_api,maintenance,*)
(* orphans,hook}.rs.                                                       *)
(*                                                                         *)
(* The holder of the write gate (worker) is the only server-side writer.   *)
(* Pushes do not take the gate, and both a push and the update-ref of a    *)
(* merge (child) are git processes that outlive a server that dies.        *)
(*                                                                         *)
(* A git call is one step, and so is a SQLite transaction; each may fail   *)
(* where the code looks at the result or ignores it.  A pruned commit is   *)
(* one that no ref names and that is not the merged head of a merge commit *)
(* a ref names: what else only other commits reach is pruned too, which is *)
(* more than git prunes.                                                   *)
(***************************************************************************)
EXTENDS Integers, FiniteSets

CONSTANTS
    Pull,         \* pull requests, each with a head branch of its own
    NoPull,       \* not a pull request
    Attempts,     \* rounds a merge takes when its base moves
    Rewritable,   \* no protection rule forbids a forced push of the base
    HeadsReturn,  \* a forced push may move a head back to an earlier commit
    MaxHeads,     \* bound: commits made on each head branch
    MaxIntents,   \* bound: merges journaled
    MaxMade,      \* bound: merge commits made
    MaxReceives,  \* bound: pushes
    MaxWork,      \* bound: merge commits and pushes together
    MaxDeaths     \* bound: deaths of the server

ASSUME MergeAssumption ==
    /\ {NoPull, "base", "none"} \cap Pull = {}
    /\ Attempts \in Nat \ {0} /\ MaxHeads \in Nat \ {0}
    /\ Rewritable \in BOOLEAN /\ HeadsReturn \in BOOLEAN
    /\ {MaxIntents, MaxMade, MaxReceives, MaxWork, MaxDeaths} \subseteq Nat

VARIABLES
    base,       \* refs/heads/<base>: a revision, and the commits in its history
    heads,      \* refs/heads/<head> of each pull request; 0 when deleted
    locked,     \* who holds refs/heads/<base>.lock
    objs,       \* commits in the object store
    rows,       \* table pulls
    journal,    \* table merge_intents
    marker,     \* intents with a refs/forge/merge/<id>/landed
    kept,       \* refs/forge/pull/<n>/head
    keptMerge,  \* refs/forge/pull/<n>/merge
    server,     \* the server: "down", "starting" or "up"
    worker,     \* the operation that holds the write gate, where it is, what it listed
    child,      \* the git update-ref of a merge
    receive     \* a git receive-pack

\* History, for the properties and the bounds.
VARIABLES
    moved,      \* merge commits that were ever put on the base
    rewritten,  \* whether the base was ever moved off its history
    lastHead,   \* the last commit each head branch was at
    made,       \* merge commits made
    receives,   \* pushes so far
    deaths      \* deaths of the server so far

git == <<base, heads, locked, objs, marker, kept, keptMerge>>
db == <<rows, journal>>
mergeHist == <<moved, rewritten, lastHead>>
mergeBounds == <<made, receives, deaths>>
mergeVars == <<git, db, server, worker, child, receive, mergeHist, mergeBounds>>

\* The commit v of a head branch, and the merge commit n that merges it.
HeadCommit(p, v) == [pull |-> p, head |-> v, n |-> 0]
MergeCommit(p, v, n) == [pull |-> p, head |-> v, n |-> n]
GitCommit == [pull : Pull, head : 1..MaxHeads, n : 0..MaxMade]
NoCommit == [pull |-> NoPull, head |-> 0, n |-> 0]

BaseTip == [rev : 0..(MaxReceives + MaxMade), has : SUBSET GitCommit]
PullRow == [state : {"open", "closed", "merged"}, head : GitCommit, final : GitCommit \cup {NoCommit},
        merge : GitCommit \cup {NoCommit}, gone : BOOLEAN]
Intent == [pull : Pull, base : BaseTip, merge : GitCommit, state : {"pending", "done", "aborted"}]

GateOp == {"merge", "close", "reopen", "branch", "sync", "clean", "maintain", "boot"}
GatePc == {"settle", "lock", "look", "mark", "retain", "finalize", "unmark", "attempt",
       "publish", "judge", "retry", "patch", "keep", "save", "kept", "heads", "write", "follow", "rewrite", "close",
       "drop", "repair", "list", "verify", "journal", "prune", "clean", "branch", "hold", "delete"}
GateFree == [op |-> "none", pc |-> "idle", pass |-> 0, pull |-> NoPull, todo |-> {}, round |-> 0,
         kept |-> [p \in Pull |-> NoCommit], heads |-> [p \in Pull |-> 0]]
NoChild == [id |-> 0, at |-> "none"]
NoReceive == [ref |-> "none", old |-> 0, new |-> 0, at |-> "none"]

MergeInit ==
    /\ base = [rev |-> 0, has |-> {}]
    /\ heads = [p \in Pull |-> 1]
    /\ locked = "none"
    /\ objs = {HeadCommit(p, 1) : p \in Pull}
    /\ rows = [p \in Pull |-> [state |-> "open", head |-> HeadCommit(p, 1), final |-> NoCommit,
                               merge |-> NoCommit, gone |-> FALSE]]
    /\ journal = [i \in {} |-> 0]
    /\ marker = {}
    /\ kept = [p \in Pull |-> HeadCommit(p, 1)]
    /\ keptMerge = [p \in Pull |-> NoCommit]
    /\ server = "up" /\ worker = GateFree /\ child = NoChild /\ receive = NoReceive
    /\ moved = {} /\ rewritten = FALSE /\ lastHead = heads
    /\ made = 0 /\ receives = 0 /\ deaths = 0

-----------------------------------------------------------------------------
(* The journal, and the evidence git holds.                                *)

Pending == {i \in DOMAIN journal : journal[i].state = "pending"}
Oldest(S) == CHOOSE i \in S : \A j \in S : i <= j

\* A mutant: the base's history is not asked.
MarkerAlone(i) == i \in marker

\* is_landed: the marker says so, or the base's history does.
IsLanded(i) ==
    \/ i \in marker
    \/ journal[i].merge \in base.has /\ journal[i].merge \in objs

GateTo(pc) == worker' = [worker EXCEPT !.pc = pc]

\* The gate is released; at startup the listener is bound after it.
Release ==
    /\ worker' = GateFree
    /\ server' = IF worker.op = "boot" THEN "up" ELSE server

\* An early return of the merge handler: run() still judges its intent.
AnswerMerge ==
    IF worker.todo = {} THEN Release
    ELSE /\ worker' = [worker EXCEPT !.pc = "settle", !.pass = 3, !.todo = Pending]
         /\ UNCHANGED server

\* An error from recover_locked ends the operation; one inside a merge is
\* judged once more by run().
RecoverFails == IF worker.pass = 2 THEN AnswerMerge ELSE Release

\* Where recover_locked leaves each operation, with p intents still pending.
AfterSettle(p) ==
    CASE worker.pass = 1 /\ worker.op \in {"boot", "maintain"} -> "drop"
      [] worker.pass = 1 /\ worker.op = "merge" /\ ~p -> "attempt"
      [] worker.pass = 1 /\ worker.op \in {"close", "reopen"} /\ ~p -> "patch"
      [] worker.pass = 3 /\ worker.op # "merge" /\ ~p -> "kept"
      [] worker.pass = 3 /\ worker.op \in {"boot", "maintain"} /\ p -> "repair"
      [] OTHER -> "idle"

-----------------------------------------------------------------------------
(* recover_locked and finish                                               *)

\* Every pending intent is judged in turn; the gate's own check follows.
Settle ==
    LET next == AfterSettle(Pending # {}) IN
    /\ worker.pc = "settle" /\ worker.todo = {}
    /\ IF next = "idle" THEN Release
       ELSE /\ worker' = [worker EXCEPT !.pc = next,
                                       !.pass = IF next = "attempt" THEN 2 ELSE worker.pass]
            /\ UNCHANGED server
    /\ UNCHANGED <<git, db, child, receive, mergeHist, mergeBounds>>

Look ==
    /\ worker.pc = "settle" /\ worker.todo # {}
    /\ GateTo(IF IsLanded(Oldest(worker.todo)) THEN "mark" ELSE "lock")
    /\ UNCHANGED <<git, db, server, child, receive, mergeHist, mergeBounds>>

\* git could not tell: an error, and nothing is aborted.
CannotTell ==
    /\ worker.pc \in {"settle", "look"} /\ worker.todo # {}
    /\ Release
    /\ UNCHANGED <<git, db, child, receive, mergeHist, mergeBounds>>

\* A lock file on the base: a writer is at it, the intent waits.
CheckLock ==
    /\ worker.pc = "lock"
    /\ worker' = IF locked # "none"
                 THEN [worker EXCEPT !.pc = "settle", !.todo = @ \ {Oldest(@)}]
                 ELSE [worker EXCEPT !.pc = "look"]
    /\ UNCHANGED <<git, db, server, child, receive, mergeHist, mergeBounds>>

\* git is asked once more before an abort is final.
LookAgain ==
    LET i == Oldest(worker.todo) IN
    /\ worker.pc = "look"
    /\ IF IsLanded(i)
       THEN GateTo("mark") /\ UNCHANGED journal
       ELSE /\ journal' = [journal EXCEPT ![i].state = "aborted"]
            /\ worker' = [worker EXCEPT !.pc = "settle", !.todo = @ \ {i}]
    /\ UNCHANGED <<git, rows, server, child, receive, mergeHist, mergeBounds>>

\* mark_landed, best effort.
Mark ==
    /\ worker.pc = "mark"
    /\ \/ marker' = marker \cup {Oldest(worker.todo)}
       \/ UNCHANGED marker
    /\ GateTo("retain")
    /\ UNCHANGED <<base, heads, locked, objs, kept, keptMerge, db, server, child, receive, mergeHist, mergeBounds>>

\* finish keeps the head and the merge commit reachable, best effort.
Retain ==
    LET i == journal[Oldest(worker.todo)] IN
    /\ worker.pc = "retain"
    /\ \/ kept' = [kept EXCEPT ![i.pull] = HeadCommit(i.pull, i.merge.head)]
       \/ UNCHANGED kept
    /\ \/ keptMerge' = [keptMerge EXCEPT ![i.pull] = i.merge]
       \/ UNCHANGED keptMerge
    /\ GateTo("finalize")
    /\ UNCHANGED <<base, heads, locked, objs, marker, db, server, child, receive, mergeHist, mergeBounds>>

\* finalize_rows: the row and the intent in one transaction, if the row still fits.
Finalize ==
    LET i == Oldest(worker.todo)
        p == journal[i].pull
        m == journal[i].merge
    IN
    /\ worker.pc = "finalize"
    /\ \/ rows[p].state = "open"
       \/ rows[p].state = "merged" /\ rows[p].merge = m
    /\ rows' = IF rows[p].state # "open" THEN rows
               ELSE [rows EXCEPT ![p] = [state |-> "merged", head |-> HeadCommit(p, m.head),
                                         final |-> HeadCommit(p, m.head), merge |-> m,
                                         gone |-> FALSE]]
    /\ journal' = [journal EXCEPT ![i].state = "done"]
    /\ GateTo("unmark")
    /\ UNCHANGED <<git, server, child, receive, mergeHist, mergeBounds>>

\* The transaction fails for good, or the row is not the one to merge.
FinalizeFails ==
    /\ worker.pc = "finalize"
    /\ RecoverFails
    /\ UNCHANGED <<git, db, child, receive, mergeHist, mergeBounds>>

\* The marker is deleted, best effort; the next intent, or the answer, follows.
Unmark ==
    LET i == Oldest(worker.todo) IN
    /\ worker.pc = "unmark"
    /\ \/ marker' = marker \ {i}
       \/ UNCHANGED marker
    /\ IF worker.pass = 2 THEN AnswerMerge
       ELSE /\ worker' = [worker EXCEPT !.pc = "settle", !.todo = @ \ {i}]
            /\ UNCHANGED server
    /\ UNCHANGED <<base, heads, locked, objs, kept, keptMerge, db, child, receive, mergeHist, mergeBounds>>

-----------------------------------------------------------------------------
(* POST /pulls/{n}/merge, with the gate held and nothing pending           *)

\* Everything is read again, the merge commit is made, and the journal says so
\* before the base moves.
MergeAttempts ==
    LET p == worker.pull
        m == MergeCommit(p, heads[p], made + 1)
        new == [pull |-> p, base |-> base, merge |-> m, state |-> "pending"]
        id == IF worker.todo = {} THEN Cardinality(DOMAIN journal) + 1 ELSE Oldest(worker.todo)
    IN
    /\ worker.pc = "attempt"
    /\ rows[p].state = "open" /\ heads[p] # 0 /\ HeadCommit(p, heads[p]) \notin base.has
    /\ made < MaxMade /\ made + receives < MaxWork /\ id <= MaxIntents
    /\ made' = made + 1
    /\ objs' = objs \cup {m}
    /\ journal' = [i \in DOMAIN journal \cup {id} |-> IF i = id THEN new ELSE journal[i]]
    /\ worker' = [worker EXCEPT !.pc = "publish", !.todo = {id}, !.round = @ + 1]
    /\ child' = [id |-> id, at |-> "run"]
    /\ UNCHANGED <<base, heads, locked, marker, kept, keptMerge, rows, server, receive, mergeHist, receives, deaths>>

\* Merged, closed, head gone, nothing to merge, statuses, a conflict, an error.
MergeRefuses ==
    /\ worker.pc = "attempt"
    /\ AnswerMerge
    /\ UNCHANGED <<git, db, child, receive, mergeHist, mergeBounds>>

\* publish returns when update-ref has exited.
PublishEnds ==
    /\ worker.pc = "publish" /\ child.at \in {"committed", "failed"}
    /\ GateTo(IF child.at = "committed" THEN "mark" ELSE "judge")
    /\ child' = NoChild
    /\ UNCHANGED <<git, db, server, receive, mergeHist, mergeBounds>>

\* The deadline kills it, wherever it was; a lock it held stays behind.
PublishTimesOut ==
    /\ worker.pc = "publish" /\ child # NoChild
    /\ GateTo("judge")
    /\ child' = NoChild
    /\ locked' = IF child.at = "held" THEN "stale" ELSE locked
    /\ UNCHANGED <<base, heads, objs, marker, kept, keptMerge, db, server, receive, mergeHist, mergeBounds>>

\* git is asked what became of it, and may be unable to tell.
Judge ==
    /\ worker.pc = "judge"
    /\ \/ GateTo(IF IsLanded(Oldest(worker.todo)) THEN "mark" ELSE "retry") /\ UNCHANGED server
       \/ AnswerMerge
    /\ UNCHANGED <<git, db, child, receive, mergeHist, mergeBounds>>

\* The head moved, or the base did not and the rounds are used up; or again.
MergeRetries ==
    LET i == journal[Oldest(worker.todo)] IN
    /\ worker.pc = "retry"
    /\ IF worker.round < Attempts /\ heads[i.pull] \in {0, i.merge.head}
       THEN GateTo("attempt") /\ UNCHANGED server
       ELSE AnswerMerge
    /\ UNCHANGED <<git, db, child, receive, mergeHist, mergeBounds>>

-----------------------------------------------------------------------------
(* git update-ref --stdin of a merge: verify the head, move the base       *)

PublishPrepares ==
    LET i == journal[child.id] IN
    /\ child.at = "run"
    /\ IF locked = "none" /\ base = i.base /\ heads[i.pull] = i.merge.head
       THEN child' = [child EXCEPT !.at = "held"] /\ locked' = "publish"
       ELSE child' = [child EXCEPT !.at = "failed"] /\ UNCHANGED locked
    /\ UNCHANGED <<base, heads, objs, marker, kept, keptMerge, db, server, worker, receive, mergeHist, mergeBounds>>

\* The rename of the lock file onto the ref.
PublishCommits ==
    LET m == journal[child.id].merge IN
    /\ child.at = "held"
    /\ base' = [rev |-> MaxReceives + m.n, has |-> base.has \cup {m, HeadCommit(m.pull, m.head)}]
    /\ locked' = "none"
    /\ child' = [child EXCEPT !.at = "committed"]
    /\ moved' = moved \cup {m}
    /\ UNCHANGED <<heads, objs, marker, kept, keptMerge, db, server, worker, receive, rewritten,
                   lastHead, mergeBounds>>

-----------------------------------------------------------------------------
(* PATCH /pulls/{n} with a state, and pulls::sync_locked                   *)

SyncNext == worker' = [worker EXCEPT !.pc = "settle", !.pass = 3, !.todo = Pending]

\* Closing reads the head, keeps it, and then saves the row.
PatchClose ==
    LET p == worker.pull
        at == IF worker.heads[p] # 0 THEN HeadCommit(p, worker.heads[p]) ELSE kept[p]
    IN
    /\ UNCHANGED <<base, heads, locked, objs, marker, keptMerge, journal, server, child, receive, mergeHist, mergeBounds>>
    /\ \/ /\ worker.pc = "patch" /\ worker.op = "close" /\ rows[p].state = "open"
          /\ worker' = [worker EXCEPT !.pc = "keep", !.heads = heads]
          /\ UNCHANGED <<kept, rows>>
       \/ /\ worker.pc = "keep"
          /\ kept' = [kept EXCEPT ![p] = at]
          /\ GateTo("save")
          /\ UNCHANGED rows
       \/ /\ worker.pc = "save"
          /\ rows' = [rows EXCEPT ![p].state = "closed", ![p].head = at, ![p].final = at]
          /\ SyncNext
          /\ UNCHANGED kept

PatchReopen ==
    LET p == worker.pull IN
    /\ worker.pc = "patch" /\ worker.op = "reopen"
    /\ rows[p].state = "closed"
    /\ rows' = [rows EXCEPT ![p].state = "open", ![p].final = NoCommit, ![p].gone = (heads[p] = 0)]
    /\ SyncNext
    /\ UNCHANGED <<git, journal, server, child, receive, mergeHist, mergeBounds>>

\* A refusal, or an error.
PatchRefuses ==
    /\ worker.pc \in {"patch", "keep", "save"}
    /\ Release
    /\ UNCHANGED <<git, db, child, receive, mergeHist, mergeBounds>>

\* The retention refs are listed first, then the branches.
SyncLists ==
    /\ \/ /\ worker.pc = "kept"
          /\ worker' = [worker EXCEPT !.pc = "heads", !.kept = kept]
       \/ /\ worker.pc = "heads"
          /\ worker' = [worker EXCEPT !.pc = "write", !.heads = heads, !.todo = {p \in Pull : rows[p].state = "open"}]
    /\ UNCHANGED <<git, db, server, child, receive, mergeHist, mergeBounds>>

SyncEnds ==
    /\ worker.pc = "write" /\ worker.todo = {}
    /\ IF worker.op \in {"boot", "maintain"} THEN GateTo("repair") /\ UNCHANGED server ELSE Release
    /\ UNCHANGED <<git, db, child, receive, mergeHist, mergeBounds>>

\* The next of them is taken up, and is done.
TakeUp(p, pc) == worker' = [worker EXCEPT !.pc = pc, !.pull = p]
SyncedOne(p) == worker' = [worker EXCEPT !.pc = "write", !.todo = @ \ {p}]

\* A mutant: the retained head is written whatever it is by now.
SyncOverwrites(p) ==
    /\ worker.pc = "write" /\ p \in worker.todo
    /\ worker.heads[p] # 0
    /\ kept' = [kept EXCEPT ![p] = HeadCommit(p, worker.heads[p])]
    /\ TakeUp(p, "follow")
    /\ UNCHANGED <<base, heads, locked, objs, marker, keptMerge, db, server, child, receive, mergeHist, mergeBounds>>

\* sync_one for a branch that was there: compare-and-swap on what was listed.
SyncFollows(p) ==
    /\ worker.pc = "write" /\ p \in worker.todo
    /\ worker.heads[p] # 0
    /\ kept' = IF kept[p] = worker.kept[p] THEN [kept EXCEPT ![p] = HeadCommit(p, worker.heads[p])] ELSE kept
    /\ TakeUp(p, "follow")
    /\ UNCHANGED <<base, heads, locked, objs, marker, keptMerge, db, server, child, receive, mergeHist, mergeBounds>>

\* Then its row.
SyncSaves ==
    LET p == worker.pull IN
    /\ worker.pc = "follow"
    /\ rows' = [rows EXCEPT ![p].head = HeadCommit(p, worker.heads[p]), ![p].gone = FALSE]
    /\ SyncedOne(p)
    /\ UNCHANGED <<git, journal, server, child, receive, mergeHist, mergeBounds>>

\* sync_one for a branch that was gone: the retained head is read once more,
\* unless the pull request was reopened that way.
SyncRereads(p) ==
    /\ worker.pc = "write" /\ p \in worker.todo
    /\ worker.heads[p] = 0
    /\ IF rows[p].gone THEN SyncedOne(p)
       ELSE worker' = [worker EXCEPT !.pc = "rewrite", !.pull = p, !.kept = [@ EXCEPT ![p] = kept[p]]]
    /\ UNCHANGED <<git, db, server, child, receive, mergeHist, mergeBounds>>

\* It is written back, whatever the ref holds by now.
SyncRewrites ==
    LET p == worker.pull IN
    /\ worker.pc = "rewrite" /\ worker.kept[p] \in objs
    /\ kept' = [kept EXCEPT ![p] = worker.kept[p]]
    /\ GateTo("close")
    /\ UNCHANGED <<base, heads, locked, objs, marker, keptMerge, db, server, child, receive, mergeHist, mergeBounds>>

\* And the pull request is closed at it.
SyncCloses ==
    LET p == worker.pull
        at == worker.kept[p]
    IN
    /\ worker.pc = "close"
    /\ rows' = [rows EXCEPT ![p].state = "closed", ![p].head = at, ![p].final = at]
    /\ SyncedOne(p)
    /\ UNCHANGED <<git, journal, server, child, receive, mergeHist, mergeBounds>>

\* A step of sync_one failed: logged, the next sync repairs it.
SyncSkips(p) ==
    /\ worker.pc \in {"write", "follow", "rewrite", "close"} /\ p \in worker.todo
    /\ worker.pc # "write" => p = worker.pull
    /\ SyncedOne(p)
    /\ UNCHANGED <<git, db, server, child, receive, mergeHist, mergeBounds>>

-----------------------------------------------------------------------------
(* DELETE /branches/{branch}: the exclusive lock, which no gated writer shares *)

\* The tip is read, the hook's retention is done, and the branch goes if it is
\* still there; a push in between costs a round of three.
DeleteBranch ==
    LET p == worker.pull
        tip == worker.heads[p]
    IN
    /\ UNCHANGED <<base, locked, objs, marker, keptMerge, db, server, child, receive, mergeHist, mergeBounds>>
    /\ \/ /\ worker.pc = "branch" /\ heads[p] # 0
          /\ worker' = [worker EXCEPT !.pc = "hold", !.heads = heads, !.round = @ + 1]
          /\ UNCHANGED <<heads, kept>>
       \/ /\ worker.pc = "hold"
          /\ kept' = IF rows[p].state = "open" THEN [kept EXCEPT ![p] = HeadCommit(p, tip)] ELSE kept
          /\ GateTo("delete")
          /\ UNCHANGED heads
       \/ /\ worker.pc = "delete"
          /\ heads' = IF heads[p] = tip THEN [heads EXCEPT ![p] = 0] ELSE heads
          /\ worker' = IF heads[p] # tip /\ worker.round < 3 THEN [worker EXCEPT !.pc = "branch"] ELSE GateFree
          /\ UNCHANGED kept

\* No such branch, or an error of git.
DeleteRefused ==
    /\ worker.pc \in {"branch", "hold", "delete"}
    /\ Release
    /\ UNCHANGED <<git, db, child, receive, mergeHist, mergeBounds>>

-----------------------------------------------------------------------------
(* reconcile_repo, at startup and in the second stage of a maintenance pass *)

\* drop_stale_receipts: the markers of no pending intent.
DropReceipts ==
    /\ worker.pc = "drop"
    /\ marker' = marker \cap Pending
    /\ SyncNext
    /\ UNCHANGED <<base, heads, locked, objs, kept, keptMerge, db, server, child, receive, mergeHist, mergeBounds>>

\* The head a row wants retained; git writes no ref to a commit that is not there.
Wanted(p) ==
    IF rows[p].state # "open" THEN rows[p].final ELSE IF rows[p].gone THEN rows[p].head ELSE kept[p]

\* The retention refs rows ask for; one that cannot be written is remembered.
Repair ==
    /\ worker.pc = "repair"
    /\ \E R \in SUBSET Pull :
          /\ \A p \in R : Wanted(p) \in objs /\ (rows[p].state = "merged" => rows[p].merge \in objs)
          /\ kept' = [p \in Pull |-> IF p \in R THEN Wanted(p) ELSE kept[p]]
          /\ keptMerge' = [p \in Pull |->
                IF p \in R /\ rows[p].state = "merged" THEN rows[p].merge ELSE keptMerge[p]]
          /\ IF worker.op = "maintain" /\ R = Pull
             THEN GateTo("list") /\ UNCHANGED server
             ELSE Release
    /\ UNCHANGED <<base, heads, locked, objs, marker, db, child, receive, mergeHist, mergeBounds>>

\* A ref held every commit the row names, going by the retention refs listed.
RootsHeld(p) ==
    /\ IF rows[p].state = "open"
       THEN (~rows[p].gone /\ heads[p] # 0) \/ worker.kept[p] = rows[p].head
       ELSE worker.kept[p] = rows[p].final
    /\ rows[p].state = "merged" => keptMerge[p] = rows[p].merge

\* verify_roots: the retention refs are listed, then the branches, and each row
\* is judged by the two lists.  The lifecycle lock is released after it.
VerifyRoots ==
    /\ \/ /\ worker.pc = "list"
          /\ worker' = [worker EXCEPT !.pc = "verify", !.kept = kept]
       \/ /\ worker.pc = "verify" /\ \A p \in Pull : RootsHeld(p)
          /\ GateTo("journal")
    /\ UNCHANGED <<git, db, server, child, receive, mergeHist, mergeBounds>>

\* A mutant: a pending merge does not hold the prune up.
PruneWhilePending ==
    /\ worker.pc = "journal"
    /\ GateTo("prune")
    /\ UNCHANGED <<git, db, server, child, receive, mergeHist, mergeBounds>>

\* pending_checked: no merge commit is named by the journal alone.
NothingPending ==
    /\ worker.pc = "journal" /\ Pending = {}
    /\ GateTo("prune")
    /\ UNCHANGED <<git, db, server, child, receive, mergeHist, mergeBounds>>

\* A row not held by a ref, a merge pending, or an error: nothing is pruned.
MaintainSkips ==
    /\ worker.pc \in {"list", "verify", "journal"}
    /\ Release
    /\ UNCHANGED <<git, db, child, receive, mergeHist, mergeBounds>>

\* What refs name, and the head that a merge commit has for a parent.
Rooted ==
    LET merges == {keptMerge[p] : p \in Pull} \cup {journal[i].merge : i \in marker} IN
    {HeadCommit(p, heads[p]) : p \in {q \in Pull : heads[q] # 0}} \cup base.has
        \cup {kept[p] : p \in Pull} \cup merges \cup {HeadCommit(m.pull, m.head) : m \in merges}

\* git prune: what is old enough goes of what no ref names by now, whatever the
\* verification saw; killed at its deadline, it leaves some of it.  Pushes go on
\* meanwhile; DELETE /branches may too, and does to the refs what a push can.
Prune ==
    /\ worker.pc = "prune"
    /\ \E old \in SUBSET (objs \ Rooted) : objs' = objs \ old
    /\ Release
    /\ UNCHANGED <<base, heads, locked, marker, kept, keptMerge, db, child, receive, mergeHist, mergeBounds>>

\* A mutant: no lock is ever taken for a dead writer's.
CleanNothing ==
    /\ worker.pc = "clean"
    /\ Release
    /\ UNCHANGED <<git, db, child, receive, mergeHist, mergeBounds>>

\* clean_repo: a dead writer's lock goes once no push is registered.
CleanRepo ==
    /\ worker.pc = "clean"
    /\ locked' = IF receive = NoReceive /\ locked = "stale" THEN "none" ELSE locked
    /\ Release
    /\ UNCHANGED <<base, heads, objs, marker, kept, keptMerge, db, child, receive, mergeHist, mergeBounds>>

-----------------------------------------------------------------------------
(* Who takes the gate                                                      *)

TakeGate(op, p) ==
    /\ server = "up" /\ worker = GateFree
    /\ op \in {"merge", "close", "reopen", "branch"} <=> p \in Pull
    /\ worker' = [GateFree EXCEPT !.op = op, !.pc = IF op \in {"clean", "branch"} THEN op ELSE "settle",
                              !.pass = IF op = "sync" THEN 3 ELSE 1, !.pull = p, !.todo = Pending]
    /\ UNCHANGED <<git, db, server, child, receive, mergeHist, mergeBounds>>

-----------------------------------------------------------------------------
(* git receive-pack: the hook, then the ref                                *)

PushStarts(ref, new) ==
    /\ server = "up" /\ receive = NoReceive /\ receives < MaxReceives /\ made + receives < MaxWork
    /\ receives' = receives + 1
    /\ receive' = [ref |-> ref, old |-> IF ref = "base" THEN base.rev ELSE heads[ref], new |-> new, at |-> "run"]
    /\ UNCHANGED <<git, db, server, worker, child, mergeHist, made, deaths>>

\* New commits on the base, on top of it or (new = 0) in place of its history;
\* the hook refuses the second on a protected branch.
PushBaseLocks ==
    /\ receive.ref = "base" /\ receive.at = "run"
    /\ locked = "none" /\ receive.old = base.rev
    /\ receive.new = 0 => Rewritable
    /\ locked' = "push"
    /\ receive' = [receive EXCEPT !.at = "held"]
    /\ UNCHANGED <<base, heads, objs, marker, kept, keptMerge, db, server, worker, child, mergeHist, mergeBounds>>

PushBaseCommits ==
    /\ receive.ref = "base" /\ receive.at = "held"
    /\ base' = [rev |-> receives, has |-> IF receive.new = 0 THEN {} ELSE base.has]
    /\ rewritten' = (rewritten \/ receive.new = 0)
    /\ locked' = "none"
    /\ receive' = NoReceive
    /\ UNCHANGED <<heads, objs, marker, kept, keptMerge, db, server, worker, child, moved, lastHead, mergeBounds>>

\* The hook reads which pull requests are open: of those it keeps the tip that
\* the push deletes.
PushHeadHook(p) ==
    LET keeps == receive.new = 0 /\ receive.old # 0 /\ rows[p].state = "open" IN
    /\ receive.ref = p /\ receive.at = "run"
    /\ receive' = [receive EXCEPT !.at = IF keeps THEN "keep" ELSE "held"]
    /\ UNCHANGED <<git, db, server, worker, child, mergeHist, mergeBounds>>

\* git refuses to write a ref to a commit that is not there, and then the push fails.
PushHeadRetains(p) ==
    LET tip == HeadCommit(p, receive.old) IN
    /\ receive.ref = p /\ receive.at = "keep"
    /\ tip \in objs
    /\ kept' = [kept EXCEPT ![p] = tip]
    /\ receive' = [receive EXCEPT !.at = "held"]
    /\ UNCHANGED <<base, heads, locked, objs, marker, keptMerge, db, server, worker, child, mergeHist, mergeBounds>>

PushHeadCommits(p) ==
    /\ receive.ref = p /\ receive.at = "held"
    /\ heads[p] = receive.old
    /\ heads' = [heads EXCEPT ![p] = receive.new]
    /\ objs' = IF receive.new = 0 THEN objs ELSE objs \cup {HeadCommit(p, receive.new)}
    /\ lastHead' = IF receive.new = 0 THEN lastHead ELSE [lastHead EXCEPT ![p] = receive.new]
    /\ receive' = NoReceive
    /\ UNCHANGED <<base, locked, marker, kept, keptMerge, db, server, worker, child, moved, rewritten, mergeBounds>>

\* Refused, failed, cancelled or killed; SIGKILL leaves the lock.
PushDies ==
    /\ receive # NoReceive
    /\ receive' = NoReceive
    /\ locked' \in IF locked = "push" THEN {"none", "stale"} ELSE {locked}
    /\ UNCHANGED <<base, heads, objs, marker, kept, keptMerge, db, server, worker, child, mergeHist, mergeBounds>>

-----------------------------------------------------------------------------
(* The server dies; its git children do not                                *)

ServerDies ==
    /\ server # "down" /\ deaths < MaxDeaths
    /\ deaths' = deaths + 1
    /\ server' = "down"
    /\ worker' = GateFree
    /\ UNCHANGED <<git, db, child, receive, mergeHist, made, receives>>

\* orphans::sweep kills what is left of them and takes their locks away; then
\* reconcile_all runs, before the listener is bound.
ServerStarts ==
    /\ server = "down"
    /\ server' = "starting"
    /\ child' = NoChild /\ receive' = NoReceive /\ locked' = "none"
    /\ worker' = [GateFree EXCEPT !.op = "boot", !.pc = "settle", !.pass = 1, !.todo = Pending]
    /\ UNCHANGED <<base, heads, objs, marker, kept, keptMerge, db, mergeHist, mergeBounds>>

-----------------------------------------------------------------------------
GateStep ==
    \/ Settle \/ Look \/ CannotTell \/ CheckLock \/ LookAgain \/ Mark \/ Retain \/ Finalize \/ FinalizeFails \/ Unmark
    \/ MergeAttempts \/ MergeRefuses \/ PublishEnds \/ PublishTimesOut \/ Judge \/ MergeRetries
    \/ PatchClose \/ PatchReopen \/ PatchRefuses
    \/ SyncLists \/ SyncEnds \/ SyncSaves \/ SyncRewrites \/ SyncCloses
    \/ \E p \in Pull : SyncFollows(p) \/ SyncRereads(p) \/ SyncSkips(p)
    \/ DeleteBranch \/ DeleteRefused
    \/ DropReceipts \/ Repair \/ VerifyRoots \/ NothingPending \/ MaintainSkips \/ Prune \/ CleanRepo

Publish == PublishPrepares \/ PublishCommits

ReceivePack ==
    \/ PushBaseLocks \/ PushBaseCommits \/ PushDies
    \/ \E p \in Pull : PushHeadHook(p) \/ PushHeadRetains(p) \/ PushHeadCommits(p)

\* The commits a head branch can be moved to: a new one, none, an earlier one.
NextHead(p) ==
    {0} \cup {v \in 1..MaxHeads : IF HeadsReturn THEN v <= lastHead[p] + 1 ELSE v = lastHead[p] + 1}

MergeNext ==
    \/ \E op \in GateOp \ {"boot"}, p \in Pull \cup {NoPull} : TakeGate(op, p)
    \/ GateStep \/ Publish \/ ReceivePack
    \/ \E new \in {0, 1} : PushStarts("base", new)
    \/ \E p \in Pull : \E new \in NextHead(p) : PushStarts(p, new)
    \/ ServerDies \/ ServerStarts

MergeSpec == MergeInit /\ [][MergeNext]_mergeVars

-----------------------------------------------------------------------------
(* Properties                                                              *)

\* The type invariant.
MergeTypeOK ==
    /\ base \in BaseTip
    /\ heads \in [Pull -> 0..MaxHeads] /\ lastHead \in [Pull -> 0..MaxHeads]
    /\ locked \in {"none", "publish", "push", "stale"}
    /\ {objs, moved} \subseteq SUBSET GitCommit
    /\ rows \in [Pull -> PullRow]
    /\ DOMAIN journal \subseteq 1..MaxIntents
    /\ \A i \in DOMAIN journal : journal[i] \in Intent
    /\ marker \subseteq DOMAIN journal
    /\ kept \in [Pull -> GitCommit]
    /\ keptMerge \in [Pull -> GitCommit \cup {NoCommit}]
    /\ server \in {"down", "starting", "up"}
    /\ worker # GateFree => worker.op \in GateOp /\ worker.pc \in GatePc
    /\ child # NoChild => child.id \in DOMAIN journal
    /\ rewritten \in BOOLEAN

\* No retry, recovery or second request puts another merge of a pull request
\* on the base while the first is still part of it.
MergedOnce ==
    \A m, n \in moved : ~rewritten /\ m.pull = n.pull => m = n

\* What a merge needs to be shown or finished is in the object store: no prune
\* took it, although the journal alone names a pending one, the base may have
\* been rewritten, and branches and retained heads move while a pass verifies.
MergesStayWhole ==
    /\ \A p \in Pull : rows[p].state = "merged" => {rows[p].final, rows[p].merge} \subseteq objs
    /\ \A i \in Pending :
          {journal[i].merge, HeadCommit(journal[i].pull, journal[i].merge.head)} \subseteq objs

\* A merge is landed from the moment the base moved until the row says merged.
Status ==
    [p \in Pull |->
        IF \E i \in Pending : journal[i].pull = p /\ journal[i].merge \in moved
        THEN "landed" ELSE rows[p].state]

PR == INSTANCE PullRequests WITH status <- Status

\* The journaled merge implements the merge the endpoint promises.
MergesLikePromised == PR!PullSpec

\* The fairness: the operation that holds the gate goes on, git processes end,
\* the server is restarted, maintenance passes come, and neither git nor SQLite
\* fails for ever.
MergeFairness ==
    /\ WF_mergeVars(GateStep) /\ WF_mergeVars(Publish) /\ WF_mergeVars(ReceivePack)
    /\ WF_mergeVars(ServerStarts)
    /\ SF_mergeVars(TakeGate("clean", NoPull)) /\ SF_mergeVars(TakeGate("maintain", NoPull))
    /\ SF_mergeVars(CleanRepo /\ receive = NoReceive)
    /\ SF_mergeVars(Look) /\ SF_mergeVars(LookAgain) /\ SF_mergeVars(Finalize)

FairMergeSpec == MergeSpec /\ MergeFairness

\* No merge stays pending for ever.
MergesSettle == (Pending # {}) ~> (Pending = {})

\* The newest retained head of a deleted branch is its last tip: who deleted it
\* has recorded that one.
KeepsNewest(p) == heads[p] = 0 /\ kept[p] = HeadCommit(p, lastHead[p]) => kept'[p] = kept[p]

\* retain_cas: a sync that listed a branch before it was deleted does not put
\* the listed tip over the newer one its deletion recorded.
FollowKeepsNewerHead == [][worker.pc = "write" => \A p \in Pull : KeepsNewest(p)]_mergeVars

\* sync_locked of all it writes: "every write below is a compare-and-swap on what
\* was read, so a stale snapshot can never overwrite a newer retained head".
SyncKeepsNewerHead ==
    [][worker.pc \in {"write", "rewrite"} => \A p \in Pull : KeepsNewest(p)]_mergeVars
=============================================================================
