----------------------------- MODULE LocalRepo -----------------------------
(***************************************************************************)
(* One persistent repository: its owner's commands (commit, amend, branch, *)
(* switch, merge, merge --abort, undo, gc), the operation log they append  *)
(* to, and the pushes other repositories make into it through              *)
(* LocalTransport.  crates/repo/src/{repo,oplog,gc,merge_state,transport}. *)
(*                                                                         *)
(* A command holds RepoLock from Repo::open to its end, so it is the only  *)
(* one, and the refs it reads stay as they are; its durable effects happen *)
(* one at a time and a crash may come between any two.  A push takes the   *)
(* lock in update_ref alone: its probes and uploads run in between.  The   *)
(* lock is the one of module RepoLock, taken here to exclude.              *)
(*                                                                         *)
(* A snapshot stands for itself and the objects of its tree.               *)
(***************************************************************************)
EXTENDS Integers, Sequences, FiniteSets

CONSTANTS
    Snapshot,     \* snapshot ids
    Tree,         \* ids of the trees a stopped merge decides on
    Branch,       \* branch names
    Main,         \* the branch HEAD names after init
    Pusher,       \* repositories that push into this one
    None,         \* an absent ref, file or id
    Torn,         \* the unparseable tail of the log
    Mixed,        \* a working tree laid out half-way
    Marked,       \* a working tree with conflict markers
    MaxCommands,  \* bound: commands of the owner
    MaxPushes,    \* bound: pushes
    MaxCrashes,   \* bound: crashes of a command
    MaxWindows,   \* bound: how often the grace window elapses
    Environment   \* what is assumed of pushes and gc, see Spares and Tick

Object == Snapshot \cup Tree
Tip == Snapshot \cup {None}

\* A record of the log: HEAD before and after, and the one ref the operation
\* touched, if any; win dates it.
Record ==
    [from : Branch, to : Branch, branch : Branch \cup {None}, before : Tip, after : Tip,
     win : 0..MaxWindows]

ASSUME LocalAssumption ==
    /\ Main \in Branch
    /\ None \notin Object \cup Branch /\ {Mixed, Marked} \cap Tip = {} /\ Mixed # Marked
    /\ Torn \notin Record
    /\ Snapshot \cap Tree = {}
    /\ MaxCommands \in Nat /\ MaxPushes \in Nat /\ MaxCrashes \in Nat /\ MaxWindows \in Nat
    /\ Environment \subseteq {"timely", "brisk", "spared"}

VARIABLES
    refs,       \* refs/heads
    head,       \* HEAD, the branch it names
    mergeHead,  \* MERGE_HEAD
    decided,    \* MERGE_DECIDED_ROOT
    oplog,      \* .sc/oplog, block by block
    work,       \* the snapshot whose tree the working directory shows
    loose,      \* loose objects
    fresh,      \* the loose objects younger than the grace window
    packs,      \* packs, each the set of its objects
    cmd,        \* the command that holds the lock, and what it has left to do
    push,       \* locals of each push
    windows     \* grace windows elapsed so far

\* History, for the properties and the bounds.
VARIABLES
    anc,        \* each snapshot's ancestors, itself included; {} if not made yet
    outside,    \* snapshots that other repositories may hold
    logged,     \* the record of the last command that ended, None after a crash
    stop,       \* where the merge that is stopped stopped
    count       \* commands, pushes and crashes so far

disk == <<refs, head, mergeHead, decided, oplog, work>>
store == <<loose, fresh, packs>>
history == <<anc, outside, logged, stop>>
vars == <<disk, store, cmd, push, windows, history, count>>

-----------------------------------------------------------------------------
(* The operation log *)

\* The well-formed blocks: reading stops at the first that does not parse.
ReadAll ==
    LET Parses(n) == \A i \in 1..n : oplog[i] # Torn
    IN  SubSeq(oplog, 1, CHOOSE n \in 0..Len(oplog) :
                            Parses(n) /\ (n = Len(oplog) \/ ~Parses(n + 1)))

LastRecord == ReadAll[Len(ReadAll)]

\* Mutant: appending after a torn tail, which read_all never gets past.
AppendAfterTail(r) == Append(oplog, r)

\* record: a torn tail is cut off, then the block is appended.
Appended(r) == Append(ReadAll, r)

\* Mutant: the newest record is trimmed like any other.
KeepsFresh(i) == ReadAll[i].win = windows

\* trim_older_than: what is older than the grace window goes, except the newest
\* record.  Records are in order of time, so the end of the log is kept, from the
\* first that stays; the file is rewritten only if a record went.
Keeps(i) == ReadAll[i].win = windows \/ i = Len(ReadAll)

TrimTo(i) ==
    /\ \A j \in DOMAIN ReadAll : j >= i <=> Keeps(j)
    /\ oplog' = IF i = 1 THEN oplog ELSE SubSeq(ReadAll, i, Len(ReadAll))

Logged == {ReadAll[i] : i \in DOMAIN ReadAll}

-----------------------------------------------------------------------------
(* Objects, and what gc keeps *)

Stored == loose \cup UNION packs

Closure(S) == UNION {anc[s] : s \in S \ {None}}

\* Mutant: the log's snapshots are no roots.
RootsWithoutLog == {refs[b] : b \in Branch} \cup {mergeHead}

\* Branch tips, a stopped merge's other parent, and what the log can restore.
Roots ==
    {refs[b] : b \in Branch} \cup {mergeHead}
       \cup {r.before : r \in Logged} \cup {r.after : r \in Logged}

\* The decided tree is a root only under MERGE_HEAD.
DecidedTree == IF mergeHead = None THEN {} ELSE {decided} \ {None}

Reachable == Closure(Roots) \cup DecidedTree

\* Store::put: an object that is already loose keeps its file and its age.
PutObject(o) ==
    /\ loose' = loose \cup {o}
    /\ fresh' = IF o \in loose THEN fresh ELSE fresh \cup {o}
    /\ UNCHANGED packs

-----------------------------------------------------------------------------
(* Commands: a sequence of durable effects, settled when the lock is taken *)

Put(o) == [do |-> "put", obj |-> o]
Lay(s) == [do |-> "lay", tree |-> s]
WriteTip(b, s) == [do |-> "tip", branch |-> b, id |-> s]
WriteHead(b) == [do |-> "head", branch |-> b]
WriteDecided(t) == [do |-> "decided", root |-> t]
WriteMergeHead(s) == [do |-> "mergeHead", id |-> s]
AppendRecord(from, to, b, before, after) ==
    [do |-> "record", from |-> from, to |-> to, branch |-> b, before |-> before, after |-> after]
GcStep(name) == [do |-> name]

Effect ==
    [do : {"put"}, obj : Object] \cup [do : {"lay"}, tree : Snapshot \cup {Marked}]
      \cup [do : {"tip"}, branch : Branch, id : Tip] \cup [do : {"head"}, branch : Branch]
      \cup [do : {"decided"}, root : Tree \cup {None}] \cup [do : {"mergeHead"}, id : Tip]
      \cup [do : {"record"}, from : Branch, to : Branch, branch : Branch \cup {None},
            before : Tip, after : Tip]
      \cup [do : {"trim", "pack", "loose", "packs"}]

NoCommand == [kind |-> None, todo |-> <<>>, reach |-> {}, list |-> {}, old |-> {}]

Idle == cmd = NoCommand

\* Open the repository, pass the guards, and start on the effects.
Begin(kind, effects) ==
    /\ Idle /\ count.commands < MaxCommands
    /\ count' = [count EXCEPT !.commands = @ + 1]
    /\ cmd' = [NoCommand EXCEPT !.kind = kind, !.todo = effects]
    /\ UNCHANGED <<refs, head, mergeHead, decided, oplog, store, push, windows, outside, logged, stop>>

\* A snapshot the owner makes: its ancestors besides itself are settled with it.
Make(s, ancestors) ==
    /\ anc[s] = {}
    /\ anc' = [anc EXCEPT ![s] = {s} \cup ancestors]

tip == refs[head]

\* What status can find: the files differ from the tip's tree.  A tree laid out
\* half-way may differ in untracked files only, which status does not count.
Clean == work = tip \/ work = Mixed

\* Mutant: a merge stops with MERGE_HEAD written before the decided tree.
HeadThenDecided(s, t) == <<WriteMergeHead(s), WriteDecided(t)>>

\* merge_state::write: MERGE_HEAD last, it is the in-progress signal.
StopAt(s, t) == <<WriteDecided(t), WriteMergeHead(s)>>

\* merge_state::clear.
ClearMerge == <<WriteMergeHead(None), WriteDecided(None)>>

RecordTip(after) == AppendRecord(head, head, head, tip, after)

\* The working tree, edited, becomes the next snapshot of the current branch; with
\* MERGE_HEAD set this completes the merge.
Commit(s) ==
    /\ Make(s, Closure({tip, mergeHead}))
    /\ work' = s
    /\ Begin("commit", <<Put(s), WriteTip(head, s)>> \o ClearMerge \o <<RecordTip(s)>>)

\* The tip is replaced by a snapshot with the tip's own parents.
Amend(s) ==
    /\ mergeHead = None /\ tip # None
    /\ Make(s, anc[tip] \ {tip})
    /\ work' = s
    /\ Begin("amend", <<Put(s), WriteTip(head, s), RecordTip(s)>>)

CreateBranch(b) ==
    /\ refs[b] = None /\ tip # None
    /\ Begin("branch", <<WriteTip(b, tip), AppendRecord(head, head, b, None, tip)>>)
    /\ UNCHANGED <<work, anc>>

Switch(b) ==
    /\ mergeHead = None /\ Clean /\ refs[b] # None
    /\ Begin("switch", <<Lay(refs[b]), WriteHead(b), AppendRecord(head, b, None, None, None)>>)
    /\ UNCHANGED <<work, anc>>

CanMerge(b) == mergeHead = None /\ Clean /\ refs[b] # None

\* An unborn branch adopts theirs, an ancestor of theirs is fast-forwarded.
MergeForward(b) ==
    /\ CanMerge(b)
    /\ tip = None \/ tip \in anc[refs[b]] \ {refs[b]}
    /\ Begin("merge", <<Lay(refs[b]), WriteTip(head, refs[b]), RecordTip(refs[b])>>)
    /\ UNCHANGED <<work, anc>>

Diverged(b) ==
    /\ CanMerge(b) /\ tip # None
    /\ refs[b] \notin anc[tip] /\ tip \notin anc[refs[b]]
    /\ anc[tip] \cap anc[refs[b]] # {}

\* A three-way merge without conflicts: a snapshot with two parents.
MergeClean(b, s) ==
    /\ Diverged(b)
    /\ Make(s, anc[tip] \cup anc[refs[b]])
    /\ Begin("merge", <<Lay(s), Put(s), WriteTip(head, s), RecordTip(s)>>)
    /\ UNCHANGED work

\* A three-way merge with conflicts stops: the decided tree is stored, markers are
\* laid out, and the merge state is written.
MergeConflicted(b, t) ==
    /\ Diverged(b)
    /\ Begin("merge", <<Put(t), Lay(Marked)>> \o StopAt(refs[b], t))
    /\ UNCHANGED <<work, anc>>

MergeAbort ==
    /\ mergeHead # None
    /\ Begin("abort", (IF tip = None THEN <<>> ELSE <<Lay(tip)>>) \o ClearMerge)
    /\ UNCHANGED <<work, anc>>

\* The last record's before-state is restored: its ref, HEAD if it moved, and the
\* working tree if HEAD moved or the record moves the tip of the branch HEAD had.
Undo ==
    /\ ReadAll # <<>> /\ mergeHead = None
    /\ LET rec == LastRecord
           movesTip == rec.branch = rec.from /\ rec.before # rec.after
           willBe == IF rec.branch = rec.from THEN rec.before ELSE refs[rec.from]
           lays == rec.from # rec.to \/ movesTip
       IN  /\ lays => willBe # None /\ Clean
           /\ Begin("undo",
                    (IF rec.branch = None THEN <<>> ELSE <<WriteTip(rec.branch, rec.before)>>)
                      \o (IF rec.from = rec.to THEN <<>> ELSE <<WriteHead(rec.from)>>)
                      \o (IF lays THEN <<Lay(willBe)>> ELSE <<>>)
                      \o <<AppendRecord(rec.to, rec.from, rec.branch, rec.after, rec.before)>>)
    /\ UNCHANGED <<work, anc>>

Gc ==
    /\ Begin("gc", <<GcStep("trim"), GcStep("pack"), GcStep("loose"), GcStep("packs")>>)
    /\ UNCHANGED <<work, anc>>

-----------------------------------------------------------------------------
(* The effects of a command, one durable step each *)

At(name) == cmd.todo # <<>> /\ Head(cmd.todo).do = name

\* After the last effect the command returns, and drops the lock.
Done == cmd' = IF Len(cmd.todo) = 1 THEN NoCommand ELSE [cmd EXCEPT !.todo = Tail(@)]

ownerFrame == <<push, windows, anc, count>>

PutStep ==
    /\ At("put") /\ PutObject(Head(cmd.todo).obj)
    /\ Done /\ UNCHANGED <<disk, ownerFrame, outside, logged, stop>>

LayStep ==
    /\ At("lay") /\ work' = Head(cmd.todo).tree
    /\ Done
    /\ UNCHANGED <<refs, head, mergeHead, decided, oplog, store, ownerFrame, outside, logged, stop>>

TipStep ==
    /\ At("tip")
    /\ LET e == Head(cmd.todo)
       IN  /\ refs' = [refs EXCEPT ![e.branch] = e.id]
           /\ outside' = outside \cup Closure({e.id})
    /\ Done /\ UNCHANGED <<head, mergeHead, decided, oplog, work, store, ownerFrame, logged, stop>>

HeadStep ==
    /\ At("head") /\ head' = Head(cmd.todo).branch
    /\ Done
    /\ UNCHANGED <<refs, mergeHead, decided, oplog, work, store, ownerFrame, outside, logged, stop>>

DecidedStep ==
    /\ At("decided") /\ decided' = Head(cmd.todo).root
    /\ Done
    /\ UNCHANGED <<refs, head, mergeHead, oplog, work, store, ownerFrame, outside, logged, stop>>

MergeHeadStep ==
    /\ At("mergeHead") /\ mergeHead' = Head(cmd.todo).id
    /\ stop' = IF mergeHead' = None THEN stop ELSE [branch |-> head, tip |-> tip]
    /\ Done /\ UNCHANGED <<refs, head, decided, oplog, work, store, ownerFrame, outside, logged>>

RecordOf(e) ==
    [from |-> e.from, to |-> e.to, branch |-> e.branch, before |-> e.before, after |-> e.after,
     win |-> windows]

RecordStep ==
    /\ At("record")
    /\ oplog' = Appended(RecordOf(Head(cmd.todo)))
    /\ logged' = RecordOf(Head(cmd.todo))
    /\ Done
    /\ UNCHANGED <<refs, head, mergeHead, decided, work, store, ownerFrame, outside, stop>>

-----------------------------------------------------------------------------
(* gc::run *)

Trim ==
    /\ At("trim") /\ \E i \in 1..(Len(ReadAll) + 1) : TrimTo(i)
    /\ Done
    /\ UNCHANGED <<refs, head, mergeHead, decided, work, store, ownerFrame, outside, logged, stop>>

\* The whole reachable set, in one fresh pack.
Packed == IF Reachable = {} THEN packs ELSE packs \cup {Reachable}

\* The walk of the roots and the new pack; the strict walk fails on a missing
\* object.  Then the loose objects and the superseded packs are listed.
Pack ==
    /\ At("pack")
    /\ IF Reachable \subseteq Stored
       THEN /\ packs' = Packed
            /\ cmd' = [cmd EXCEPT !.todo = Tail(@), !.reach = Reachable, !.list = loose,
                                  !.old = IF Reachable = {} THEN {} ELSE packs \ {Reachable}]
       ELSE packs' = packs /\ cmd' = NoCommand
    /\ UNCHANGED <<disk, loose, fresh, ownerFrame, outside, logged, stop>>

\* Mutant: the grace window is not looked at.
PruneAny(o) == TRUE

\* A loose object goes if it is in the new pack, or has outlived the window.
Prunes(o) == o \in cmd.reach \/ o \notin fresh

Pushing(p) == push[p].new # None

\* What a push under way does not mean to send, or not any more.
Counted ==
    UNION {(anc[push[p].new] \ (push[p].todo \cup push[p].send)) \cup (push[p].todo \cap push[p].index) :
              p \in {q \in Pusher : Pushing(q)}}

\* "spared": no pass deletes the last copy of an object on which a push under way
\* counts.  Nothing in the code ensures it where the grace window does not: an old
\* object, one that was packed meanwhile, or a push that outlasts the window.
Spares(remaining) == "spared" \in Environment => (Counted \cap Stored) \ fresh \subseteq remaining

PruneLoose(o) ==
    /\ At("loose") /\ o \in cmd.list
    /\ loose' = IF Prunes(o) THEN loose \ {o} ELSE loose
    /\ fresh' = fresh \cap loose'
    /\ Spares(loose' \cup UNION packs)
    /\ cmd' = [cmd EXCEPT !.list = @ \ {o}]
    /\ UNCHANGED <<disk, packs, ownerFrame, outside, logged, stop>>

DropPack(k) ==
    /\ At("packs") /\ k \in cmd.old
    /\ packs' = packs \ {k}
    /\ Spares(loose \cup UNION packs')
    /\ cmd' = [cmd EXCEPT !.old = @ \ {k}]
    /\ UNCHANGED <<disk, loose, fresh, ownerFrame, outside, logged, stop>>

EndOfList ==
    /\ \/ At("loose") /\ cmd.list = {}
       \/ At("packs") /\ cmd.old = {}
    /\ Done /\ UNCHANGED <<disk, store, ownerFrame, outside, logged, stop>>

-----------------------------------------------------------------------------
(* Crashes and time *)

\* The command dies between two effects.  An append may be torn, a working tree
\* laid out in part.
Crash ==
    /\ ~Idle /\ count.crashes < MaxCrashes
    /\ count' = [count EXCEPT !.crashes = @ + 1]
    /\ cmd' = NoCommand /\ logged' = None
    /\ oplog' \in IF At("record") THEN {oplog, ReadAll, Append(ReadAll, Torn)} ELSE {oplog}
    /\ work' \in IF At("lay") THEN {work, Mixed} ELSE {work}
    /\ UNCHANGED <<refs, head, mergeHead, decided, store, push, windows, anc, outside, stop>>

\* The grace window elapses: whatever is loose is now older than it.
\* "timely": no push takes that long; "brisk": no command does.
Tick ==
    /\ windows < MaxWindows
    /\ "timely" \in Environment => \A p \in Pusher : ~Pushing(p)
    /\ "brisk" \in Environment => Idle
    /\ windows' = windows + 1
    /\ fresh' = {}
    /\ UNCHANGED <<disk, loose, packs, cmd, push, history, count>>

-----------------------------------------------------------------------------
(* A push into this repository: push_opts at the other end, LocalTransport here *)

NoPush == [branch |-> None, new |-> None, old |-> None, todo |-> {}, send |-> {}, index |-> {}]

PushState ==
    [branch : Branch \cup {None}, new : Tip, old : Tip,
     todo : SUBSET Snapshot, send : SUBSET Snapshot, index : SUBSET Object]

pushFrame == <<head, mergeHead, decided, oplog, work, cmd, windows, logged, stop>>

\* The transport is opened, which loads the pack indexes; the remote tip is listed
\* and must be an ancestor of the tip to push: one that exists elsewhere, or one
\* committed there on such a snapshot.
BeginPush(p, b, s) ==
    /\ ~Pushing(p) /\ count.pushes < MaxPushes
    /\ \/ s \in outside /\ UNCHANGED anc
       \/ \E base \in outside \cup {None} : Make(s, Closure({base}))
    /\ refs[b] # s
    /\ refs[b] # None => refs[b] \in anc'[s]
    /\ outside' = outside \cup {s}
    /\ push' = [push EXCEPT ![p] =
                  [NoPush EXCEPT !.branch = b, !.new = s, !.old = refs[b],
                                 !.todo = anc'[s], !.index = UNION packs]]
    /\ count' = [count EXCEPT !.pushes = @ + 1]
    /\ UNCHANGED <<refs, store, pushFrame>>

\* has_object: a loose file, or a pack that was there when the store was opened.
HasObject(p, o) == o \in loose \cup push[p].index

Probe(p, o) ==
    /\ o \in push[p].todo
    /\ push' = [push EXCEPT ![p].todo = @ \ {o},
                            ![p].send = IF HasObject(p, o) THEN @ ELSE @ \cup {o}]
    /\ UNCHANGED <<refs, store, anc, outside, count, pushFrame>>

\* put_pack, record by record: put leaves an object that is loose by now alone.
PutPack(p, o) ==
    /\ push[p].todo = {} /\ o \in push[p].send
    /\ PutObject(o)
    /\ push' = [push EXCEPT ![p].send = @ \ {o}]
    /\ UNCHANGED <<refs, anc, outside, count, pushFrame>>

\* Mutant: no look at a stopped merge.
NothingStopped(b) == FALSE

\* A stopped merge is completed against the tip of the checked-out branch.
StoppedHere(b) == mergeHead # None /\ head = b

\* Mutant: the tip is not compared again under the lock.
StillThere(p) == TRUE

TipUnmoved(p) == refs[push[p].branch] = push[p].old

\* update_ref, under the lock: with the lock held by a command, the branch already
\* at the tip, a stopped merge, or a tip that moved, nothing is written.
UpdateRef(p) ==
    /\ Pushing(p) /\ push[p].todo = {} /\ push[p].send = {}
    /\ refs' = IF Idle /\ ~StoppedHere(push[p].branch) /\ TipUnmoved(p)
               THEN [refs EXCEPT ![push[p].branch] = push[p].new]
               ELSE refs
    /\ push' = [push EXCEPT ![p] = NoPush]
    /\ UNCHANGED <<store, anc, outside, count, pushFrame>>

\* The push fails or its connection ends; what it uploaded stays.
GiveUp(p) ==
    /\ Pushing(p)
    /\ push' = [push EXCEPT ![p] = NoPush]
    /\ UNCHANGED <<refs, store, anc, outside, count, pushFrame>>

-----------------------------------------------------------------------------

\* A repository just initialised.
Init ==
    /\ refs = [b \in Branch |-> None] /\ head = Main
    /\ mergeHead = None /\ decided = None /\ oplog = <<>> /\ work = None
    /\ loose = {} /\ fresh = {} /\ packs = {}
    /\ cmd = NoCommand /\ push = [p \in Pusher |-> NoPush] /\ windows = 0
    /\ anc = [s \in Snapshot |-> {}] /\ outside = {} /\ logged = None
    /\ stop = [branch |-> Main, tip |-> None]
    /\ count = [commands |-> 0, pushes |-> 0, crashes |-> 0]

Command ==
    \/ \E s \in Snapshot : Commit(s) \/ Amend(s)
    \/ \E b \in Branch : CreateBranch(b) \/ Switch(b) \/ MergeForward(b)
    \/ \E b \in Branch, s \in Snapshot : MergeClean(b, s)
    \/ \E b \in Branch, t \in Tree : MergeConflicted(b, t)
    \/ MergeAbort \/ Undo \/ Gc

EffectStep ==
    \/ PutStep \/ LayStep \/ TipStep \/ HeadStep \/ DecidedStep \/ MergeHeadStep \/ RecordStep
    \/ Trim \/ Pack \/ EndOfList
    \/ \E o \in Object : PruneLoose(o)
    \/ \E k \in packs : DropPack(k)

PushStep(p) ==
    \/ \E b \in Branch, s \in Snapshot : BeginPush(p, b, s)
    \/ \E o \in Snapshot : Probe(p, o) \/ PutPack(p, o)
    \/ UpdateRef(p) \/ GiveUp(p)

Next == Command \/ EffectStep \/ Crash \/ Tick \/ \E p \in Pusher : PushStep(p)

Spec == Init /\ [][Next]_vars

-----------------------------------------------------------------------------
(* Properties *)

\* Refs, files, log, objects, the command and the pushes are of the kinds the code
\* reads and writes.
LocalTypeOK ==
    /\ refs \in [Branch -> Tip] /\ head \in Branch
    /\ mergeHead \in Tip /\ decided \in Tree \cup {None}
    /\ \A i \in DOMAIN oplog : oplog[i] \in Record \/ (i = Len(oplog) /\ oplog[i] = Torn)
    /\ work \in Tip \cup {Mixed, Marked}
    /\ loose \subseteq Object /\ fresh \subseteq loose /\ packs \subseteq SUBSET Object
    /\ \A i \in DOMAIN cmd.todo : cmd.todo[i] \in Effect
    /\ cmd.reach \subseteq Object /\ cmd.list \subseteq Object /\ cmd.old \subseteq SUBSET Object
    /\ push \in [Pusher -> PushState]
    /\ windows \in 0..MaxWindows

\* Every branch can be read: all its history is in the store, whatever gc, pushes
\* and crashes did in between ("a reachable object is never dropped", gc.rs).
TipsReadable == \A b \in Branch : Closure({refs[b]}) \subseteq Stored

\* Undo never dangles (ADR-0024): whatever a record in the log can restore is still
\* in the store, even when gc has trimmed, packed and pruned around it.
UndoNeverDangles ==
    \A r \in Logged : Closure({r.before, r.after}) \subseteq Stored

\* The operation undo would undo is the last one that ended: neither a torn tail of an
\* earlier crash nor gc's trim hides its record (record, trim_older_than).
LastOperationIsLogged ==
    Idle /\ logged # None => ReadAll # <<>> /\ LastRecord = logged

\* A stopped merge can be finished or aborted: HEAD, the other parent's history and
\* the decided tree are there, whichever step the stop or its end crashed at.
StoppedMergeCanFinish ==
    mergeHead # None =>
       /\ Closure({mergeHead}) \subseteq Stored
       /\ decided \in Stored
       /\ head = stop.branch

\* A stopped merge is completed on the tip it was decided against, or on its own
\* completing commit: no push moves that tip underneath it (update_ref).
CompletionExtendsStop ==
    mergeHead # None => tip = stop.tip \/ (tip # None /\ mergeHead \in anc[tip])

\* Outside amend and undo a branch only moves forward: a push that lost a race never
\* rewinds it (update_ref compares again under the lock), nor does a merge.
OnlyEditingRewinds ==
    [][\A b \in Branch :
          refs[b] # None /\ refs'[b] # refs[b] =>
             \/ refs'[b] # None /\ refs[b] \in anc[refs'[b]]
             \/ cmd.kind \in {"amend", "undo"}]_vars

\* Undo lays out the tree of the branch HEAD names, and no other: "re-materialize the
\* working tree when the restore actually changes what the (post-restore) current
\* branch resolves to" (undo).
UndoLaysCurrentBranch ==
    cmd.kind = "undo" /\ At("record") =>
       LET e == Head(cmd.todo)
       IN  e.from # e.to \/ (e.branch = e.to /\ e.before # e.after) => work = tip
=============================================================================
