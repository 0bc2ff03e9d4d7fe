------------------------------ MODULE BucketWal ------------------------------
(***************************************************************************)
(* A bucket remote (`sc+wal://`, `sc+s3://`): refs and packs kept in an    *)
(* object-storage bucket as a parent-linked write-ahead log.               *)
(*   crates/repo/src/bucket_transport.rs   refresh, update_ref, the fold   *)
(*   crates/repo/src/walfmt.rs             manifest, log entry, checkpoint *)
(*   crates/repo/src/sync.rs               push, fetch                     *)
(*   crates/objio/src/{lib,dir,s3}.rs      the Bucket contract             *)
(*                                                                         *)
(* There is no server: every client is a BucketTransport that issues       *)
(* single-key requests, and the manifest's compare-and-swap is the only    *)
(* synchronization.  One bucket request is one step, so the steps of the   *)
(* clients interleave between any two requests of one of them.             *)
(*                                                                         *)
(* Data is abstracted to what the protocol tells apart.  An object is a    *)
(* snapshot with the content it introduces; Ancestors[s] is everything     *)
(* reachable from s.  A pack is the set of objects in it, which is also    *)
(* its name: packs are addressed by the hash of bytes that are a function  *)
(* of the object set.  A manifest's tag is the manifest itself (a content  *)
(* hash or an ETag).                                                       *)
(***************************************************************************)
EXTENDS Integers, FiniteSets

CONSTANTS
    Client,             \* transports, each used by one thread at a time
    Branch,
    Snapshot,
    Ancestors,          \* Ancestors[s]: s and all it reaches
    None,               \* Option::None, an absent key, an absent ref
    MaxSeq,             \* bound: highest log slot
    CheckpointInterval, \* CHECKPOINT_INTERVAL, 64 in the code
    MaxList,            \* walfmt::MAX_LIST, the longest list a checkpoint holds
    MaxCasRetries,      \* MAX_CAS_RETRIES, 16 in the code
    MaxRestarts,        \* MAX_RESTARTS, 8 in the code
    Uploads,            \* how pushers hand over objects
    MaxLost,            \* bound: responses lost after the request was applied
    MaxCalls            \* bound: pushes and fetches started, all clients together

ASSUME WalAssumption ==
    /\ Ancestors \in [Snapshot -> SUBSET Snapshot]
    /\ \A s \in Snapshot : s \in Ancestors[s]
    /\ \A s \in Snapshot : \A t \in Ancestors[s] : Ancestors[t] \subseteq Ancestors[s]
    /\ None \notin Snapshot
    /\ MaxSeq \in Nat /\ CheckpointInterval \in Nat /\ MaxList \in Nat
    /\ MaxCasRetries \in Nat \ {0} /\ MaxRestarts \in Nat /\ MaxLost \in Nat
    /\ MaxCalls \in Nat
    /\ Uploads \subseteq {"put_pack", "put_object"}

Slot == 1..MaxSeq
Tip == Snapshot \cup {None}
Refs == [Branch -> Tip]
Pack == SUBSET Snapshot

NoRefs == [b \in Branch |-> None]

\* walfmt::Manifest, LogEntry (its seq is its key) and Checkpoint.  An entry
\* of a push carries one ref update; one of a compaction (branch = None)
\* carries none.
Manifest == [head : Slot, ck : 0..MaxSeq, branch : Branch]
LogEntry == [parent : 0..MaxSeq, packs : SUBSET Pack,
             branch : Branch \cup {None}, new : Tip]
Checkpoint == [refs : Refs, packs : SUBSET Pack]

\* What BucketTransport keeps of the chain it read last.
View == [m : Manifest, refs : Refs, packs : SUBSET Pack]

ASSUME NoneAssumption ==
    /\ None \notin Branch /\ None \notin Manifest
    /\ None \notin LogEntry /\ None \notin Checkpoint /\ None \notin View

VARIABLES
    (* the bucket *)
    manifest,   \* the `manifest` key
    log,        \* log/<seq>
    ckpt,       \* checkpoints/<seq>
    bodies,     \* packs/<hash>.pack
    idxs,       \* packs/<hash>.idx
    (* each client *)
    pc,         \* the request it makes next
    view,       \* BucketTransport::view: manifest, refs, packs
    rd,         \* locals of a refresh in progress
    op,         \* locals of the push or fetch in progress
    pending,    \* BucketTransport::pending_packs
    staged,     \* BucketTransport::staged
    (* history, read by no action's guard *)
    hist,       \* refs and packs as of each committed log entry
    acked,      \* <<branch, tip>> of every push that was reported done
    corrupt,    \* clients that reported a corrupt bucket
    lost,       \* responses lost so far
    calls       \* pushes and fetches started so far

bucketVars == <<manifest, log, ckpt, bodies, idxs>>
sessionVars == <<pending, staged>>
historyVars == <<hist, acked, corrupt, lost, calls>>
vars == <<bucketVars, pc, view, rd, op, sessionVars, historyVars>>

\* The request, or the local step, a client makes next: those of refresh, of a
\* push before and after its commit, of a fetch, and of compact
\* (BucketCompaction).
WalkLabels == {"getCheckpoint", "getLog", "getIdx"}
ReadLabels == {"getManifest"} \cup WalkLabels
CommitLabels == {"probe", "upload", "putPack", "putIdx", "updateRef", "attempt",
                 "claim", "ensure", "cas"}
LandedLabels == {"foldPut", "foldCas", "done"}
FetchLabels == {"fetchRefs", "read", "reread"}
CompactLabels == {"compact", "plan", "readMembers", "mergePut", "mergeIdx", "fence",
                  "mergeClaim", "putCheckpoint", "mergeEnsure", "mergeCas", "merged",
                  "sweepList", "sweepDelete", "sweepIdx", "sweepBody"}
Label == {"idle", "listed"} \cup ReadLabels \cup CommitLabels \cup LandedLabels
            \cup FetchLabels \cup CompactLabels

Reading == [ret : Label, m : Manifest \cup {None}, cur : 0..MaxSeq,
            tail : Refs, refs : Refs, packs : SUBSET Pack,
            failed : Manifest \cup {None}, left : 0..MaxRestarts]

NoReading == [ret |-> "idle", m |-> None, cur |-> 0,
              tail |-> NoRefs, refs |-> NoRefs, packs |-> {},
              failed |-> None, left |-> 0]

Op == [branch : Branch \cup {None}, new : Tip, old : Tip,
       via : {"put_pack", "put_object", None}, todo : SUBSET Snapshot, send : SUBSET Snapshot,
       pend : SUBSET Pack,
       base : Manifest \cup {None}, seq : 0..(MaxSeq + 1), n : Nat]

NoOp == [branch |-> None, new |-> None, old |-> None,
         via |-> None, todo |-> {}, send |-> {}, pend |-> {}, base |-> None, seq |-> 0, n |-> 0]

TypeOK ==
    /\ manifest \in Manifest \cup {None}
    /\ log \in [Slot -> LogEntry \cup {None}]
    /\ ckpt \in [Slot -> Checkpoint \cup {None}]
    /\ bodies \in SUBSET Pack /\ idxs \in SUBSET Pack
    /\ pc \in [Client -> Label]
    /\ view \in [Client -> View \cup {None}]
    /\ rd \in [Client -> Reading]
    /\ op \in [Client -> Op]
    /\ pending \in [Client -> SUBSET Pack]
    /\ staged \in [Client -> SUBSET Snapshot]
    /\ hist \in [0..MaxSeq -> Checkpoint \cup {None}]
    /\ acked \in SUBSET (Branch \X Snapshot)
    /\ corrupt \subseteq Client
    /\ lost \in 0..MaxLost
    /\ calls \in 0..MaxCalls

Init ==
    /\ manifest = None
    /\ log = [s \in Slot |-> None]
    /\ ckpt = [s \in Slot |-> None]
    /\ bodies = {} /\ idxs = {}
    /\ pc = [c \in Client |-> "idle"]
    /\ view = [c \in Client |-> None]
    /\ rd = [c \in Client |-> NoReading]
    /\ op = [c \in Client |-> NoOp]
    /\ pending = [c \in Client |-> {}]
    /\ staged = [c \in Client |-> {}]
    /\ hist = [s \in 0..MaxSeq |-> IF s = 0 THEN [refs |-> NoRefs, packs |-> {}] ELSE None]
    /\ acked = {}
    /\ corrupt = {}
    /\ lost = 0
    /\ calls = 0

-----------------------------------------------------------------------------
(* Control helpers *)

Goto(c, label) == pc' = [pc EXCEPT ![c] = label]

\* self.refresh()?, to go on at label ret.
CallRefresh(c, ret) ==
    /\ Goto(c, "getManifest")
    /\ rd' = [rd EXCEPT ![c] = [NoReading EXCEPT !.ret = ret, !.left = MaxRestarts]]

\* The call returns to its caller with result res.
Return(c, res) ==
    /\ Goto(c, "idle")
    /\ rd' = [rd EXCEPT ![c] = NoReading]
    /\ op' = [op EXCEPT ![c] = NoOp]
    /\ corrupt' = IF res = "corrupt" THEN corrupt \cup {c} ELSE corrupt

\* An error inside maybe_fold_checkpoint is dropped: the push has landed.
Committed(c) == pc[c] \in LandedLabels \/ rd[c].ret = "done"

\* update_ref returns Ok.
Acknowledge(c) ==
    /\ acked' = acked \cup {<<op[c].branch, op[c].new>>}
    /\ Return(c, "ok")

Throw(c, res) ==
    IF Committed(c) THEN Acknowledge(c)
                    ELSE Return(c, res) /\ UNCHANGED acked

ViewRefs(c) == IF view[c] = None THEN NoRefs ELSE view[c].refs
ViewObjects(c) == IF view[c] = None THEN {} ELSE UNION view[c].packs
ViewTag(c) == IF view[c] = None THEN None ELSE view[c].m

Head(m) == IF m = None THEN 0 ELSE m.head

-----------------------------------------------------------------------------
(* refresh: one conditional GET of the manifest; if it changed, the          *)
(* checkpoint it names and the log from head back to the checkpoint.         *)

GetManifest(c) ==
    /\ pc[c] = "getManifest"
    /\ \/ /\ manifest = None                                      \* Absent
          /\ view' = [view EXCEPT ![c] = None]
          /\ Goto(c, rd[c].ret)
          /\ rd' = [rd EXCEPT ![c] = NoReading]
       \/ /\ manifest # None /\ ViewTag(c) = manifest             \* Unchanged
          /\ Goto(c, rd[c].ret)
          /\ rd' = [rd EXCEPT ![c] = NoReading]
          /\ UNCHANGED view
       \/ /\ manifest # None /\ ViewTag(c) # manifest             \* New
          /\ rd' = [rd EXCEPT ![c] = [@ EXCEPT !.m = manifest, !.cur = manifest.head,
                        !.tail = NoRefs, !.refs = NoRefs, !.packs = {}]]
          /\ Goto(c, IF manifest.ck # 0 THEN "getCheckpoint" ELSE "getLog")
          /\ UNCHANGED view
    /\ UNCHANGED <<bucketVars, op, sessionVars, historyVars>>

\* A mutant: no second look at the manifest.
AnyManifest(c) == TRUE

SameManifest(c) == rd[c].m = rd[c].failed

\* A key the manifest's chain names is absent.  If the manifest has moved
\* since, a compaction may have deleted it: start over; the same manifest
\* failing twice is a corrupt bucket.
Gone(c) ==
    \/ /\ rd[c].left > 0 /\ ~SameManifest(c)
       /\ Goto(c, "getManifest")
       /\ rd' = [rd EXCEPT ![c].failed = rd[c].m, ![c].left = rd[c].left - 1]
       /\ UNCHANGED <<op, acked, corrupt>>
    \/ /\ rd[c].left = 0 \/ SameManifest(c)
       /\ Throw(c, IF SameManifest(c) THEN "corrupt" ELSE "err")

GetCheckpoint(c) ==
    /\ pc[c] = "getCheckpoint"
    /\ LET k == ckpt[rd[c].m.ck] IN
       \/ /\ k # None
          /\ rd' = [rd EXCEPT ![c].refs = k.refs, ![c].packs = k.packs]
          /\ Goto(c, "getLog")
          /\ UNCHANGED <<op, acked, corrupt>>
       \/ k = None /\ Gone(c)
    /\ UNCHANGED <<bucketVars, view, sessionVars, hist, lost, calls>>

\* A mutant: the entries are replayed newest first.
OldestWins(tail, e) == [b \in Branch |-> IF b = e.branch THEN e.new ELSE tail[b]]

\* The walk reads the tail newest first and replays it oldest first; keeping,
\* per branch, the first update met on the way back is the same.
Replay(tail, e) ==
    [b \in Branch |-> IF b = e.branch /\ tail[b] = None THEN e.new ELSE tail[b]]

GetLog(c) ==
    /\ pc[c] = "getLog"
    /\ LET r == rd[c]  e == log[r.cur] IN
       \/ /\ r.cur = r.m.ck
          /\ Goto(c, "getIdx")
          /\ UNCHANGED <<rd, op, acked, corrupt>>
       \/ /\ r.cur > r.m.ck /\ e # None
          /\ rd' = [rd EXCEPT ![c].cur = e.parent,
                        ![c].packs = r.packs \cup e.packs,
                        ![c].tail = Replay(r.tail, e)]
          /\ UNCHANGED <<pc, op, acked, corrupt>>
       \/ r.cur > r.m.ck /\ e = None /\ Gone(c)
       \/ r.cur < r.m.ck /\ Throw(c, "corrupt")                   \* chain bypasses checkpoint
    /\ UNCHANGED <<bucketVars, view, sessionVars, hist, lost, calls>>

\* The idx of every pack on the chain, then the new view.  The GETs are one
\* step: a pack the chain names is uploaded before it is named, so if each is
\* there when its turn comes, all were there when the first was read.
GetIdx(c) ==
    /\ pc[c] = "getIdx"
    /\ LET r == rd[c] IN
       \/ /\ r.packs \subseteq idxs
          /\ view' = [view EXCEPT ![c] =
                [m |-> r.m, packs |-> r.packs,
                 refs |-> [b \in Branch |-> IF r.tail[b] = None THEN r.refs[b] ELSE r.tail[b]]]]
          /\ Goto(c, r.ret)
          /\ rd' = [rd EXCEPT ![c] = NoReading]
          /\ UNCHANGED <<op, acked, corrupt>>
       \/ /\ ~(r.packs \subseteq idxs)
          /\ Gone(c)
          /\ UNCHANGED view
    /\ UNCHANGED <<bucketVars, sessionVars, hist, lost, calls>>

RefreshStep(c) ==
    GetManifest(c) \/ GetCheckpoint(c) \/ GetLog(c) \/ GetIdx(c)

-----------------------------------------------------------------------------
(* push (sync.rs): list_refs, the fast-forward check against the remote tip, *)
(* one has_object per reachable object, put_pack of the missing ones.        *)

BeginPush(c) ==
    /\ pc[c] = "idle"
    /\ calls < MaxCalls /\ calls' = calls + 1
    /\ \E b \in Branch, s \in Snapshot :
          op' = [op EXCEPT ![c] = [NoOp EXCEPT !.branch = b, !.new = s]]
    /\ CallRefresh(c, "listed")
    /\ UNCHANGED <<bucketVars, view, sessionVars, hist, acked, corrupt, lost>>

Listed(c) ==
    /\ pc[c] = "listed"
    /\ LET o == op[c]  tip == ViewRefs(c)[o.branch] IN
       \/ tip = o.new /\ Acknowledge(c)                        \* up to date
       \/ /\ tip # None /\ tip # o.new /\ tip \notin Ancestors[o.new]
          /\ Return(c, "nonff") /\ UNCHANGED acked
       \/ /\ tip # o.new /\ (tip = None \/ tip \in Ancestors[o.new])
          /\ op' = [op EXCEPT ![c].old = tip, ![c].todo = Ancestors[o.new]]
          /\ CallRefresh(c, "probe")
          /\ UNCHANGED <<acked, corrupt>>
    /\ UNCHANGED <<bucketVars, view, sessionVars, hist, lost, calls>>

\* has_object, for one reachable object at a time in a fixed order (that of
\* their ids); each call refreshes first.
Probe(c) ==
    /\ pc[c] = "probe"
    /\ LET s == CHOOSE x \in op[c].todo : TRUE
           todo == op[c].todo \ {s}
           send == op[c].send \cup ({s} \ ViewObjects(c))
       IN /\ op' = [op EXCEPT ![c].todo = todo, ![c].send = send]
          /\ \/ todo # {} /\ CallRefresh(c, "probe")
             \/ todo = {} /\ send # {} /\ Goto(c, "upload") /\ UNCHANGED rd
             \/ todo = {} /\ send = {} /\ Goto(c, "updateRef") /\ UNCHANGED rd
    /\ UNCHANGED <<bucketVars, view, sessionVars, historyVars>>

-----------------------------------------------------------------------------
(* put_pack, put_object, flush_staged *)

\* put_pack uploads at once; put_object (a served session's wire command) only
\* stages, and the next update_ref uploads.
Upload(c) ==
    /\ pc[c] = "upload"
    /\ \E via \in Uploads :
        \/ /\ via = "put_pack"
           /\ op' = [op EXCEPT ![c].via = via]
           /\ Goto(c, "putPack")
           /\ UNCHANGED staged
        \/ /\ via = "put_object"
           /\ op' = [op EXCEPT ![c].send = {}]
           /\ staged' = [staged EXCEPT ![c] = @ \cup op[c].send]
           /\ Goto(c, "updateRef")
    /\ UNCHANGED <<bucketVars, view, rd, pending, historyVars>>

\* upload_pack: the body, then the idx; put_new on a key that exists is
\* success (same name, same content) and leaves the object as it is.
PutPack(c) ==
    /\ pc[c] = "putPack"
    /\ bodies' = bodies \cup {op[c].send}
    /\ Goto(c, "putIdx")
    /\ UNCHANGED <<manifest, log, ckpt, idxs, view, rd, op, sessionVars, historyVars>>

PutIdx(c) ==
    /\ pc[c] = "putIdx"
    /\ idxs' = idxs \cup {op[c].send}
    /\ pending' = [pending EXCEPT ![c] = @ \cup {op[c].send}]
    /\ op' = [op EXCEPT ![c].send = {}]
    /\ Goto(c, "updateRef")
    /\ UNCHANGED <<manifest, log, ckpt, bodies, view, rd, staged, historyVars>>

-----------------------------------------------------------------------------
(* update_ref *)

\* Flush what is staged, then take the pending packs into the call.
UpdateRef(c) ==
    /\ pc[c] = "updateRef"
    /\ \/ /\ staged[c] # {}
          /\ op' = [op EXCEPT ![c].via = "put_object", ![c].send = staged[c]]
          /\ staged' = [staged EXCEPT ![c] = {}]
          /\ Goto(c, "putPack")
          /\ UNCHANGED <<pending, rd>>
       \/ /\ staged[c] = {}
          /\ op' = [op EXCEPT ![c].pend = pending[c]]
          /\ pending' = [pending EXCEPT ![c] = {}]
          /\ CallRefresh(c, "attempt")
          /\ UNCHANGED staged
    /\ UNCHANGED <<bucketVars, view, historyVars>>

\* A mutant: the tip is not compared with the one push was checked against.
NeverMoved(c) == FALSE

\* current != expected_old.
TipMoved(c) == ViewRefs(c)[op[c].branch] # op[c].old

\* One pass of the retry loop, after its refresh.
Attempt(c) ==
    /\ pc[c] = "attempt"
    /\ LET o == op[c]  tip == ViewRefs(c)[o.branch] IN
       \/ tip = o.new /\ Acknowledge(c)
       \/ tip # o.new /\ TipMoved(c) /\ Return(c, "nonff") /\ UNCHANGED acked
       \/ /\ tip # o.new /\ ~TipMoved(c)
          /\ op' = [op EXCEPT ![c].base = ViewTag(c), ![c].seq = Head(ViewTag(c)) + 1]
          /\ Goto(c, "claim")
          /\ UNCHANGED <<rd, acked, corrupt>>
    /\ UNCHANGED <<bucketVars, view, sessionVars, hist, lost, calls>>

\* A mutant: the entry forgets the packs taken from pending_packs.
EntryWithoutPacks(c) ==
    [parent |-> Head(op[c].base), packs |-> {}, branch |-> op[c].branch, new |-> op[c].new]

\* put_new(log/<try_seq>): take the slot or try the next one.  A slot whose
\* response is lost and which the S3 client then retries looks taken.
Entry(c) ==
    [parent |-> Head(op[c].base), packs |-> op[c].pend,
     branch |-> op[c].branch, new |-> op[c].new]

\* A mutant: a taken slot is tried again.
SameSlot(seq) == seq

NextSlot(seq) == seq + 1

ClaimSlot(c, next) ==
    /\ \/ /\ op[c].seq > MaxSeq                                    \* the bound
          /\ Return(c, "err")
          /\ UNCHANGED <<log, lost>>
       \/ /\ op[c].seq <= MaxSeq /\ log[op[c].seq] = None
          /\ log' = [log EXCEPT ![op[c].seq] = Entry(c)]
          /\ \/ /\ Goto(c, next)
                /\ UNCHANGED <<op, lost>>
             \/ /\ lost < MaxLost
                /\ lost' = lost + 1
                /\ op' = [op EXCEPT ![c].seq = @ + 1]
                /\ UNCHANGED pc
          /\ UNCHANGED <<rd, corrupt>>
       \/ /\ op[c].seq <= MaxSeq /\ log[op[c].seq] # None
          /\ op' = [op EXCEPT ![c].seq = NextSlot(@)]
          /\ UNCHANGED <<log, pc, rd, corrupt, lost>>
    /\ UNCHANGED <<manifest, ckpt, bodies, idxs, view, sessionVars, hist, acked, calls>>

Claim(c) == pc[c] = "claim" /\ ClaimSlot(c, "ensure")

\* ensure_packs_present: both objects of every pack the entry names.  The
\* HEADs are one step: each pack was uploaded by this client, so if each is
\* there when its turn comes, all were there at the first HEAD.
EnsurePacksPresent(c, next) ==
    /\ \/ /\ op[c].pend \subseteq bodies \cap idxs
          /\ Goto(c, next)
          /\ UNCHANGED <<rd, op, corrupt>>
       \/ /\ ~(op[c].pend \subseteq bodies \cap idxs)
          /\ Return(c, "err")
    /\ UNCHANGED <<bucketVars, view, sessionVars, hist, acked, lost, calls>>

Ensure(c) == pc[c] = "ensure" /\ EnsurePacksPresent(c, "cas")

\* The refs and packs of the chain that ends in this entry.
Extend(h, e) ==
    [refs |-> [b \in Branch |-> IF b = e.branch THEN e.new ELSE h.refs[b]],
     packs |-> h.packs \cup e.packs]

\* A mutant: an empty bucket gets a manifest that names no branch.
ManifestWithoutBranch(c) ==
    [head |-> op[c].seq, ck |-> IF op[c].base = None THEN 0 ELSE op[c].base.ck,
     branch |-> IF op[c].base = None THEN None ELSE op[c].base.branch]

NewManifest(c) ==
    [head |-> op[c].seq,
     ck |-> IF op[c].base = None THEN 0 ELSE op[c].base.ck,
     branch |-> IF op[c].base = None THEN op[c].branch ELSE op[c].base.branch]

\* The next attempt, or give up.
Retry(c) ==
    \/ /\ op[c].n + 1 < MaxCasRetries
       /\ op' = [op EXCEPT ![c].n = @ + 1, ![c].base = None, ![c].seq = 0]
       /\ CallRefresh(c, "attempt")
       /\ UNCHANGED corrupt
    \/ op[c].n + 1 >= MaxCasRetries /\ Return(c, "contention")

\* A mutant: the manifest is written whatever its tag is.
AnyTag(c, tag) == TRUE

\* put_if_tag's precondition; tag None asks for an absent manifest.
TagMatches(c, tag) == manifest = tag

\* put_if_tag(manifest): the commit point.  A commit whose response is lost
\* and which the S3 client retries is reported as a lost race.
Cas(c) ==
    /\ pc[c] = "cas"
    /\ \/ /\ TagMatches(c, op[c].base)
          /\ manifest' = NewManifest(c)
          /\ hist' = [hist EXCEPT ![op[c].seq] = Extend(hist[Entry(c).parent], Entry(c))]
          /\ \/ CallRefresh(c, "foldPut") /\ UNCHANGED <<op, corrupt, lost>>
             \/ lost < MaxLost /\ lost' = lost + 1 /\ Retry(c)
       \/ /\ ~TagMatches(c, op[c].base)
          /\ Retry(c)
          /\ UNCHANGED <<manifest, hist, lost>>
    /\ UNCHANGED <<log, ckpt, bodies, idxs, view, sessionVars, acked, calls>>

-----------------------------------------------------------------------------
(* maybe_fold_checkpoint, from the view the commit's refresh left *)

FoldWouldOverflow(refs, packs) ==
    \/ Cardinality({b \in Branch : refs[b] # None}) > MaxList
    \/ Cardinality(packs) > MaxList

FoldPut(c) ==
    /\ pc[c] = "foldPut"
    /\ LET v == view[c]
           skip == \/ v = None
                   \/ v.m.head - v.m.ck <= CheckpointInterval
                   \/ FoldWouldOverflow(v.refs, v.packs)
       IN \/ skip /\ Acknowledge(c) /\ UNCHANGED ckpt
          \/ /\ ~skip
             /\ ckpt' = IF ckpt[v.m.head] = None
                          THEN [ckpt EXCEPT ![v.m.head] = [refs |-> v.refs, packs |-> v.packs]]
                          ELSE ckpt
             /\ Goto(c, "foldCas")
             /\ UNCHANGED <<rd, op, acked, corrupt>>
    /\ UNCHANGED <<manifest, log, bodies, idxs, view, sessionVars, hist, lost, calls>>

FoldCas(c) ==
    /\ pc[c] = "foldCas"
    /\ \/ /\ TagMatches(c, view[c].m)
          /\ manifest' = [view[c].m EXCEPT !.ck = view[c].m.head]
          /\ CallRefresh(c, "done")
          /\ UNCHANGED <<op, acked, corrupt>>
       \/ ~TagMatches(c, view[c].m) /\ Acknowledge(c) /\ UNCHANGED manifest
    /\ UNCHANGED <<log, ckpt, bodies, idxs, view, sessionVars, hist, lost, calls>>

Done(c) ==
    /\ pc[c] = "done"
    /\ Acknowledge(c)
    /\ UNCHANGED <<bucketVars, view, sessionVars, hist, lost, calls>>

PushStep(c) ==
    \/ Listed(c) \/ Probe(c) \/ Upload(c) \/ PutPack(c) \/ PutIdx(c)
    \/ UpdateRef(c) \/ Attempt(c) \/ Claim(c) \/ Ensure(c) \/ Cas(c)
    \/ FoldPut(c) \/ FoldCas(c) \/ Done(c)

-----------------------------------------------------------------------------
(* fetch: list_refs, then get_pack reads every object the tips reach. *)

BeginFetch(c) ==
    /\ pc[c] = "idle"
    /\ calls < MaxCalls /\ calls' = calls + 1
    /\ op' = [op EXCEPT ![c] = NoOp]
    /\ CallRefresh(c, "fetchRefs")
    /\ UNCHANGED <<bucketVars, view, sessionVars, hist, acked, corrupt, lost>>

FetchRefs(c) ==
    /\ pc[c] = "fetchRefs"
    /\ op' = [op EXCEPT ![c].todo =
                UNION {Ancestors[s] : s \in {ViewRefs(c)[b] : b \in Branch} \ {None}},
              ![c].n = MaxRestarts]
    /\ CallRefresh(c, "read")
    /\ UNCHANGED <<bucketVars, view, sessionVars, historyVars>>

\* object_bytes: look the object up in the view's index and GET the body of its
\* pack.  Which of several packs with the object the index names depends on
\* chain order; any may be.
LookUp(c) ==
    \/ /\ op[c].todo = {}
       /\ Return(c, "ok")
    \/ \E s \in op[c].todo :
         \/ /\ s \notin ViewObjects(c)
            /\ Return(c, "corrupt")
         \/ \E p \in (IF view[c] = None THEN {} ELSE view[c].packs) :
              /\ s \in p
              /\ \/ /\ p \in bodies
                    /\ op' = [op EXCEPT ![c].todo = @ \ {s}, ![c].n = MaxRestarts]
                    /\ UNCHANGED <<pc, rd, corrupt>>
                 \/ /\ p \notin bodies /\ op[c].n > 0
                    /\ op' = [op EXCEPT ![c].n = @ - 1, ![c].base = ViewTag(c)]
                    /\ CallRefresh(c, "reread")
                    /\ UNCHANGED corrupt
                 \/ /\ p \notin bodies /\ op[c].n = 0
                    /\ Return(c, "err")

\* restarting: the body was absent and the view has been refreshed; an
\* unchanged manifest means it is really gone.
Restart(c) ==
    \/ /\ ViewTag(c) = op[c].base
       /\ Return(c, "corrupt")
    \/ /\ ViewTag(c) # op[c].base
       /\ op' = [op EXCEPT ![c].base = None]
       /\ Goto(c, "read")
       /\ UNCHANGED <<rd, corrupt>>

ReadObject(c) ==
    /\ \/ pc[c] = "read" /\ LookUp(c)
       \/ pc[c] = "reread" /\ Restart(c)
    /\ UNCHANGED <<bucketVars, view, sessionVars, hist, acked, lost, calls>>

FetchStep(c) == FetchRefs(c) \/ ReadObject(c)

-----------------------------------------------------------------------------
\* Any request may fail; the error ends the call.  A flush that fails puts the
\* staged objects back.  The bound on log slots ends a push the same way.
Fail(c) ==
    /\ pc[c] # "idle"
    /\ Throw(c, "err")
    /\ staged' = IF pc[c] \in {"putPack", "putIdx"} /\ op[c].via = "put_object"
                   THEN [staged EXCEPT ![c] = op[c].send] ELSE staged
    /\ UNCHANGED <<bucketVars, view, pending, hist, lost, calls>>

\* The process has died (its last call looks failed) or the session has ended,
\* and a new transport is opened.
Reopen(c) ==
    /\ pc[c] = "idle"
    /\ view' = [view EXCEPT ![c] = None]
    /\ pending' = [pending EXCEPT ![c] = {}]
    /\ staged' = [staged EXCEPT ![c] = {}]
    /\ UNCHANGED <<bucketVars, pc, rd, op, historyVars>>

Step(c) == RefreshStep(c) \/ PushStep(c) \/ FetchStep(c)

Progress(c) == Step(c) \/ Fail(c) \/ Reopen(c)

Next ==
    \E c \in Client : BeginPush(c) \/ BeginFetch(c) \/ Progress(c)

Spec == Init /\ [][Next]_vars

\* A client goes on with a call it has begun; nothing makes it begin one.
FairSpec == Spec /\ \A c \in Client : WF_vars(Step(c))

-----------------------------------------------------------------------------
(* Properties *)

CurrentState == hist[Head(manifest)]

\* What any completed refresh leaves in a view is exactly the refs and packs
\* of the chain its manifest names, whatever was appended, folded or deleted
\* while the client walked the log (refresh_once).
ViewIsTruth ==
    \A c \in Client : view[c] # None =>
        /\ hist[view[c].m.head] # None
        /\ view[c].refs = hist[view[c].m.head].refs
        /\ view[c].packs = hist[view[c].m.head].packs

\* Everything reachable from a ref the manifest publishes is in a pack the
\* chain names, and both objects of every such pack are in the bucket: a cold
\* clone can always read what the refs promise.
RefsReadable ==
    /\ CurrentState.packs \subseteq bodies \cap idxs
    /\ \A b \in Branch : CurrentState.refs[b] # None =>
          Ancestors[CurrentState.refs[b]] \subseteq UNION CurrentState.packs

\* A push that was reported done stays: the branch's tip is the pushed
\* snapshot or a descendant of it.
AckedIsDurable ==
    \A a \in acked : /\ CurrentState.refs[a[1]] # None
                     /\ a[2] \in Ancestors[CurrentState.refs[a[1]]]

\* refresh and object_bytes fail closed only on a bucket that is corrupt: no
\* interleaving of correct clients makes a read report one.
NoFalseCorruption == corrupt = {}

\* The manifest only moves forward in (head_seq, checkpoint_seq) order, so no
\* tag ever recurs and a compare-and-swap on a tag cannot be fooled.
ManifestAdvances ==
    [][manifest' # manifest =>
         /\ manifest' # None
         /\ \/ Head(manifest') > Head(manifest)
            \/ Head(manifest') = Head(manifest) /\ manifest'.ck > manifest.ck]_vars

\* A bucket remote is a remote: each step of any client, on whatever it read
\* earlier, is a forward move of one branch, an acknowledgement of something
\* that is in, or invisible.
Remote == INSTANCE RemoteRefs
    WITH refs <- CurrentState.refs, objects <- UNION CurrentState.packs

ImplementsRemote == Remote!Spec

\* Every push and fetch that goes on returns, whoever it races with: the
\* retries, the restarts and the search for a free log slot all end.
CallsReturn == \A c \in Client : pc[c] # "idle" ~> pc[c] = "idle"
=============================================================================
