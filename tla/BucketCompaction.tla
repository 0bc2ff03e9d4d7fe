-------------------------- MODULE BucketCompaction --------------------------
(***************************************************************************)
(* Compaction of a bucket remote while others push and fetch:              *)
(* crates/repo/src/bucket_transport/compact.rs (ADR-0057).                 *)
(*                                                                         *)
(* `compact` is a method of the same transport, so a compactor is a client *)
(* of BucketWal that runs one more kind of call: consolidate merges live   *)
(* packs and publishes them with one manifest CAS; sweep deletes what is   *)
(* behind the cutoff and what nothing names.                               *)
(*                                                                         *)
(* Time is the set `aged` of keys whose last-modified time is at least     *)
(* prune_expire ago.  put_new on a key that exists leaves its time alone,  *)
(* and deleting a key forgets it.                                          *)
(***************************************************************************)
EXTENDS BucketWal

CONSTANTS
    Pusher,           \* the clients that push and fetch
    Compactor,        \* the clients that run compact
    MaxAttempts,      \* MAX_ATTEMPTS, 4 in the code
    PackDeleteBatch,  \* PACK_DELETE_BATCH, 16 in the code
    MaxWindows,       \* bound: how often a grace window elapses
    Environment       \* what is assumed of the pushers, see below

\* "timely": no push and no consolidation is under way for a whole grace
\* window.  "fresh": no pack is uploaded that is byte for byte an orphan older
\* than the grace window, or one that a sweep still running has found to be.
ASSUME CompactionAssumption ==
    /\ Pusher \subseteq Client /\ Compactor \subseteq Client
    /\ MaxAttempts \in Nat \ {0} /\ PackDeleteBatch \in Nat \ {0}
    /\ MaxWindows \in Nat
    /\ Environment \subseteq {"timely", "fresh"}

VARIABLES
    cp,       \* locals of each client's compact
    aged,     \* keys at least prune_expire old
    windows   \* grace windows elapsed so far

compactVars == <<cp, aged, windows>>
allVars == <<vars, compactVars>>

Key == ({"log", "ckpt"} \X Slot) \cup ({"body", "idx"} \X Pack)

Compacting ==
    [parts : SUBSET SUBSET Pack, missingOn : Manifest \cup {None}, todo : SUBSET SUBSET Pack,
     kept : SUBSET Pack, old : SUBSET Key, logs : SUBSET Slot, ckpts : SUBSET Slot, packs : SUBSET Pack,
     left : 0..PackDeleteBatch]

NoCompacting ==
    [parts |-> {}, missingOn |-> None, todo |-> {}, kept |-> {},
     old |-> {}, logs |-> {}, ckpts |-> {}, packs |-> {}, left |-> 0]

CompactionTypeOK ==
    /\ TypeOK
    /\ cp \in [Client -> Compacting]
    /\ aged \in SUBSET Key
    /\ windows \in 0..MaxWindows

CompactionInit ==
    /\ Init
    /\ cp = [c \in Client |-> NoCompacting]
    /\ aged = {}
    /\ windows = 0

\* Steps of BucketWal leave the compactor's locals alone; a call that returns
\* drops them.
KeepCompactVars ==
    /\ cp' = [c \in Client |-> IF pc'[c] = "idle" THEN NoCompacting ELSE cp[c]]
    /\ UNCHANGED <<aged, windows>>

\* An upload meets no aged copy of the same pack, and no sweep that is to delete
\* one (the delete takes the name, whatever object has it by then), if "fresh".
Fresh(p) ==
    "fresh" \in Environment =>
        <<"body", p>> \notin aged /\ \A d \in Client : p \notin cp[d].packs

Merged(c) == UNION cp[c].parts
Created(c) == {UNION g : g \in cp[c].parts}

-----------------------------------------------------------------------------
(* compact *)

BeginCompact(c) ==
    /\ pc[c] = "idle"
    /\ calls < MaxCalls /\ calls' = calls + 1
    /\ op' = [op EXCEPT ![c] = NoOp]
    /\ CallRefresh(c, "compact")
    /\ UNCHANGED <<bucketVars, view, sessionVars, hist, acked, corrupt, lost, compactVars>>

\* The clock is read and the loop of sweep starts (its counter is op.n).
CallSweep(c) ==
    /\ op' = [op EXCEPT ![c] = NoOp]
    /\ cp' = [cp EXCEPT ![c] = [NoCompacting EXCEPT !.old = aged]]
    /\ CallRefresh(c, "sweepList")

\* Consolidate only if there is a manifest; sweep in any case.
Compact(c) ==
    /\ pc[c] = "compact"
    /\ \/ view[c] = None /\ CallSweep(c)
       \/ view[c] # None /\ CallRefresh(c, "plan") /\ UNCHANGED <<op, cp>>
    /\ UNCHANGED <<bucketVars, view, sessionVars, historyVars, aged, windows>>

-----------------------------------------------------------------------------
(* consolidate *)

\* continue 'attempt: plan again from a fresh view, or give up and sweep.
Replan(c, missingOn) ==
    \/ /\ op[c].n + 1 < MaxAttempts
       /\ op' = [op EXCEPT ![c] = [NoOp EXCEPT !.n = op[c].n + 1]]
       /\ cp' = [cp EXCEPT ![c] = [NoCompacting EXCEPT !.missingOn = missingOn]]
       /\ CallRefresh(c, "plan")
    \/ op[c].n + 1 >= MaxAttempts /\ CallSweep(c)

\* Any way to divide some of the live packs into parts of two or more sources:
\* plan_groups and the spill in flush_part decide by sizes, which are not
\* modelled, and a part of one source is dropped.
Groupings(live) ==
    {gs \in SUBSET {g \in SUBSET live : Cardinality(g) >= 2} :
        \A g, h \in gs : g = h \/ g \cap h = {}}

\* plan_groups over the live packs that list_meta shows.
Plan(c) ==
    /\ pc[c] = "plan"
    /\ \E gs \in Groupings(view[c].packs \cap bodies) :
          LET live == view[c].packs
              count == Cardinality(live) - Cardinality(UNION gs) + Cardinality(gs)
              refs == {b \in Branch : view[c].refs[b] # None}
              stop == gs = {} \/ count > MaxList \/ Cardinality(refs) > MaxList
          IN \/ stop /\ CallSweep(c)
             \/ /\ ~stop
                /\ cp' = [cp EXCEPT ![c].parts = gs, ![c].todo = gs]
                /\ Goto(c, "readMembers")
                /\ UNCHANGED <<rd, op>>
    /\ UNCHANGED <<bucketVars, view, sessionVars, historyVars, aged, windows>>

\* GET the members of the next part; with all parts up, read the view again.
\* A member that is absent means another compactor retired it, or, on the same
\* manifest twice, a damaged bucket.
ReadMembers(c) ==
    /\ pc[c] = "readMembers"
    /\ \/ /\ cp[c].todo = {}
          /\ CallRefresh(c, "fence")
          /\ UNCHANGED <<op, corrupt, cp>>
       \/ \E g \in cp[c].todo :
            \/ /\ g \subseteq bodies
               /\ op' = [op EXCEPT ![c].send = UNION g]
               /\ cp' = [cp EXCEPT ![c].todo = @ \ {g}]
               /\ Goto(c, "mergePut")
               /\ UNCHANGED <<rd, corrupt>>
            \/ /\ ~(g \subseteq bodies)
               /\ cp[c].missingOn = view[c].m
               /\ Return(c, "corrupt")
               /\ cp' = [cp EXCEPT ![c] = NoCompacting]
            \/ /\ ~(g \subseteq bodies)
               /\ cp[c].missingOn # view[c].m
               /\ Replan(c, view[c].m)
               /\ UNCHANGED corrupt
    /\ UNCHANGED <<bucketVars, view, sessionVars, hist, acked, lost, calls, aged, windows>>

\* upload_pack for the merged pack: body, then idx.
MergePut(c) ==
    /\ pc[c] = "mergePut"
    /\ Fresh(op[c].send)
    /\ bodies' = bodies \cup {op[c].send}
    /\ Goto(c, "mergeIdx")
    /\ UNCHANGED <<manifest, log, ckpt, idxs, view, rd, op, sessionVars, historyVars, compactVars>>

MergeIdx(c) ==
    /\ pc[c] = "mergeIdx"
    /\ idxs' = idxs \cup {op[c].send}
    /\ op' = [op EXCEPT ![c].send = {}]
    /\ Goto(c, "readMembers")
    /\ UNCHANGED <<manifest, log, ckpt, bodies, view, rd, sessionVars, historyVars, compactVars>>

\* A mutant: the merged packs are left out of the list.
KeptWithoutCreated(c) == view[c].packs \ Merged(c)

KeptPacks(c) == (view[c].packs \ Merged(c)) \cup Created(c)

\* The pack list to publish, from the fresh view; replan if another compactor
\* has retired a member, stop if it would not fit in a checkpoint.
Fence(c) ==
    /\ pc[c] = "fence"
    /\ LET v == view[c]
           kept == KeptPacks(c)
       IN \/ FoldWouldOverflow(v.refs, kept) /\ CallSweep(c)
          \/ /\ ~FoldWouldOverflow(v.refs, kept) /\ ~(Merged(c) \subseteq v.packs)
             /\ Replan(c, cp[c].missingOn)
          \/ /\ ~FoldWouldOverflow(v.refs, kept) /\ Merged(c) \subseteq v.packs
             /\ cp' = [cp EXCEPT ![c].kept = kept]
             /\ op' = [op EXCEPT ![c].base = v.m, ![c].seq = v.m.head + 1,
                          ![c].pend = Created(c)]
             /\ Goto(c, "mergeClaim")
             /\ UNCHANGED rd
    /\ UNCHANGED <<bucketVars, view, sessionVars, historyVars, aged, windows>>

\* The log entry carries the merged packs and no ref update.
MergeClaim(c) ==
    /\ pc[c] = "mergeClaim"
    /\ ClaimSlot(c, "putCheckpoint")
    /\ KeepCompactVars

\* put_new(checkpoints/<seq>) before the CAS that names it.  A key that exists
\* is debris, or our own after a lost response: plan again.
PutCheckpoint(c) ==
    /\ pc[c] = "putCheckpoint"
    /\ \/ /\ ckpt[op[c].seq] = None
          /\ ckpt' = [ckpt EXCEPT ![op[c].seq] =
                        [refs |-> view[c].refs, packs |-> cp[c].kept]]
          /\ \/ Goto(c, "mergeEnsure") /\ UNCHANGED <<rd, op, cp, lost>>
             \/ lost < MaxLost /\ lost' = lost + 1 /\ Replan(c, cp[c].missingOn)
       \/ /\ ckpt[op[c].seq] # None
          /\ Replan(c, cp[c].missingOn)
          /\ UNCHANGED <<ckpt, lost>>
    /\ UNCHANGED <<manifest, log, bodies, idxs, view, sessionVars, hist, acked, corrupt,
                   calls, aged, windows>>

MergeEnsure(c) ==
    /\ pc[c] = "mergeEnsure"
    /\ EnsurePacksPresent(c, "mergeCas")
    /\ KeepCompactVars

\* A mutant: the entry is published, the checkpoint is not.
FenceWithoutFold(c) ==
    [head |-> op[c].seq, ck |-> op[c].base.ck, branch |-> op[c].base.branch]

MergeManifest(c) == [head |-> op[c].seq, ck |-> op[c].seq, branch |-> op[c].base.branch]

\* Fence and fold in one CAS.
MergeCas(c) ==
    /\ pc[c] = "mergeCas"
    /\ \/ /\ TagMatches(c, op[c].base)
          /\ manifest' = MergeManifest(c)
          /\ hist' = [hist EXCEPT ![op[c].seq] =
                        [refs |-> hist[Head(op[c].base)].refs, packs |-> cp[c].kept]]
          /\ \/ CallRefresh(c, "merged") /\ UNCHANGED <<op, cp, lost>>
             \/ lost < MaxLost /\ lost' = lost + 1 /\ Replan(c, cp[c].missingOn)
       \/ /\ ~TagMatches(c, op[c].base)
          /\ Replan(c, cp[c].missingOn)
          /\ UNCHANGED <<manifest, hist, lost>>
    /\ UNCHANGED <<log, ckpt, bodies, idxs, view, sessionVars, acked, corrupt, calls,
                   aged, windows>>

MergeDone(c) ==
    /\ pc[c] = "merged"
    /\ CallSweep(c)
    /\ UNCHANGED <<bucketVars, view, sessionVars, historyVars, aged, windows>>

ConsolidateStep(c) ==
    \/ Compact(c) \/ Plan(c) \/ ReadMembers(c) \/ MergePut(c) \/ MergeIdx(c) \/ Fence(c)
    \/ MergeClaim(c) \/ PutCheckpoint(c) \/ MergeEnsure(c) \/ MergeCas(c) \/ MergeDone(c)

-----------------------------------------------------------------------------
(* sweep *)

\* Old enough when the sweep read the clock, and not written since.
IsOld(c, key) == key \in cp[c].old \cap aged

\* A mutant: checkpoints the manifest does not name count too.
CutoffAtAnyCheckpoint(c) ==
    LET old == {s \in Slot : ckpt[s] # None /\ IsOld(c, <<"ckpt", s>>)}
    IN IF old = {} THEN 0 ELSE CHOOSE s \in old : \A t \in old : t <= s

\* K: the newest checkpoint at or before the manifest's that is old enough.
Cutoff(c) ==
    LET ckSeq == IF view[c] = None THEN 0 ELSE view[c].m.ck
        old == {s \in Slot : ckpt[s] # None /\ s <= ckSeq /\ IsOld(c, <<"ckpt", s>>)}
    IN IF old = {} THEN 0 ELSE CHOOSE s \in old : \A t \in old : t <= s

\* Packs named by what the sweep keeps, on the chain or not.
RetainedPacks(cutoff) ==
    UNION ({ckpt[s].packs : s \in {t \in Slot : ckpt[t] # None /\ t >= cutoff}}
           \cup {log[s].packs : s \in {t \in Slot : log[t] # None /\ t > cutoff}})

\* Pack objects all of which are old enough.
AgedPacks(c) ==
    {p \in bodies \cup idxs : /\ p \in bodies => IsOld(c, <<"body", p>>)
                              /\ p \in idxs => IsOld(c, <<"idx", p>>)}

\* The three listings and the GETs of the retained records are one step: a
\* record written during them is not in the listing, as if written after it.
SweepList(c) ==
    /\ pc[c] = "sweepList"
    /\ LET k == Cutoff(c)
           live == IF view[c] = None THEN {} ELSE view[c].packs
       IN cp' = [cp EXCEPT
                   ![c].logs = {s \in Slot : log[s] # None /\ s <= k},
                   ![c].ckpts = {s \in Slot : ckpt[s] # None /\ s < k},
                   ![c].packs = (AgedPacks(c) \ live) \ RetainedPacks(k)]
    /\ Goto(c, "sweepDelete")
    /\ UNCHANGED <<bucketVars, view, rd, op, sessionVars, historyVars, aged, windows>>

Smallest(S) == CHOOSE s \in S : \A t \in S : s <= t

\* Delete the log entries, then the checkpoints, oldest first, one request
\* each; then look whether the manifest moved since the listing.
SweepDelete(c) ==
    /\ pc[c] = "sweepDelete"
    /\ \/ /\ cp[c].logs # {}
          /\ LET s == Smallest(cp[c].logs) IN
               /\ log' = [log EXCEPT ![s] = None]
               /\ aged' = aged \ {<<"log", s>>}
               /\ cp' = [cp EXCEPT ![c].logs = @ \ {s}]
          /\ UNCHANGED <<ckpt, pc, rd, op, corrupt>>
       \/ /\ cp[c].logs = {} /\ cp[c].ckpts # {}
          /\ LET s == Smallest(cp[c].ckpts) IN
               /\ ckpt' = [ckpt EXCEPT ![s] = None]
               /\ aged' = aged \ {<<"ckpt", s>>}
               /\ cp' = [cp EXCEPT ![c].ckpts = @ \ {s}]
          /\ UNCHANGED <<log, pc, rd, op, corrupt>>
       \/ /\ cp[c].logs = {} /\ cp[c].ckpts = {} /\ manifest = ViewTag(c)
          /\ cp' = [cp EXCEPT ![c].left = PackDeleteBatch]
          /\ Goto(c, "sweepIdx")
          /\ UNCHANGED <<log, ckpt, aged, rd, op, corrupt>>
       \/ /\ cp[c].logs = {} /\ cp[c].ckpts = {} /\ manifest # ViewTag(c)
          /\ \/ /\ op[c].n + 1 < MaxAttempts
                /\ op' = [op EXCEPT ![c].n = @ + 1]
                /\ cp' = [cp EXCEPT ![c].packs = {}]
                /\ CallRefresh(c, "sweepList")
                /\ UNCHANGED corrupt
             \/ /\ op[c].n + 1 >= MaxAttempts
                /\ cp' = [cp EXCEPT ![c] = NoCompacting]
                /\ Return(c, "ok")
          /\ UNCHANGED <<log, ckpt, aged>>
    /\ UNCHANGED <<manifest, bodies, idxs, view, sessionVars, hist, acked, lost, calls, windows>>

\* A mutant: packs are deleted without another look at the manifest.
AlwaysMore(c) == TRUE

MoreInBatch(c) == cp[c].left > 0

\* Delete packs in batches, the idx before the body, with a look at the
\* manifest between two batches.
SweepIdx(c) ==
    /\ pc[c] = "sweepIdx"
    /\ \/ /\ cp[c].packs # {} /\ MoreInBatch(c)
          /\ \E p \in cp[c].packs :
                /\ idxs' = idxs \ {p}
                /\ aged' = aged \ {<<"idx", p>>}
                /\ op' = [op EXCEPT ![c].send = p]
          /\ Goto(c, "sweepBody")
          /\ UNCHANGED <<rd, cp, corrupt>>
       \/ /\ cp[c].packs # {} /\ ~MoreInBatch(c) /\ manifest = ViewTag(c)
          /\ cp' = [cp EXCEPT ![c].left = PackDeleteBatch]
          /\ UNCHANGED <<idxs, aged, pc, rd, op, corrupt>>
       \/ /\ cp[c].packs = {} \/ (~MoreInBatch(c) /\ manifest # ViewTag(c))
          /\ cp' = [cp EXCEPT ![c] = NoCompacting]
          /\ Return(c, "ok")
          /\ UNCHANGED <<idxs, aged>>
    /\ UNCHANGED <<manifest, log, ckpt, bodies, view, sessionVars, hist, acked, lost, calls,
                   windows>>

SweepBody(c) ==
    /\ pc[c] = "sweepBody"
    /\ bodies' = bodies \ {op[c].send}
    /\ aged' = aged \ {<<"body", op[c].send>>}
    /\ cp' = [cp EXCEPT ![c].packs = @ \ {op[c].send}, ![c].left = @ - 1]
    /\ op' = [op EXCEPT ![c].send = {}]
    /\ Goto(c, "sweepIdx")
    /\ UNCHANGED <<manifest, log, ckpt, idxs, view, rd, sessionVars, historyVars, windows>>

SweepStep(c) == SweepList(c) \/ SweepDelete(c) \/ SweepIdx(c) \/ SweepBody(c)

-----------------------------------------------------------------------------
(* The environment *)

Writing(c) == op[c].branch # None \/ cp[c].parts # {} \/ pending[c] # {}

Present ==
    ({"log"} \X {s \in Slot : log[s] # None}) \cup ({"ckpt"} \X {s \in Slot : ckpt[s] # None})
    \cup ({"body"} \X bodies) \cup ({"idx"} \X idxs)

\* A grace window passes: everything in the bucket now is older than it.
\* Readers and sweeps may be stalled over it; pushers are not, if "timely".
GraceElapses ==
    /\ windows < MaxWindows
    /\ "timely" \in Environment => \A c \in Client : ~Writing(c)
    /\ aged' = Present
    /\ windows' = windows + 1
    /\ UNCHANGED <<vars, cp>>

CompactionNext ==
    \/ \E c \in Pusher : (BeginPush(c) \/ BeginFetch(c)) /\ KeepCompactVars
    \/ \E c \in Client : /\ Progress(c)
                         /\ pc[c] = "putPack" /\ pc'[c] = "putIdx" => Fresh(op[c].send)
                         /\ KeepCompactVars
    \/ \E c \in Compactor : BeginCompact(c) \/ ConsolidateStep(c) \/ SweepStep(c)
    \/ GraceElapses

CompactionSpec == CompactionInit /\ [][CompactionNext]_allVars

-----------------------------------------------------------------------------
(* Properties *)

\* "a failure between any two operations leaves a bucket a cold start reads"
\* (compact.rs:9): the checkpoint the manifest names is there and says what
\* the chain said at that point, and the log entries after it are there.
ColdStartReads ==
    manifest # None =>
        /\ manifest.ck # 0 => ckpt[manifest.ck] = hist[manifest.ck]
        /\ \A s \in Slot : manifest.ck < s /\ s <= manifest.head /\ hist[s] # None
                             => log[s] # None

\* Compaction changes nothing a client of the remote can see: every step of
\* the composition is a step of the abstract remote or invisible in it.
StepsOfRemote == [][Remote!Next]_(Remote!rVars)
=============================================================================
