----------------------- MODULE BucketCompactionProofs -----------------------
(***************************************************************************)
(* Proofs about BucketCompaction: a bucket on which clients push, fetch,   *)
(* consolidate and sweep, with any of them stalled for as long as it likes *)
(* (whatever Environment promises).  What survives such stalls is less     *)
(* than in BucketWal: a reader that was overtaken by a sweep may read      *)
(* anything.  The bucket itself stays good: the chain that the manifest    *)
(* names can be read from a cold start after every step.  What more holds  *)
(* when Environment promises something is in TimelyCompactionProofs.       *)
(***************************************************************************)
EXTENDS BucketCompaction, BucketWalProofs, NaturalsInduction, WellFoundedInduction

\* The labels a refresh returns to.
AllReturns == RefreshReturns \cup {"compact", "plan", "fence", "merged", "sweepList"}

\* A consolidation from its plan on: there is a manifest, and a view of one.
MergeLabels == {"plan", "readMembers", "mergePut", "mergeIdx", "fence", "mergeClaim",
                "putCheckpoint", "mergeEnsure", "mergeCas", "merged"}

PushLabels == {"listed"} \cup CommitLabels \cup LandedLabels

\* With its new log slot in hand; with the slot taken; with its checkpoint too.
SlotLabels == {"claim", "ensure", "cas", "mergeClaim", "putCheckpoint", "mergeEnsure", "mergeCas"}
ClaimedLabels == SlotLabels \ {"claim", "mergeClaim"}
FoldedLabels == {"mergeEnsure", "mergeCas"}

-----------------------------------------------------------------------------
(* The inductive invariant                                                   *)

\* The last slot folded into the checkpoint that a manifest names: a sweep
\* deletes log entries up to there and checkpoints before there.
FoldOf(m) == IF m = None THEN 0 ELSE m.ck

Folded == FoldOf(manifest)

\* A manifest, if any, is n or one that n has overtaken.  A fold after m takes
\* in all that m names.
Reaches(m, n) ==
    m # None => /\ n # None /\ m.head <= n.head /\ m.ck <= n.ck
                /\ m.ck # n.ck => m.head <= n.ck

\* The committed states: none is ahead of the manifest, whose own two are there.
StatesInv ==
    /\ hist[0] = [refs |-> NoRefs, packs |-> {}]
    /\ \A s \in Slot : hist[s] # None => s <= Head(manifest)
    /\ manifest # None => /\ manifest.ck <= manifest.head
                          /\ hist[manifest.head] # None /\ hist[manifest.ck] # None
                          /\ manifest.ck # 0 => ckpt[manifest.ck] # None

\* Log entries after the fold: each committed one is a push on the state of its
\* parent.
TailInv ==
    \A s \in Slot : Folded < s /\ hist[s] # None =>
        /\ log[s] # None /\ log[s].branch \in Branch /\ log[s].new \in Snapshot
        /\ hist[log[s].parent] # None
        /\ hist[s] = Extend(hist[log[s].parent], log[s])

\* Checkpoints from the fold on: one of a committed slot is its state, one
\* ahead of the manifest belongs to the compaction that took the log slot.
CheckpointsInv ==
    \A s \in Slot : ckpt[s] # None =>
        /\ Folded <= s /\ hist[s] # None => ckpt[s] = hist[s]
        /\ Head(manifest) < s => log[s] # None /\ log[s].branch = None

StepInv(c) ==
    /\ pc[c] \in ReadLabels => rd[c].ret \in AllReturns
    /\ pc[c] \notin ReadLabels => rd[c] = NoReading
    /\ pc[c] = "idle" => cp[c] = NoCompacting
    /\ At(c) \in PushLabels => op[c].branch \in Branch /\ op[c].new \in Snapshot
    /\ At(c) = "probe" => op[c].todo # {}
    /\ At(c) \in CompactLabels => op[c].branch = None
    /\ At(c) \in MergeLabels => manifest # None
    /\ pc[c] \in MergeLabels \cup {"foldCas"} => view[c] # None
    /\ pc[c] = "sweepBody" => cp[c].left > 0

\* What a client has read or is about to delete is not ahead of the manifest.
PassedInv(c) ==
    /\ Reaches(ViewTag(c), manifest)
    /\ pc[c] \in WalkLabels => rd[c].m \in Manifest /\ Reaches(rd[c].m, manifest)
    /\ Reaches(op[c].base, manifest)
    /\ \A s \in cp[c].logs : s <= Folded
    /\ \A s \in cp[c].ckpts : s < Folded

\* A walk from the fold the manifest still names is true, whatever a sweep
\* does; one from an older fold may read anything.
TrueWalk(c) ==
    LET r == rd[c] IN
    /\ pc[c] = "getCheckpoint" => r.m.ck # 0
    /\ pc[c] \in WalkLabels /\ r.m.ck = Folded =>
         /\ hist[r.m.head] # None
         /\ pc[c] = "getCheckpoint" => r.cur = r.m.head /\ r.tail = NoRefs /\ r.packs = {}
         /\ pc[c] \in {"getLog", "getIdx"} =>
              /\ hist[r.cur] # None /\ hist[r.cur].packs \subseteq hist[r.m.head].packs
              /\ r.refs = hist[r.m.ck].refs
              /\ hist[r.m.ck].packs \subseteq r.packs
              /\ r.packs \cup hist[r.cur].packs = hist[r.m.head].packs \cup hist[r.m.ck].packs
              /\ \A b \in Branch : hist[r.m.head].refs[b] =
                    IF r.tail[b] = None THEN hist[r.cur].refs[b] ELSE r.tail[b]
         /\ pc[c] = "getIdx" => r.cur = r.m.ck

TrueView(c) ==
    view[c] # None /\ view[c].m.ck = Folded =>
        /\ hist[view[c].m.head] # None
        /\ view[c].refs = hist[view[c].m.head].refs
        /\ view[c].packs = hist[view[c].m.head].packs

\* A log slot taken for a commit stays as it is until the fold passes it, and
\* the checkpoint put beside it for as long as the commit can succeed.
SlotInv(c) ==
    /\ pc[c] \in SlotLabels => Head(op[c].base) < op[c].seq
    /\ pc[c] \in SlotLabels \cap MergeLabels => op[c].base = view[c].m
    /\ pc[c] \in ClaimedLabels =>
         /\ op[c].seq \in Slot
         /\ Folded < op[c].seq => log[op[c].seq] = Entry(c)
    /\ pc[c] \in FoldedLabels /\ Head(manifest) < op[c].seq =>
         ckpt[op[c].seq] = [refs |-> view[c].refs, packs |-> cp[c].kept]
    /\ pc[c] = "foldCas" =>
         /\ view[c].m.ck < view[c].m.head
         /\ Folded <= view[c].m.head => ckpt[view[c].m.head] # None

ClientOK(c) == StepInv(c) /\ PassedInv(c) /\ TrueWalk(c) /\ TrueView(c) /\ SlotInv(c)

BucketOK == StatesInv /\ TailInv /\ CheckpointsInv

CompactionInv == CompactionTypeOK /\ BucketOK /\ \A c \in Client : ClientOK(c)

-----------------------------------------------------------------------------
(* Facts about the values and the frame of a step *)

\* The labels of this module are labels.
LEMMA LabelSets ==
    /\ CompactLabels \subseteq Label /\ AllReturns \subseteq Label /\ MergeLabels \subseteq CompactLabels
    /\ SlotLabels \cap ReadLabels = {} /\ AllReturns \cap (ReadLabels \cup SlotLabels \cup {"idle", "foldCas", "sweepBody"}) = {}
    /\ LandedLabels \cap ReadLabels = {} /\ CompactLabels \cap ReadLabels = {} /\ "idle" \notin ReadLabels
    /\ CompactLabels \cap PushLabels = {} /\ "foldCas" \notin ReadLabels
BY DEF CompactLabels, Label, AllReturns, RefreshReturns, MergeLabels, SlotLabels, ReadLabels, WalkLabels,
       LandedLabels, PushLabels, CommitLabels, FetchLabels

\* A compact that has not begun has nothing to do.
LEMMA NoCompactingIs ==
    /\ NoCompacting \in Compacting
    /\ NoCompacting.logs = {} /\ NoCompacting.ckpts = {} /\ NoCompacting.parts = {}
BY CompactionAssumption DEF NoCompacting, Compacting

\* The slots of a manifest, or of none, are in range; Head and FoldOf follow the order of
\* manifests.
LEMMA Reached ==
    ASSUME NEW m \in Manifest \cup {None}, NEW n \in Manifest \cup {None}
    PROVE  /\ Head(m) \in 0..MaxSeq /\ FoldOf(m) \in 0..MaxSeq
           /\ Head(n) \in 0..MaxSeq /\ FoldOf(n) \in 0..MaxSeq
           /\ Reaches(m, m) /\ Reaches(None, m)
           /\ Reaches(m, n) =>
                /\ Head(m) <= Head(n) /\ FoldOf(m) <= FoldOf(n)
                /\ \A l \in Manifest \cup {None} : Reaches(l, m) => Reaches(l, n)
<1>1. \A l \in Manifest : l # None /\ l.head \in Int /\ l.ck \in Int /\ l.head \in 0..MaxSeq /\ l.ck \in 0..MaxSeq
  BY NoneAssumption, WalAssumption DEF Manifest, Slot
<1>2. Head(m) \in 0..MaxSeq /\ FoldOf(m) \in 0..MaxSeq /\ Head(n) \in 0..MaxSeq /\ FoldOf(n) \in 0..MaxSeq
  BY <1>1, WalAssumption DEF Head, FoldOf
<1>3. Reaches(m, m) /\ Reaches(None, m)
  BY <1>1 DEF Reaches
<1>4. ASSUME Reaches(m, n) PROVE Head(m) <= Head(n) /\ FoldOf(m) <= FoldOf(n)
  <2>1. CASE m = None
    BY <1>2, <2>1 DEF Head, FoldOf
  <2>2. CASE m # None
    BY <1>4, <2>2 DEF Reaches, Head, FoldOf
  <2> QED BY <2>1, <2>2
<1>5. ASSUME Reaches(m, n), NEW l \in Manifest \cup {None}, Reaches(l, m) PROVE Reaches(l, n)
  <2>1. CASE l = None
    BY <2>1 DEF Reaches
  <2>2. CASE l # None
    <3>1. /\ m # None /\ n # None /\ l.head <= m.head /\ l.ck <= m.ck /\ m.head <= n.head /\ m.ck <= n.ck
          /\ l.ck # m.ck => l.head <= m.ck
          /\ m.ck # n.ck => m.head <= n.ck
      BY <1>5, <2>2 DEF Reaches
    <3>2. l \in Manifest /\ m \in Manifest /\ n \in Manifest
      BY <2>2, <3>1
    <3>3. l.head <= n.head /\ l.ck <= n.ck /\ (l.ck # n.ck => l.head <= n.ck)
      BY <1>1, <3>1, <3>2
    <3> QED BY <3>1, <3>3 DEF Reaches
  <2> QED BY <2>1, <2>2
<1> QED BY <1>2, <1>3, <1>4, <1>5

\* What a step of client c leaves of the locals of the others.
Elsewhere(c) ==
    \A d \in Client : d # c =>
        /\ pc'[d] = pc[d] /\ view'[d] = view[d] /\ rd'[d] = rd[d] /\ op'[d] = op[d]
        /\ cp'[d] = cp[d]

\* What all may rely on: the manifest moves forward, committed states stay, and
\* so do log entries after the fold and checkpoints from the fold on.
Evolves ==
    /\ Reaches(manifest, manifest') /\ FoldOf(manifest') <= Head(manifest')
    /\ \A s \in 0..MaxSeq : hist[s] # None => hist'[s] = hist[s]
    /\ \A s \in Slot : FoldOf(manifest') < s /\ log[s] # None => log'[s] = log[s]
    /\ \A s \in Slot : FoldOf(manifest') <= s /\ ckpt[s] # None => ckpt'[s] = ckpt[s]

\* The tag of a view is that of a manifest.
LEMMA ViewTags ==
    ASSUME TypeOK, NEW c \in Client
    PROVE  /\ ViewTag(c) \in Manifest \cup {None}
           /\ view[c] # None => view[c] \in View /\ view[c].m \in Manifest /\ ViewTag(c) = view[c].m
<1>1. view[c] \in View \cup {None}
  BY DEF TypeOK
<1>2. view[c] # None => view[c] \in View /\ view[c].m \in Manifest
  BY <1>1 DEF View
<1> QED BY <1>2 DEF ViewTag

\* A view that is left alone stays as true as it was.
LEMMA ViewStays ==
    ASSUME CompactionTypeOK, manifest' \in Manifest \cup {None}, Evolves, NEW c \in Client,
           PassedInv(c), TrueView(c), view'[c] = view[c]
    PROVE  TrueView(c)' /\ Reaches(ViewTag(c), manifest') /\ ViewTag(c)' = ViewTag(c)
<1>0. TypeOK /\ manifest \in Manifest \cup {None}
  BY DEF CompactionTypeOK, TypeOK
<1>1. /\ FoldOf(manifest) \in 0..MaxSeq /\ FoldOf(manifest') \in 0..MaxSeq
      /\ FoldOf(manifest) <= FoldOf(manifest')
      /\ \A l \in Manifest \cup {None} : Reaches(l, manifest) => Reaches(l, manifest')
  BY <1>0, Reached DEF Evolves
<1>2. Folded = FoldOf(manifest) /\ Folded' = FoldOf(manifest') /\ ViewTag(c)' = ViewTag(c)
  BY DEF Folded, FoldOf, ViewTag
<1>3. Reaches(ViewTag(c), manifest')
  BY <1>0, <1>1, ViewTags DEF PassedInv
<1>4. TrueView(c)'
  <2> SUFFICES ASSUME view[c] # None, view[c].m.ck = Folded' PROVE TrueView(c)'
    BY DEF TrueView
  <2>1. view[c].m \in Manifest /\ view[c].m # None /\ Reaches(view[c].m, manifest)
    BY <1>0, ViewTags, NoneAssumption DEF PassedInv
  <2>2. view[c].m.ck \in 0..MaxSeq /\ view[c].m.head \in 0..MaxSeq /\ view[c].m.ck <= Folded
    BY <1>0, <2>1, Ranges DEF Reaches, Folded, FoldOf, Slot
  <2>3. view[c].m.ck = Folded
    BY <1>1, <1>2, <2>2
  <2>4. hist'[view[c].m.head] = hist[view[c].m.head]
    BY <2>2, <2>3 DEF TrueView, Evolves
  <2> QED BY <2>3, <2>4 DEF TrueView
<1> QED BY <1>2, <1>3, <1>4

\* A step that leaves the locals of a client keeps what is true of it.
LEMMA OthersKeep ==
    ASSUME CompactionTypeOK, manifest' \in Manifest \cup {None}, Evolves, NEW d \in Client, ClientOK(d),
           pc'[d] = pc[d], view'[d] = view[d], rd'[d] = rd[d], op'[d] = op[d], cp'[d] = cp[d],
           BucketOK
    PROVE  ClientOK(d)'
<1>0. /\ TypeOK /\ manifest \in Manifest \cup {None} /\ rd[d] \in Reading /\ op[d] \in Op
      /\ cp[d] \in Compacting
  BY DEF CompactionTypeOK, TypeOK
<1>1. /\ FoldOf(manifest) \in 0..MaxSeq /\ FoldOf(manifest') \in 0..MaxSeq
      /\ Head(manifest) \in 0..MaxSeq /\ Head(manifest') \in 0..MaxSeq
      /\ Head(manifest) <= Head(manifest') /\ FoldOf(manifest) <= FoldOf(manifest')
      /\ \A l \in Manifest \cup {None} : Reaches(l, manifest) => Reaches(l, manifest')
  BY <1>0, Reached DEF Evolves
<1>2. /\ Folded = FoldOf(manifest) /\ Folded' = FoldOf(manifest') /\ Head(manifest)' = Head(manifest')
      /\ ViewTag(d)' = ViewTag(d) /\ At(d)' = At(d) /\ Entry(d)' = Entry(d)
      /\ (Head(op[d].base))' = Head(op[d].base)
  BY DEF Folded, FoldOf, Head, ViewTag, At, Entry
<1>3. StepInv(d)'
  <2>1. manifest # None => manifest' # None
    BY DEF Evolves, Reaches
  <2> QED BY <1>2, <2>1 DEF ClientOK, StepInv
<1>4. PassedInv(d)'
  <2>1. Reaches(ViewTag(d), manifest') /\ Reaches(op[d].base, manifest')
    BY <1>0, <1>1, ViewTags DEF ClientOK, PassedInv, Op
  <2>2. pc[d] \in WalkLabels => rd[d].m \in Manifest /\ Reaches(rd[d].m, manifest')
    BY <1>1 DEF ClientOK, PassedInv
  <2>3. (\A s \in cp[d].logs : s <= Folded') /\ (\A s \in cp[d].ckpts : s < Folded')
    <3>1. \A s \in cp[d].logs \cup cp[d].ckpts : s \in Int
      BY <1>0 DEF Compacting, Slot
    <3> QED BY <1>1, <1>2, <3>1 DEF ClientOK, PassedInv
  <2> QED BY <1>2, <2>1, <2>2, <2>3 DEF PassedInv, Reaches
<1>5. TrueWalk(d)'
  <2>1. CASE pc[d] \in WalkLabels /\ rd[d].m.ck = Folded'
    <3>1. rd[d].m \in Manifest /\ Reaches(rd[d].m, manifest)
      BY <2>1 DEF ClientOK, PassedInv
    <3>2. rd[d].m.ck = Folded /\ rd[d].m.ck \in 0..MaxSeq /\ rd[d].m.head \in 0..MaxSeq /\ rd[d].cur \in 0..MaxSeq
      <4>1. rd[d].m # None /\ rd[d].m.ck <= Folded /\ rd[d].m.ck \in 0..MaxSeq
        BY <1>0, <3>1, NoneAssumption, Ranges DEF Reaches, Folded, FoldOf
      <4>2. rd[d].m.head \in 0..MaxSeq /\ rd[d].cur \in 0..MaxSeq
        BY <1>0, <3>1, Ranges
      <4> QED BY <1>1, <1>2, <2>1, <4>1, <4>2
    <3>3. hist[0] # None
      BY NoneAssumption, NoValues DEF BucketOK, StatesInv, Checkpoint
    <3>4. hist[rd[d].m.ck] # None
      <4>1. manifest # None /\ manifest.ck = rd[d].m.ck
        BY <3>1, <3>2, NoneAssumption DEF Reaches, Folded, FoldOf
      <4> QED BY <4>1 DEF BucketOK, StatesInv
    <3>5. hist[rd[d].m.head] # None /\ hist'[rd[d].m.head] = hist[rd[d].m.head]
            /\ hist'[rd[d].m.ck] = hist[rd[d].m.ck]
      BY <2>1, <3>2, <3>4 DEF ClientOK, TrueWalk, Evolves
    <3>6. pc[d] \in {"getLog", "getIdx"} => hist'[rd[d].cur] = hist[rd[d].cur]
      BY <2>1, <3>2 DEF ClientOK, TrueWalk, Evolves
    <3> QED BY <2>1, <3>2, <3>5, <3>6 DEF ClientOK, TrueWalk
  <2>2. CASE ~(pc[d] \in WalkLabels /\ rd[d].m.ck = Folded')
    BY <2>2 DEF ClientOK, TrueWalk
  <2> QED BY <2>1, <2>2
<1>6. TrueView(d)'
  BY ViewStays DEF ClientOK
<1>7. SlotInv(d)'
  <2>1. op[d].seq \in Int /\ (view[d] # None => view[d].m.head \in Slot)
    BY <1>0, Ranges DEF Op
  <2>2. pc[d] \in ClaimedLabels =>
            op[d].seq \in Slot /\ (FoldOf(manifest') < op[d].seq => log'[op[d].seq] = Entry(d))
    <3> SUFFICES ASSUME pc[d] \in ClaimedLabels, FoldOf(manifest') < op[d].seq PROVE log'[op[d].seq] = Entry(d)
      BY DEF ClientOK, SlotInv
    <3>1. op[d].seq \in Slot /\ Folded < op[d].seq
      BY <1>1, <1>2, <2>1 DEF ClientOK, SlotInv
    <3>2. log[op[d].seq] = Entry(d) /\ Entry(d) # None
      BY <1>0, <3>1, EntryIsNotNone DEF ClientOK, SlotInv
    <3> QED BY <3>1, <3>2 DEF Evolves
  <2>3. pc[d] \in FoldedLabels /\ Head(manifest') < op[d].seq =>
            ckpt'[op[d].seq] = [refs |-> view[d].refs, packs |-> cp[d].kept]
    <3> SUFFICES ASSUME pc[d] \in FoldedLabels, Head(manifest') < op[d].seq
                 PROVE  ckpt'[op[d].seq] = [refs |-> view[d].refs, packs |-> cp[d].kept]
      OBVIOUS
    <3>1. op[d].seq \in Slot /\ Head(manifest) < op[d].seq /\ FoldOf(manifest') <= op[d].seq
      BY <1>1, <2>1 DEF ClientOK, SlotInv, Evolves, FoldedLabels, ClaimedLabels, SlotLabels
    <3>2. view[d] \in View /\ [refs |-> view[d].refs, packs |-> cp[d].kept] \in Checkpoint
      <4>1. view[d] # None
        BY DEF ClientOK, StepInv, FoldedLabels, MergeLabels
      <4>2. view[d] \in View
        BY <1>0, <4>1, ViewTags
      <4> QED BY <1>0, <4>2 DEF Compacting, View, Checkpoint
    <3>3. ckpt[op[d].seq] = [refs |-> view[d].refs, packs |-> cp[d].kept]
      BY <3>1 DEF ClientOK, SlotInv
    <3> QED BY <3>1, <3>2, <3>3, NoneAssumption DEF Evolves
  <2>4. pc[d] = "foldCas" =>
            /\ view[d].m.ck < view[d].m.head
            /\ FoldOf(manifest') <= view[d].m.head => ckpt'[view[d].m.head] # None
    <3> SUFFICES ASSUME pc[d] = "foldCas", FoldOf(manifest') <= view[d].m.head PROVE ckpt'[view[d].m.head] # None
      BY DEF ClientOK, SlotInv
    <3>1. view[d].m.head \in Slot
      BY <2>1 DEF ClientOK, StepInv
    <3>2. ckpt[view[d].m.head] # None
      BY <1>1, <1>2, <3>1 DEF ClientOK, SlotInv, Slot
    <3> QED BY <3>1, <3>2 DEF Evolves
  <2> QED BY <1>2, <2>2, <2>3, <2>4 DEF ClientOK, SlotInv
<1> QED BY <1>3, <1>4, <1>5, <1>6, <1>7 DEF ClientOK

\* The invariant after a step of client c, from its parts.
LEMMA Assembled ==
    ASSUME CompactionInv, NEW c \in Client, CompactionTypeOK', Evolves, BucketOK', Elsewhere(c), ClientOK(c)'
    PROVE  CompactionInv'
<1>1. ASSUME NEW d \in Client, d # c PROVE ClientOK(d)'
  <2>1. manifest' \in Manifest \cup {None}
    BY DEF CompactionTypeOK, TypeOK
  <2>2. CompactionTypeOK /\ BucketOK /\ ClientOK(d)
    BY DEF CompactionInv
  <2>3. /\ pc'[d] = pc[d] /\ view'[d] = view[d] /\ rd'[d] = rd[d] /\ op'[d] = op[d]
        /\ cp'[d] = cp[d]
    BY <1>1 DEF Elsewhere
  <2> QED BY <2>1, <2>2, <2>3, OthersKeep
<1> QED BY <1>1 DEF CompactionInv

\* A step that leaves the manifest, the log, the checkpoints and the history.
LEMMA StillBucket ==
    ASSUME CompactionInv, UNCHANGED <<manifest, log, ckpt, hist>>
    PROVE  Evolves /\ BucketOK'
<1>1. manifest \in Manifest \cup {None}
  BY DEF CompactionInv, CompactionTypeOK, TypeOK
<1>2. Folded' = Folded /\ Head(manifest)' = Head(manifest) /\ Head(manifest') = Head(manifest)
        /\ FoldOf(manifest') = FoldOf(manifest)
  BY DEF Folded, FoldOf, Head
<1>3. FoldOf(manifest) <= Head(manifest)
  BY <1>1, Reached DEF CompactionInv, BucketOK, StatesInv, FoldOf, Head
<1>4. Evolves
  BY <1>1, <1>2, <1>3, Reached DEF Evolves
<1>5. BucketOK'
  BY <1>2 DEF CompactionInv, BucketOK, StatesInv, TailInv, CheckpointsInv
<1> QED BY <1>4, <1>5

\* A client that takes no slot and walks no chain owes little.
LEMMA PlainView ==
    ASSUME CompactionInv, manifest' \in Manifest \cup {None}, Evolves, NEW c \in Client, StepInv(c)',
           TrueView(c)', Reaches(ViewTag(c), manifest)',
           pc'[c] \notin WalkLabels \cup SlotLabels \cup {"foldCas"},
           Reaches(op'[c].base, manifest'),
           cp'[c].logs \subseteq cp[c].logs, cp'[c].ckpts \subseteq cp[c].ckpts
    PROVE  ClientOK(c)'
<1>0. /\ TypeOK /\ manifest \in Manifest \cup {None} /\ cp[c] \in Compacting /\ PassedInv(c)
  BY DEF CompactionInv, CompactionTypeOK, TypeOK, ClientOK
<1>1. PassedInv(c)'
  <2>1. FoldOf(manifest) \in Int /\ FoldOf(manifest') \in Int /\ FoldOf(manifest) <= FoldOf(manifest')
    BY <1>0, Reached DEF Evolves
  <2>2. \A s \in cp[c].logs \cup cp[c].ckpts : s \in Int
    BY <1>0 DEF Compacting, Slot
  <2>3. (\A s \in cp'[c].logs : s <= FoldOf(manifest')) /\ (\A s \in cp'[c].ckpts : s < FoldOf(manifest'))
    BY <1>0, <2>1, <2>2 DEF PassedInv, Folded
  <2> QED BY <2>3 DEF PassedInv, Reaches, Folded, FoldOf
<1>2. TrueWalk(c)' /\ SlotInv(c)'
  BY DEF TrueWalk, SlotInv, WalkLabels, SlotLabels, ClaimedLabels, FoldedLabels
<1> QED BY <1>1, <1>2 DEF ClientOK

\* So does one that also leaves its view.
LEMMA Plain ==
    ASSUME CompactionInv, manifest' \in Manifest \cup {None}, Evolves, NEW c \in Client, StepInv(c)',
           view'[c] = view[c], pc'[c] \notin WalkLabels \cup SlotLabels \cup {"foldCas"},
           Reaches(op'[c].base, manifest'),
           cp'[c].logs \subseteq cp[c].logs, cp'[c].ckpts \subseteq cp[c].ckpts
    PROVE  ClientOK(c)'
<1>1. CompactionTypeOK /\ ClientOK(c)
  BY DEF CompactionInv
<1>2. TrueView(c)' /\ Reaches(ViewTag(c), manifest)'
  BY <1>1, ViewStays DEF ClientOK, Reaches
<1> QED BY <1>2, PlainView

\* A client whose call has ended.
LEMMA StepOfReturn ==
    ASSUME NEW c \in Client, pc'[c] = "idle", rd'[c] = NoReading, cp'[c] = NoCompacting
    PROVE  StepInv(c)'
<1>1. At(c)' = "idle"
  BY DEF At, ReadLabels, WalkLabels
<1> QED BY <1>1 DEF StepInv, ReadLabels, WalkLabels, PushLabels, CommitLabels, LandedLabels, CompactLabels, MergeLabels

\* A client that has begun a refresh, to go on at label ret.
LEMMA StepOfRefresh ==
    ASSUME NEW c \in Client, NEW ret \in AllReturns, pc'[c] \in ReadLabels, rd'[c].ret = ret,
           ret \in PushLabels => op'[c].branch \in Branch /\ op'[c].new \in Snapshot,
           ret = "probe" => op'[c].todo # {},
           ret \in CompactLabels => op'[c].branch = None,
           ret \in MergeLabels => manifest' # None
    PROVE  StepInv(c)'
<1>1. At(c)' = ret
  BY DEF At
<1>2. pc'[c] \notin {"idle", "foldCas", "sweepBody"} \cup MergeLabels
  BY DEF ReadLabels, WalkLabels, MergeLabels
<1> QED BY <1>1, <1>2 DEF StepInv

\* Everything but what Return and CallRefresh assign keeps its type.
RestOK ==
    /\ manifest \in Manifest \cup {None}
    /\ log \in [Slot -> LogEntry \cup {None}]
    /\ ckpt \in [Slot -> Checkpoint \cup {None}]
    /\ bodies \in SUBSET Pack /\ idxs \in SUBSET Pack
    /\ view \in [Client -> View \cup {None}]
    /\ pending \in [Client -> SUBSET Pack]
    /\ staged \in [Client -> SUBSET Snapshot]
    /\ hist \in [0..MaxSeq -> Checkpoint \cup {None}]
    /\ acked \in SUBSET (Branch \X Snapshot)
    /\ lost \in 0..MaxLost
    /\ calls \in 0..MaxCalls
    /\ cp \in [Client -> Compacting]
    /\ aged \in SUBSET Key
    /\ windows \in 0..MaxWindows

LEMMA TypeParts ==
    /\ CompactionTypeOK <=>
         RestOK /\ pc \in [Client -> Label] /\ rd \in [Client -> Reading] /\ op \in [Client -> Op] /\ corrupt \subseteq Client
    /\ CompactionTypeOK' <=>
         RestOK' /\ pc' \in [Client -> Label] /\ rd' \in [Client -> Reading] /\ op' \in [Client -> Op] /\ corrupt' \subseteq Client
BY DEF CompactionTypeOK, TypeOK, RestOK

\* Return keeps the invariant.
LEMMA ReturnKeeps ==
    ASSUME CompactionInv, NEW c \in Client, NEW res, Return(c, res), RestOK', Evolves, BucketOK', view' = view,
           cp'[c] = NoCompacting, \A d \in Client : d # c => cp'[d] = cp[d]
    PROVE  CompactionInv'
<1>0. pc \in [Client -> Label] /\ rd \in [Client -> Reading] /\ op \in [Client -> Op] /\ corrupt \subseteq Client
  BY TypeParts DEF CompactionInv
<1>1. /\ pc' \in [Client -> Label] /\ rd' \in [Client -> Reading] /\ op' \in [Client -> Op] /\ corrupt' \subseteq Client
      /\ \A d \in Client : d # c => pc'[d] = pc[d] /\ rd'[d] = rd[d] /\ op'[d] = op[d]
  BY <1>0, NoValues, Labels DEF Return, Goto
<1>2. pc'[c] = "idle" /\ rd'[c] = NoReading /\ op'[c] = NoOp
  BY <1>0 DEF Return, Goto
<1>3. CompactionTypeOK'
  BY <1>1, TypeParts
<1>4. Elsewhere(c)
  BY <1>1 DEF Elsewhere
<1>5. Reaches(op'[c].base, manifest')
  BY <1>2 DEF NoOp, Reaches
<1>6. ClientOK(c)'
  <2>1. StepInv(c)'
    BY <1>2, StepOfReturn
  <2>2. manifest' \in Manifest \cup {None}
    BY DEF RestOK
  <2> QED BY <1>2, <1>5, <2>1, <2>2, NoCompactingIs, Plain DEF WalkLabels, SlotLabels
<1> QED BY <1>3, <1>4, <1>6, Assembled

\* So does CallRefresh.
LEMMA RefreshKeeps ==
    ASSUME CompactionInv, NEW c \in Client, NEW ret \in AllReturns, CallRefresh(c, ret), RestOK', Evolves, BucketOK',
           view' = view, op' \in [Client -> Op], corrupt' = corrupt,
           \A d \in Client : d # c => op'[d] = op[d] /\ cp'[d] = cp[d],
           ret \in PushLabels => op'[c].branch \in Branch /\ op'[c].new \in Snapshot,
           ret = "probe" => op'[c].todo # {},
           ret \in CompactLabels => op'[c].branch = None,
           ret \in MergeLabels => manifest' # None,
           Reaches(op'[c].base, manifest'),
           cp'[c].logs \subseteq cp[c].logs, cp'[c].ckpts \subseteq cp[c].ckpts
    PROVE  CompactionInv'
<1>0. pc \in [Client -> Label] /\ rd \in [Client -> Reading] /\ corrupt \subseteq Client
  BY TypeParts DEF CompactionInv
<1>1. [NoReading EXCEPT !.ret = ret, !.left = MaxRestarts] \in Reading
  <2>1. ret \in Label /\ MaxRestarts \in 0..MaxRestarts
    BY LabelSets, WalAssumption
  <2> QED BY <2>1, NoValues DEF Reading
<1>2. /\ pc' \in [Client -> Label] /\ rd' \in [Client -> Reading]
      /\ \A d \in Client : d # c => pc'[d] = pc[d] /\ rd'[d] = rd[d]
  BY <1>0, <1>1, Labels DEF CallRefresh, Goto
<1>3. pc'[c] = "getManifest" /\ rd'[c] = [NoReading EXCEPT !.ret = ret, !.left = MaxRestarts]
  BY <1>0 DEF CallRefresh, Goto
<1>4. rd'[c].ret = ret
  BY <1>3 DEF NoReading
<1>5. CompactionTypeOK'
  BY <1>0, <1>2, TypeParts
<1>6. Elsewhere(c)
  BY <1>2 DEF Elsewhere
<1>7. ClientOK(c)'
  <2>1. StepInv(c)'
    BY <1>3, <1>4, StepOfRefresh DEF ReadLabels
  <2>2. manifest' \in Manifest \cup {None}
    BY DEF RestOK
  <2> QED BY <1>3, <2>1, <2>2, Plain DEF WalkLabels, SlotLabels
<1> QED BY <1>5, <1>6, <1>7, Assembled

-----------------------------------------------------------------------------
(* Steps of BucketWal                                                        *)

\* The locals of compact beside a step of BucketWal.
LEMMA Kept ==
    ASSUME CompactionInv, NEW c \in Client, KeepCompactVars, \A d \in Client : d # c => pc'[d] = pc[d]
    PROVE  /\ cp' \in [Client -> Compacting] /\ aged' \in SUBSET Key /\ windows' \in 0..MaxWindows
           /\ \A d \in Client : d # c => cp'[d] = cp[d]
           /\ cp'[c] = IF pc'[c] = "idle" THEN NoCompacting ELSE cp[c]
           /\ cp'[c].logs \subseteq cp[c].logs /\ cp'[c].ckpts \subseteq cp[c].ckpts
<1>1. cp \in [Client -> Compacting] /\ aged \in SUBSET Key /\ windows \in 0..MaxWindows
  BY DEF CompactionInv, CompactionTypeOK
<1>2. \A d \in Client : cp'[d] = IF pc'[d] = "idle" THEN NoCompacting ELSE cp[d]
  BY DEF KeepCompactVars
<1>3. cp' \in [Client -> Compacting]
  BY <1>1, NoCompactingIs DEF KeepCompactVars
<1>4. \A d \in Client : pc[d] = "idle" => cp[d] = NoCompacting
  BY DEF CompactionInv, ClientOK, StepInv
<1>5. \A d \in Client : d # c => cp'[d] = cp[d]
  BY <1>2, <1>4
<1>6. cp'[c].logs \subseteq cp[c].logs /\ cp'[c].ckpts \subseteq cp[c].ckpts
  BY <1>2, NoCompactingIs
<1> QED BY <1>1, <1>2, <1>3, <1>5, <1>6 DEF KeepCompactVars

\* An end of a call that leaves the bucket.
LEMMA WalReturns ==
    ASSUME CompactionInv, NEW c \in Client, NEW res, Return(c, res), KeepCompactVars,
           UNCHANGED <<manifest, log, ckpt, bodies, idxs, view, pending, hist, lost, calls>>,
           staged' \in [Client -> SUBSET Snapshot], acked' \in SUBSET (Branch \X Snapshot)
    PROVE  CompactionInv'
<1>1. Evolves /\ BucketOK'
  BY StillBucket
<1>2. CompactionTypeOK /\ pc \in [Client -> Label]
  BY DEF CompactionInv, CompactionTypeOK, TypeOK
<1>3. pc'[c] = "idle" /\ \A d \in Client : d # c => pc'[d] = pc[d]
  BY <1>2 DEF Return, Goto
<1>4. /\ cp' \in [Client -> Compacting] /\ aged' \in SUBSET Key /\ windows' \in 0..MaxWindows
      /\ \A d \in Client : d # c => cp'[d] = cp[d]
      /\ cp'[c] = NoCompacting
  BY <1>3, Kept
<1>5. RestOK'
  BY <1>2, <1>4 DEF CompactionTypeOK, TypeOK, RestOK
<1> QED BY <1>1, <1>4, <1>5, ReturnKeeps

\* An acknowledgement is of a push.
LEMMA WalAcknowledges ==
    ASSUME CompactionInv, NEW c \in Client, Acknowledge(c), KeepCompactVars,
           At(c) \in PushLabels,
           UNCHANGED <<manifest, log, ckpt, bodies, idxs, view, pending, hist, lost, calls>>,
           staged' \in [Client -> SUBSET Snapshot]
    PROVE  CompactionInv'
<1>1. Return(c, "ok")
  BY DEF Acknowledge
<1>2. acked \in SUBSET (Branch \X Snapshot)
  BY DEF CompactionInv, CompactionTypeOK, TypeOK
<1>3. op[c].branch \in Branch /\ op[c].new \in Snapshot
  BY DEF CompactionInv, ClientOK, StepInv
<1>4. acked' \in SUBSET (Branch \X Snapshot)
  BY <1>2, <1>3 DEF Acknowledge
<1> QED BY <1>1, <1>4, WalReturns

LEMMA CommittedIsPush ==
    ASSUME CompactionInv, NEW c \in Client, Committed(c) PROVE At(c) \in PushLabels
<1>1. CASE pc[c] \in LandedLabels
  BY <1>1, LabelSets DEF At, PushLabels
<1>2. CASE rd[c].ret = "done"
  <2>1. pc[c] \in ReadLabels
    BY <1>2 DEF CompactionInv, ClientOK, StepInv, NoReading
  <2> QED BY <1>2, <2>1 DEF At, PushLabels, LandedLabels
<1> QED BY <1>1, <1>2 DEF Committed

\* An error ends the call.
LEMMA WalThrows ==
    ASSUME CompactionInv, NEW c \in Client, NEW res, Throw(c, res), KeepCompactVars,
           UNCHANGED <<manifest, log, ckpt, bodies, idxs, view, pending, hist, lost, calls>>,
           staged' \in [Client -> SUBSET Snapshot]
    PROVE  CompactionInv'
<1>1. CASE Committed(c)
  <2>1. Acknowledge(c)
    BY <1>1 DEF Throw
  <2> QED BY <1>1, <2>1, CommittedIsPush, WalAcknowledges
<1>2. CASE ~Committed(c)
  <2>1. Return(c, res) /\ acked' = acked
    BY <1>2 DEF Throw
  <2>2. acked' \in SUBSET (Branch \X Snapshot)
    BY <2>1 DEF CompactionInv, CompactionTypeOK, TypeOK
  <2> QED BY <2>1, <2>2, WalReturns
<1> QED BY <1>1, <1>2

\* A step inside a refresh has only its walk to care for.
LEMMA WalkGoesOn ==
    ASSUME CompactionInv, NEW c \in Client, KeepCompactVars, pc[c] \in ReadLabels, NEW lbl \in ReadLabels,
           pc' = [pc EXCEPT ![c] = lbl], rd' \in [Client -> Reading],
           \A d \in Client : d # c => rd'[d] = rd[d],
           rd'[c].ret = rd[c].ret, TrueWalk(c)',
           lbl \in WalkLabels => rd'[c].m \in Manifest /\ Reaches(rd'[c].m, manifest),
           UNCHANGED <<manifest, log, ckpt, bodies, idxs, view, op, pending, staged, hist, acked, corrupt,
                       lost, calls>>
    PROVE  CompactionInv'
<1>0. CompactionTypeOK /\ pc \in [Client -> Label] /\ ClientOK(c) /\ cp[c] \in Compacting
      /\ lbl \in Label
  BY DEF CompactionInv, CompactionTypeOK, TypeOK, ReadLabels, WalkLabels, Label
<1>1. Evolves /\ BucketOK'
  BY StillBucket
<1>2. pc' \in [Client -> Label] /\ pc'[c] = lbl /\ \A d \in Client : d # c => pc'[d] = pc[d]
  BY <1>0
<1>3. /\ cp' \in [Client -> Compacting] /\ aged' \in SUBSET Key /\ windows' \in 0..MaxWindows
      /\ \A d \in Client : d # c => cp'[d] = cp[d]
      /\ cp'[c].logs \subseteq cp[c].logs /\ cp'[c].ckpts \subseteq cp[c].ckpts
  BY <1>2, Kept
<1>4. CompactionTypeOK'
  BY <1>0, <1>2, <1>3 DEF CompactionTypeOK, TypeOK
<1>5. Elsewhere(c)
  BY <1>2, <1>3 DEF Elsewhere
<1>6. StepInv(c)'
  <2>1. At(c) = rd[c].ret /\ rd[c].ret \in AllReturns
    BY <1>0 DEF At, ClientOK, StepInv
  <2> QED BY <1>0, <1>2, <2>1, StepOfRefresh DEF ClientOK, StepInv
<1>7. TrueView(c)' /\ SlotInv(c)'
  <2>1. manifest' \in Manifest \cup {None}
    BY <1>4 DEF CompactionTypeOK, TypeOK
  <2>2. pc'[c] \notin SlotLabels /\ pc'[c] # "foldCas"
    BY <1>2, LabelSets
  <2>3. SlotInv(c)'
    BY <2>2 DEF SlotInv, ClaimedLabels, FoldedLabels, SlotLabels
  <2> QED BY <1>0, <1>1, <2>1, <2>3, ViewStays DEF ClientOK
<1>8. PassedInv(c)'
  <2>1. (Folded)' = Folded /\ ViewTag(c)' = ViewTag(c)
    BY DEF Folded, FoldOf, ViewTag
  <2> QED BY <1>0, <1>2, <1>3, <2>1 DEF ClientOK, PassedInv, Reaches
<1> QED BY <1>1, <1>4, <1>5, <1>6, <1>7, <1>8, Assembled DEF ClientOK

\* The end of a refresh: the client goes on with its call.
LEMMA RefreshEnds ==
    ASSUME CompactionInv, NEW c \in Client, KeepCompactVars, pc[c] \in ReadLabels,
           pc' = [pc EXCEPT ![c] = rd[c].ret], rd' = [rd EXCEPT ![c] = NoReading],
           view' \in [Client -> View \cup {None}], \A d \in Client : d # c => view'[d] = view[d],
           TrueView(c)', Reaches(ViewTag(c), manifest)', manifest # None => view'[c] # None,
           UNCHANGED <<manifest, log, ckpt, bodies, idxs, op, pending, staged, hist, acked, corrupt,
                       lost, calls>>
    PROVE  CompactionInv'
<1>0. /\ CompactionTypeOK /\ pc \in [Client -> Label] /\ rd \in [Client -> Reading] /\ ClientOK(c)
      /\ manifest' \in Manifest \cup {None} /\ rd[c].ret \in AllReturns /\ rd[c].ret \in Label
      /\ At(c) = rd[c].ret
  BY LabelSets DEF CompactionInv, CompactionTypeOK, TypeOK, ClientOK, StepInv, At
<1>1. Evolves /\ BucketOK'
  BY StillBucket
<1>2. /\ pc' \in [Client -> Label] /\ pc'[c] = rd[c].ret /\ rd' \in [Client -> Reading] /\ rd'[c] = NoReading
      /\ \A d \in Client : d # c => pc'[d] = pc[d] /\ rd'[d] = rd[d]
  BY <1>0, NoValues
<1>3. /\ cp' \in [Client -> Compacting] /\ aged' \in SUBSET Key /\ windows' \in 0..MaxWindows
      /\ \A d \in Client : d # c => cp'[d] = cp[d]
      /\ cp'[c].logs \subseteq cp[c].logs /\ cp'[c].ckpts \subseteq cp[c].ckpts
  BY <1>2, Kept
<1>4. CompactionTypeOK'
  BY <1>0, <1>2, <1>3 DEF CompactionTypeOK, TypeOK
<1>5. Elsewhere(c)
  BY <1>2, <1>3 DEF Elsewhere
<1>6. pc'[c] \notin ReadLabels \cup SlotLabels \cup {"idle", "foldCas", "sweepBody"}
  BY <1>0, <1>2, LabelSets
<1>7. StepInv(c)'
  <2>1. At(c)' = At(c)
    BY <1>0, <1>2, <1>6 DEF At
  <2>2. pc'[c] \in MergeLabels => manifest # None
    BY <1>0, <1>2 DEF ClientOK, StepInv
  <2> QED BY <1>0, <1>2, <1>6, <2>1, <2>2 DEF ClientOK, StepInv
<1>8. Reaches(op'[c].base, manifest')
  BY <1>0 DEF ClientOK, PassedInv
<1>9. ClientOK(c)'
  <2>1. pc'[c] \notin WalkLabels \cup SlotLabels \cup {"foldCas"}
    BY <1>6 DEF ReadLabels
  <2> QED BY <1>0, <1>1, <1>3, <1>7, <1>8, <2>1, PlainView
<1> QED BY <1>1, <1>4, <1>5, <1>9, Assembled

\* GetManifest keeps the invariant.
LEMMA GetManifestKeeps ==
    ASSUME CompactionInv, NEW c \in Client, GetManifest(c), KeepCompactVars PROVE CompactionInv'
<1>0. /\ TypeOK /\ rd[c] \in Reading /\ rd \in [Client -> Reading] /\ manifest \in Manifest \cup {None}
      /\ pc \in [Client -> Label] /\ pc[c] = "getManifest" /\ view \in [Client -> View \cup {None}]
      /\ ClientOK(c) /\ pc[c] \in ReadLabels
  BY DEF CompactionInv, CompactionTypeOK, TypeOK, GetManifest, ReadLabels
<1>1. UNCHANGED <<op, pending, staged, bodies, idxs, manifest, log, ckpt, hist, acked, corrupt, lost, calls>>
  BY DEF GetManifest, bucketVars, sessionVars, historyVars
<1>2. CASE /\ manifest = None
           /\ view' = [view EXCEPT ![c] = None]
           /\ pc' = [pc EXCEPT ![c] = rd[c].ret]
           /\ rd' = [rd EXCEPT ![c] = NoReading]
  <2>1. view' \in [Client -> View \cup {None}] /\ view'[c] = None /\ \A d \in Client : d # c => view'[d] = view[d]
    BY <1>0, <1>2
  <2>2. TrueView(c)' /\ Reaches(ViewTag(c), manifest)'
    BY <2>1 DEF TrueView, ViewTag, Reaches
  <2> QED BY <1>0, <1>1, <1>2, <2>1, <2>2, RefreshEnds
<1>3. CASE /\ manifest # None /\ ViewTag(c) = manifest
           /\ pc' = [pc EXCEPT ![c] = rd[c].ret]
           /\ rd' = [rd EXCEPT ![c] = NoReading]
           /\ view' = view
  <2>1. view[c] # None
    BY <1>3 DEF ViewTag
  <2>2. TrueView(c)' /\ Reaches(ViewTag(c), manifest)'
    BY <1>0, <1>1, <1>3 DEF ClientOK, TrueView, PassedInv, ViewTag, Reaches, Folded, FoldOf
  <2> QED BY <1>0, <1>1, <1>3, <2>1, <2>2, RefreshEnds
<1>4. CASE /\ manifest # None
           /\ rd' = [rd EXCEPT ![c] = [@ EXCEPT !.m = manifest, !.cur = manifest.head,
                        !.tail = NoRefs, !.refs = NoRefs, !.packs = {}]]
           /\ pc' = [pc EXCEPT ![c] = IF manifest.ck # 0 THEN "getCheckpoint" ELSE "getLog"]
           /\ view' = view
  <2>0. manifest \in Manifest /\ manifest.head \in 0..MaxSeq
    BY <1>0, <1>4 DEF Manifest, Slot
  <2>1. rd' \in [Client -> Reading] /\ \A d \in Client : d # c => rd'[d] = rd[d]
    BY <1>0, <1>4, <2>0, NoValues DEF Reading
  <2>2. /\ rd'[c].ret = rd[c].ret /\ rd'[c].m = manifest /\ rd'[c].cur = manifest.head
        /\ rd'[c].tail = NoRefs /\ rd'[c].refs = NoRefs /\ rd'[c].packs = {}
    BY <1>0, <1>4 DEF Reading
  <2>3. pc'[c] = IF manifest.ck # 0 THEN "getCheckpoint" ELSE "getLog"
    BY <1>0, <1>4
  <2>4. /\ hist[0] = [refs |-> NoRefs, packs |-> {}] /\ hist[manifest.head] # None
        /\ \A b \in Branch : NoRefs[b] = None
    BY <1>4 DEF CompactionInv, BucketOK, StatesInv, NoRefs
  <2>5. TrueWalk(c)'
    BY <1>1, <2>2, <2>3, <2>4 DEF TrueWalk
  <2>6. Reaches(rd'[c].m, manifest)
    BY <1>0, <2>2, Reached
  <2>7. (IF manifest.ck # 0 THEN "getCheckpoint" ELSE "getLog") \in ReadLabels
    BY DEF ReadLabels, WalkLabels
  <2> QED BY <1>0, <1>1, <1>4, <2>0, <2>1, <2>2, <2>5, <2>6, <2>7, WalkGoesOn
<1> QED BY <1>2, <1>3, <1>4 DEF GetManifest, Goto

\* A missing key: the refresh starts over or fails.
LEMMA GoneKeeps ==
    ASSUME CompactionInv, NEW c \in Client, pc[c] \in WalkLabels, Gone(c), KeepCompactVars,
           UNCHANGED <<manifest, log, ckpt, bodies, idxs, view, pending, staged, hist, lost, calls>>
    PROVE  CompactionInv'
<1>0. /\ rd[c] \in Reading /\ rd \in [Client -> Reading] /\ pc \in [Client -> Label]
      /\ staged \in [Client -> SUBSET Snapshot]
  BY DEF CompactionInv, CompactionTypeOK, TypeOK
<1>1. CASE /\ rd[c].left > 0 /\ pc' = [pc EXCEPT ![c] = "getManifest"]
           /\ rd' = [rd EXCEPT ![c].failed = rd[c].m, ![c].left = rd[c].left - 1]
           /\ UNCHANGED <<op, acked, corrupt>>
  <2>1. rd' \in [Client -> Reading]
    <3>1. rd[c].left - 1 \in 0..MaxRestarts
      BY <1>0, <1>1, WalAssumption DEF Reading
    <3> QED BY <1>0, <1>1, <3>1 DEF Reading
  <2>2. rd'[c].ret = rd[c].ret /\ pc'[c] = "getManifest" /\ \A d \in Client : d # c => rd'[d] = rd[d]
    BY <1>0, <1>1 DEF Reading
  <2>3. TrueWalk(c)'
    BY <2>2 DEF TrueWalk, WalkLabels
  <2>4. "getManifest" \in ReadLabels /\ pc[c] \in ReadLabels /\ "getManifest" \notin WalkLabels
    BY DEF ReadLabels, WalkLabels
  <2> QED BY <1>1, <2>1, <2>2, <2>3, <2>4, WalkGoesOn
<1>2. CASE \E res : Throw(c, res)
  <2>1. PICK res : Throw(c, res)
    BY <1>2
  <2> QED BY <1>0, <2>1, WalThrows
<1> QED BY <1>1, <1>2 DEF Gone, Goto

\* GetCheckpoint keeps the invariant: the checkpoint of the fold is its state.
LEMMA GetCheckpointKeeps ==
    ASSUME CompactionInv, NEW c \in Client, GetCheckpoint(c), KeepCompactVars PROVE CompactionInv'
<1> DEFINE k == ckpt[rd[c].m.ck]
<1>0. /\ rd[c] \in Reading /\ rd \in [Client -> Reading] /\ pc \in [Client -> Label] /\ TypeOK
      /\ pc[c] = "getCheckpoint" /\ ClientOK(c) /\ BucketOK /\ pc[c] \in WalkLabels /\ pc[c] \in ReadLabels
  BY DEF CompactionInv, CompactionTypeOK, TypeOK, GetCheckpoint, WalkLabels, ReadLabels
<1>1. UNCHANGED <<manifest, log, ckpt, bodies, idxs, view, pending, staged, hist, lost, calls>>
  BY DEF GetCheckpoint, bucketVars, sessionVars
<1>2. rd[c].m \in Manifest /\ Reaches(rd[c].m, manifest) /\ rd[c].m.ck # 0
  BY <1>0 DEF ClientOK, PassedInv, TrueWalk
<1>3. rd[c].m.ck \in Slot /\ rd[c].m.head \in Slot
  BY <1>0, <1>2, Ranges
<1>4. CASE k = None /\ Gone(c)
  BY <1>0, <1>1, <1>4, GoneKeeps
<1>5. CASE /\ k # None
           /\ rd' = [rd EXCEPT ![c].refs = k.refs, ![c].packs = k.packs]
           /\ pc' = [pc EXCEPT ![c] = "getLog"] /\ UNCHANGED <<op, acked, corrupt>>
  <2>1. k \in Checkpoint
    BY <1>0, <1>3, <1>5 DEF TypeOK
  <2>2. k.refs \in Refs /\ k.packs \in SUBSET Pack
    BY <2>1 DEF Checkpoint
  <2>3. rd' \in [Client -> Reading] /\ \A d \in Client : d # c => rd'[d] = rd[d]
    BY <1>0, <1>5, <2>2 DEF Reading
  <2>4. /\ rd'[c].ret = rd[c].ret /\ rd'[c].m = rd[c].m /\ rd'[c].cur = rd[c].cur
        /\ rd'[c].tail = rd[c].tail /\ rd'[c].refs = k.refs /\ rd'[c].packs = k.packs /\ pc'[c] = "getLog"
    BY <1>0, <1>5 DEF Reading
  <2>5. ASSUME rd[c].m.ck = Folded
        PROVE  /\ k = hist[rd[c].m.ck] /\ hist[rd[c].m.head] # None /\ rd[c].cur = rd[c].m.head
               /\ rd[c].tail = NoRefs
    <3>1. manifest # None /\ manifest.ck = rd[c].m.ck /\ hist[rd[c].m.ck] # None
      BY <1>0, <1>2, <2>5, NoneAssumption DEF Reaches, Folded, FoldOf, BucketOK, StatesInv
    <3>2. Folded <= rd[c].m.ck
      BY <1>3, <2>5 DEF Slot
    <3> QED BY <1>0, <1>3, <1>5, <2>5, <3>1, <3>2 DEF ClientOK, TrueWalk, BucketOK, CheckpointsInv, WalkLabels
  <2>6. Folded' = Folded /\ \A b \in Branch : NoRefs[b] = None
    BY <1>1 DEF Folded, FoldOf, NoRefs
  <2>7. TrueWalk(c)'
    BY <1>1, <2>4, <2>5, <2>6 DEF TrueWalk
  <2>8. "getLog" \in ReadLabels
    BY DEF ReadLabels, WalkLabels
  <2>9. rd'[c].m \in Manifest /\ Reaches(rd'[c].m, manifest) /\ rd'[c].ret = rd[c].ret
    BY <1>2, <2>4
  <2> HIDE DEF k
  <2> QED BY <1>0, <1>1, <1>5, <2>3, <2>7, <2>8, <2>9, WalkGoesOn
<1> QED BY <1>4, <1>5 DEF GetCheckpoint, Goto

\* GetLog keeps the invariant: after the fold the log is what was committed.
LEMMA GetLogKeeps ==
    ASSUME CompactionInv, NEW c \in Client, GetLog(c), KeepCompactVars PROVE CompactionInv'
<1> DEFINE r == rd[c]
           e == log[r.cur]
<1>0. /\ rd[c] \in Reading /\ rd \in [Client -> Reading] /\ pc \in [Client -> Label] /\ TypeOK
      /\ pc[c] = "getLog" /\ ClientOK(c) /\ BucketOK /\ pc[c] \in WalkLabels /\ pc[c] \in ReadLabels
      /\ staged \in [Client -> SUBSET Snapshot]
  BY DEF CompactionInv, CompactionTypeOK, TypeOK, GetLog, WalkLabels, ReadLabels
<1>1. UNCHANGED <<manifest, log, ckpt, bodies, idxs, view, pending, staged, hist, lost, calls>>
  BY DEF GetLog, bucketVars, sessionVars
<1>2. /\ r.m \in Manifest /\ Reaches(r.m, manifest) /\ r.m.ck \in 0..MaxSeq /\ r.m.head \in 0..MaxSeq
      /\ r.cur \in 0..MaxSeq
  BY <1>0, Ranges DEF ClientOK, PassedInv
<1>3. r.m.ck = Folded =>
         /\ hist[r.m.head] # None
         /\ hist[r.cur] # None /\ hist[r.cur].packs \subseteq hist[r.m.head].packs
         /\ r.refs = hist[r.m.ck].refs
         /\ hist[r.m.ck].packs \subseteq r.packs
         /\ r.packs \cup hist[r.cur].packs = hist[r.m.head].packs \cup hist[r.m.ck].packs
         /\ \A b \in Branch : hist[r.m.head].refs[b] =
               IF r.tail[b] = None THEN hist[r.cur].refs[b] ELSE r.tail[b]
  BY <1>0 DEF ClientOK, TrueWalk
<1>4. Folded' = Folded
  BY <1>1 DEF Folded, FoldOf
<1>5. CASE /\ r.cur = r.m.ck
           /\ pc' = [pc EXCEPT ![c] = "getIdx"]
           /\ UNCHANGED <<rd, op, acked, corrupt>>
  <2>1. rd' \in [Client -> Reading] /\ rd'[c] = rd[c] /\ pc'[c] = "getIdx" /\ \A d \in Client : d # c => rd'[d] = rd[d]
    BY <1>0, <1>5
  <2>2. TrueWalk(c)'
    BY <1>1, <1>3, <1>4, <1>5, <2>1 DEF TrueWalk
  <2>3. "getIdx" \in ReadLabels
    BY DEF ReadLabels, WalkLabels
  <2>4. rd'[c].ret = rd[c].ret /\ rd'[c].m \in Manifest /\ Reaches(rd'[c].m, manifest)
    BY <1>2, <2>1
  <2> QED BY <1>0, <1>1, <1>5, <2>1, <2>2, <2>3, <2>4, WalkGoesOn
<1>6. CASE /\ r.cur > r.m.ck /\ e # None
           /\ rd' = [rd EXCEPT ![c].cur = e.parent,
                        ![c].packs = r.packs \cup e.packs,
                        ![c].tail = Replay(r.tail, e)]
           /\ UNCHANGED <<pc, op, acked, corrupt>>
  <2>1. r.cur \in Slot /\ e \in LogEntry
    BY <1>0, <1>2, <1>6 DEF Slot, TypeOK
  <2>2. e.parent \in 0..MaxSeq /\ e.packs \in SUBSET Pack /\ e.new \in Tip
    BY <2>1 DEF LogEntry
  <2>3. Replay(r.tail, e) \in Refs /\ r.packs \cup e.packs \in SUBSET Pack
    BY <1>0, <2>2 DEF Replay, Refs, Reading
  <2>4. rd' \in [Client -> Reading] /\ \A d \in Client : d # c => rd'[d] = rd[d]
    BY <1>0, <1>6, <2>2, <2>3 DEF Reading
  <2>5. /\ rd'[c].ret = r.ret /\ rd'[c].m = r.m /\ rd'[c].cur = e.parent /\ rd'[c].refs = r.refs
        /\ rd'[c].tail = Replay(r.tail, e) /\ rd'[c].packs = r.packs \cup e.packs
    BY <1>0, <1>6 DEF Reading
  <2>6. pc'[c] = "getLog" /\ pc' = [pc EXCEPT ![c] = "getLog"]
    BY <1>0, <1>6
  <2>7. ASSUME r.m.ck = Folded
        PROVE  /\ hist[e.parent] # None /\ hist[e.parent].packs \subseteq hist[r.m.head].packs
               /\ hist[r.m.ck].packs \subseteq r.packs \cup e.packs
               /\ (r.packs \cup e.packs) \cup hist[e.parent].packs = hist[r.m.head].packs \cup hist[r.m.ck].packs
               /\ \A b \in Branch : hist[r.m.head].refs[b] =
                     IF Replay(r.tail, e)[b] = None THEN hist[e.parent].refs[b] ELSE Replay(r.tail, e)[b]
    <3>1. Folded < r.cur /\ hist[r.cur] # None
      BY <1>2, <1>3, <1>6, <2>7
    <3>2. /\ e.branch \in Branch /\ e.new \in Snapshot /\ hist[e.parent] # None
          /\ hist[r.cur] = Extend(hist[e.parent], e)
      BY <1>0, <2>1, <3>1 DEF BucketOK, TailInv
    <3>3. e.new # None /\ r.tail \in Refs
      BY <1>0, <3>2, WalAssumption DEF Reading
    <3>4. PICK top, base, here, before, packs, tail, entry :
             /\ top = hist[r.m.head] /\ base = hist[r.m.ck] /\ here = hist[r.cur] /\ before = hist[e.parent]
             /\ packs = r.packs /\ tail = r.tail /\ entry = e
      OBVIOUS
    <3> HIDE DEF r, e
    <3>5. /\ tail \in Refs /\ here = Extend(before, entry) /\ entry.new # None
          /\ here.packs \subseteq top.packs /\ base.packs \subseteq packs
          /\ packs \cup here.packs = top.packs \cup base.packs
          /\ \A b \in Branch : top.refs[b] = IF tail[b] = None THEN here.refs[b] ELSE tail[b]
      BY <1>3, <2>7, <3>2, <3>3, <3>4
    <3>6. /\ before.packs \subseteq top.packs /\ base.packs \subseteq packs \cup entry.packs
          /\ (packs \cup entry.packs) \cup before.packs = top.packs \cup base.packs
          /\ \A b \in Branch : top.refs[b] =
                IF Replay(tail, entry)[b] = None THEN before.refs[b] ELSE Replay(tail, entry)[b]
      <4>1. /\ here.packs = before.packs \cup entry.packs
            /\ \A b \in Branch : here.refs[b] = IF b = entry.branch THEN entry.new ELSE before.refs[b]
        BY <3>5, ExtendIs
      <4>2. \A b \in Branch : Replay(tail, entry)[b] =
                IF b = entry.branch /\ tail[b] = None THEN entry.new ELSE tail[b]
        BY DEF Replay
      <4>3. ASSUME NEW b \in Branch
            PROVE  top.refs[b] = IF Replay(tail, entry)[b] = None THEN before.refs[b] ELSE Replay(tail, entry)[b]
        BY <3>5, <4>1, <4>2
      <4>4. before.packs \subseteq top.packs /\ base.packs \subseteq packs \cup entry.packs
        BY <3>5, <4>1
      <4>5. (packs \cup entry.packs) \cup before.packs = top.packs \cup base.packs
        BY <3>5, <4>1
      <4> QED BY <4>3, <4>4, <4>5
    <3> QED BY <3>2, <3>4, <3>6
  <2>8. TrueWalk(c)'
    <3> HIDE DEF r, e
    <3> USE DEF r
    <3> QED BY <1>1, <1>3, <1>4, <2>5, <2>6, <2>7 DEF TrueWalk
  <2>9. "getLog" \in ReadLabels /\ rd'[c].ret = rd[c].ret /\ rd'[c].m \in Manifest /\ Reaches(rd'[c].m, manifest)
    BY <1>2, <2>5 DEF ReadLabels, WalkLabels
  <2> HIDE DEF e
  <2> QED BY <1>0, <1>1, <1>6, <2>4, <2>6, <2>8, <2>9, WalkGoesOn
<1>7. CASE Gone(c)
  BY <1>0, <1>1, <1>7, GoneKeeps
<1>8. CASE Throw(c, "corrupt")
  BY <1>0, <1>1, <1>8, WalThrows
<1> QED BY <1>5, <1>6, <1>7, <1>8 DEF GetLog, Goto

\* GetIdx keeps the invariant: the view of a walk from the fold is true.
LEMMA GetIdxKeeps ==
    ASSUME CompactionInv, NEW c \in Client, GetIdx(c), KeepCompactVars PROVE CompactionInv'
<1> DEFINE r == rd[c]
           refs == [b \in Branch |-> IF r.tail[b] = None THEN r.refs[b] ELSE r.tail[b]]
           v == [m |-> r.m, packs |-> r.packs, refs |-> refs]
<1>0. /\ rd[c] \in Reading /\ rd \in [Client -> Reading] /\ pc \in [Client -> Label] /\ TypeOK
      /\ pc[c] = "getIdx" /\ ClientOK(c) /\ pc[c] \in WalkLabels /\ pc[c] \in ReadLabels
      /\ view \in [Client -> View \cup {None}]
  BY DEF CompactionInv, CompactionTypeOK, TypeOK, GetIdx, WalkLabels, ReadLabels
<1>1. UNCHANGED <<manifest, log, ckpt, bodies, idxs, pending, staged, hist, lost, calls>>
  BY DEF GetIdx, bucketVars, sessionVars
<1>2. r.m \in Manifest /\ Reaches(r.m, manifest) /\ r.m.head \in 0..MaxSeq
  BY <1>0, Ranges DEF ClientOK, PassedInv
<1>3. CASE /\ view' = [view EXCEPT ![c] = v]
           /\ pc' = [pc EXCEPT ![c] = r.ret]
           /\ rd' = [rd EXCEPT ![c] = NoReading]
           /\ UNCHANGED <<op, acked, corrupt>>
  <2>1. refs \in Refs
    BY <1>0 DEF Reading, Refs
  <2>2. v \in View /\ v # None
    BY <1>0, <1>2, <2>1, NoneAssumption DEF View, Reading
  <2>3. /\ view' \in [Client -> View \cup {None}] /\ view'[c] = v /\ \A d \in Client : d # c => view'[d] = view[d]
        /\ view'[c].m = r.m /\ view'[c].packs = r.packs /\ view'[c].refs = refs
    BY <1>0, <1>3, <2>2
  <2>4. TrueView(c)'
    <3> SUFFICES ASSUME view'[c].m.ck = Folded'
                 PROVE  /\ hist[r.m.head] # None /\ refs = hist[r.m.head].refs /\ r.packs = hist[r.m.head].packs
      BY <1>1, <2>3 DEF TrueView
    <3>1. r.m.ck = Folded
      BY <1>1, <2>3 DEF Folded, FoldOf
    <3>2. /\ hist[r.m.head] # None
          /\ hist[r.cur] # None /\ hist[r.cur].packs \subseteq hist[r.m.head].packs
          /\ r.refs = hist[r.m.ck].refs /\ r.cur = r.m.ck
          /\ hist[r.m.ck].packs \subseteq r.packs
          /\ r.packs \cup hist[r.cur].packs = hist[r.m.head].packs \cup hist[r.m.ck].packs
          /\ \A b \in Branch : hist[r.m.head].refs[b] =
                IF r.tail[b] = None THEN hist[r.cur].refs[b] ELSE r.tail[b]
      BY <1>0, <3>1 DEF ClientOK, TrueWalk
    <3>3. hist[r.m.head].refs \in Refs
      BY <1>0, <1>2, <3>2 DEF TypeOK, Checkpoint
    <3>4. refs = hist[r.m.head].refs
      BY <3>2, <3>3 DEF Refs
    <3>5. r.packs = hist[r.m.head].packs
      BY <3>2
    <3> QED BY <3>2, <3>4, <3>5
  <2>5. Reaches(ViewTag(c), manifest)'
    <3>1. view'[c] # None /\ view'[c].m = r.m /\ manifest' = manifest
      BY <1>1, <2>2, <2>3
    <3>2. ViewTag(c)' = r.m
      BY <3>1 DEF ViewTag
    <3> QED BY <1>2, <3>1, <3>2 DEF Reaches
  <2> HIDE DEF v
  <2> QED BY <1>0, <1>1, <1>3, <2>2, <2>3, <2>4, <2>5, RefreshEnds
<1>4. CASE Gone(c) /\ UNCHANGED view
  BY <1>0, <1>1, <1>4, GoneKeeps
<1> QED BY <1>3, <1>4 DEF GetIdx, Goto

\* A step that goes on at a label outside of refresh.
LEMMA GoKeeps ==
    ASSUME CompactionInv, NEW c \in Client, NEW lbl \in Label, lbl \notin ReadLabels, lbl \notin {"idle", "probe"},
           pc[c] \notin ReadLabels, pc' = [pc EXCEPT ![c] = lbl], rd' = rd, view' = view, corrupt' = corrupt, RestOK',
           op' \in [Client -> Op], Evolves, BucketOK',
           \A d \in Client : d # c => op'[d] = op[d] /\ cp'[d] = cp[d],
           lbl \in PushLabels => op'[c].branch \in Branch /\ op'[c].new \in Snapshot,
           lbl \in CompactLabels => op'[c].branch = None,
           lbl \in MergeLabels \cup {"foldCas"} => view[c] # None,
           lbl = "sweepBody" => cp'[c].left > 0,
           Reaches(op'[c].base, manifest'),
           \A s \in cp'[c].logs : s \in cp[c].logs \/ s <= FoldOf(manifest'),
           \A s \in cp'[c].ckpts : s \in cp[c].ckpts \/ s < FoldOf(manifest'),
           lbl \in SlotLabels \cup {"foldCas"} => SlotInv(c)'
    PROVE  CompactionInv'
<1>0. /\ CompactionTypeOK /\ TypeOK /\ ClientOK(c) /\ pc \in [Client -> Label] /\ rd \in [Client -> Reading]
      /\ cp[c] \in Compacting /\ manifest \in Manifest \cup {None} /\ manifest' \in Manifest \cup {None}
      /\ corrupt \subseteq Client
  BY DEF CompactionInv, CompactionTypeOK, TypeOK, RestOK
<1>1. pc' \in [Client -> Label] /\ pc'[c] = lbl /\ \A d \in Client : d # c => pc'[d] = pc[d]
  BY <1>0
<1>2. CompactionTypeOK'
  BY <1>0, <1>1, TypeParts
<1>3. Elsewhere(c)
  BY <1>1 DEF Elsewhere
<1>4. TrueView(c)' /\ Reaches(ViewTag(c), manifest') /\ ViewTag(c)' = ViewTag(c)
  BY <1>0, ViewStays DEF ClientOK
<1>5. StepInv(c)'
  <2>1. At(c)' = lbl
    BY <1>1 DEF At
  <2>2. lbl \in MergeLabels => manifest' # None
    BY <1>0, <1>4, ViewTags, NoneAssumption DEF Reaches
  <2> QED BY <1>0, <1>1, <2>1, <2>2 DEF ClientOK, StepInv
<1>6. PassedInv(c)'
  <2>1. FoldOf(manifest) \in Int /\ FoldOf(manifest') \in Int /\ FoldOf(manifest) <= FoldOf(manifest')
    BY <1>0, Reached DEF Evolves
  <2>2. \A s \in cp[c].logs \cup cp[c].ckpts : s \in Int
    BY <1>0 DEF Compacting, Slot
  <2>3. (\A s \in cp'[c].logs : s <= FoldOf(manifest')) /\ (\A s \in cp'[c].ckpts : s < FoldOf(manifest'))
    BY <1>0, <2>1, <2>2 DEF ClientOK, PassedInv, Folded
  <2>4. lbl \notin WalkLabels
    BY DEF ReadLabels
  <2> QED BY <1>1, <1>4, <2>3, <2>4 DEF PassedInv, Reaches, Folded, FoldOf
<1>7. TrueWalk(c)'
  BY <1>1 DEF TrueWalk, ReadLabels, WalkLabels
<1>8. SlotInv(c)'
  BY <1>1 DEF SlotInv, SlotLabels, ClaimedLabels, FoldedLabels
<1> QED BY <1>2, <1>3, <1>4, <1>5, <1>6, <1>7, <1>8, Assembled DEF ClientOK

\* Such a step of a push or a fetch that leaves the chain.
LEMMA WalGoes ==
    ASSUME CompactionInv, NEW c \in Client, NEW lbl \in CommitLabels \cup FetchLabels, lbl # "probe", pc[c] \notin ReadLabels,
           pc' = [pc EXCEPT ![c] = lbl], KeepCompactVars,
           op' \in [Client -> Op], pending' \in [Client -> SUBSET Pack],
           staged' \in [Client -> SUBSET Snapshot], bodies' \in SUBSET Pack, idxs' \in SUBSET Pack,
           UNCHANGED <<manifest, log, ckpt, view, rd, hist, acked, corrupt, lost, calls>>,
           \A d \in Client : d # c => op'[d] = op[d],
           lbl \in CommitLabels => op'[c].branch \in Branch /\ op'[c].new \in Snapshot,
           Reaches(op'[c].base, manifest),
           lbl \in SlotLabels => SlotInv(c)'
    PROVE  CompactionInv'
<1>0. CompactionTypeOK /\ pc \in [Client -> Label]
  BY DEF CompactionInv, CompactionTypeOK, TypeOK
<1>1. Evolves /\ BucketOK'
  BY StillBucket
<1>2. /\ lbl \in Label /\ lbl \notin ReadLabels \cup CompactLabels \cup MergeLabels \cup LandedLabels
      /\ lbl \notin {"idle", "foldCas", "sweepBody", "listed"}
  BY DEF Label, ReadLabels, WalkLabels, CommitLabels, FetchLabels, CompactLabels, MergeLabels, LandedLabels
<1>3. pc'[c] = lbl /\ \A d \in Client : d # c => pc'[d] = pc[d]
  BY <1>0
<1>4. /\ cp' \in [Client -> Compacting] /\ aged' \in SUBSET Key /\ windows' \in 0..MaxWindows
      /\ \A d \in Client : d # c => cp'[d] = cp[d]
      /\ cp'[c].logs \subseteq cp[c].logs /\ cp'[c].ckpts \subseteq cp[c].ckpts
  BY <1>3, Kept
<1>5. RestOK'
  BY <1>0, <1>4 DEF CompactionTypeOK, TypeOK, RestOK
<1>6. lbl \in PushLabels => lbl \in CommitLabels
  BY <1>2 DEF PushLabels
<1> QED BY <1>1, <1>2, <1>4, <1>5, <1>6, GoKeeps

\* A step of a push or a fetch that goes on with a refresh.
LEMMA WalRefreshes ==
    ASSUME CompactionInv, NEW c \in Client, NEW ret \in RefreshReturns, CallRefresh(c, ret), KeepCompactVars,
           op' \in [Client -> Op], pending' \in [Client -> SUBSET Pack],
           staged' \in [Client -> SUBSET Snapshot], lost' \in 0..MaxLost, calls' \in 0..MaxCalls,
           UNCHANGED <<manifest, log, ckpt, bodies, idxs, view, hist, acked, corrupt>>,
           \A d \in Client : d # c => op'[d] = op[d],
           ret \in PushLabels => op'[c].branch \in Branch /\ op'[c].new \in Snapshot,
           ret = "probe" => op'[c].todo # {},
           Reaches(op'[c].base, manifest)
    PROVE  CompactionInv'
<1>0. CompactionTypeOK /\ pc \in [Client -> Label]
  BY DEF CompactionInv, CompactionTypeOK, TypeOK
<1>1. Evolves /\ BucketOK'
  BY StillBucket
<1>2. ret \in AllReturns /\ ret \notin CompactLabels /\ ret \notin MergeLabels
  BY DEF AllReturns, RefreshReturns, CompactLabels, MergeLabels
<1>3. \A d \in Client : d # c => pc'[d] = pc[d]
  BY <1>0 DEF CallRefresh, Goto
<1>4. /\ cp' \in [Client -> Compacting] /\ aged' \in SUBSET Key /\ windows' \in 0..MaxWindows
      /\ \A d \in Client : d # c => cp'[d] = cp[d]
      /\ cp'[c].logs \subseteq cp[c].logs /\ cp'[c].ckpts \subseteq cp[c].ckpts
  BY <1>3, Kept
<1>5. RestOK'
  BY <1>0, <1>4 DEF CompactionTypeOK, TypeOK, RestOK
<1> QED BY <1>1, <1>2, <1>4, <1>5, RefreshKeeps

\* What holds of the locals of every client.
LEMMA LocalFacts ==
    ASSUME CompactionInv, NEW c \in Client
    PROVE  /\ TypeOK /\ op \in [Client -> Op] /\ op[c] \in Op /\ pending \in [Client -> SUBSET Pack]
           /\ staged \in [Client -> SUBSET Snapshot] /\ bodies \in SUBSET Pack /\ idxs \in SUBSET Pack
           /\ lost \in 0..MaxLost /\ calls \in 0..MaxCalls /\ acked \in SUBSET (Branch \X Snapshot)
           /\ pc \in [Client -> Label] /\ manifest \in Manifest \cup {None} /\ rd[c] \in Reading
           /\ cp \in [Client -> Compacting] /\ cp[c] \in Compacting
           /\ ClientOK(c) /\ BucketOK /\ CompactionTypeOK
           /\ Reaches(op[c].base, manifest) /\ Reaches(ViewTag(c), manifest)
           /\ \A lbl \in PushLabels : At(c) = lbl => op[c].branch \in Branch /\ op[c].new \in Snapshot
           /\ pc[c] \notin ReadLabels => At(c) = pc[c]
BY DEF CompactionInv, CompactionTypeOK, TypeOK, ClientOK, PassedInv, StepInv, At

\* A push at one of its labels outside of refresh.
LEMMA PushAt ==
    ASSUME CompactionInv, NEW c \in Client, pc[c] \in PushLabels
    PROVE  /\ op[c].branch \in Branch /\ op[c].new \in Snapshot /\ op[c].new # None
           /\ pc[c] \notin ReadLabels /\ At(c) \in PushLabels
<1>1. pc[c] \notin ReadLabels
  BY DEF PushLabels, CommitLabels, LandedLabels, ReadLabels, WalkLabels
<1> QED BY <1>1, LocalFacts, WalAssumption

\* No request is out: no tag is held.
LEMMA NoTag == Reaches(None, manifest)
BY DEF Reaches

LEMMA BeginPushKeeps ==
    ASSUME CompactionInv, NEW c \in Client, BeginPush(c), KeepCompactVars PROVE CompactionInv'
<1>0. TypeOK /\ op \in [Client -> Op] /\ pending \in [Client -> SUBSET Pack]
        /\ staged \in [Client -> SUBSET Snapshot] /\ lost \in 0..MaxLost
  BY LocalFacts
<1>1. PICK b \in Branch, s \in Snapshot : op' = [op EXCEPT ![c] = [NoOp EXCEPT !.branch = b, !.new = s]]
  BY ZenonT(30) DEF BeginPush
<1>2. calls' \in 0..MaxCalls
  BY <1>0, WalAssumption DEF BeginPush, TypeOK
<1>3. [NoOp EXCEPT !.branch = b, !.new = s] \in Op
  BY NoValues DEF Op, Tip
<1>4. op' \in [Client -> Op] /\ \A d \in Client : d # c => op'[d] = op[d]
  BY <1>0, <1>1, <1>3
<1>5. op'[c].branch = b /\ op'[c].new = s /\ op'[c].base = None
  BY <1>0, <1>1 DEF NoOp
<1>6. "listed" \in RefreshReturns /\ Reaches(op'[c].base, manifest)
  BY <1>5, NoTag DEF RefreshReturns
<1> QED BY <1>0, <1>2, <1>4, <1>5, <1>6, WalRefreshes DEF BeginPush, bucketVars, sessionVars

LEMMA BeginFetchKeeps ==
    ASSUME CompactionInv, NEW c \in Client, BeginFetch(c), KeepCompactVars PROVE CompactionInv'
<1>0. TypeOK /\ op \in [Client -> Op] /\ pending \in [Client -> SUBSET Pack]
        /\ staged \in [Client -> SUBSET Snapshot] /\ lost \in 0..MaxLost
  BY LocalFacts
<1>1. calls' \in 0..MaxCalls
  BY <1>0, WalAssumption DEF BeginFetch, TypeOK
<1>2. op' \in [Client -> Op] /\ \A d \in Client : d # c => op'[d] = op[d]
  BY <1>0, NoValues DEF BeginFetch
<1>3. op'[c].base = None
  BY <1>0 DEF BeginFetch, NoOp
<1>4. "fetchRefs" \in RefreshReturns /\ "fetchRefs" \notin PushLabels /\ Reaches(op'[c].base, manifest)
  BY <1>3, NoTag DEF RefreshReturns, PushLabels, CommitLabels, LandedLabels
<1> QED BY <1>0, <1>1, <1>2, <1>4, WalRefreshes DEF BeginFetch, bucketVars, sessionVars

\* The refs of a view, or of none.
LEMMA ViewRefsType == ASSUME TypeOK, NEW c \in Client PROVE ViewRefs(c) \in Refs
BY NoValues DEF ViewRefs, TypeOK, View

LEMMA ListedKeeps ==
    ASSUME CompactionInv, NEW c \in Client, Listed(c), KeepCompactVars PROVE CompactionInv'
<1> DEFINE o == op[c]
           tip == ViewRefs(c)[o.branch]
<1>0. /\ TypeOK /\ op \in [Client -> Op] /\ op[c] \in Op /\ pending \in [Client -> SUBSET Pack]
      /\ staged \in [Client -> SUBSET Snapshot] /\ lost \in 0..MaxLost /\ calls \in 0..MaxCalls
      /\ acked \in SUBSET (Branch \X Snapshot) /\ pc[c] = "listed" /\ Reaches(op[c].base, manifest)
  BY LocalFacts DEF Listed
<1>1. UNCHANGED <<manifest, log, ckpt, bodies, idxs, view, pending, staged, hist, lost, calls>>
  BY DEF Listed, bucketVars, sessionVars
<1>2. /\ o.branch \in Branch /\ o.new \in Snapshot /\ At(c) \in PushLabels
  BY <1>0, PushAt DEF PushLabels
<1>3. tip \in Tip
  BY <1>0, <1>2, ViewRefsType DEF Refs
<1>4. CASE tip = o.new /\ Acknowledge(c)
  BY <1>0, <1>1, <1>2, <1>4, WalAcknowledges
<1>5. CASE Return(c, "nonff") /\ UNCHANGED acked
  BY <1>0, <1>1, <1>5, WalReturns
<1>6. CASE /\ op' = [op EXCEPT ![c].old = tip, ![c].todo = Ancestors[o.new]]
           /\ CallRefresh(c, "probe")
           /\ UNCHANGED <<acked, corrupt>>
  <2>1. Ancestors[o.new] \in SUBSET Snapshot /\ Ancestors[o.new] # {}
    BY <1>2, WalAssumption
  <2>2. op' \in [Client -> Op]
    BY <1>0, <1>3, <1>6, <2>1 DEF Op
  <2>3. /\ op'[c].branch = o.branch /\ op'[c].new = o.new /\ op'[c].base = o.base
        /\ op'[c].todo = Ancestors[o.new] /\ \A d \in Client : d # c => op'[d] = op[d]
    BY <1>0, <1>6 DEF Op
  <2>4. "probe" \in RefreshReturns
    BY DEF RefreshReturns
  <2> QED BY <1>0, <1>1, <1>2, <1>6, <2>1, <2>2, <2>3, <2>4, WalRefreshes
<1> QED BY <1>4, <1>5, <1>6 DEF Listed

LEMMA ProbeKeeps ==
    ASSUME CompactionInv, NEW c \in Client, Probe(c), KeepCompactVars PROVE CompactionInv'
<1> DEFINE o == op[c]
           s == CHOOSE x \in op[c].todo : TRUE
           todo == op[c].todo \ {s}
           send == op[c].send \cup ({s} \ ViewObjects(c))
<1>0. /\ TypeOK /\ op \in [Client -> Op] /\ op[c] \in Op /\ pending \in [Client -> SUBSET Pack]
      /\ staged \in [Client -> SUBSET Snapshot] /\ lost \in 0..MaxLost /\ calls \in 0..MaxCalls
      /\ bodies \in SUBSET Pack /\ idxs \in SUBSET Pack
      /\ pc[c] = "probe" /\ Reaches(op[c].base, manifest)
  BY LocalFacts DEF Probe
<1>1. UNCHANGED <<manifest, log, ckpt, bodies, idxs, view, pending, staged, hist, acked, corrupt, lost, calls>>
  BY DEF Probe, bucketVars, sessionVars, historyVars
<1>2. o.branch \in Branch /\ o.new \in Snapshot /\ pc[c] \notin ReadLabels
  BY <1>0, PushAt DEF PushLabels, CommitLabels
<1>3. o.todo # {}
  BY <1>0, <1>2, LocalFacts DEF ClientOK, StepInv
<1>4. todo \in SUBSET Snapshot /\ send \in SUBSET Snapshot
  BY <1>0, <1>3 DEF Op
<1>5. op' = [op EXCEPT ![c].todo = todo, ![c].send = send]
  BY DEF Probe
<1>6. \/ todo # {} /\ CallRefresh(c, "probe")
      \/ todo = {} /\ send # {} /\ Goto(c, "upload") /\ UNCHANGED rd
      \/ todo = {} /\ send = {} /\ Goto(c, "updateRef") /\ UNCHANGED rd
  BY DEF Probe
<1> HIDE DEF todo, send
<1>7. op' \in [Client -> Op]
  BY <1>0, <1>4, <1>5 DEF Op
<1>8. /\ op'[c].branch = o.branch /\ op'[c].new = o.new /\ op'[c].base = o.base /\ op'[c].todo = todo
      /\ \A d \in Client : d # c => op'[d] = op[d]
  BY <1>0, <1>5 DEF Op
<1>9. CASE todo # {} /\ CallRefresh(c, "probe")
  BY <1>0, <1>1, <1>2, <1>7, <1>8, <1>9, WalRefreshes DEF RefreshReturns
<1>10. ASSUME NEW lbl \in {"upload", "updateRef"}, pc' = [pc EXCEPT ![c] = lbl], UNCHANGED rd
       PROVE  CompactionInv'
  <2>1. lbl \in CommitLabels /\ lbl # "probe" /\ lbl \notin SlotLabels
    BY DEF CommitLabels, SlotLabels
  <2> QED BY <1>0, <1>1, <1>2, <1>7, <1>8, <1>10, <2>1, WalGoes
<1> QED BY <1>6, <1>9, <1>10 DEF Goto

LEMMA UploadKeeps ==
    ASSUME CompactionInv, NEW c \in Client, Upload(c), KeepCompactVars PROVE CompactionInv'
<1>0. /\ TypeOK /\ op \in [Client -> Op] /\ op[c] \in Op /\ pending \in [Client -> SUBSET Pack]
      /\ staged \in [Client -> SUBSET Snapshot] /\ bodies \in SUBSET Pack /\ idxs \in SUBSET Pack
      /\ pc[c] = "upload" /\ Reaches(op[c].base, manifest)
  BY LocalFacts DEF Upload
<1>1. UNCHANGED <<manifest, log, ckpt, bodies, idxs, view, rd, pending, hist, acked, corrupt, lost, calls>>
  BY DEF Upload, bucketVars, historyVars
<1>2. op[c].branch \in Branch /\ op[c].new \in Snapshot /\ pc[c] \notin ReadLabels
  BY <1>0, PushAt DEF PushLabels, CommitLabels
<1>3. \A lbl \in {"putPack", "updateRef"} : lbl \in CommitLabels /\ lbl # "probe" /\ lbl \notin SlotLabels
  BY DEF CommitLabels, SlotLabels
<1>4. PICK via \in Uploads :
        \/ /\ via = "put_pack"
           /\ op' = [op EXCEPT ![c].via = via]
           /\ Goto(c, "putPack")
           /\ UNCHANGED staged
        \/ /\ via = "put_object"
           /\ op' = [op EXCEPT ![c].send = {}]
           /\ staged' = [staged EXCEPT ![c] = @ \cup op[c].send]
           /\ Goto(c, "updateRef")
  BY DEF Upload
<1>5. CASE op' = [op EXCEPT ![c].via = "put_pack"] /\ Goto(c, "putPack") /\ UNCHANGED staged
  <2>1. op' \in [Client -> Op]
    BY <1>0, <1>5 DEF Op
  <2>2. /\ op'[c].branch = op[c].branch /\ op'[c].new = op[c].new /\ op'[c].base = op[c].base
        /\ \A d \in Client : d # c => op'[d] = op[d]
    BY <1>0, <1>5 DEF Op
  <2> QED BY <1>0, <1>1, <1>2, <1>3, <1>5, <2>1, <2>2, WalGoes DEF Goto
<1>6. CASE /\ op' = [op EXCEPT ![c].send = {}] /\ Goto(c, "updateRef")
           /\ staged' = [staged EXCEPT ![c] = @ \cup op[c].send]
  <2>1. op' \in [Client -> Op] /\ staged' \in [Client -> SUBSET Snapshot]
    BY <1>0, <1>6 DEF Op
  <2>2. /\ op'[c].branch = op[c].branch /\ op'[c].new = op[c].new /\ op'[c].base = op[c].base
        /\ \A d \in Client : d # c => op'[d] = op[d]
    BY <1>0, <1>6 DEF Op
  <2> QED BY <1>0, <1>1, <1>2, <1>3, <1>6, <2>1, <2>2, WalGoes DEF Goto
<1> QED BY <1>4, <1>5, <1>6

LEMMA PutPackKeeps ==
    ASSUME CompactionInv, NEW c \in Client, PutPack(c), KeepCompactVars PROVE CompactionInv'
<1>0. /\ TypeOK /\ op \in [Client -> Op] /\ op[c] \in Op /\ pending \in [Client -> SUBSET Pack]
      /\ staged \in [Client -> SUBSET Snapshot] /\ bodies \in SUBSET Pack /\ idxs \in SUBSET Pack
      /\ pc[c] = "putPack" /\ Reaches(op[c].base, manifest)
  BY LocalFacts DEF PutPack
<1>1. /\ UNCHANGED <<manifest, log, ckpt, idxs, view, rd, op, pending, staged, hist, acked, corrupt, lost, calls>>
      /\ bodies' = bodies \cup {op[c].send} /\ pc' = [pc EXCEPT ![c] = "putIdx"]
  BY DEF PutPack, sessionVars, historyVars, Goto
<1>2. op[c].branch \in Branch /\ op[c].new \in Snapshot /\ pc[c] \notin ReadLabels
  BY <1>0, PushAt DEF PushLabels, CommitLabels
<1>3. bodies' \in SUBSET Pack
  BY <1>0, <1>1 DEF Op, Pack
<1>4. "putIdx" \in CommitLabels /\ "putIdx" \notin SlotLabels
  BY DEF CommitLabels, SlotLabels
<1> QED BY <1>0, <1>1, <1>2, <1>3, <1>4, WalGoes

LEMMA PutIdxKeeps ==
    ASSUME CompactionInv, NEW c \in Client, PutIdx(c), KeepCompactVars PROVE CompactionInv'
<1>0. /\ TypeOK /\ op \in [Client -> Op] /\ op[c] \in Op /\ pending \in [Client -> SUBSET Pack]
      /\ staged \in [Client -> SUBSET Snapshot] /\ bodies \in SUBSET Pack /\ idxs \in SUBSET Pack
      /\ pc[c] = "putIdx" /\ Reaches(op[c].base, manifest)
  BY LocalFacts DEF PutIdx
<1>1. /\ UNCHANGED <<manifest, log, ckpt, bodies, view, rd, staged, hist, acked, corrupt, lost, calls>>
      /\ idxs' = idxs \cup {op[c].send} /\ pc' = [pc EXCEPT ![c] = "updateRef"]
      /\ pending' = [pending EXCEPT ![c] = @ \cup {op[c].send}]
      /\ op' = [op EXCEPT ![c].send = {}]
  BY DEF PutIdx, historyVars, Goto
<1>2. op[c].branch \in Branch /\ op[c].new \in Snapshot /\ pc[c] \notin ReadLabels
  BY <1>0, PushAt DEF PushLabels, CommitLabels
<1>3. op[c].send \in Pack
  BY <1>0 DEF Op, Pack
<1>4. idxs' \in SUBSET Pack /\ pending' \in [Client -> SUBSET Pack]
  BY <1>0, <1>1, <1>3
<1>5. op' \in [Client -> Op]
  BY <1>0, <1>1 DEF Op
<1>6. /\ op'[c].branch = op[c].branch /\ op'[c].new = op[c].new /\ op'[c].base = op[c].base
      /\ \A d \in Client : d # c => op'[d] = op[d]
  BY <1>0, <1>1 DEF Op
<1>7. "updateRef" \in CommitLabels /\ "updateRef" \notin SlotLabels
  BY DEF CommitLabels, SlotLabels
<1> QED BY <1>0, <1>1, <1>2, <1>4, <1>5, <1>6, <1>7, WalGoes

LEMMA UpdateRefKeeps ==
    ASSUME CompactionInv, NEW c \in Client, UpdateRef(c), KeepCompactVars PROVE CompactionInv'
<1>0. /\ TypeOK /\ op \in [Client -> Op] /\ op[c] \in Op /\ pending \in [Client -> SUBSET Pack]
      /\ staged \in [Client -> SUBSET Snapshot] /\ bodies \in SUBSET Pack /\ idxs \in SUBSET Pack
      /\ lost \in 0..MaxLost /\ calls \in 0..MaxCalls
      /\ pc[c] = "updateRef" /\ Reaches(op[c].base, manifest)
  BY LocalFacts DEF UpdateRef
<1>1. UNCHANGED <<manifest, log, ckpt, bodies, idxs, view, hist, acked, corrupt, lost, calls>>
  BY DEF UpdateRef, bucketVars, historyVars
<1>2. op[c].branch \in Branch /\ op[c].new \in Snapshot /\ pc[c] \notin ReadLabels
  BY <1>0, PushAt DEF PushLabels, CommitLabels
<1>3. CASE /\ op' = [op EXCEPT ![c].via = "put_object", ![c].send = staged[c]]
           /\ staged' = [staged EXCEPT ![c] = {}]
           /\ Goto(c, "putPack")
           /\ UNCHANGED <<pending, rd>>
  <2>1. op' \in [Client -> Op] /\ staged' \in [Client -> SUBSET Snapshot]
    BY <1>0, <1>3 DEF Op
  <2>2. /\ op'[c].branch = op[c].branch /\ op'[c].new = op[c].new /\ op'[c].base = op[c].base
        /\ \A d \in Client : d # c => op'[d] = op[d]
    BY <1>0, <1>3 DEF Op
  <2>3. "putPack" \in CommitLabels /\ "putPack" \notin SlotLabels
    BY DEF CommitLabels, SlotLabels
  <2> QED BY <1>0, <1>1, <1>2, <1>3, <2>1, <2>2, <2>3, WalGoes DEF Goto
<1>4. CASE /\ op' = [op EXCEPT ![c].pend = pending[c]]
           /\ pending' = [pending EXCEPT ![c] = {}]
           /\ CallRefresh(c, "attempt")
           /\ UNCHANGED staged
  <2>1. op' \in [Client -> Op] /\ pending' \in [Client -> SUBSET Pack]
    BY <1>0, <1>4 DEF Op
  <2>2. /\ op'[c].branch = op[c].branch /\ op'[c].new = op[c].new /\ op'[c].base = op[c].base
        /\ \A d \in Client : d # c => op'[d] = op[d]
    BY <1>0, <1>4 DEF Op
  <2>3. "attempt" \in RefreshReturns
    BY DEF RefreshReturns
  <2> QED BY <1>0, <1>1, <1>2, <1>4, <2>1, <2>2, <2>3, WalRefreshes
<1> QED BY <1>3, <1>4 DEF UpdateRef

LEMMA AttemptKeeps ==
    ASSUME CompactionInv, NEW c \in Client, Attempt(c), KeepCompactVars PROVE CompactionInv'
<1>0. /\ TypeOK /\ op \in [Client -> Op] /\ op[c] \in Op /\ pending \in [Client -> SUBSET Pack]
      /\ staged \in [Client -> SUBSET Snapshot] /\ bodies \in SUBSET Pack /\ idxs \in SUBSET Pack
      /\ acked \in SUBSET (Branch \X Snapshot) /\ manifest \in Manifest \cup {None}
      /\ pc \in [Client -> Label]
      /\ pc[c] = "attempt" /\ Reaches(ViewTag(c), manifest)
  BY LocalFacts DEF Attempt
<1>1. UNCHANGED <<manifest, log, ckpt, bodies, idxs, view, pending, staged, hist, lost, calls>>
  BY DEF Attempt, bucketVars, sessionVars
<1>2. op[c].branch \in Branch /\ op[c].new \in Snapshot /\ pc[c] \notin ReadLabels /\ At(c) \in PushLabels
  BY <1>0, PushAt DEF PushLabels, CommitLabels
<1>3. CASE Acknowledge(c)
  BY <1>0, <1>1, <1>2, <1>3, WalAcknowledges
<1>4. CASE Return(c, "nonff") /\ UNCHANGED acked
  BY <1>0, <1>1, <1>4, WalReturns
<1>5. CASE /\ op' = [op EXCEPT ![c].base = ViewTag(c), ![c].seq = Head(ViewTag(c)) + 1]
           /\ pc' = [pc EXCEPT ![c] = "claim"]
           /\ UNCHANGED <<rd, acked, corrupt>>
  <2>1. ViewTag(c) \in Manifest \cup {None} /\ Head(ViewTag(c)) \in 0..MaxSeq
    BY <1>0, ViewTags, Reached
  <2>2. Head(ViewTag(c)) + 1 \in 0..(MaxSeq + 1) /\ Head(ViewTag(c)) < Head(ViewTag(c)) + 1
    BY <2>1, WalAssumption
  <2>3. PICK tag, seq : tag = ViewTag(c) /\ seq = Head(ViewTag(c)) + 1
    OBVIOUS
  <2>4. op' = [op EXCEPT ![c].base = tag, ![c].seq = seq]
    BY <1>5, <2>3
  <2>5. op' \in [Client -> Op]
    BY <1>0, <2>1, <2>2, <2>3, <2>4 DEF Op
  <2>6. /\ op'[c].branch = op[c].branch /\ op'[c].new = op[c].new /\ op'[c].base = tag /\ op'[c].seq = seq
        /\ \A d \in Client : d # c => op'[d] = op[d]
    BY <1>0, <2>4 DEF Op
  <2>7. SlotInv(c)'
    <3>1. (Head(op[c].base))' = Head(tag)
      BY <2>6 DEF Head
    <3>2. pc'[c] = "claim"
      BY <1>0, <1>5
    <3> QED BY <2>2, <2>3, <2>6, <3>1, <3>2 DEF SlotInv, MergeLabels, ClaimedLabels, FoldedLabels
  <2>8. "claim" \in CommitLabels
    BY DEF CommitLabels
  <2>9. Reaches(op'[c].base, manifest)
    BY <1>0, <2>3, <2>6
  <2> QED BY <1>0, <1>1, <1>2, <1>5, <2>5, <2>6, <2>7, <2>8, <2>9, WalGoes
<1> QED BY <1>3, <1>4, <1>5 DEF Attempt, Goto

\* ensure_packs_present, of a push or of a compaction.
LEMMA EnsurePresentKeeps ==
    ASSUME CompactionInv, NEW c \in Client, KeepCompactVars, NEW lbl,
           \/ pc[c] = "ensure" /\ lbl = "cas"
           \/ pc[c] = "mergeEnsure" /\ lbl = "mergeCas",
           EnsurePacksPresent(c, lbl)
    PROVE  CompactionInv'
<1>0. /\ TypeOK /\ CompactionTypeOK /\ op \in [Client -> Op] /\ staged \in [Client -> SUBSET Snapshot]
      /\ acked \in SUBSET (Branch \X Snapshot) /\ pc \in [Client -> Label]
      /\ Reaches(op[c].base, manifest) /\ ClientOK(c)
  BY LocalFacts
<1>1. UNCHANGED <<manifest, log, ckpt, bodies, idxs, view, pending, staged, hist, acked, lost, calls>>
  BY DEF EnsurePacksPresent, bucketVars, sessionVars
<1>2. CASE Return(c, "err")
  BY <1>0, <1>1, <1>2, WalReturns
<1>3. CASE pc' = [pc EXCEPT ![c] = lbl] /\ UNCHANGED <<rd, op, corrupt>>
  <2>1. /\ pc[c] \notin ReadLabels /\ lbl \notin ReadLabels /\ lbl \in Label /\ lbl \notin {"idle", "probe", "foldCas", "sweepBody"}
        /\ lbl \in PushLabels => pc[c] \in PushLabels
        /\ lbl \in CompactLabels => pc[c] \in CompactLabels
        /\ lbl \in MergeLabels => pc[c] \in MergeLabels
        /\ lbl \in MergeLabels \cap SlotLabels => pc[c] \in MergeLabels \cap SlotLabels
        /\ lbl \in FoldedLabels => pc[c] \in FoldedLabels
        /\ lbl \in ClaimedLabels /\ pc[c] \in SlotLabels /\ pc[c] \in ClaimedLabels
    BY DEF ReadLabels, WalkLabels, Label, CommitLabels, CompactLabels, PushLabels, LandedLabels, MergeLabels, SlotLabels,
           ClaimedLabels, FoldedLabels
  <2>2. /\ pc'[c] = lbl /\ \A d \in Client : d # c => pc'[d] = pc[d]
    BY <1>0, <1>3, <2>1
  <2>3. /\ cp' \in [Client -> Compacting] /\ aged' \in SUBSET Key /\ windows' \in 0..MaxWindows
        /\ \A d \in Client : d # c => cp'[d] = cp[d]
        /\ cp'[c] = cp[c]
    BY <2>1, <2>2, Kept
  <2>4. Evolves /\ BucketOK'
    BY <1>1, StillBucket
  <2>5. RestOK'
    BY <1>0, <1>1, <2>3 DEF CompactionTypeOK, TypeOK, RestOK
  <2>6. SlotInv(c)'
    <3>1. (Head(op[c].base))' = Head(op[c].base) /\ Entry(c)' = Entry(c) /\ Head(manifest)' = Head(manifest) /\ Folded' = Folded
      BY <1>1, <1>3 DEF Entry, Head, Folded, FoldOf
    <3> QED BY <1>0, <1>1, <1>3, <2>1, <2>2, <2>3, <3>1 DEF ClientOK, SlotInv
  <2>7. At(c) = pc[c] /\ (lbl \in MergeLabels => view[c] # None)
    BY <1>0, <2>1 DEF At, ClientOK, StepInv
  <2>8. (op[c].branch \in Branch /\ op[c].new \in Snapshot) \/ lbl \notin PushLabels
    BY <2>1, PushAt
  <2>9. lbl \in CompactLabels => op[c].branch = None
    BY <1>0, <2>1, <2>7 DEF ClientOK, StepInv
  <2> QED BY <1>0, <1>1, <1>3, <2>1, <2>3, <2>4, <2>5, <2>6, <2>7, <2>8, <2>9, GoKeeps
<1> QED BY <1>2, <1>3 DEF EnsurePacksPresent, Goto

LEMMA DoneKeeps ==
    ASSUME CompactionInv, NEW c \in Client, Done(c), KeepCompactVars PROVE CompactionInv'
<1>1. UNCHANGED <<manifest, log, ckpt, bodies, idxs, view, pending, staged, hist, lost, calls>>
  BY DEF Done, bucketVars, sessionVars
<1>2. At(c) \in PushLabels /\ staged \in [Client -> SUBSET Snapshot]
  BY PushAt, LocalFacts DEF Done, PushLabels, LandedLabels
<1> QED BY <1>1, <1>2, WalAcknowledges DEF Done

LEMMA FetchRefsKeeps ==
    ASSUME CompactionInv, NEW c \in Client, FetchRefs(c), KeepCompactVars PROVE CompactionInv'
<1> DEFINE all == UNION {Ancestors[s] : s \in {ViewRefs(c)[b] : b \in Branch} \ {None}}
<1>0. /\ TypeOK /\ op \in [Client -> Op] /\ op[c] \in Op /\ pending \in [Client -> SUBSET Pack]
      /\ staged \in [Client -> SUBSET Snapshot] /\ lost \in 0..MaxLost /\ calls \in 0..MaxCalls
      /\ Reaches(op[c].base, manifest)
  BY LocalFacts
<1>1. /\ UNCHANGED <<manifest, log, ckpt, bodies, idxs, view, pending, staged, hist, acked, corrupt, lost, calls>>
      /\ op' = [op EXCEPT ![c].todo = all, ![c].n = MaxRestarts]
      /\ CallRefresh(c, "read")
  BY DEF FetchRefs, bucketVars, sessionVars, historyVars
<1>2. all \in SUBSET Snapshot
  <2>1. {ViewRefs(c)[b] : b \in Branch} \ {None} \subseteq Snapshot
    BY <1>0, ViewRefsType DEF Refs, Tip
  <2> QED BY <2>1, WalAssumption
<1> HIDE DEF all
<1>3. op' \in [Client -> Op]
  BY <1>0, <1>1, <1>2, WalAssumption DEF Op
<1>4. op'[c].base = op[c].base /\ \A d \in Client : d # c => op'[d] = op[d]
  BY <1>0, <1>1 DEF Op
<1>5. "read" \in RefreshReturns /\ "read" \notin PushLabels /\ "read" # "probe"
  BY DEF RefreshReturns, PushLabels, CommitLabels, LandedLabels
<1> QED BY <1>0, <1>1, <1>3, <1>4, <1>5, WalRefreshes

\* object_bytes keeps the invariant.
LEMMA ReadObjectKeeps ==
    ASSUME CompactionInv, NEW c \in Client, ReadObject(c), KeepCompactVars PROVE CompactionInv'
<1>0. /\ TypeOK /\ op \in [Client -> Op] /\ op[c] \in Op /\ pending \in [Client -> SUBSET Pack]
      /\ staged \in [Client -> SUBSET Snapshot] /\ lost \in 0..MaxLost /\ calls \in 0..MaxCalls
      /\ bodies \in SUBSET Pack /\ idxs \in SUBSET Pack /\ acked \in SUBSET (Branch \X Snapshot)
      /\ Reaches(op[c].base, manifest) /\ Reaches(ViewTag(c), manifest) /\ pc \in [Client -> Label]
  BY LocalFacts
<1>1. UNCHANGED <<manifest, log, ckpt, bodies, idxs, view, pending, staged, hist, acked, lost, calls>>
  BY DEF ReadObject, bucketVars, sessionVars
<1>2. ASSUME NEW res, Return(c, res) PROVE CompactionInv'
  BY <1>0, <1>1, <1>2, WalReturns
<1>3. /\ pc[c] \in {"read", "reread"} /\ pc[c] \notin ReadLabels
      /\ "read" \in FetchLabels /\ "read" \notin CommitLabels \cup SlotLabels
      /\ "reread" \in RefreshReturns /\ "reread" \notin PushLabels
  BY DEF ReadObject, ReadLabels, WalkLabels, FetchLabels, CommitLabels, SlotLabels, RefreshReturns, PushLabels,
         LandedLabels
<1>4. CASE pc[c] = "read" /\ LookUp(c)
  <2>1. CASE \E res : Return(c, res)
    BY <1>2, <2>1
  <2>2. ASSUME NEW s \in op[c].todo, op' = [op EXCEPT ![c].todo = @ \ {s}, ![c].n = MaxRestarts],
               UNCHANGED <<pc, rd, corrupt>>
        PROVE  CompactionInv'
    <3>1. op[c].todo \ {s} \in SUBSET Snapshot
      BY <1>0 DEF Op
    <3>2. op' \in [Client -> Op]
      BY <1>0, <2>2, <3>1, WalAssumption DEF Op
    <3>3. op'[c].base = op[c].base /\ \A d \in Client : d # c => op'[d] = op[d]
      BY <1>0, <2>2 DEF Op
    <3>4. pc' = [pc EXCEPT ![c] = "read"]
      BY <1>0, <1>4, <2>2
    <3> QED BY <1>0, <1>1, <1>3, <2>2, <3>2, <3>3, <3>4, WalGoes
  <2>3. CASE /\ op[c].n > 0 /\ op' = [op EXCEPT ![c].n = @ - 1, ![c].base = ViewTag(c)]
             /\ CallRefresh(c, "reread")
             /\ UNCHANGED corrupt
    <3>1. PICK tag, n : tag = ViewTag(c) /\ n = op[c].n - 1
      OBVIOUS
    <3>2. tag \in Manifest \cup {None} /\ n \in Nat
      BY <1>0, <2>3, <3>1, ViewTags DEF Op
    <3>3. op' = [op EXCEPT ![c].n = n, ![c].base = tag]
      BY <2>3, <3>1
    <3>4. op' \in [Client -> Op]
      BY <1>0, <3>2, <3>3 DEF Op
    <3>5. op'[c].base = tag /\ \A d \in Client : d # c => op'[d] = op[d]
      BY <1>0, <3>3 DEF Op
    <3> QED BY <1>0, <1>1, <1>3, <2>3, <3>1, <3>4, <3>5, WalRefreshes
  <2>4. \/ \E res : Return(c, res)
        \/ \E s \in op[c].todo :
             /\ op' = [op EXCEPT ![c].todo = @ \ {s}, ![c].n = MaxRestarts]
             /\ UNCHANGED <<pc, rd, corrupt>>
        \/ /\ op[c].n > 0 /\ op' = [op EXCEPT ![c].n = @ - 1, ![c].base = ViewTag(c)]
           /\ CallRefresh(c, "reread")
           /\ UNCHANGED corrupt
    BY <1>4, ZenonT(30) DEF LookUp
  <2> QED BY <2>1, <2>2, <2>3, <2>4
<1>5. CASE pc[c] = "reread" /\ Restart(c)
  <2>1. CASE Return(c, "corrupt")
    BY <1>2, <2>1
  <2>2. CASE /\ op' = [op EXCEPT ![c].base = None]
             /\ pc' = [pc EXCEPT ![c] = "read"]
             /\ UNCHANGED <<rd, corrupt>>
    <3>1. op' \in [Client -> Op]
      BY <1>0, <2>2 DEF Op
    <3>2. op'[c].base = None /\ \A d \in Client : d # c => op'[d] = op[d]
      BY <1>0, <2>2 DEF Op
    <3>3. Reaches(op'[c].base, manifest)
      BY <3>2, NoTag
    <3>4. "read" # "probe" /\ rd' = rd /\ corrupt' = corrupt
      BY <2>2
    <3> QED BY <1>0, <1>1, <1>3, <2>2, <3>1, <3>2, <3>3, <3>4, WalGoes
  <2> QED BY <1>5, <2>1, <2>2 DEF Restart, Goto
<1> QED BY <1>4, <1>5 DEF ReadObject

LEMMA FailKeeps ==
    ASSUME CompactionInv, NEW c \in Client, Fail(c), KeepCompactVars PROVE CompactionInv'
<1>1. UNCHANGED <<manifest, log, ckpt, bodies, idxs, view, pending, hist, lost, calls>>
  BY DEF Fail, bucketVars
<1>2. staged' \in [Client -> SUBSET Snapshot]
  <2>1. staged \in [Client -> SUBSET Snapshot] /\ op[c].send \in SUBSET Snapshot
    BY LocalFacts DEF Op
  <2>2. staged' = staged \/ staged' = [staged EXCEPT ![c] = op[c].send]
    BY DEF Fail
  <2> QED BY <2>1, <2>2
<1> QED BY <1>1, <1>2, WalThrows DEF Fail

\* A new transport has read nothing.
LEMMA ReopenKeeps ==
    ASSUME CompactionInv, NEW c \in Client, Reopen(c), KeepCompactVars PROVE CompactionInv'
<1>0. /\ TypeOK /\ CompactionTypeOK /\ pending \in [Client -> SUBSET Pack] /\ ClientOK(c)
      /\ staged \in [Client -> SUBSET Snapshot] /\ view \in [Client -> View \cup {None}]
      /\ pc \in [Client -> Label] /\ Reaches(op[c].base, manifest)
  BY LocalFacts DEF TypeOK
<1>1. /\ UNCHANGED <<manifest, log, ckpt, bodies, idxs, pc, rd, op, hist, acked, corrupt, lost, calls>>
      /\ pc[c] = "idle" /\ view' = [view EXCEPT ![c] = None]
      /\ pending' = [pending EXCEPT ![c] = {}] /\ staged' = [staged EXCEPT ![c] = {}]
  BY DEF Reopen, bucketVars, historyVars
<1>2. Evolves /\ BucketOK'
  BY <1>1, StillBucket
<1>3. /\ cp' \in [Client -> Compacting] /\ aged' \in SUBSET Key /\ windows' \in 0..MaxWindows
      /\ \A d \in Client : d # c => cp'[d] = cp[d]
      /\ cp'[c] = NoCompacting
      /\ cp'[c].logs \subseteq cp[c].logs /\ cp'[c].ckpts \subseteq cp[c].ckpts
  BY <1>0, <1>1, Kept
<1>4. CompactionTypeOK'
  BY <1>0, <1>1, <1>3 DEF CompactionTypeOK, TypeOK
<1>5. Elsewhere(c)
  BY <1>0, <1>1, <1>3 DEF Elsewhere
<1>6. view'[c] = None
  BY <1>0, <1>1
<1>7. TrueView(c)' /\ Reaches(ViewTag(c), manifest)'
  BY <1>6 DEF TrueView, ViewTag, Reaches
<1>8. "idle" \notin ReadLabels \cup WalkLabels \cup SlotLabels
  BY DEF ReadLabels, WalkLabels, SlotLabels
<1>9. StepInv(c)'
  BY <1>0, <1>1, <1>3, <1>8, StepOfReturn DEF ClientOK, StepInv
<1>10. ClientOK(c)'
  <2>1. manifest' \in Manifest \cup {None}
    BY <1>4 DEF CompactionTypeOK, TypeOK
  <2> QED BY <1>0, <1>1, <1>2, <1>3, <1>7, <1>8, <1>9, <2>1, PlainView
<1> QED BY <1>2, <1>4, <1>5, <1>10, Assembled

\* A new log entry is after the manifest's, or in a slot that a sweep has
\* emptied or a lost race has left.
LEMMA LogGrows ==
    ASSUME CompactionInv, NEW c \in Client, NEW q \in Slot, log[q] = None, log' = [log EXCEPT ![q] = Entry(c)],
           UNCHANGED <<manifest, ckpt, hist>>
    PROVE  /\ Evolves /\ BucketOK' /\ log'[q] = Entry(c)
           /\ log' \in [Slot -> LogEntry \cup {None}]
<1>0. /\ TypeOK /\ BucketOK /\ manifest \in Manifest \cup {None} /\ log \in [Slot -> LogEntry \cup {None}]
      /\ Entry(c) \in LogEntry
  BY LocalFacts, EntryIsNotNone DEF TypeOK
<1>1. \A s \in Slot : s # q => log'[s] = log[s]
  BY <1>0
<1>2. \A s \in Slot : log[s] # None => log'[s] = log[s]
  BY <1>1
<1>3. Folded' = Folded /\ Head(manifest)' = Head(manifest) /\ Head(manifest') = Head(manifest)
        /\ FoldOf(manifest') = FoldOf(manifest)
  BY DEF Folded, FoldOf, Head
<1>4. FoldOf(manifest) <= Head(manifest)
  BY <1>0, Reached DEF BucketOK, StatesInv, FoldOf, Head
<1>5. Evolves
  BY <1>0, <1>2, <1>3, <1>4, Reached DEF Evolves
<1>6. StatesInv'
  BY <1>0, <1>3 DEF BucketOK, StatesInv
<1>7. TailInv'
  <2> SUFFICES ASSUME NEW s \in Slot, Folded < s, hist[s] # None
               PROVE  /\ log'[s] # None /\ log'[s].branch \in Branch /\ log'[s].new \in Snapshot
                      /\ hist[log'[s].parent] # None
                      /\ hist[s] = Extend(hist[log'[s].parent], log'[s])
    BY <1>3 DEF TailInv
  <2>1. log[s] # None
    BY <1>0 DEF BucketOK, TailInv
  <2>2. log'[s] = log[s]
    BY <1>2, <2>1
  <2> QED BY <1>0, <2>2 DEF BucketOK, TailInv
<1>8. CheckpointsInv'
  BY <1>0, <1>2, <1>3 DEF BucketOK, CheckpointsInv
<1> QED BY <1>0, <1>5, <1>6, <1>7, <1>8 DEF BucketOK

\* put_new of a log entry, of a push or of a compaction.
LEMMA ClaimSlotKeeps ==
    ASSUME CompactionInv, NEW c \in Client, KeepCompactVars, NEW lbl,
           \/ pc[c] = "claim" /\ lbl = "ensure"
           \/ pc[c] = "mergeClaim" /\ lbl = "putCheckpoint",
           ClaimSlot(c, lbl)
    PROVE  CompactionInv'
<1> DEFINE q == op[c].seq
<1>0. /\ TypeOK /\ CompactionTypeOK /\ op \in [Client -> Op] /\ op[c] \in Op /\ staged \in [Client -> SUBSET Snapshot]
      /\ acked \in SUBSET (Branch \X Snapshot) /\ pc \in [Client -> Label] /\ lost \in 0..MaxLost
      /\ Reaches(op[c].base, manifest) /\ ClientOK(c) /\ q \in 0..(MaxSeq + 1)
  BY LocalFacts DEF Op
<1>1. UNCHANGED <<manifest, ckpt, bodies, idxs, view, pending, staged, hist, acked, calls>>
  BY DEF ClaimSlot, sessionVars
<1>2. /\ pc[c] \notin ReadLabels /\ pc[c] \in SlotLabels /\ pc[c] \in Label
      /\ pc[c] \notin ClaimedLabels \cup FoldedLabels \cup {"idle", "probe", "foldCas", "sweepBody"}
      /\ pc[c] \in PushLabels => op[c].branch \in Branch /\ op[c].new \in Snapshot
      /\ pc[c] \in CompactLabels => op[c].branch = None
      /\ pc[c] \in MergeLabels => view[c] # None
      /\ pc[c] \in MergeLabels => op[c].base = view[c].m
  <2>1. /\ pc[c] \notin ReadLabels /\ pc[c] \in SlotLabels
        /\ pc[c] \notin ClaimedLabels \cup FoldedLabels \cup {"idle", "probe", "foldCas", "sweepBody"}
    BY DEF ReadLabels, WalkLabels, SlotLabels, ClaimedLabels, FoldedLabels
  <2>2. At(c) = pc[c]
    BY <2>1 DEF At
  <2> QED BY <1>0, <2>1, <2>2 DEF ClientOK, StepInv, SlotInv
<1>3. /\ Head(op[c].base) \in 0..MaxSeq /\ Head(op[c].base) < q
      /\ q <= MaxSeq => q \in Slot /\ q + 1 \in 0..(MaxSeq + 1) /\ Head(op[c].base) < q + 1
  <2>1. Head(op[c].base) \in 0..MaxSeq /\ Head(op[c].base) < q
    BY <1>0, <1>2, Ranges DEF ClientOK, SlotInv
  <2> QED BY <1>0, <2>1, WalAssumption DEF Slot
<1>4. CASE Return(c, "err") /\ UNCHANGED <<log, lost>>
  BY <1>0, <1>1, <1>4, WalReturns
<1>5. ASSUME q <= MaxSeq, op' = [op EXCEPT ![c].seq = q + 1], UNCHANGED <<pc, rd, corrupt>>,
             Evolves, BucketOK', log' \in [Slot -> LogEntry \cup {None}], lost' \in 0..MaxLost
      PROVE  CompactionInv'
  <2>1. op' \in [Client -> Op]
    BY <1>0, <1>3, <1>5 DEF Op
  <2>2. /\ op'[c].branch = op[c].branch /\ op'[c].new = op[c].new /\ op'[c].base = op[c].base /\ op'[c].seq = q + 1
        /\ \A d \in Client : d # c => op'[d] = op[d]
    BY <1>0, <1>5 DEF Op
  <2>3. /\ cp' \in [Client -> Compacting] /\ aged' \in SUBSET Key /\ windows' \in 0..MaxWindows
        /\ \A d \in Client : d # c => cp'[d] = cp[d]
        /\ cp'[c] = cp[c]
    BY <1>2, <1>5, Kept
  <2>4. RestOK'
    BY <1>0, <1>1, <1>5, <2>3 DEF CompactionTypeOK, TypeOK, RestOK
  <2>5. SlotInv(c)'
    <3>1. (Head(op[c].base))' = Head(op[c].base)
      BY <2>2 DEF Head
    <3> QED BY <1>1, <1>2, <1>3, <1>5, <2>2, <3>1 DEF SlotInv
  <2>6. pc' = [pc EXCEPT ![c] = pc[c]]
    BY <1>0, <1>5
  <2>7. Reaches(op'[c].base, manifest')
    BY <1>0, <1>1, <2>2
  <2>8. PICK here \in Label : here = pc[c]
    BY <1>2
  <2>9. /\ here \notin ReadLabels /\ here \notin {"idle", "probe"} /\ here # "sweepBody" /\ pc[c] \notin ReadLabels
        /\ pc' = [pc EXCEPT ![c] = here]
        /\ here \in PushLabels => op'[c].branch \in Branch /\ op'[c].new \in Snapshot
        /\ here \in CompactLabels => op'[c].branch = None
        /\ here \in MergeLabels \cup {"foldCas"} => view[c] # None
    BY <1>2, <2>2, <2>6, <2>8
  <2>10. rd' = rd /\ view' = view /\ corrupt' = corrupt
    BY <1>1, <1>5
  <2> QED BY <1>5, <2>1, <2>2, <2>3, <2>4, <2>5, <2>7, <2>9, <2>10, GoKeeps
<1>6. CASE /\ q <= MaxSeq /\ log[q] = None
           /\ log' = [log EXCEPT ![q] = Entry(c)]
           /\ pc' = [pc EXCEPT ![c] = lbl] /\ UNCHANGED <<op, lost, rd, corrupt>>
  <2>1. Evolves /\ BucketOK' /\ log'[q] = Entry(c) /\ log' \in [Slot -> LogEntry \cup {None}]
    BY <1>1, <1>3, <1>6, LogGrows
  <2>2. /\ lbl \notin ReadLabels /\ lbl \in Label /\ lbl \notin {"idle", "probe", "foldCas", "sweepBody"}
        /\ lbl \in PushLabels => pc[c] \in PushLabels
        /\ lbl \in CompactLabels => pc[c] \in CompactLabels
        /\ lbl \in MergeLabels => pc[c] \in MergeLabels
        /\ lbl \notin FoldedLabels
    BY DEF ReadLabels, WalkLabels, Label, CommitLabels, CompactLabels, PushLabels, LandedLabels, MergeLabels,
           FoldedLabels
  <2>3. pc'[c] = lbl /\ \A d \in Client : d # c => pc'[d] = pc[d]
    BY <1>0, <1>6, <2>2
  <2>4. /\ cp' \in [Client -> Compacting] /\ aged' \in SUBSET Key /\ windows' \in 0..MaxWindows
        /\ \A d \in Client : d # c => cp'[d] = cp[d]
        /\ cp'[c] = cp[c]
    BY <2>2, <2>3, Kept
  <2>5. RestOK'
    BY <1>0, <1>1, <1>6, <2>1, <2>4 DEF CompactionTypeOK, TypeOK, RestOK
  <2>6. SlotInv(c)'
    <3>1. (Head(op[c].base))' = Head(op[c].base) /\ Entry(c)' = Entry(c)
      BY <1>6 DEF Entry, Head
    <3>2. q \in Slot
      BY <1>3, <1>6
    <3> QED BY <1>1, <1>2, <1>3, <1>6, <2>1, <2>2, <2>3, <3>1, <3>2 DEF SlotInv
  <2> QED BY <1>0, <1>1, <1>2, <1>6, <2>1, <2>2, <2>4, <2>5, <2>6, GoKeeps
<1>7. CASE /\ q <= MaxSeq /\ log[q] = None
           /\ log' = [log EXCEPT ![q] = Entry(c)]
           /\ lost < MaxLost /\ lost' = lost + 1
           /\ op' = [op EXCEPT ![c].seq = @ + 1] /\ UNCHANGED <<pc, rd, corrupt>>
  <2>1. Evolves /\ BucketOK' /\ log' \in [Slot -> LogEntry \cup {None}]
    BY <1>1, <1>3, <1>7, LogGrows
  <2>2. lost' \in 0..MaxLost
    BY <1>0, <1>7, WalAssumption
  <2> QED BY <1>5, <1>7, <2>1, <2>2
<1>8. CASE /\ q <= MaxSeq /\ op' = [op EXCEPT ![c].seq = NextSlot(@)]
           /\ UNCHANGED <<log, pc, rd, corrupt, lost>>
  <2>1. Evolves /\ BucketOK'
    BY <1>1, <1>8, StillBucket
  <2>2. log' \in [Slot -> LogEntry \cup {None}] /\ op' = [op EXCEPT ![c].seq = q + 1]
    BY <1>0, <1>8 DEF TypeOK, NextSlot
  <2> QED BY <1>0, <1>5, <1>8, <2>1, <2>2
<1> QED
  <2>1. \/ Return(c, "err") /\ UNCHANGED <<log, lost>>
        \/ /\ q <= MaxSeq /\ log[q] = None
           /\ log' = [log EXCEPT ![q] = Entry(c)]
           /\ pc' = [pc EXCEPT ![c] = lbl] /\ UNCHANGED <<op, lost, rd, corrupt>>
        \/ /\ q <= MaxSeq /\ log[q] = None
           /\ log' = [log EXCEPT ![q] = Entry(c)]
           /\ lost < MaxLost /\ lost' = lost + 1
           /\ op' = [op EXCEPT ![c].seq = @ + 1] /\ UNCHANGED <<pc, rd, corrupt>>
        \/ /\ q <= MaxSeq /\ op' = [op EXCEPT ![c].seq = NextSlot(@)]
           /\ UNCHANGED <<log, pc, rd, corrupt, lost>>
    BY ZenonT(30) DEF ClaimSlot, Goto
  <2> QED BY <1>4, <1>6, <1>7, <1>8, <2>1

\* The commit of a push: what the chain says grows by its entry.
LEMMA PushCommits ==
    ASSUME CompactionInv, NEW c \in Client, pc[c] = "cas", manifest = op[c].base, manifest' = NewManifest(c),
           hist' = [hist EXCEPT ![op[c].seq] = Extend(hist[Entry(c).parent], Entry(c))],
           UNCHANGED <<log, ckpt>>
    PROVE  Evolves /\ BucketOK' /\ manifest' \in Manifest /\ hist' \in [0..MaxSeq -> Checkpoint \cup {None}]
<1>0. /\ TypeOK /\ manifest \in Manifest \cup {None} /\ hist \in [0..MaxSeq -> Checkpoint \cup {None}] /\ op[c] \in Op
      /\ StatesInv /\ TailInv /\ CheckpointsInv /\ ClientOK(c)
      /\ Entry(c) \in LogEntry /\ Entry(c) # None
  BY LocalFacts, EntryIsNotNone DEF TypeOK, BucketOK
<1>1. op[c].branch \in Branch /\ op[c].new \in Snapshot
  BY PushAt DEF PushLabels, CommitLabels
<1>2. PICK q, old, e, m : q = op[c].seq /\ old = Head(manifest) /\ e = Entry(c) /\ m = NewManifest(c)
  OBVIOUS
<1>3. /\ e.parent = old /\ e.branch \in Branch /\ e.new \in Snapshot /\ e \in LogEntry /\ e.packs \in SUBSET Pack
      /\ e.new \in Tip
  <2>1. e.parent = old /\ e.branch \in Branch /\ e.new \in Snapshot /\ e \in LogEntry
    BY <1>0, <1>1, <1>2 DEF Entry
  <2> QED BY <2>1 DEF LogEntry
<1>4. Folded \in 0..MaxSeq /\ Folded <= old /\ Folded = FoldOf(manifest) /\ old \in 0..MaxSeq
  <2>1. Folded \in 0..MaxSeq /\ Folded = FoldOf(manifest) /\ old \in 0..MaxSeq
    BY <1>0, <1>2, Reached DEF Folded
  <2> QED BY <1>0, <1>2, <2>1 DEF StatesInv, Folded, FoldOf, Head
<1>5. q \in Slot /\ old < q /\ log[q] = e
  <2>1. q \in Slot /\ old < q /\ (Folded < q => log[q] = e)
    BY <1>0, <1>2 DEF ClientOK, SlotInv, SlotLabels, ClaimedLabels
  <2> QED BY <1>4, <2>1 DEF Slot
<1>6. m.head = q /\ m.ck = Folded /\ m \in Manifest /\ m # None
  <2>1. m.head = q /\ m.ck = Folded
    BY <1>2 DEF NewManifest, Folded, FoldOf
  <2>2. m.branch \in Branch
    BY <1>0, <1>1, <1>2 DEF NewManifest, Manifest
  <2>3. m = [head |-> m.head, ck |-> m.ck, branch |-> m.branch]
    BY <1>2 DEF NewManifest
  <2>4. m \in Manifest
    BY <1>4, <1>5, <2>1, <2>2, <2>3 DEF Manifest
  <2> QED BY <2>1, <2>4, NoneAssumption
<1>7. Head(manifest)' = q /\ Head(manifest') = q /\ Folded' = Folded /\ FoldOf(manifest') = Folded
  BY <1>2, <1>6 DEF Head, Folded, FoldOf
<1>8. hist[old] # None /\ hist[old] \in Checkpoint
  <2>1. hist[old] # None
    <3>1. CASE manifest = None
      BY <1>0, <1>2, <3>1, NoValues, NoneAssumption DEF StatesInv, Head, Checkpoint
    <3>2. CASE manifest # None
      BY <1>0, <1>2, <3>2 DEF StatesInv, Head
    <3> QED BY <3>1, <3>2
  <2> QED BY <1>0, <1>4, <1>5, <2>1
<1>9. PICK h : h = Extend(hist[old], e)
  OBVIOUS
<1>10. h \in Checkpoint /\ h # None
  <2>1. hist[old].refs \in Refs /\ hist[old].packs \in SUBSET Pack
    BY <1>8 DEF Checkpoint
  <2>2. h \in Checkpoint
    BY <1>3, <1>9, <2>1 DEF Extend, Checkpoint, Refs
  <2> QED BY <2>2, NoneAssumption
<1>11. /\ hist' = [hist EXCEPT ![q] = h] /\ hist' \in [0..MaxSeq -> Checkpoint \cup {None}]
       /\ hist'[q] = h /\ q \in 0..MaxSeq
       /\ \A s \in 0..MaxSeq : s # q => hist'[s] = hist[s]
  BY <1>0, <1>2, <1>3, <1>4, <1>5, <1>9, <1>10, Ranges
<1>12. hist[q] = None /\ q # 0
  BY <1>0, <1>2, <1>4, <1>5, Ranges DEF StatesInv, Slot
<1>13. Evolves
  <2>1. Reaches(manifest, manifest')
    <3>1. CASE manifest = None
      BY <3>1 DEF Reaches
    <3>2. CASE manifest # None
      <4>1. manifest.head = old /\ manifest.ck = Folded
        BY <1>2, <3>2 DEF Head, Folded, FoldOf
      <4> QED BY <1>2, <1>4, <1>5, <1>6, <4>1 DEF Reaches, Slot
    <3> QED BY <3>1, <3>2
  <2>2. \A s \in 0..MaxSeq : hist[s] # None => hist'[s] = hist[s]
    BY <1>11, <1>12
  <2>3. FoldOf(manifest') <= Head(manifest')
    BY <1>4, <1>5, <1>7 DEF Slot
  <2> QED BY <2>1, <2>2, <2>3 DEF Evolves
<1>14. StatesInv'
  <2>1. hist'[0] = [refs |-> NoRefs, packs |-> {}]
    BY <1>0, <1>4, <1>5, <1>11, <1>12, Ranges DEF StatesInv
  <2>2. ASSUME NEW s \in Slot, hist'[s] # None PROVE s <= q
    <3>1. CASE s = q
      BY <1>4, <1>5, <3>1 DEF Slot
    <3>2. CASE s # q
      <4>1. hist[s] # None
        BY <1>0, <1>11, <2>2, <3>2, Ranges
      <4>2. s <= old
        BY <1>0, <1>2, <4>1 DEF StatesInv
      <4> QED BY <1>4, <1>5, <4>2 DEF Slot
    <3> QED BY <3>1, <3>2
  <2>3. manifest'.ck <= manifest'.head /\ hist'[manifest'.head] # None
    BY <1>2, <1>4, <1>5, <1>6, <1>10, <1>11 DEF Slot
  <2>4. hist'[Folded] # None /\ (Folded # 0 => ckpt[Folded] # None)
    <3>1. hist[Folded] # None
      BY <1>0, NoValues, NoneAssumption DEF StatesInv, Folded, FoldOf, Checkpoint
    <3>2. hist'[Folded] = hist[Folded]
      BY <1>4, <1>5, <1>11, <1>12, <3>1
    <3> QED BY <1>0, <3>1, <3>2 DEF StatesInv, Folded, FoldOf
  <2> QED BY <1>2, <1>6, <1>7, <2>1, <2>2, <2>3, <2>4 DEF StatesInv
<1>15. TailInv'
  <2> SUFFICES ASSUME NEW s \in Slot, Folded < s, hist'[s] # None
               PROVE  /\ log[s] # None /\ log[s].branch \in Branch /\ log[s].new \in Snapshot
                      /\ hist'[log[s].parent] # None
                      /\ hist'[s] = Extend(hist'[log[s].parent], log[s])
    BY <1>7 DEF TailInv
  <2>1. CASE s = q
    <3>1. hist'[old] = hist[old]
      BY <1>4, <1>5, <1>8, <1>11, <1>12
    <3> QED BY <1>0, <1>2, <1>3, <1>4, <1>5, <1>8, <1>9, <1>11, <2>1, <3>1
  <2>2. CASE s # q
    <3>1. hist'[s] = hist[s]
      BY <1>0, <1>11, <2>2, Ranges
    <3>2. /\ log[s] # None /\ log[s].branch \in Branch /\ log[s].new \in Snapshot
          /\ hist[log[s].parent] # None
          /\ hist[s] = Extend(hist[log[s].parent], log[s])
      BY <1>0, <3>1 DEF TailInv
    <3>3. log[s].parent \in 0..MaxSeq
      BY <1>0, <3>2 DEF TypeOK, LogEntry
    <3>4. hist'[log[s].parent] = hist[log[s].parent]
      BY <1>11, <1>12, <3>2, <3>3
    <3> QED BY <3>1, <3>2, <3>4
  <2> QED BY <2>1, <2>2
<1>16. CheckpointsInv'
  <2> SUFFICES ASSUME NEW s \in Slot, ckpt[s] # None
               PROVE  /\ Folded <= s /\ hist'[s] # None => ckpt[s] = hist'[s]
                      /\ q < s => log[s] # None /\ log[s].branch = None
    BY <1>7 DEF CheckpointsInv
  <2>1. s # q
    <3>1. s = q => log[q].branch = None
      BY <1>0, <1>2, <1>4, <1>5 DEF CheckpointsInv
    <3> QED BY <1>3, <1>4, <1>5, <3>1, NoneAssumption
  <2>2. hist'[s] = hist[s]
    BY <1>0, <1>11, <2>1, Ranges
  <2>3. q < s => Head(manifest) < s
    BY <1>2, <1>4, <1>5 DEF Slot
  <2> QED BY <1>0, <2>2, <2>3 DEF CheckpointsInv
<1> QED BY <1>2, <1>6, <1>11, <1>13, <1>14, <1>15, <1>16 DEF BucketOK

\* The next attempt of a push, or none.
LEMMA RetryKeeps ==
    ASSUME CompactionInv, NEW c \in Client, pc[c] = "cas", Retry(c), KeepCompactVars, Evolves, BucketOK',
           manifest' \in Manifest \cup {None}, hist' \in [0..MaxSeq -> Checkpoint \cup {None}], lost' \in 0..MaxLost,
           UNCHANGED <<log, ckpt, bodies, idxs, view, pending, staged, acked, calls>>
    PROVE  CompactionInv'
<1>0. CompactionTypeOK /\ op \in [Client -> Op] /\ op[c] \in Op /\ pc \in [Client -> Label]
  BY LocalFacts
<1>1. op[c].branch \in Branch /\ op[c].new \in Snapshot
  BY PushAt DEF PushLabels, CommitLabels
<1>2. \A d \in Client : d # c => pc'[d] = pc[d]
  BY <1>0 DEF Retry, CallRefresh, Return, Goto
<1>3. /\ cp' \in [Client -> Compacting] /\ aged' \in SUBSET Key /\ windows' \in 0..MaxWindows
      /\ \A d \in Client : d # c => cp'[d] = cp[d]
      /\ cp'[c] = IF pc'[c] = "idle" THEN NoCompacting ELSE cp[c]
      /\ cp'[c].logs \subseteq cp[c].logs /\ cp'[c].ckpts \subseteq cp[c].ckpts
  BY <1>2, Kept
<1>4. RestOK'
  BY <1>0, <1>3 DEF CompactionTypeOK, TypeOK, RestOK
<1>5. CASE /\ op' = [op EXCEPT ![c].n = @ + 1, ![c].base = None, ![c].seq = 0]
           /\ CallRefresh(c, "attempt") /\ UNCHANGED corrupt
  <2>1. op[c].n + 1 \in Nat /\ 0 \in 0..(MaxSeq + 1)
    BY <1>0, WalAssumption DEF Op
  <2>2. op' \in [Client -> Op]
    BY <1>0, <1>5, <2>1 DEF Op
  <2>3. /\ op'[c].branch = op[c].branch /\ op'[c].new = op[c].new /\ op'[c].base = None
        /\ \A d \in Client : d # c => op'[d] = op[d]
    BY <1>0, <1>5 DEF Op
  <2>4. Reaches(op'[c].base, manifest')
    BY <2>3 DEF Reaches
  <2>5. "attempt" \in AllReturns /\ "attempt" \notin CompactLabels \cup MergeLabels /\ "attempt" # "probe"
    BY DEF AllReturns, RefreshReturns, CompactLabels, MergeLabels
  <2> QED BY <1>1, <1>3, <1>4, <1>5, <2>2, <2>3, <2>4, <2>5, RefreshKeeps
<1>6. CASE Return(c, "contention")
  <2>1. pc'[c] = "idle"
    BY <1>0, <1>6 DEF Return, Goto
  <2> QED BY <1>3, <1>4, <1>6, <2>1, ReturnKeeps
<1> QED BY <1>5, <1>6 DEF Retry

LEMMA CasKeeps ==
    ASSUME CompactionInv, NEW c \in Client, Cas(c), KeepCompactVars PROVE CompactionInv'
<1>0. /\ CompactionTypeOK /\ op \in [Client -> Op] /\ op[c] \in Op /\ pc \in [Client -> Label] /\ pc[c] = "cas"
      /\ lost \in 0..MaxLost /\ manifest \in Manifest \cup {None} /\ Reaches(op[c].base, manifest)
      /\ hist \in [0..MaxSeq -> Checkpoint \cup {None}]
  BY LocalFacts DEF Cas, TypeOK
<1>1. UNCHANGED <<log, ckpt, bodies, idxs, view, pending, staged, acked, calls>>
  BY DEF Cas, sessionVars
<1>2. CASE /\ manifest = op[c].base
           /\ manifest' = NewManifest(c)
           /\ hist' = [hist EXCEPT ![op[c].seq] = Extend(hist[Entry(c).parent], Entry(c))]
           /\ \/ CallRefresh(c, "foldPut") /\ UNCHANGED <<op, corrupt, lost>>
              \/ lost < MaxLost /\ lost' = lost + 1 /\ Retry(c)
  <2>1. Evolves /\ BucketOK' /\ manifest' \in Manifest /\ hist' \in [0..MaxSeq -> Checkpoint \cup {None}]
    BY <1>0, <1>1, <1>2, PushCommits
  <2>2. CASE CallRefresh(c, "foldPut") /\ UNCHANGED <<op, corrupt, lost>>
    <3>1. \A d \in Client : d # c => pc'[d] = pc[d]
      BY <1>0, <2>2 DEF CallRefresh, Goto
    <3>2. /\ cp' \in [Client -> Compacting] /\ aged' \in SUBSET Key /\ windows' \in 0..MaxWindows
          /\ \A d \in Client : d # c => cp'[d] = cp[d]
          /\ cp'[c].logs \subseteq cp[c].logs /\ cp'[c].ckpts \subseteq cp[c].ckpts
      BY <3>1, Kept
    <3>3. RestOK'
      BY <1>0, <1>1, <2>1, <2>2, <3>2 DEF CompactionTypeOK, TypeOK, RestOK
    <3>4. op[c].branch \in Branch /\ op[c].new \in Snapshot
      BY <1>0, PushAt DEF PushLabels, CommitLabels
    <3>5. Reaches(op'[c].base, manifest')
      BY <1>2, <2>1, <2>2 DEF Evolves
    <3>6. "foldPut" \in AllReturns /\ "foldPut" \notin CompactLabels \cup MergeLabels /\ "foldPut" # "probe"
      BY DEF AllReturns, RefreshReturns, CompactLabels, MergeLabels
    <3> QED BY <1>0, <1>1, <2>1, <2>2, <3>2, <3>3, <3>4, <3>5, <3>6, RefreshKeeps
  <2>3. CASE lost < MaxLost /\ lost' = lost + 1 /\ Retry(c)
    <3>1. lost' \in 0..MaxLost
      BY <1>0, <2>3, WalAssumption
    <3> QED BY <1>0, <1>1, <2>1, <2>3, <3>1, RetryKeeps
  <2> QED BY <1>2, <2>2, <2>3
<1>3. CASE Retry(c) /\ UNCHANGED <<manifest, hist, lost>>
  <2>1. Evolves /\ BucketOK'
    BY <1>1, <1>3, StillBucket
  <2> QED BY <1>0, <1>1, <1>3, <2>1, RetryKeeps
<1> QED BY <1>2, <1>3 DEF Cas, TagMatches

\* A checkpoint put beside the chain, of a view that is true or of one that the
\* fold has overtaken.
LEMMA CheckpointGrows ==
    ASSUME CompactionInv, NEW q \in Slot, NEW k \in Checkpoint, ckpt[q] = None, ckpt' = [ckpt EXCEPT ![q] = k],
           Folded <= q /\ hist[q] # None => k = hist[q],
           Head(manifest) < q => log[q] # None /\ log[q].branch = None,
           UNCHANGED <<manifest, log, hist>>
    PROVE  /\ Evolves /\ BucketOK' /\ ckpt'[q] = k /\ k # None
           /\ ckpt' \in [Slot -> Checkpoint \cup {None}]
<1>0. /\ BucketOK /\ manifest \in Manifest \cup {None} /\ ckpt \in [Slot -> Checkpoint \cup {None}] /\ k # None
  BY NoneAssumption DEF CompactionInv, CompactionTypeOK, TypeOK
<1>1. ckpt'[q] = k /\ \A s \in Slot : s # q => ckpt'[s] = ckpt[s]
  BY <1>0
<1>2. \A s \in Slot : ckpt[s] # None => ckpt'[s] = ckpt[s]
  BY <1>1
<1>3. Folded' = Folded /\ Head(manifest)' = Head(manifest) /\ Head(manifest') = Head(manifest)
        /\ FoldOf(manifest') = FoldOf(manifest)
  BY DEF Folded, FoldOf, Head
<1>4. FoldOf(manifest) <= Head(manifest)
  BY <1>0, Reached DEF BucketOK, StatesInv, FoldOf, Head
<1>5. Evolves
  BY <1>0, <1>2, <1>3, <1>4, Reached DEF Evolves
<1>6. StatesInv'
  <2>1. manifest # None /\ manifest.ck # 0 => manifest.ck \in Slot
    BY <1>0, WalAssumption DEF Manifest, Slot
  <2>2. manifest # None /\ manifest.ck # 0 => ckpt'[manifest.ck] # None
    BY <1>0, <1>2, <2>1 DEF BucketOK, StatesInv
  <2> QED BY <1>0, <1>3, <2>2 DEF BucketOK, StatesInv
<1>7. TailInv'
  BY <1>0, <1>3 DEF BucketOK, TailInv
<1>8. CheckpointsInv'
  BY <1>0, <1>1, <1>3 DEF BucketOK, CheckpointsInv
<1> QED BY <1>0, <1>1, <1>5, <1>6, <1>7, <1>8 DEF BucketOK

\* maybe_fold_checkpoint puts the checkpoint of its view.
LEMMA FoldPutKeeps ==
    ASSUME CompactionInv, NEW c \in Client, FoldPut(c), KeepCompactVars PROVE CompactionInv'
<1> DEFINE v == view[c]
<1>0. /\ TypeOK /\ CompactionTypeOK /\ op \in [Client -> Op] /\ pc \in [Client -> Label] /\ pc[c] = "foldPut"
      /\ staged \in [Client -> SUBSET Snapshot] /\ manifest \in Manifest \cup {None}
      /\ Reaches(op[c].base, manifest) /\ Reaches(ViewTag(c), manifest) /\ ClientOK(c) /\ BucketOK
      /\ ckpt \in [Slot -> Checkpoint \cup {None}]
  BY LocalFacts DEF FoldPut, TypeOK
<1>1. UNCHANGED <<manifest, log, bodies, idxs, view, pending, staged, hist, lost, calls>>
  BY DEF FoldPut, sessionVars
<1>2. op[c].branch \in Branch /\ op[c].new \in Snapshot /\ pc[c] \notin ReadLabels /\ At(c) \in PushLabels
  BY <1>0, PushAt DEF PushLabels, LandedLabels
<1>3. CASE Acknowledge(c) /\ UNCHANGED ckpt
  BY <1>0, <1>1, <1>2, <1>3, WalAcknowledges
<1>4. CASE /\ v # None /\ ~(v.m.head - v.m.ck <= CheckpointInterval)
           /\ ckpt' = IF ckpt[v.m.head] = None
                        THEN [ckpt EXCEPT ![v.m.head] = [refs |-> v.refs, packs |-> v.packs]]
                        ELSE ckpt
           /\ pc' = [pc EXCEPT ![c] = "foldCas"]
           /\ UNCHANGED <<rd, op, acked, corrupt>>
  <2>1. /\ v \in View /\ v.m \in Manifest /\ ViewTag(c) = v.m /\ v.m # None
        /\ v.m.head \in Slot /\ v.m.ck \in 0..MaxSeq
    BY <1>0, <1>4, ViewTags, Ranges, NoneAssumption
  <2>2. v.m.ck < v.m.head
    BY <1>4, <2>1, WalAssumption DEF Slot
  <2>3. PICK q, k : q = v.m.head /\ k = [refs |-> v.refs, packs |-> v.packs]
    OBVIOUS
  <2>4. k \in Checkpoint /\ q \in Slot
    BY <2>1, <2>3 DEF View, Checkpoint
  <2>5. /\ manifest # None /\ manifest \in Manifest /\ q <= Head(manifest) /\ v.m.ck <= Folded
        /\ v.m.ck # Folded => q <= Folded
        /\ Folded \in 0..MaxSeq /\ Head(manifest) \in 0..MaxSeq
    <3>1. manifest # None /\ v.m.head <= manifest.head /\ v.m.ck <= manifest.ck /\ (v.m.ck # manifest.ck => v.m.head <= manifest.ck)
      BY <1>0, <2>1 DEF Reaches
    <3>2. Folded = manifest.ck /\ Head(manifest) = manifest.head
      BY <3>1 DEF Folded, FoldOf, Head
    <3>3. FoldOf(manifest) \in 0..MaxSeq /\ Head(manifest) \in 0..MaxSeq
      BY <1>0, Reached
    <3> QED BY <1>0, <2>3, <3>1, <3>2, <3>3 DEF Folded
  <2>6. /\ Evolves /\ BucketOK' /\ ckpt'[q] # None /\ ckpt' \in [Slot -> Checkpoint \cup {None}]
    <3>1. CASE ckpt[q] = None
      <4>1. ASSUME Folded <= q, hist[q] # None PROVE k = hist[q]
        <5>1. q # Folded
          <6>1. q = Folded => manifest.ck = q /\ q # 0
            BY <2>4, <2>5 DEF Folded, FoldOf, Slot
          <6> QED BY <1>0, <2>5, <3>1, <6>1 DEF BucketOK, StatesInv
        <5>2. v.m.ck = Folded
          BY <2>4, <2>5, <4>1, <5>1 DEF Slot
        <5>3. v.refs = hist[q].refs /\ v.packs = hist[q].packs
          BY <1>0, <1>4, <2>3, <5>2 DEF ClientOK, TrueView
        <5>4. hist[q] \in Checkpoint
          BY <1>0, <2>4, <4>1, Ranges DEF TypeOK
        <5> QED BY <2>3, <5>3, <5>4 DEF Checkpoint
      <4>2. ~(Head(manifest) < q)
        BY <2>4, <2>5 DEF Slot
      <4>3. ckpt' = [ckpt EXCEPT ![q] = k]
        BY <1>4, <2>3, <3>1
      <4> HIDE DEF v
      <4> QED BY <1>1, <2>4, <3>1, <4>1, <4>2, <4>3, CheckpointGrows
    <3>2. CASE ckpt[q] # None
      <4>1. ckpt' = ckpt
        BY <1>4, <2>3, <3>2
      <4> QED BY <1>0, <1>1, <3>2, <4>1, StillBucket
    <3> QED BY <3>1, <3>2
  <2>7. pc'[c] = "foldCas" /\ \A d \in Client : d # c => pc'[d] = pc[d]
    BY <1>0, <1>4
  <2>8. /\ cp' \in [Client -> Compacting] /\ aged' \in SUBSET Key /\ windows' \in 0..MaxWindows
        /\ \A d \in Client : d # c => cp'[d] = cp[d]
        /\ cp'[c] = cp[c]
    BY <2>7, Kept
  <2>9. RestOK'
    BY <1>0, <1>1, <1>4, <2>6, <2>8 DEF CompactionTypeOK, TypeOK, RestOK
  <2>10. SlotInv(c)'
    BY <1>1, <2>2, <2>3, <2>6, <2>7 DEF SlotInv, SlotLabels, ClaimedLabels, FoldedLabels
  <2>11. /\ "foldCas" \in Label /\ "foldCas" \notin ReadLabels /\ "foldCas" \notin CompactLabels
         /\ "foldCas" \notin {"idle", "probe", "sweepBody"}
    BY DEF Label, ReadLabels, WalkLabels, CompactLabels, LandedLabels
  <2>12. Reaches(op'[c].base, manifest')
    BY <1>0, <1>1, <1>4
  <2> HIDE DEF v
  <2> QED BY <1>0, <1>1, <1>2, <1>4, <2>6, <2>8, <2>9, <2>10, <2>11, <2>12, GoKeeps DEF v
<1> QED BY <1>3, <1>4 DEF FoldPut, Goto

\* The fold: the manifest names the checkpoint of its own head.
LEMMA FoldLands ==
    ASSUME CompactionInv, NEW c \in Client, pc[c] = "foldCas", manifest = view[c].m,
           manifest' = [view[c].m EXCEPT !.ck = view[c].m.head], UNCHANGED <<log, ckpt, hist>>
    PROVE  Evolves /\ BucketOK' /\ manifest' \in Manifest
<1>0. /\ TypeOK /\ StatesInv /\ TailInv /\ CheckpointsInv /\ ClientOK(c) /\ view[c] # None
  BY LocalFacts DEF BucketOK, ClientOK, StepInv
<1>1. /\ manifest \in Manifest /\ manifest # None /\ manifest.head \in Slot /\ manifest.ck \in 0..MaxSeq
      /\ manifest.branch \in Branch /\ manifest.ck < manifest.head
  BY <1>0, ViewTags, Ranges, NoneAssumption DEF ClientOK, SlotInv, Manifest
<1>2. PICK m : m = [manifest EXCEPT !.ck = manifest.head]
  OBVIOUS
<1>3. m.head = manifest.head /\ m.ck = manifest.head /\ m \in Manifest /\ m # None /\ manifest' = m
  <2>1. m.head = manifest.head /\ m.ck = manifest.head /\ m.branch = manifest.branch /\ m \in Manifest
    BY <1>1, <1>2, Ranges DEF Manifest, Slot
  <2> QED BY <1>2, <2>1, NoneAssumption
<1>4. /\ Folded = manifest.ck /\ FoldOf(manifest) = manifest.ck /\ Head(manifest) = manifest.head
      /\ Folded' = manifest.head /\ FoldOf(manifest') = manifest.head
      /\ Head(manifest)' = manifest.head /\ Head(manifest') = manifest.head
  BY <1>1, <1>3 DEF Folded, FoldOf, Head
<1>5. ckpt[manifest.head] # None
  BY <1>0, <1>1, <1>4 DEF ClientOK, SlotInv, Slot
<1>6. Evolves
  <2>1. Reaches(manifest, manifest')
    BY <1>1, <1>3 DEF Reaches, Slot
  <2> QED BY <1>1, <1>4, <2>1 DEF Evolves, Slot
<1>7. StatesInv'
  BY <1>0, <1>1, <1>3, <1>4, <1>5 DEF StatesInv, Slot
<1>8. TailInv'
  <2>1. \A s \in Slot : manifest.head < s => Folded < s
    BY <1>1, <1>4 DEF Slot
  <2> QED BY <1>0, <1>4, <2>1 DEF TailInv
<1>9. CheckpointsInv'
  <2>1. \A s \in Slot : manifest.head <= s => Folded <= s
    BY <1>1, <1>4 DEF Slot
  <2> QED BY <1>0, <1>4, <2>1 DEF CheckpointsInv
<1> QED BY <1>3, <1>6, <1>7, <1>8, <1>9 DEF BucketOK

LEMMA FoldCasKeeps ==
    ASSUME CompactionInv, NEW c \in Client, FoldCas(c), KeepCompactVars PROVE CompactionInv'
<1>0. /\ TypeOK /\ CompactionTypeOK /\ op \in [Client -> Op] /\ pc \in [Client -> Label] /\ pc[c] = "foldCas"
      /\ staged \in [Client -> SUBSET Snapshot] /\ manifest \in Manifest \cup {None}
      /\ Reaches(op[c].base, manifest)
  BY LocalFacts DEF FoldCas
<1>1. UNCHANGED <<log, ckpt, bodies, idxs, view, pending, staged, hist, lost, calls>>
  BY DEF FoldCas, sessionVars
<1>2. op[c].branch \in Branch /\ op[c].new \in Snapshot /\ At(c) \in PushLabels
  BY <1>0, PushAt DEF PushLabels, LandedLabels
<1>3. CASE Acknowledge(c) /\ UNCHANGED manifest
  BY <1>0, <1>1, <1>2, <1>3, WalAcknowledges
<1>4. CASE /\ manifest = view[c].m /\ manifest' = [view[c].m EXCEPT !.ck = view[c].m.head]
           /\ CallRefresh(c, "done") /\ UNCHANGED <<op, acked, corrupt>>
  <2>1. Evolves /\ BucketOK' /\ manifest' \in Manifest
    BY <1>0, <1>1, <1>4, FoldLands
  <2>2. \A d \in Client : d # c => pc'[d] = pc[d]
    BY <1>0, <1>4 DEF CallRefresh, Goto
  <2>3. /\ cp' \in [Client -> Compacting] /\ aged' \in SUBSET Key /\ windows' \in 0..MaxWindows
        /\ \A d \in Client : d # c => cp'[d] = cp[d]
        /\ cp'[c].logs \subseteq cp[c].logs /\ cp'[c].ckpts \subseteq cp[c].ckpts
    BY <2>2, Kept
  <2>4. RestOK'
    BY <1>0, <1>1, <1>4, <2>1, <2>3 DEF CompactionTypeOK, TypeOK, RestOK
  <2>5. Reaches(op'[c].base, manifest')
    <3>1. op[c].base \in Manifest \cup {None} /\ manifest' \in Manifest \cup {None}
      BY <1>0, <2>1 DEF Op
    <3> QED BY <1>0, <1>4, <2>1, <3>1, Reached DEF Evolves
  <2>6. "done" \in AllReturns /\ "done" \notin CompactLabels \cup MergeLabels /\ "done" # "probe"
    BY DEF AllReturns, RefreshReturns, CompactLabels, MergeLabels
  <2> QED BY <1>0, <1>1, <1>2, <1>4, <2>1, <2>3, <2>4, <2>5, <2>6, RefreshKeeps
<1> QED BY <1>3, <1>4 DEF FoldCas, TagMatches

-----------------------------------------------------------------------------
(* compact: consolidate                                                      *)

\* What holds of a client in compact.
LEMMA CompactAt ==
    ASSUME CompactionInv, NEW c \in Client, pc[c] \in CompactLabels
    PROVE  /\ op[c].branch = None /\ pc[c] \notin ReadLabels
           /\ pc[c] \in MergeLabels =>
                /\ view[c] \in View /\ view[c].m \in Manifest /\ ViewTag(c) = view[c].m
                /\ manifest \in Manifest /\ manifest # None
                /\ Reaches(view[c].m, manifest)
<1>1. /\ pc[c] \notin ReadLabels /\ At(c) = pc[c] /\ TypeOK /\ ClientOK(c) /\ Reaches(ViewTag(c), manifest)
      /\ manifest \in Manifest \cup {None}
  BY LabelSets, LocalFacts
<1>2. op[c].branch = None
  BY <1>1 DEF ClientOK, StepInv
<1>3. ASSUME pc[c] \in MergeLabels PROVE view[c] # None /\ manifest # None
  BY <1>1, <1>3 DEF ClientOK, StepInv
<1> QED BY <1>1, <1>2, <1>3, ViewTags

\* The locals of a compact that starts its loop afresh.
LEMMA Afresh ==
    ASSUME CompactionInv, NEW c \in Client, NEW x \in Compacting, x.logs = {}, x.ckpts = {}, cp' = [cp EXCEPT ![c] = x]
    PROVE  /\ cp' \in [Client -> Compacting] /\ \A d \in Client : d # c => cp'[d] = cp[d]
           /\ cp'[c] = x /\ cp'[c].logs \subseteq cp[c].logs /\ cp'[c].ckpts \subseteq cp[c].ckpts
BY LocalFacts

\* The consolidation gives way to the sweep.
LEMMA Sweeps ==
    ASSUME CompactionInv, NEW c \in Client, CallSweep(c), Evolves, BucketOK',
           manifest' \in Manifest \cup {None}, log' \in [Slot -> LogEntry \cup {None}],
           ckpt' \in [Slot -> Checkpoint \cup {None}], hist' \in [0..MaxSeq -> Checkpoint \cup {None}],
           lost' \in 0..MaxLost,
           UNCHANGED <<bodies, idxs, view, pending, staged, acked, corrupt, calls, aged, windows>>
    PROVE  CompactionInv'
<1>0. CompactionTypeOK /\ TypeOK /\ op \in [Client -> Op] /\ op[c] \in Op /\ cp \in [Client -> Compacting]
  BY LocalFacts
<1>1. PICK x : x = [NoCompacting EXCEPT !.old = aged]
  OBVIOUS
<1>2. x \in Compacting /\ x.logs = {} /\ x.ckpts = {}
  <2>1. aged \in SUBSET Key
    BY <1>0 DEF CompactionTypeOK
  <2> QED BY <1>1, <2>1, NoCompactingIs DEF Compacting
<1>3. /\ cp' \in [Client -> Compacting] /\ \A d \in Client : d # c => cp'[d] = cp[d]
      /\ cp'[c].logs \subseteq cp[c].logs /\ cp'[c].ckpts \subseteq cp[c].ckpts
  BY <1>1, <1>2, Afresh DEF CallSweep
<1>4. /\ op' \in [Client -> Op] /\ op'[c] = NoOp /\ \A d \in Client : d # c => op'[d] = op[d]
  BY <1>0, NoValues DEF CallSweep
<1>5. op'[c].branch = None /\ Reaches(op'[c].base, manifest')
  BY <1>4 DEF NoOp, Reaches
<1>6. RestOK'
  BY <1>0, <1>3 DEF CompactionTypeOK, TypeOK, RestOK
<1>7. CallRefresh(c, "sweepList")
  BY DEF CallSweep
<1>8. "sweepList" \in AllReturns /\ "sweepList" \notin PushLabels \cup MergeLabels /\ "sweepList" # "probe"
  BY DEF AllReturns, PushLabels, CommitLabels, LandedLabels, MergeLabels
<1> QED BY <1>3, <1>4, <1>5, <1>6, <1>7, <1>8, RefreshKeeps

\* The consolidation starts its loop again, or gives way.
LEMMA Replans ==
    ASSUME CompactionInv, NEW c \in Client, NEW m \in Manifest \cup {None}, Replan(c, m), manifest' # None, Evolves, BucketOK',
           manifest' \in Manifest \cup {None}, log' \in [Slot -> LogEntry \cup {None}],
           ckpt' \in [Slot -> Checkpoint \cup {None}], hist' \in [0..MaxSeq -> Checkpoint \cup {None}],
           lost' \in 0..MaxLost,
           UNCHANGED <<bodies, idxs, view, pending, staged, acked, corrupt, calls, aged, windows>>
    PROVE  CompactionInv'
<1>0. CompactionTypeOK /\ TypeOK /\ op \in [Client -> Op] /\ op[c] \in Op /\ cp \in [Client -> Compacting]
  BY LocalFacts
<1>1. "plan" \in AllReturns /\ "plan" \notin PushLabels /\ "plan" # "probe"
  BY DEF AllReturns, PushLabels, CommitLabels, LandedLabels
<1>2. CASE CallSweep(c)
  BY <1>2, Sweeps
<1>3. CASE /\ op' = [op EXCEPT ![c] = [NoOp EXCEPT !.n = op[c].n + 1]]
           /\ cp' = [cp EXCEPT ![c] = [NoCompacting EXCEPT !.missingOn = m]]
           /\ CallRefresh(c, "plan")
  <2>1. PICK x : x = [NoCompacting EXCEPT !.missingOn = m]
    OBVIOUS
  <2>2. x \in Compacting /\ x.logs = {} /\ x.ckpts = {}
    BY <2>1, NoCompactingIs DEF Compacting
  <2>3. /\ cp' \in [Client -> Compacting] /\ \A d \in Client : d # c => cp'[d] = cp[d]
        /\ cp'[c].logs \subseteq cp[c].logs /\ cp'[c].ckpts \subseteq cp[c].ckpts
    BY <1>3, <2>1, <2>2, Afresh
  <2>4. PICK o : o = [NoOp EXCEPT !.n = op[c].n + 1]
    OBVIOUS
  <2>5. o \in Op /\ o.branch = None /\ o.base = None
    <3>1. op[c].n + 1 \in Nat
      BY <1>0 DEF Op
    <3>2. o.branch = None /\ o.base = None
      BY <2>4 DEF NoOp
    <3> QED BY <2>4, <3>1, <3>2, NoValues DEF Op
  <2>6. /\ op' \in [Client -> Op] /\ op'[c] = o /\ \A d \in Client : d # c => op'[d] = op[d]
    BY <1>0, <1>3, <2>4, <2>5
  <2>7. op'[c].branch = None /\ Reaches(op'[c].base, manifest')
    BY <2>5, <2>6 DEF Reaches
  <2>8. RestOK'
    BY <1>0, <2>3 DEF CompactionTypeOK, TypeOK, RestOK
  <2> QED BY <1>1, <1>3, <2>3, <2>6, <2>7, <2>8, RefreshKeeps
<1> QED BY <1>2, <1>3 DEF Replan

\* So they do beside a bucket that they leave.
LEMMA LeavesTheBucket ==
    ASSUME CompactionInv, UNCHANGED <<manifest, log, ckpt, hist, lost>>
    PROVE  /\ manifest' \in Manifest \cup {None} /\ log' \in [Slot -> LogEntry \cup {None}]
           /\ ckpt' \in [Slot -> Checkpoint \cup {None}] /\ hist' \in [0..MaxSeq -> Checkpoint \cup {None}]
           /\ lost' \in 0..MaxLost
           /\ Evolves /\ BucketOK'
<1>1. Evolves /\ BucketOK'
  BY StillBucket
<1> QED BY <1>1 DEF CompactionInv, CompactionTypeOK, TypeOK

\* A step of compact that leaves the chain and what it reads next of it.
LEMMA CompactGoes ==
    ASSUME CompactionInv, NEW c \in Client, NEW lbl \in CompactLabels, pc[c] \in CompactLabels,
           pc' = [pc EXCEPT ![c] = lbl], op' \in [Client -> Op], cp' \in [Client -> Compacting],
           bodies' \in SUBSET Pack, idxs' \in SUBSET Pack, aged' \in SUBSET Key,
           UNCHANGED <<manifest, log, ckpt, view, rd, pending, staged, hist, acked, corrupt, lost, calls, windows>>,
           \A d \in Client : d # c => op'[d] = op[d] /\ cp'[d] = cp[d],
           op'[c].branch = op[c].branch, Reaches(op'[c].base, manifest),
           lbl \in MergeLabels => pc[c] \in MergeLabels,
           lbl = "sweepBody" => cp'[c].left > 0,
           \A s \in cp'[c].logs : s \in cp[c].logs \/ s <= Folded,
           \A s \in cp'[c].ckpts : s \in cp[c].ckpts \/ s < Folded,
           lbl \in SlotLabels => SlotInv(c)'
    PROVE  CompactionInv'
<1>0. CompactionTypeOK
  BY LocalFacts
<1>1. Evolves /\ BucketOK' /\ Folded = FoldOf(manifest')
  BY StillBucket DEF Folded
<1>2. RestOK'
  BY <1>0 DEF CompactionTypeOK, TypeOK, RestOK
<1>3. /\ lbl \in Label /\ lbl \notin ReadLabels \cup PushLabels /\ lbl \notin {"idle", "probe", "foldCas"}
  BY LabelSets DEF CompactLabels, PushLabels, CommitLabels, LandedLabels
<1>4. op[c].branch = None /\ pc[c] \notin ReadLabels
  BY CompactAt
<1>5. lbl \in MergeLabels => view[c] # None
  BY CompactAt, NoneAssumption
<1> QED BY <1>1, <1>2, <1>3, <1>4, <1>5, GoKeeps

LEMMA BeginCompactKeeps ==
    ASSUME CompactionInv, NEW c \in Client, BeginCompact(c) PROVE CompactionInv'
<1>0. CompactionTypeOK /\ op \in [Client -> Op] /\ pc \in [Client -> Label]
  BY LocalFacts
<1>1. /\ UNCHANGED <<manifest, log, ckpt, bodies, idxs, view, pending, staged, hist, acked, corrupt, lost, cp, aged, windows>>
      /\ op' = [op EXCEPT ![c] = NoOp] /\ CallRefresh(c, "compact") /\ calls < MaxCalls /\ calls' = calls + 1
  BY DEF BeginCompact, bucketVars, sessionVars, compactVars
<1>2. Evolves /\ BucketOK'
  BY <1>1, StillBucket
<1>3. calls' \in 0..MaxCalls
  BY <1>0, <1>1, WalAssumption DEF CompactionTypeOK, TypeOK
<1>4. RestOK'
  BY <1>0, <1>1, <1>3 DEF CompactionTypeOK, TypeOK, RestOK
<1>5. op' \in [Client -> Op] /\ op'[c] = NoOp /\ \A d \in Client : d # c => op'[d] = op[d]
  BY <1>0, <1>1, NoValues
<1>6. op'[c].branch = None /\ Reaches(op'[c].base, manifest')
  BY <1>5 DEF NoOp, Reaches
<1>7. "compact" \in AllReturns /\ "compact" \notin PushLabels \cup MergeLabels /\ "compact" # "probe"
  BY DEF AllReturns, PushLabels, CommitLabels, LandedLabels, MergeLabels
<1> QED BY <1>1, <1>2, <1>4, <1>5, <1>6, <1>7, RefreshKeeps

\* A step of compact that reads the view again and keeps its locals.
LEMMA CompactRefreshes ==
    ASSUME CompactionInv, NEW c \in Client, pc[c] \in CompactLabels, NEW ret \in {"plan", "fence"}, CallRefresh(c, ret),
           manifest # None,
           UNCHANGED <<manifest, log, ckpt, bodies, idxs, view, op, pending, staged, hist, acked, corrupt, lost, calls,
                       cp, aged, windows>>
    PROVE  CompactionInv'
<1>0. CompactionTypeOK /\ op \in [Client -> Op] /\ Reaches(op[c].base, manifest) /\ op[c].branch = None
  BY LocalFacts, CompactAt
<1>1. Evolves /\ BucketOK'
  BY StillBucket
<1>2. RestOK'
  BY <1>0 DEF CompactionTypeOK, TypeOK, RestOK
<1>3. ret \in AllReturns /\ ret \notin PushLabels /\ ret # "probe"
  BY DEF AllReturns, PushLabels, CommitLabels, LandedLabels
<1> QED BY <1>0, <1>1, <1>2, <1>3, RefreshKeeps

LEMMA CompactKeeps ==
    ASSUME CompactionInv, NEW c \in Client, Compact(c) PROVE CompactionInv'
<1>0. /\ CompactionTypeOK /\ TypeOK /\ Reaches(ViewTag(c), manifest) /\ pc[c] \in CompactLabels
  BY LocalFacts DEF Compact, CompactLabels
<1>1. UNCHANGED <<manifest, log, ckpt, bodies, idxs, view, pending, staged, hist, acked, corrupt, lost, calls, aged, windows>>
  BY DEF Compact, bucketVars, sessionVars, historyVars
<1>3. CASE CallSweep(c)
  BY <1>1, <1>3, LeavesTheBucket, Sweeps
<1>4. CASE view[c] # None /\ CallRefresh(c, "plan") /\ UNCHANGED <<op, cp>>
  <2>1. manifest # None
    BY <1>0, <1>4, ViewTags, NoneAssumption DEF Reaches
  <2> QED BY <1>0, <1>1, <1>4, <2>1, CompactRefreshes
<1> QED BY <1>3, <1>4 DEF Compact

LEMMA MergeDoneKeeps ==
    ASSUME CompactionInv, NEW c \in Client, MergeDone(c) PROVE CompactionInv'
<1>1. UNCHANGED <<manifest, log, ckpt, bodies, idxs, view, pending, staged, hist, acked, corrupt, lost, calls, aged, windows>>
  BY DEF MergeDone, bucketVars, sessionVars, historyVars
<1>2. CallSweep(c)
  BY DEF MergeDone
<1> QED BY <1>1, <1>2, LeavesTheBucket, Sweeps

LEMMA PlanKeeps ==
    ASSUME CompactionInv, NEW c \in Client, Plan(c) PROVE CompactionInv'
<1>0. /\ CompactionTypeOK /\ TypeOK /\ pc \in [Client -> Label] /\ op \in [Client -> Op] /\ cp \in [Client -> Compacting]
      /\ cp[c] \in Compacting /\ bodies \in SUBSET Pack /\ idxs \in SUBSET Pack /\ pc[c] = "plan"
      /\ pc[c] \in CompactLabels /\ pc[c] \in MergeLabels /\ Reaches(op[c].base, manifest) /\ aged \in SUBSET Key
  BY LocalFacts DEF Plan, CompactLabels, MergeLabels, CompactionTypeOK
<1>1. UNCHANGED <<manifest, log, ckpt, bodies, idxs, view, pending, staged, hist, acked, corrupt, lost, calls, aged, windows>>
  BY DEF Plan, bucketVars, sessionVars, historyVars
<1>2. CASE CallSweep(c)
  BY <1>1, <1>2, LeavesTheBucket, Sweeps
<1>3. ASSUME NEW gs \in Groupings(view[c].packs \cap bodies), cp' = [cp EXCEPT ![c].parts = gs, ![c].todo = gs],
             pc' = [pc EXCEPT ![c] = "readMembers"], UNCHANGED <<rd, op>>
      PROVE  CompactionInv'
  <2>1. gs \in SUBSET SUBSET Pack
    BY <1>0 DEF Groupings
  <2>2. cp' \in [Client -> Compacting]
    BY <1>0, <1>3, <2>1 DEF Compacting
  <2>3. cp'[c].logs = cp[c].logs /\ cp'[c].ckpts = cp[c].ckpts /\ \A d \in Client : d # c => cp'[d] = cp[d]
    BY <1>0, <1>3 DEF Compacting
  <2>4. "readMembers" \in CompactLabels /\ "readMembers" \notin SlotLabels
    BY DEF CompactLabels, SlotLabels
  <2> QED BY <1>0, <1>1, <1>3, <2>2, <2>3, <2>4, CompactGoes
<1>4. \/ CallSweep(c)
      \/ \E gs \in Groupings(view[c].packs \cap bodies) :
            cp' = [cp EXCEPT ![c].parts = gs, ![c].todo = gs] /\ pc' = [pc EXCEPT ![c] = "readMembers"] /\ UNCHANGED <<rd, op>>
  BY ZenonT(30) DEF Plan, Goto
<1> QED BY <1>2, <1>3, <1>4

LEMMA ReadMembersKeeps ==
    ASSUME CompactionInv, NEW c \in Client, ReadMembers(c) PROVE CompactionInv'
<1>0. /\ CompactionTypeOK /\ TypeOK /\ pc \in [Client -> Label] /\ op \in [Client -> Op] /\ cp \in [Client -> Compacting]
      /\ cp[c] \in Compacting /\ bodies \in SUBSET Pack /\ idxs \in SUBSET Pack /\ pc[c] = "readMembers"
      /\ pc[c] \in CompactLabels /\ pc[c] \in MergeLabels /\ Reaches(op[c].base, manifest) /\ op[c] \in Op
      /\ aged \in SUBSET Key
  BY LocalFacts DEF ReadMembers, CompactLabels, MergeLabels, CompactionTypeOK
<1>1. UNCHANGED <<manifest, log, ckpt, bodies, idxs, view, pending, staged, hist, acked, lost, calls, aged, windows>>
  BY DEF ReadMembers, bucketVars, sessionVars
<1>2. manifest # None /\ view[c].m \in Manifest
  BY <1>0, CompactAt
<1>3. CASE CallRefresh(c, "fence") /\ UNCHANGED <<op, corrupt, cp>>
  BY <1>0, <1>1, <1>2, <1>3, CompactRefreshes
<1>4. ASSUME NEW g \in cp[c].todo, op' = [op EXCEPT ![c].send = UNION g], cp' = [cp EXCEPT ![c].todo = @ \ {g}],
             pc' = [pc EXCEPT ![c] = "mergePut"], UNCHANGED <<rd, corrupt>>
      PROVE  CompactionInv'
  <2>1. UNION g \in SUBSET Snapshot
    BY <1>0 DEF Compacting, Pack
  <2>2. op' \in [Client -> Op]
    BY <1>0, <1>4, <2>1 DEF Op
  <2>3. /\ op'[c].branch = op[c].branch /\ op'[c].base = op[c].base /\ \A d \in Client : d # c => op'[d] = op[d]
    BY <1>0, <1>4 DEF Op
  <2>4. cp[c].todo \ {g} \in SUBSET SUBSET Pack
    BY <1>0 DEF Compacting
  <2>5. cp' \in [Client -> Compacting]
    BY <1>0, <1>4, <2>4 DEF Compacting
  <2>6. cp'[c].logs = cp[c].logs /\ cp'[c].ckpts = cp[c].ckpts /\ \A d \in Client : d # c => cp'[d] = cp[d]
    BY <1>0, <1>4 DEF Compacting
  <2>7. "mergePut" \in CompactLabels /\ "mergePut" \notin SlotLabels
    BY DEF CompactLabels, SlotLabels
  <2> QED BY <1>0, <1>1, <1>4, <2>2, <2>3, <2>5, <2>6, <2>7, CompactGoes
<1>5. CASE Return(c, "corrupt") /\ cp' = [cp EXCEPT ![c] = NoCompacting]
  <2>1. /\ cp' \in [Client -> Compacting] /\ cp'[c] = NoCompacting /\ \A d \in Client : d # c => cp'[d] = cp[d]
    BY <1>0, <1>5, NoCompactingIs
  <2>2. RestOK'
    BY <1>0, <1>1, <2>1 DEF CompactionTypeOK, TypeOK, RestOK
  <2>3. Evolves /\ BucketOK'
    BY <1>1, StillBucket
  <2> QED BY <1>1, <1>5, <2>1, <2>2, <2>3, ReturnKeeps
<1>6. CASE Replan(c, view[c].m) /\ UNCHANGED corrupt
  <2>1. PICK m \in Manifest \cup {None} : m = view[c].m
    BY <1>2
  <2>2. Replan(c, m) /\ manifest' # None
    BY <1>1, <1>2, <1>6, <2>1
  <2> QED BY <1>1, <1>6, <2>2, LeavesTheBucket, Replans
<1>7. \/ CallRefresh(c, "fence") /\ UNCHANGED <<op, corrupt, cp>>
      \/ \E g \in cp[c].todo :
            op' = [op EXCEPT ![c].send = UNION g] /\ cp' = [cp EXCEPT ![c].todo = @ \ {g}]
              /\ pc' = [pc EXCEPT ![c] = "mergePut"] /\ UNCHANGED <<rd, corrupt>>
      \/ Return(c, "corrupt") /\ cp' = [cp EXCEPT ![c] = NoCompacting]
      \/ Replan(c, view[c].m) /\ UNCHANGED corrupt
  BY ZenonT(30) DEF ReadMembers, Goto
<1> QED BY <1>3, <1>4, <1>5, <1>6, <1>7

LEMMA MergePutKeeps ==
    ASSUME CompactionInv, NEW c \in Client, MergePut(c) PROVE CompactionInv'
<1>0. /\ CompactionTypeOK /\ pc \in [Client -> Label] /\ op \in [Client -> Op] /\ cp \in [Client -> Compacting]
      /\ bodies \in SUBSET Pack /\ idxs \in SUBSET Pack /\ Reaches(op[c].base, manifest) /\ op[c] \in Op
      /\ pc[c] \in CompactLabels /\ pc[c] \in MergeLabels /\ aged \in SUBSET Key
  BY LocalFacts DEF MergePut, CompactLabels, MergeLabels, CompactionTypeOK
<1>1. /\ UNCHANGED <<manifest, log, ckpt, idxs, view, rd, op, pending, staged, hist, acked, corrupt, lost, calls, cp, aged, windows>>
      /\ bodies' = bodies \cup {op[c].send} /\ pc' = [pc EXCEPT ![c] = "mergeIdx"]
  BY DEF MergePut, sessionVars, historyVars, compactVars, Goto
<1>2. bodies' \in SUBSET Pack
  BY <1>0, <1>1 DEF Op, Pack
<1>3. "mergeIdx" \in CompactLabels /\ "mergeIdx" \notin SlotLabels
  BY DEF CompactLabels, SlotLabels
<1> QED BY <1>0, <1>1, <1>2, <1>3, CompactGoes

LEMMA MergeIdxKeeps ==
    ASSUME CompactionInv, NEW c \in Client, MergeIdx(c) PROVE CompactionInv'
<1>0. /\ CompactionTypeOK /\ pc \in [Client -> Label] /\ op \in [Client -> Op] /\ cp \in [Client -> Compacting]
      /\ bodies \in SUBSET Pack /\ idxs \in SUBSET Pack /\ Reaches(op[c].base, manifest) /\ op[c] \in Op
      /\ pc[c] \in CompactLabels /\ pc[c] \in MergeLabels /\ aged \in SUBSET Key
  BY LocalFacts DEF MergeIdx, CompactLabels, MergeLabels, CompactionTypeOK
<1>1. /\ UNCHANGED <<manifest, log, ckpt, bodies, view, rd, pending, staged, hist, acked, corrupt, lost, calls, cp, aged, windows>>
      /\ idxs' = idxs \cup {op[c].send} /\ pc' = [pc EXCEPT ![c] = "readMembers"]
      /\ op' = [op EXCEPT ![c].send = {}]
  BY DEF MergeIdx, sessionVars, historyVars, compactVars, Goto
<1>2. idxs' \in SUBSET Pack
  BY <1>0, <1>1 DEF Op, Pack
<1>3. op' \in [Client -> Op]
  BY <1>0, <1>1 DEF Op
<1>4. op'[c].branch = op[c].branch /\ op'[c].base = op[c].base /\ \A d \in Client : d # c => op'[d] = op[d]
  BY <1>0, <1>1 DEF Op
<1>5. "readMembers" \in CompactLabels /\ "readMembers" \notin SlotLabels
  BY DEF CompactLabels, SlotLabels
<1> QED BY <1>0, <1>1, <1>2, <1>3, <1>4, <1>5, CompactGoes

\* The plan is checked against the view that is published from.
LEMMA FenceKeeps ==
    ASSUME CompactionInv, NEW c \in Client, Fence(c) PROVE CompactionInv'
<1>0. /\ CompactionTypeOK /\ TypeOK /\ pc \in [Client -> Label] /\ op \in [Client -> Op] /\ cp \in [Client -> Compacting]
      /\ cp[c] \in Compacting /\ bodies \in SUBSET Pack /\ idxs \in SUBSET Pack /\ pc[c] = "fence"
      /\ pc[c] \in CompactLabels /\ pc[c] \in MergeLabels /\ op[c] \in Op /\ aged \in SUBSET Key
  BY LocalFacts DEF Fence, CompactLabels, MergeLabels, CompactionTypeOK
<1>1. UNCHANGED <<manifest, log, ckpt, bodies, idxs, view, pending, staged, hist, acked, corrupt, lost, calls, aged, windows>>
  BY DEF Fence, bucketVars, sessionVars, historyVars
<1>2. /\ manifest # None /\ view[c] \in View /\ view[c].m \in Manifest /\ Reaches(view[c].m, manifest)
  BY <1>0, CompactAt
<1>3. CASE CallSweep(c)
  BY <1>1, <1>3, LeavesTheBucket, Sweeps
<1>4. CASE Replan(c, cp[c].missingOn)
  <2>1. PICK m \in Manifest \cup {None} : m = cp[c].missingOn
    BY <1>0 DEF Compacting
  <2>2. Replan(c, m) /\ manifest' # None
    BY <1>1, <1>2, <1>4, <2>1
  <2> QED BY <1>1, <2>2, LeavesTheBucket, Replans
<1>5. CASE /\ cp' = [cp EXCEPT ![c].kept = KeptPacks(c)]
           /\ op' = [op EXCEPT ![c].base = view[c].m, ![c].seq = view[c].m.head + 1, ![c].pend = Created(c)]
           /\ pc' = [pc EXCEPT ![c] = "mergeClaim"]
           /\ UNCHANGED rd
  <2>1. PICK kept, created, m, q :
          kept = KeptPacks(c) /\ created = Created(c) /\ m = view[c].m /\ q = view[c].m.head + 1
    OBVIOUS
  <2>2. created \in SUBSET Pack
    BY <1>0, <2>1 DEF Created, Compacting, Pack
  <2>3. kept \in SUBSET Pack
    BY <1>2, <2>1, <2>2 DEF KeptPacks, View
  <2>4. m \in Manifest /\ m # None /\ Head(m) = m.head /\ m.head \in Slot /\ m.head < q /\ q \in 0..(MaxSeq + 1)
    BY <1>2, <2>1, NoneAssumption, WalAssumption DEF Head, Manifest, Slot
  <2>5. cp' \in [Client -> Compacting]
    BY <1>0, <1>5, <2>1, <2>3 DEF Compacting
  <2>6. cp'[c].logs = cp[c].logs /\ cp'[c].ckpts = cp[c].ckpts /\ \A d \in Client : d # c => cp'[d] = cp[d]
    BY <1>0, <1>5 DEF Compacting
  <2>7. op' = [op EXCEPT ![c].base = m, ![c].seq = q, ![c].pend = created]
    BY <1>5, <2>1
  <2>8. op' \in [Client -> Op]
    BY <1>0, <2>2, <2>4, <2>7 DEF Op
  <2>9. /\ op'[c].branch = op[c].branch /\ op'[c].base = m /\ op'[c].seq = q
        /\ \A d \in Client : d # c => op'[d] = op[d]
    BY <1>0, <2>7 DEF Op
  <2>10. SlotInv(c)'
    <3>1. pc'[c] = "mergeClaim" /\ view'[c] = view[c]
      BY <1>0, <1>1, <1>5
    <3>2. (Head(op[c].base))' = Head(m)
      BY <2>9 DEF Head
    <3> QED BY <2>1, <2>4, <2>9, <3>1, <3>2 DEF SlotInv, ClaimedLabels, FoldedLabels
  <2>11. "mergeClaim" \in CompactLabels /\ "mergeClaim" # "sweepBody"
    BY DEF CompactLabels
  <2>12. Reaches(op'[c].base, manifest)
    BY <1>2, <2>1, <2>9
  <2> QED BY <1>0, <1>1, <1>5, <2>5, <2>6, <2>8, <2>9, <2>10, <2>11, <2>12, CompactGoes
<1> QED BY <1>3, <1>4, <1>5 DEF Fence, Goto

\* The checkpoint of a consolidation, beside its log entry.
LEMMA PutCheckpointKeeps ==
    ASSUME CompactionInv, NEW c \in Client, PutCheckpoint(c) PROVE CompactionInv'
<1> DEFINE q == op[c].seq
           k == [refs |-> view[c].refs, packs |-> cp[c].kept]
<1>0. /\ CompactionTypeOK /\ TypeOK /\ pc \in [Client -> Label] /\ op \in [Client -> Op] /\ cp \in [Client -> Compacting]
      /\ cp[c] \in Compacting /\ pc[c] = "putCheckpoint" /\ ClientOK(c) /\ BucketOK
      /\ pc[c] \in CompactLabels /\ pc[c] \in MergeLabels /\ pc[c] \in SlotLabels /\ pc[c] \in ClaimedLabels
      /\ Reaches(op[c].base, manifest) /\ manifest \in Manifest \cup {None} /\ lost \in 0..MaxLost
      /\ ckpt \in [Slot -> Checkpoint \cup {None}]
  BY LocalFacts DEF PutCheckpoint, CompactLabels, MergeLabels, SlotLabels, ClaimedLabels, TypeOK
<1>1. UNCHANGED <<manifest, log, bodies, idxs, view, pending, staged, hist, acked, corrupt, calls, aged, windows>>
  BY DEF PutCheckpoint, sessionVars
<1>2. manifest # None /\ view[c] \in View /\ op[c].branch = None /\ pc[c] \notin ReadLabels
  BY <1>0, CompactAt
<1>3. q \in Slot /\ (Folded < q => log[q] = Entry(c)) /\ Entry(c) # None /\ Entry(c).branch = None
  BY <1>0, <1>2, EntryIsNotNone DEF ClientOK, SlotInv, Entry
<1>4. k \in Checkpoint
  BY <1>0, <1>2 DEF View, Compacting, Checkpoint
<1>5. PICK m \in Manifest \cup {None} : m = cp[c].missingOn
  BY <1>0 DEF Compacting
<1>6. ASSUME ckpt[q] = None, ckpt' = [ckpt EXCEPT ![q] = k]
      PROVE  /\ Evolves /\ BucketOK' /\ ckpt'[q] = k /\ ckpt' \in [Slot -> Checkpoint \cup {None}]
  <2>1. Folded \in 0..MaxSeq /\ Head(manifest) \in 0..MaxSeq /\ Folded <= Head(manifest)
    BY <1>0, <1>2, Reached DEF Folded, FoldOf, Head, BucketOK, StatesInv
  <2>2. q # Folded
    BY <1>0, <1>2, <1>3, <1>6 DEF Folded, FoldOf, Slot, BucketOK, StatesInv
  <2>3. ~(Folded <= q /\ hist[q] # None)
    <3>1. Folded < q /\ hist[q] # None => log[q].branch \in Branch
      BY <1>0, <1>3 DEF BucketOK, TailInv
    <3> QED BY <1>3, <2>1, <2>2, <3>1, NoneAssumption DEF Slot
  <2>4. Head(manifest) < q => log[q] # None /\ log[q].branch = None
    BY <1>3, <2>1 DEF Slot
  <2> HIDE DEF q, k
  <2> QED BY <1>1, <1>3, <1>4, <1>6, <2>3, <2>4, CheckpointGrows
<1>7. CASE /\ ckpt[q] = None /\ ckpt' = [ckpt EXCEPT ![q] = k]
           /\ pc' = [pc EXCEPT ![c] = "mergeEnsure"] /\ UNCHANGED <<rd, op, cp, lost>>
  <2>1. Evolves /\ BucketOK' /\ ckpt'[q] = k /\ ckpt' \in [Slot -> Checkpoint \cup {None}]
    BY <1>6, <1>7
  <2>2. RestOK'
    BY <1>0, <1>1, <1>7, <2>1 DEF CompactionTypeOK, TypeOK, RestOK
  <2>3. pc'[c] = "mergeEnsure" /\ op' \in [Client -> Op]
    BY <1>0, <1>7
  <2>4. SlotInv(c)'
    <3>1. /\ (Head(op[c].base))' = Head(op[c].base) /\ Entry(c)' = Entry(c) /\ Head(manifest)' = Head(manifest)
          /\ Folded' = Folded
      BY <1>1, <1>7 DEF Entry, Head, Folded, FoldOf
    <3>2. Head(op[c].base) < q /\ op[c].base = view[c].m
      BY <1>0 DEF ClientOK, SlotInv
    <3> QED BY <1>1, <1>3, <1>7, <2>1, <2>3, <3>1, <3>2 DEF SlotInv
  <2>5. /\ "mergeEnsure" \in Label /\ "mergeEnsure" \notin ReadLabels \cup PushLabels
        /\ "mergeEnsure" \notin {"idle", "probe", "sweepBody"}
    BY LabelSets DEF CompactLabels, ReadLabels, WalkLabels, PushLabels, CommitLabels, LandedLabels
  <2>6. Reaches(op'[c].base, manifest') /\ op'[c].branch = None /\ view[c] # None
    BY <1>0, <1>1, <1>2, <1>7, NoneAssumption
  <2>7. rd' = rd /\ view' = view /\ corrupt' = corrupt
    BY <1>1, <1>7
  <2>8. (\A d \in Client : d # c => op'[d] = op[d] /\ cp'[d] = cp[d]) /\ cp'[c] = cp[c]
    BY <1>7
  <2> HIDE DEF q, k
  <2> QED BY <1>2, <1>7, <2>1, <2>2, <2>3, <2>4, <2>5, <2>6, <2>7, <2>8, GoKeeps
<1>8. CASE /\ ckpt[q] = None /\ ckpt' = [ckpt EXCEPT ![q] = k]
           /\ lost < MaxLost /\ lost' = lost + 1 /\ Replan(c, cp[c].missingOn)
  <2>1. Evolves /\ BucketOK' /\ ckpt' \in [Slot -> Checkpoint \cup {None}]
    BY <1>6, <1>8
  <2>2. lost' \in 0..MaxLost
    BY <1>0, <1>8, WalAssumption
  <2>3. /\ manifest' \in Manifest \cup {None} /\ log' \in [Slot -> LogEntry \cup {None}]
        /\ hist' \in [0..MaxSeq -> Checkpoint \cup {None}]
    BY <1>0, <1>1 DEF TypeOK
  <2>4. Replan(c, m) /\ manifest' # None
    BY <1>1, <1>2, <1>5, <1>8
  <2> QED BY <1>1, <2>1, <2>2, <2>3, <2>4, Replans
<1>9. CASE Replan(c, cp[c].missingOn) /\ UNCHANGED <<ckpt, lost>>
  <2>1. Replan(c, m) /\ manifest' # None
    BY <1>1, <1>2, <1>5, <1>9
  <2> QED BY <1>1, <1>9, <2>1, LeavesTheBucket, Replans
<1> QED BY <1>7, <1>8, <1>9 DEF PutCheckpoint, Goto

\* Fence and fold in one: what the chain says stays, its pack list is the
\* consolidated one.
LEMMA MergeCommits ==
    ASSUME CompactionInv, NEW c \in Client, pc[c] = "mergeCas", manifest = op[c].base, manifest' = MergeManifest(c),
           hist' = [hist EXCEPT ![op[c].seq] = [refs |-> hist[Head(op[c].base)].refs, packs |-> cp[c].kept]],
           UNCHANGED <<log, ckpt>>
    PROVE  Evolves /\ BucketOK' /\ manifest' \in Manifest /\ hist' \in [0..MaxSeq -> Checkpoint \cup {None}]
<1>0. /\ TypeOK /\ manifest \in Manifest \cup {None} /\ hist \in [0..MaxSeq -> Checkpoint \cup {None}]
      /\ StatesInv /\ TailInv /\ CheckpointsInv /\ ClientOK(c) /\ cp[c] \in Compacting
      /\ pc[c] \in CompactLabels /\ pc[c] \in MergeLabels /\ pc[c] \in SlotLabels /\ pc[c] \in ClaimedLabels
      /\ pc[c] \in FoldedLabels
  BY LocalFacts DEF TypeOK, BucketOK, CompactLabels, MergeLabels, SlotLabels, ClaimedLabels, FoldedLabels
<1>1. /\ manifest \in Manifest /\ manifest # None /\ view[c] \in View /\ view[c].m = manifest /\ view[c] # None
      /\ manifest.head \in 0..MaxSeq /\ manifest.ck \in 0..MaxSeq /\ manifest.branch \in Branch
  <2>1. manifest \in Manifest /\ manifest # None /\ view[c] \in View /\ view[c].m = manifest /\ view[c] # None
    BY <1>0, CompactAt, NoneAssumption DEF ClientOK, SlotInv
  <2> QED BY <2>1, WalAssumption DEF Manifest, Slot
<1>2. PICK q, old, m : q = op[c].seq /\ old = manifest.head /\ m = MergeManifest(c)
  OBVIOUS
<1>3. old \in 0..MaxSeq /\ q \in Slot /\ old < q /\ Head(manifest) = old
  <2>1. Head(manifest) = old
    BY <1>1, <1>2 DEF Head
  <2> QED BY <1>0, <1>1, <1>2, <2>1 DEF ClientOK, SlotInv
<1>4. Folded = manifest.ck /\ FoldOf(manifest) = manifest.ck /\ manifest.ck <= old
  BY <1>0, <1>1, <1>2 DEF Folded, FoldOf, StatesInv
<1>5. m.head = q /\ m.ck = q /\ m \in Manifest /\ m # None
  <2>1. m = [head |-> q, ck |-> q, branch |-> manifest.branch]
    BY <1>2 DEF MergeManifest
  <2>2. m \in Manifest
    BY <1>1, <1>3, <2>1, Ranges, <1>0 DEF Manifest
  <2> QED BY <2>1, <2>2, NoneAssumption
<1>6. Head(manifest)' = q /\ Head(manifest') = q /\ Folded' = q /\ FoldOf(manifest') = q
  BY <1>2, <1>5 DEF Head, Folded, FoldOf
<1>7. PICK h : h = [refs |-> hist[old].refs, packs |-> cp[c].kept]
  OBVIOUS
<1>8. h = ckpt[q] /\ h \in Checkpoint /\ h # None
  <2>1. ckpt[q] = [refs |-> view[c].refs, packs |-> cp[c].kept]
    BY <1>0, <1>2, <1>3 DEF ClientOK, SlotInv
  <2>2. view[c].refs = hist[old].refs
    BY <1>0, <1>1, <1>2, <1>4 DEF ClientOK, TrueView
  <2>3. h \in Checkpoint
    BY <1>0, <1>1, <1>7, <2>2 DEF View, Compacting, Checkpoint
  <2> QED BY <1>7, <2>1, <2>2, <2>3, NoneAssumption
<1>9. /\ hist' \in [0..MaxSeq -> Checkpoint \cup {None}]
      /\ hist'[q] = h /\ q \in 0..MaxSeq
      /\ \A s \in 0..MaxSeq : s # q => hist'[s] = hist[s]
  <2>1. hist' = [hist EXCEPT ![q] = h]
    BY <1>2, <1>3, <1>7
  <2> QED BY <1>0, <1>3, <1>8, <2>1, Ranges
<1>10. hist[q] = None /\ q # 0
  BY <1>0, <1>3 DEF StatesInv, Slot
<1>11. Evolves
  <2>1. Reaches(manifest, manifest')
    BY <1>1, <1>2, <1>3, <1>4, <1>5 DEF Reaches, Slot
  <2>2. \A s \in 0..MaxSeq : hist[s] # None => hist'[s] = hist[s]
    BY <1>9, <1>10
  <2>3. FoldOf(manifest') <= Head(manifest')
    BY <1>3, <1>6 DEF Slot
  <2> QED BY <2>1, <2>2, <2>3 DEF Evolves
<1>12. ASSUME NEW s \in Slot, hist'[s] # None PROVE s <= q
  <2>1. CASE s = q
    BY <1>3, <2>1 DEF Slot
  <2>2. CASE s # q
    <3>1. hist[s] # None
      BY <1>0, <1>9, <1>12, <2>2, Ranges
    <3>2. s <= old
      BY <1>0, <1>3, <3>1 DEF StatesInv
    <3> QED BY <1>3, <3>2 DEF Slot
  <2> QED BY <2>1, <2>2
<1>13. StatesInv'
  <2>1. hist'[0] = [refs |-> NoRefs, packs |-> {}]
    BY <1>0, <1>9, <1>10, Ranges DEF StatesInv
  <2>2. manifest'.ck <= manifest'.head /\ hist'[manifest'.head] # None /\ hist'[manifest'.ck] # None
          /\ ckpt[manifest'.ck] # None
    BY <1>2, <1>3, <1>5, <1>8, <1>9 DEF Slot
  <2> QED BY <1>6, <1>12, <2>1, <2>2 DEF StatesInv
<1>14. TailInv'
  <2>1. \A s \in Slot : q < s => hist'[s] = None
    BY <1>3, <1>12 DEF Slot
  <2> QED BY <1>6, <2>1 DEF TailInv
<1>15. CheckpointsInv'
  <2> SUFFICES ASSUME NEW s \in Slot, ckpt[s] # None
               PROVE  /\ q <= s /\ hist'[s] # None => ckpt[s] = hist'[s]
                      /\ q < s => log[s] # None /\ log[s].branch = None
    BY <1>6 DEF CheckpointsInv
  <2>1. q <= s /\ hist'[s] # None => s = q
    BY <1>3, <1>12 DEF Slot
  <2>2. q < s => Head(manifest) < s
    BY <1>3 DEF Slot
  <2> QED BY <1>0, <1>8, <1>9, <2>1, <2>2 DEF CheckpointsInv
<1> QED BY <1>2, <1>5, <1>9, <1>11, <1>13, <1>14, <1>15 DEF BucketOK

LEMMA MergeCasKeeps ==
    ASSUME CompactionInv, NEW c \in Client, MergeCas(c) PROVE CompactionInv'
<1>0. /\ CompactionTypeOK /\ TypeOK /\ op \in [Client -> Op] /\ cp \in [Client -> Compacting]
      /\ cp[c] \in Compacting /\ pc[c] = "mergeCas" /\ pc[c] \in CompactLabels /\ pc[c] \in MergeLabels
      /\ lost \in 0..MaxLost /\ Reaches(op[c].base, manifest)
  BY LocalFacts DEF MergeCas, CompactLabels, MergeLabels
<1>1. UNCHANGED <<log, ckpt, bodies, idxs, view, pending, staged, acked, corrupt, calls, aged, windows>>
  BY DEF MergeCas, sessionVars
<1>2. manifest # None /\ op[c].branch = None
  BY <1>0, CompactAt
<1>3. PICK m \in Manifest \cup {None} : m = cp[c].missingOn
  BY <1>0 DEF Compacting
<1>4. log' \in [Slot -> LogEntry \cup {None}] /\ ckpt' \in [Slot -> Checkpoint \cup {None}]
  BY <1>0, <1>1 DEF TypeOK
<1>5. ASSUME manifest = op[c].base, manifest' = MergeManifest(c),
             hist' = [hist EXCEPT ![op[c].seq] = [refs |-> hist[Head(op[c].base)].refs, packs |-> cp[c].kept]]
      PROVE  /\ Evolves /\ BucketOK' /\ manifest' \in Manifest /\ manifest' # None
             /\ hist' \in [0..MaxSeq -> Checkpoint \cup {None}]
  BY <1>0, <1>1, <1>5, MergeCommits, NoneAssumption
<1>6. CASE /\ manifest = op[c].base /\ manifest' = MergeManifest(c)
           /\ hist' = [hist EXCEPT ![op[c].seq] = [refs |-> hist[Head(op[c].base)].refs, packs |-> cp[c].kept]]
           /\ CallRefresh(c, "merged") /\ UNCHANGED <<op, cp, lost>>
  <2>1. /\ Evolves /\ BucketOK' /\ manifest' \in Manifest /\ manifest' # None
        /\ hist' \in [0..MaxSeq -> Checkpoint \cup {None}]
    BY <1>5, <1>6
  <2>2. RestOK'
    BY <1>0, <1>1, <1>6, <2>1 DEF CompactionTypeOK, TypeOK, RestOK
  <2>3. "merged" \in AllReturns /\ "merged" \notin PushLabels /\ "merged" # "probe"
    BY DEF AllReturns, PushLabels, CommitLabels, LandedLabels
  <2>4. Reaches(op'[c].base, manifest') /\ op'[c].branch = None
    BY <1>2, <1>6, <2>1 DEF Evolves
  <2> QED BY <1>0, <1>1, <1>6, <2>1, <2>2, <2>3, <2>4, RefreshKeeps
<1>7. CASE /\ manifest = op[c].base /\ manifest' = MergeManifest(c)
           /\ hist' = [hist EXCEPT ![op[c].seq] = [refs |-> hist[Head(op[c].base)].refs, packs |-> cp[c].kept]]
           /\ lost < MaxLost /\ lost' = lost + 1 /\ Replan(c, cp[c].missingOn)
  <2>1. /\ Evolves /\ BucketOK' /\ manifest' \in Manifest \cup {None} /\ manifest' # None
        /\ hist' \in [0..MaxSeq -> Checkpoint \cup {None}]
    BY <1>5, <1>7
  <2>2. lost' \in 0..MaxLost /\ Replan(c, m)
    BY <1>0, <1>3, <1>7, WalAssumption
  <2> QED BY <1>1, <1>4, <2>1, <2>2, Replans
<1>8. CASE Replan(c, cp[c].missingOn) /\ UNCHANGED <<manifest, hist, lost>>
  <2>1. Replan(c, m) /\ manifest' # None
    BY <1>2, <1>3, <1>8
  <2> QED BY <1>1, <1>8, <2>1, LeavesTheBucket, Replans
<1> QED BY <1>6, <1>7, <1>8 DEF MergeCas, TagMatches

\* A step of consolidate keeps the invariant.
LEMMA ConsolidateKeeps ==
    ASSUME CompactionInv, NEW c \in Client, ConsolidateStep(c) PROVE CompactionInv'
<1>1. CASE MergeClaim(c)
  BY <1>1, ClaimSlotKeeps DEF MergeClaim
<1>2. CASE MergeEnsure(c)
  BY <1>2, EnsurePresentKeeps DEF MergeEnsure
<1> QED BY <1>1, <1>2, CompactKeeps, PlanKeeps, ReadMembersKeeps, MergePutKeeps, MergeIdxKeeps, FenceKeeps,
           PutCheckpointKeeps, MergeCasKeeps, MergeDoneKeeps DEF ConsolidateStep

-----------------------------------------------------------------------------
(* compact: sweep                                                            *)

\* A set of slots has a least one.
LEMMA LeastSlot ==
    ASSUME NEW S \in SUBSET Nat, S # {}
    PROVE  \E s \in S : \A t \in S : s <= t
<1> DEFINE R == {ss \in Nat \X Nat : ss[1] < ss[2]}
<1>1. IsWellFoundedOn(R, Nat)
  BY NatLessThanWellFounded DEF OpToRel
<1>2. \E s \in S : \A t \in S : <<t, s>> \notin R
  <2> HIDE DEF R
  <2> QED BY <1>1, WFMin
<1>3. PICK s \in S : \A t \in S : <<t, s>> \notin R
  BY <1>2
<1>4. ASSUME NEW t \in S PROVE s <= t
  <2>1. t \in Nat /\ s \in Nat /\ <<t, s>> \notin R
    BY <1>3
  <2>2. ~(t < s)
    BY <2>1
  <2> QED BY <2>1, <2>2
<1> QED BY <1>3, <1>4

\* The sweep deletes the least slot it has left: there is one.
LEMMA SmallestIn ==
    ASSUME NEW S \in SUBSET Slot, S # {}
    PROVE  Smallest(S) \in S
<1>1. S \in SUBSET Nat
  BY WalAssumption DEF Slot
<1> QED BY <1>1, LeastSlot DEF Smallest

\* And a greatest one.
LEMMA GreatestSlot ==
    ASSUME NEW S \in SUBSET Slot, S # {}
    PROVE  \E s \in S : \A t \in S : t <= s
<1> DEFINE T == {MaxSeq - s : s \in S}
<1>1. T \in SUBSET Nat /\ T # {}
  <2>1. \A s \in S : MaxSeq - s \in Nat
    BY WalAssumption DEF Slot
  <2> QED BY <2>1
<1>2. PICK m \in T : \A t \in T : m <= t
  <2> HIDE DEF T
  <2> QED BY <1>1, LeastSlot
<1>3. PICK s \in S : m = MaxSeq - s
  BY <1>2
<1>4. ASSUME NEW t \in S PROVE t <= s
  <2>1. m <= MaxSeq - t
    BY <1>2
  <2> QED BY <1>3, <2>1, WalAssumption DEF Slot
<1> QED BY <1>4

\* The cutoff is at or before the checkpoint that the manifest names.
LEMMA CutoffIsFolded ==
    ASSUME CompactionInv, NEW c \in Client
    PROVE  Cutoff(c) \in 0..MaxSeq /\ Cutoff(c) <= Folded /\ Folded \in 0..MaxSeq
<1> DEFINE ckSeq == IF view[c] = None THEN 0 ELSE view[c].m.ck
           old == {s \in Slot : ckpt[s] # None /\ s <= ckSeq /\ IsOld(c, <<"ckpt", s>>)}
<1>0. TypeOK /\ manifest \in Manifest \cup {None} /\ Reaches(ViewTag(c), manifest)
  BY LocalFacts
<1>1. Folded \in 0..MaxSeq
  BY <1>0, Reached DEF Folded
<1>2. ckSeq \in 0..MaxSeq /\ ckSeq <= Folded
  <2>1. CASE view[c] = None
    BY <1>1, <2>1, WalAssumption
  <2>2. CASE view[c] # None
    <3>1. ViewTag(c) = view[c].m /\ view[c].m \in Manifest /\ view[c].m # None /\ view[c].m.ck \in 0..MaxSeq
      BY <1>0, <2>2, ViewTags, Ranges, NoneAssumption
    <3>2. manifest # None /\ view[c].m.ck <= manifest.ck
      BY <1>0, <3>1 DEF Reaches
    <3> QED BY <2>2, <3>1, <3>2 DEF Folded, FoldOf
  <2> QED BY <2>1, <2>2
<1>3. Cutoff(c) = IF old = {} THEN 0 ELSE CHOOSE s \in old : \A t \in old : t <= s
  BY DEF Cutoff
<1> HIDE DEF ckSeq
<1>4. CASE old = {}
  <2> HIDE DEF old
  <2> QED BY <1>1, <1>3, <1>4, WalAssumption
<1>5. CASE old # {}
  <2>1. old \in SUBSET Slot
    OBVIOUS
  <2>2. Cutoff(c) \in old
    <3> HIDE DEF old
    <3>1. \E s \in old : \A t \in old : t <= s
      BY <1>5, <2>1, GreatestSlot
    <3> QED BY <1>3, <1>5, <3>1
  <2>3. Cutoff(c) \in Slot /\ Cutoff(c) <= ckSeq
    BY <2>2
  <2> QED BY <1>1, <1>2, <2>3, WalAssumption DEF Slot
<1> QED BY <1>1, <1>4, <1>5

\* A sweep lists nothing for deletion that the manifest's chain still needs.
LEMMA SweepListKeeps ==
    ASSUME CompactionInv, NEW c \in Client, SweepList(c) PROVE CompactionInv'
<1> DEFINE k == Cutoff(c)
           live == IF view[c] = None THEN {} ELSE view[c].packs
           logs == {s \in Slot : log[s] # None /\ s <= k}
           ckpts == {s \in Slot : ckpt[s] # None /\ s < k}
           packs == (AgedPacks(c) \ live) \ RetainedPacks(k)
<1> HIDE DEF logs, ckpts, packs
<1>1. /\ UNCHANGED <<manifest, log, ckpt, bodies, idxs, view, rd, op, pending, staged, hist, acked, corrupt, lost, calls, aged, windows>>
      /\ pc[c] = "sweepList" /\ pc' = [pc EXCEPT ![c] = "sweepDelete"]
      /\ cp' = [cp EXCEPT ![c].logs = logs, ![c].ckpts = ckpts, ![c].packs = packs]
  <2>1. /\ pc[c] = "sweepList"
        /\ cp' = [cp EXCEPT ![c].logs = logs, ![c].ckpts = ckpts, ![c].packs = packs]
        /\ Goto(c, "sweepDelete")
        /\ UNCHANGED <<bucketVars, view, rd, op, sessionVars, historyVars, aged, windows>>
    BY ZenonT(30) DEF SweepList, logs, ckpts, packs
  <2> QED BY <2>1 DEF bucketVars, sessionVars, historyVars, Goto
<1>0. /\ CompactionTypeOK /\ pc \in [Client -> Label] /\ op \in [Client -> Op] /\ cp \in [Client -> Compacting]
      /\ cp[c] \in Compacting /\ bodies \in SUBSET Pack /\ idxs \in SUBSET Pack /\ Reaches(op[c].base, manifest)
      /\ pc[c] \in CompactLabels /\ aged \in SUBSET Key
  <2>1. CompactionTypeOK /\ pc[c] \in CompactLabels
    BY <1>1, LocalFacts DEF CompactLabels
  <2> QED BY <2>1, LocalFacts DEF CompactionTypeOK
<1>2. logs \in SUBSET Slot /\ ckpts \in SUBSET Slot /\ packs \in SUBSET Pack
  <2>1. AgedPacks(c) \in SUBSET Pack
    BY <1>0 DEF AgedPacks
  <2> QED BY <2>1 DEF logs, ckpts, packs
<1>3. (\A s \in logs : s <= Folded) /\ (\A s \in ckpts : s < Folded)
  <2>1. k \in 0..MaxSeq /\ k <= Folded /\ Folded \in 0..MaxSeq
    BY CutoffIsFolded
  <2> HIDE DEF k
  <2> QED BY <2>1, WalAssumption DEF Slot, logs, ckpts
<1>4. "sweepDelete" \in CompactLabels /\ "sweepDelete" \notin SlotLabels \cup MergeLabels
  BY DEF CompactLabels, SlotLabels, MergeLabels
<1>5. cp'[c].logs = logs /\ cp'[c].ckpts = ckpts /\ \A d \in Client : d # c => cp'[d] = cp[d]
  BY <1>0, <1>1 DEF Compacting
<1>6. cp' \in [Client -> Compacting]
  BY <1>0, <1>1, <1>2 DEF Compacting
<1> QED BY <1>0, <1>1, <1>3, <1>4, <1>5, <1>6, CompactGoes

\* Deleting what the manifest's chain has no more need of leaves the bucket good.
LEMMA DeletesKeep ==
    ASSUME CompactionInv, NEW S \in SUBSET Slot, NEW K \in SUBSET Slot,
           \A s \in S : s <= Folded, \A s \in K : s < Folded,
           log' = [s \in Slot |-> IF s \in S THEN None ELSE log[s]],
           ckpt' = [s \in Slot |-> IF s \in K THEN None ELSE ckpt[s]],
           UNCHANGED <<manifest, hist>>
    PROVE  /\ Evolves /\ BucketOK'
           /\ log' \in [Slot -> LogEntry \cup {None}] /\ ckpt' \in [Slot -> Checkpoint \cup {None}]
<1>0. /\ BucketOK /\ manifest \in Manifest \cup {None} /\ log \in [Slot -> LogEntry \cup {None}]
      /\ ckpt \in [Slot -> Checkpoint \cup {None}]
  BY DEF CompactionInv, CompactionTypeOK, TypeOK
<1>1. Folded' = Folded /\ Head(manifest)' = Head(manifest) /\ Head(manifest') = Head(manifest)
        /\ FoldOf(manifest') = FoldOf(manifest) /\ Folded = FoldOf(manifest)
  BY DEF Folded, FoldOf, Head
<1>2. Folded \in 0..MaxSeq /\ Head(manifest) \in 0..MaxSeq /\ Reaches(manifest, manifest)
  BY <1>0, <1>1, Reached
<1>3. \A s \in Slot : s \in Int
  BY WalAssumption DEF Slot
<1>4. \A s \in Slot : Folded < s => log'[s] = log[s]
  BY <1>2, <1>3
<1>5. \A s \in Slot : Folded <= s => ckpt'[s] = ckpt[s]
  BY <1>2, <1>3
<1>6. FoldOf(manifest) <= Head(manifest)
  BY <1>0, <1>2 DEF BucketOK, StatesInv, FoldOf, Head
<1>7. Evolves
  BY <1>1, <1>2, <1>4, <1>5, <1>6 DEF Evolves
<1>8. StatesInv'
  <2>1. manifest # None /\ manifest.ck # 0 => manifest.ck \in Slot /\ Folded <= manifest.ck
    BY <1>0, <1>2, WalAssumption DEF Manifest, Slot, Folded, FoldOf
  <2>2. manifest # None /\ manifest.ck # 0 => ckpt'[manifest.ck] # None
    BY <1>0, <1>5, <2>1 DEF BucketOK, StatesInv
  <2> QED BY <1>0, <1>1, <2>2 DEF BucketOK, StatesInv
<1>9. TailInv'
  BY <1>0, <1>1, <1>4 DEF BucketOK, TailInv
<1>10. CheckpointsInv'
  <2> SUFFICES ASSUME NEW s \in Slot, ckpt'[s] # None
               PROVE  /\ Folded <= s /\ hist[s] # None => ckpt'[s] = hist[s]
                      /\ Head(manifest) < s => log'[s] # None /\ log'[s].branch = None
    BY <1>1 DEF CheckpointsInv
  <2>1. ckpt'[s] = ckpt[s]
    OBVIOUS
  <2>2. Head(manifest) < s => log'[s] = log[s]
    BY <1>1, <1>2, <1>3, <1>4, <1>6
  <2> QED BY <1>0, <2>1, <2>2 DEF BucketOK, CheckpointsInv
<1>11. log' \in [Slot -> LogEntry \cup {None}] /\ ckpt' \in [Slot -> Checkpoint \cup {None}]
  BY <1>0
<1> QED BY <1>7, <1>8, <1>9, <1>10, <1>11 DEF BucketOK

\* One request of the deletions, then the look at the manifest.
LEMMA SweepDeleteKeeps ==
    ASSUME CompactionInv, NEW c \in Client, SweepDelete(c) PROVE CompactionInv'
<1>1. /\ UNCHANGED <<manifest, bodies, idxs, view, pending, staged, hist, acked, lost, calls, windows>>
      /\ pc[c] = "sweepDelete"
  BY DEF SweepDelete, sessionVars
<1>0. /\ CompactionTypeOK /\ TypeOK /\ pc \in [Client -> Label] /\ op \in [Client -> Op] /\ cp \in [Client -> Compacting]
      /\ cp[c] \in Compacting /\ op[c] \in Op /\ Reaches(op[c].base, manifest) /\ ClientOK(c)
      /\ pc[c] \in CompactLabels /\ pc[c] \notin ReadLabels /\ op[c].branch = None
      /\ manifest \in Manifest \cup {None} /\ aged \in SUBSET Key
      /\ log \in [Slot -> LogEntry \cup {None}] /\ ckpt \in [Slot -> Checkpoint \cup {None}]
  <2>1. CompactionTypeOK /\ TypeOK /\ pc[c] \in CompactLabels
    BY <1>1, LocalFacts DEF CompactLabels
  <2> QED BY <2>1, LocalFacts, CompactAt DEF CompactionTypeOK, TypeOK
<1>2. /\ cp[c].logs \in SUBSET Slot /\ cp[c].ckpts \in SUBSET Slot
      /\ (\A s \in cp[c].logs : s <= Folded) /\ (\A s \in cp[c].ckpts : s < Folded)
  BY <1>0 DEF Compacting, ClientOK, PassedInv
<1>3. /\ "sweepDelete" \in CompactLabels /\ "sweepDelete" \in Label
      /\ "sweepDelete" \notin ReadLabels \cup {"idle", "probe", "foldCas", "sweepBody"} \cup PushLabels \cup MergeLabels \cup SlotLabels
  BY LabelSets DEF CompactLabels, ReadLabels, WalkLabels, PushLabels, CommitLabels, LandedLabels, MergeLabels, SlotLabels
<1>4. ASSUME NEW x \in Compacting, cp' = [cp EXCEPT ![c] = x], x.logs \subseteq cp[c].logs, x.ckpts \subseteq cp[c].ckpts,
             NEW S \in SUBSET cp[c].logs, NEW K \in SUBSET cp[c].ckpts,
             log' = [s \in Slot |-> IF s \in S THEN None ELSE log[s]],
             ckpt' = [s \in Slot |-> IF s \in K THEN None ELSE ckpt[s]],
             aged' \in SUBSET Key, UNCHANGED <<pc, rd, op, corrupt>>
      PROVE  CompactionInv'
  <2>1. S \in SUBSET Slot /\ K \in SUBSET Slot /\ (\A s \in S : s <= Folded) /\ (\A s \in K : s < Folded)
    BY <1>2
  <2>3. Evolves /\ BucketOK' /\ log' \in [Slot -> LogEntry \cup {None}] /\ ckpt' \in [Slot -> Checkpoint \cup {None}]
    BY <1>1, <1>4, <2>1, DeletesKeep
  <2>4. cp' \in [Client -> Compacting] /\ cp'[c] = x /\ \A d \in Client : d # c => cp'[d] = cp[d]
    BY <1>0, <1>4
  <2>5. RestOK'
    BY <1>0, <1>1, <1>4, <2>3, <2>4 DEF CompactionTypeOK, TypeOK, RestOK
  <2>6. pc' = [pc EXCEPT ![c] = "sweepDelete"]
    BY <1>0, <1>1, <1>4
  <2> QED BY <1>0, <1>1, <1>3, <1>4, <2>3, <2>4, <2>5, <2>6, GoKeeps
<1>5. CASE /\ cp[c].logs # {}
           /\ LET s == Smallest(cp[c].logs) IN
                /\ log' = [log EXCEPT ![s] = None]
                /\ aged' = aged \ {<<"log", s>>}
                /\ cp' = [cp EXCEPT ![c].logs = @ \ {s}]
           /\ UNCHANGED <<ckpt, pc, rd, op, corrupt>>
  <2>1. PICK s, left, x : s = Smallest(cp[c].logs) /\ left = cp[c].logs \ {s} /\ x = [cp[c] EXCEPT !.logs = left]
    OBVIOUS
  <2>2. s \in cp[c].logs
    BY <1>2, <1>5, <2>1, SmallestIn
  <2>3. x \in Compacting /\ x.logs = left /\ x.ckpts = cp[c].ckpts
    BY <1>0, <1>2, <2>1 DEF Compacting
  <2>4. cp' = [cp EXCEPT ![c] = x] /\ log' = [log EXCEPT ![s] = None] /\ aged' \in SUBSET Key
    BY <1>0, <1>5, <2>1
  <2>5. PICK S, K : S = {s} /\ K = {}
    OBVIOUS
  <2>6. /\ log' = [t \in Slot |-> IF t \in S THEN None ELSE log[t]]
        /\ ckpt' = [t \in Slot |-> IF t \in K THEN None ELSE ckpt[t]]
    BY <1>0, <1>5, <2>4, <2>5
  <2>7. UNCHANGED <<pc, rd, op, corrupt>> /\ S \in SUBSET cp[c].logs /\ K \in SUBSET cp[c].ckpts
    BY <1>5, <2>2, <2>5
  <2>8. x.logs \subseteq cp[c].logs /\ x.ckpts \subseteq cp[c].ckpts
    BY <2>1, <2>3
  <2> QED BY <1>4, <2>3, <2>4, <2>6, <2>7, <2>8
<1>6. CASE /\ cp[c].logs = {} /\ cp[c].ckpts # {}
           /\ LET s == Smallest(cp[c].ckpts) IN
                /\ ckpt' = [ckpt EXCEPT ![s] = None]
                /\ aged' = aged \ {<<"ckpt", s>>}
                /\ cp' = [cp EXCEPT ![c].ckpts = @ \ {s}]
           /\ UNCHANGED <<log, pc, rd, op, corrupt>>
  <2>1. PICK s, left, x : s = Smallest(cp[c].ckpts) /\ left = cp[c].ckpts \ {s} /\ x = [cp[c] EXCEPT !.ckpts = left]
    OBVIOUS
  <2>2. s \in cp[c].ckpts
    BY <1>2, <1>6, <2>1, SmallestIn
  <2>3. x \in Compacting /\ x.ckpts = left /\ x.logs = cp[c].logs
    BY <1>0, <1>2, <2>1 DEF Compacting
  <2>4. cp' = [cp EXCEPT ![c] = x] /\ ckpt' = [ckpt EXCEPT ![s] = None] /\ aged' \in SUBSET Key
    BY <1>0, <1>6, <2>1
  <2>5. PICK S, K : S = {} /\ K = {s}
    OBVIOUS
  <2>6. /\ log' = [t \in Slot |-> IF t \in S THEN None ELSE log[t]]
        /\ ckpt' = [t \in Slot |-> IF t \in K THEN None ELSE ckpt[t]]
    BY <1>0, <1>6, <2>4, <2>5
  <2>7. UNCHANGED <<pc, rd, op, corrupt>> /\ S \in SUBSET cp[c].logs /\ K \in SUBSET cp[c].ckpts
    BY <1>6, <2>2, <2>5
  <2>8. x.logs \subseteq cp[c].logs /\ x.ckpts \subseteq cp[c].ckpts
    BY <2>1, <2>3
  <2> QED BY <1>4, <2>3, <2>4, <2>6, <2>7, <2>8
<1>7. CASE /\ cp' = [cp EXCEPT ![c].left = PackDeleteBatch]
           /\ pc' = [pc EXCEPT ![c] = "sweepIdx"]
           /\ UNCHANGED <<log, ckpt, aged, rd, op, corrupt>>
  <2>1. "sweepIdx" \in CompactLabels /\ "sweepIdx" \notin SlotLabels \cup MergeLabels
    BY DEF CompactLabels, SlotLabels, MergeLabels
  <2>2. cp' \in [Client -> Compacting]
    <3>1. PICK n : n = PackDeleteBatch
      OBVIOUS
    <3>2. n \in 0..PackDeleteBatch
      BY <3>1, CompactionAssumption
    <3>3. cp' = [cp EXCEPT ![c].left = n]
      BY <1>7, <3>1
    <3> QED BY <1>0, <3>2, <3>3 DEF Compacting
  <2>3. cp'[c].logs = cp[c].logs /\ cp'[c].ckpts = cp[c].ckpts /\ \A d \in Client : d # c => cp'[d] = cp[d]
    BY <1>0, <1>7 DEF Compacting
  <2>4. bodies' \in SUBSET Pack /\ idxs' \in SUBSET Pack
    BY <1>1, LocalFacts
  <2> QED BY <1>0, <1>1, <1>7, <2>1, <2>2, <2>3, <2>4, CompactGoes
<1>8. CASE /\ op' = [op EXCEPT ![c].n = @ + 1]
           /\ cp' = [cp EXCEPT ![c].packs = {}]
           /\ CallRefresh(c, "sweepList")
           /\ UNCHANGED <<log, ckpt, aged, corrupt>>
  <2>1. Evolves /\ BucketOK'
    BY <1>1, <1>8, StillBucket
  <2>2. cp' \in [Client -> Compacting]
    BY <1>0, <1>8 DEF Compacting
  <2>3. cp'[c].logs = cp[c].logs /\ cp'[c].ckpts = cp[c].ckpts /\ \A d \in Client : d # c => cp'[d] = cp[d]
    BY <1>0, <1>8 DEF Compacting
  <2>4. op' \in [Client -> Op]
    <3>1. op[c].n + 1 \in Nat
      BY <1>0 DEF Op
    <3> QED BY <1>0, <1>8, <3>1 DEF Op
  <2>5. op'[c].branch = None /\ op'[c].base = op[c].base /\ \A d \in Client : d # c => op'[d] = op[d]
    BY <1>0, <1>8 DEF Op
  <2>6. RestOK'
    BY <1>0, <1>1, <1>8, <2>2 DEF CompactionTypeOK, TypeOK, RestOK
  <2>7. "sweepList" \in AllReturns /\ "sweepList" \notin PushLabels \cup MergeLabels /\ "sweepList" # "probe"
    BY DEF AllReturns, PushLabels, CommitLabels, LandedLabels, MergeLabels
  <2>8. Reaches(op'[c].base, manifest')
    BY <1>0, <1>1, <2>5
  <2> QED BY <1>1, <1>8, <2>1, <2>2, <2>3, <2>4, <2>5, <2>6, <2>7, <2>8, RefreshKeeps
<1>9. CASE /\ cp' = [cp EXCEPT ![c] = NoCompacting] /\ Return(c, "ok")
           /\ UNCHANGED <<log, ckpt, aged>>
  <2>1. Evolves /\ BucketOK'
    BY <1>1, <1>9, StillBucket
  <2>2. cp' \in [Client -> Compacting] /\ cp'[c] = NoCompacting /\ \A d \in Client : d # c => cp'[d] = cp[d]
    BY <1>0, <1>9, NoCompactingIs
  <2>3. RestOK'
    BY <1>0, <1>1, <1>9, <2>2 DEF CompactionTypeOK, TypeOK, RestOK
  <2> QED BY <1>1, <1>9, <2>1, <2>2, <2>3, ReturnKeeps
<1>10. \/ /\ cp[c].logs # {}
          /\ LET s == Smallest(cp[c].logs) IN
               /\ log' = [log EXCEPT ![s] = None]
               /\ aged' = aged \ {<<"log", s>>}
               /\ cp' = [cp EXCEPT ![c].logs = @ \ {s}]
          /\ UNCHANGED <<ckpt, pc, rd, op, corrupt>>
       \/ /\ cp[c].logs = {} /\ cp[c].ckpts # {}
          /\ LET s == Smallest(cp[c].ckpts) IN
               /\ ckpt' = [ckpt EXCEPT ![s] = None]
               /\ aged' = aged \ {<<"ckpt", s>>}
               /\ cp' = [cp EXCEPT ![c].ckpts = @ \ {s}]
          /\ UNCHANGED <<log, pc, rd, op, corrupt>>
       \/ /\ cp' = [cp EXCEPT ![c].left = PackDeleteBatch]
          /\ pc' = [pc EXCEPT ![c] = "sweepIdx"]
          /\ UNCHANGED <<log, ckpt, aged, rd, op, corrupt>>
       \/ /\ op' = [op EXCEPT ![c].n = @ + 1]
          /\ cp' = [cp EXCEPT ![c].packs = {}]
          /\ CallRefresh(c, "sweepList")
          /\ UNCHANGED <<log, ckpt, aged, corrupt>>
       \/ /\ cp' = [cp EXCEPT ![c] = NoCompacting] /\ Return(c, "ok")
          /\ UNCHANGED <<log, ckpt, aged>>
  BY ZenonT(30) DEF SweepDelete, Goto
<1> QED BY <1>5, <1>6, <1>7, <1>8, <1>9, <1>10

\* Packs are deleted in batches, the idx before the body.
LEMMA SweepIdxKeeps ==
    ASSUME CompactionInv, NEW c \in Client, SweepIdx(c) PROVE CompactionInv'
<1>1. /\ UNCHANGED <<manifest, log, ckpt, bodies, view, pending, staged, hist, acked, lost, calls, windows>>
      /\ pc[c] = "sweepIdx"
  BY DEF SweepIdx, sessionVars
<1>0. /\ CompactionTypeOK /\ TypeOK /\ pc \in [Client -> Label] /\ op \in [Client -> Op] /\ cp \in [Client -> Compacting]
      /\ cp[c] \in Compacting /\ op[c] \in Op /\ Reaches(op[c].base, manifest)
      /\ pc[c] \in CompactLabels /\ bodies \in SUBSET Pack /\ idxs \in SUBSET Pack /\ aged \in SUBSET Key
  <2>1. CompactionTypeOK /\ TypeOK /\ pc[c] \in CompactLabels
    BY <1>1, LocalFacts DEF CompactLabels
  <2> QED BY <2>1, LocalFacts DEF CompactionTypeOK
<1>2. /\ {"sweepIdx", "sweepBody"} \subseteq CompactLabels
      /\ {"sweepIdx", "sweepBody"} \cap (SlotLabels \cup MergeLabels) = {}
  BY DEF CompactLabels, SlotLabels, MergeLabels
<1>3. ASSUME cp[c].left > 0, NEW p \in cp[c].packs, idxs' = idxs \ {p}, aged' = aged \ {<<"idx", p>>},
             op' = [op EXCEPT ![c].send = p], pc' = [pc EXCEPT ![c] = "sweepBody"], UNCHANGED <<rd, cp, corrupt>>
      PROVE  CompactionInv'
  <2>1. p \in SUBSET Snapshot
    BY <1>0 DEF Compacting, Pack
  <2>2. op' \in [Client -> Op]
    BY <1>0, <1>3, <2>1 DEF Op
  <2>3. op'[c].base = op[c].base /\ op'[c].branch = op[c].branch /\ \A d \in Client : d # c => op'[d] = op[d]
    BY <1>0, <1>3 DEF Op
  <2>4. idxs' \in SUBSET Pack /\ aged' \in SUBSET Key /\ bodies' \in SUBSET Pack /\ cp' \in [Client -> Compacting]
    BY <1>0, <1>1, <1>3
  <2> QED BY <1>0, <1>1, <1>2, <1>3, <2>2, <2>3, <2>4, CompactGoes
<1>4. CASE /\ cp' = [cp EXCEPT ![c].left = PackDeleteBatch]
           /\ UNCHANGED <<idxs, aged, pc, rd, op, corrupt>>
  <2>1. PICK n : n = PackDeleteBatch
    OBVIOUS
  <2>2. n \in 0..PackDeleteBatch
    BY <2>1, CompactionAssumption
  <2>3. cp' = [cp EXCEPT ![c].left = n]
    BY <1>4, <2>1
  <2>4. cp' \in [Client -> Compacting]
    BY <1>0, <2>2, <2>3 DEF Compacting
  <2>5. cp'[c].logs = cp[c].logs /\ cp'[c].ckpts = cp[c].ckpts /\ \A d \in Client : d # c => cp'[d] = cp[d]
    BY <1>0, <2>3 DEF Compacting
  <2>6. pc' = [pc EXCEPT ![c] = "sweepIdx"] /\ bodies' \in SUBSET Pack /\ idxs' \in SUBSET Pack /\ aged' \in SUBSET Key
    BY <1>0, <1>1, <1>4
  <2>7. op' \in [Client -> Op] /\ op'[c].branch = op[c].branch /\ Reaches(op'[c].base, manifest)
           /\ \A d \in Client : d # c => op'[d] = op[d]
    BY <1>0, <1>4
  <2> QED BY <1>0, <1>1, <1>2, <1>4, <2>4, <2>5, <2>6, <2>7, CompactGoes
<1>5. CASE cp' = [cp EXCEPT ![c] = NoCompacting] /\ Return(c, "ok") /\ UNCHANGED <<idxs, aged>>
  <2>1. Evolves /\ BucketOK'
    BY <1>1, StillBucket
  <2>2. cp' \in [Client -> Compacting] /\ cp'[c] = NoCompacting /\ \A d \in Client : d # c => cp'[d] = cp[d]
    BY <1>0, <1>5, NoCompactingIs
  <2>3. RestOK'
    BY <1>0, <1>1, <1>5, <2>2 DEF CompactionTypeOK, TypeOK, RestOK
  <2> QED BY <1>1, <1>5, <2>1, <2>2, <2>3, ReturnKeeps
<1>6. \/ /\ cp[c].left > 0
         /\ \E p \in cp[c].packs :
               /\ idxs' = idxs \ {p}
               /\ aged' = aged \ {<<"idx", p>>}
               /\ op' = [op EXCEPT ![c].send = p]
         /\ pc' = [pc EXCEPT ![c] = "sweepBody"]
         /\ UNCHANGED <<rd, cp, corrupt>>
      \/ /\ cp' = [cp EXCEPT ![c].left = PackDeleteBatch]
         /\ UNCHANGED <<idxs, aged, pc, rd, op, corrupt>>
      \/ cp' = [cp EXCEPT ![c] = NoCompacting] /\ Return(c, "ok") /\ UNCHANGED <<idxs, aged>>
  BY ZenonT(30) DEF SweepIdx, MoreInBatch, Goto
<1> QED BY <1>3, <1>4, <1>5, <1>6

LEMMA SweepBodyKeeps ==
    ASSUME CompactionInv, NEW c \in Client, SweepBody(c) PROVE CompactionInv'
<1>1. /\ UNCHANGED <<manifest, log, ckpt, idxs, view, rd, pending, staged, hist, acked, corrupt, lost, calls, windows>>
      /\ pc[c] = "sweepBody" /\ pc' = [pc EXCEPT ![c] = "sweepIdx"]
      /\ bodies' = bodies \ {op[c].send} /\ aged' = aged \ {<<"body", op[c].send>>}
      /\ cp' = [cp EXCEPT ![c].packs = @ \ {op[c].send}, ![c].left = @ - 1]
      /\ op' = [op EXCEPT ![c].send = {}]
  BY DEF SweepBody, sessionVars, historyVars, Goto
<1>0. /\ pc \in [Client -> Label] /\ op \in [Client -> Op] /\ cp \in [Client -> Compacting]
      /\ cp[c] \in Compacting /\ op[c] \in Op /\ Reaches(op[c].base, manifest) /\ ClientOK(c)
      /\ pc[c] \in CompactLabels /\ bodies \in SUBSET Pack /\ idxs \in SUBSET Pack /\ aged \in SUBSET Key
  <2>1. CompactionTypeOK /\ pc[c] \in CompactLabels
    BY <1>1, LocalFacts DEF CompactLabels
  <2> QED BY <2>1, LocalFacts DEF CompactionTypeOK
<1>2. PICK n, packs : n = cp[c].left - 1 /\ packs = cp[c].packs \ {op[c].send}
  OBVIOUS
<1>3. n \in 0..PackDeleteBatch /\ packs \in SUBSET Pack
  <2>1. cp[c].left \in 0..PackDeleteBatch /\ cp[c].left > 0 /\ cp[c].packs \in SUBSET Pack
    BY <1>0, <1>1 DEF ClientOK, StepInv, Compacting
  <2> QED BY <1>2, <2>1, CompactionAssumption
<1>4. cp' = [cp EXCEPT ![c].packs = packs, ![c].left = n]
  BY <1>0, <1>1, <1>2 DEF Compacting
<1>5. cp' \in [Client -> Compacting]
  BY <1>0, <1>3, <1>4 DEF Compacting
<1>6. cp'[c].logs = cp[c].logs /\ cp'[c].ckpts = cp[c].ckpts /\ \A d \in Client : d # c => cp'[d] = cp[d]
  BY <1>0, <1>4 DEF Compacting
<1>7. op' \in [Client -> Op]
  BY <1>0, <1>1 DEF Op
<1>8. op'[c].base = op[c].base /\ op'[c].branch = op[c].branch /\ \A d \in Client : d # c => op'[d] = op[d]
  BY <1>0, <1>1 DEF Op
<1>9. bodies' \in SUBSET Pack /\ idxs' \in SUBSET Pack /\ aged' \in SUBSET Key
  BY <1>0, <1>1
<1>10. "sweepIdx" \in CompactLabels /\ "sweepIdx" \notin SlotLabels \cup MergeLabels
  BY DEF CompactLabels, SlotLabels, MergeLabels
<1> QED BY <1>0, <1>1, <1>5, <1>6, <1>7, <1>8, <1>9, <1>10, CompactGoes

LEMMA SweepKeeps ==
    ASSUME CompactionInv, NEW c \in Client, SweepStep(c) PROVE CompactionInv'
BY SweepListKeeps, SweepDeleteKeeps, SweepIdxKeeps, SweepBodyKeeps DEF SweepStep

-----------------------------------------------------------------------------
(* The environment, and the whole                                            *)

\* A grace window changes no object, and no client.
LEMMA GraceKeeps ==
    ASSUME CompactionInv, GraceElapses PROVE CompactionInv'
<1>1. /\ UNCHANGED <<manifest, log, ckpt, bodies, idxs, pc, view, rd, op, pending, staged, hist, acked, corrupt, lost, calls, cp>>
      /\ windows < MaxWindows /\ aged' = Present /\ windows' = windows + 1
  BY DEF GraceElapses, vars, bucketVars, sessionVars, historyVars
<1>2. CompactionTypeOK /\ TypeOK /\ bodies \in SUBSET Pack /\ idxs \in SUBSET Pack /\ windows \in 0..MaxWindows
  BY DEF CompactionInv, CompactionTypeOK, TypeOK
<1>3. Present \in SUBSET Key
  BY <1>2 DEF Present, Key
<1>4. windows' \in 0..MaxWindows
  BY <1>1, <1>2, CompactionAssumption
<1>5. CompactionTypeOK'
  <2> HIDE DEF Present
  <2> QED BY <1>1, <1>2, <1>3, <1>4 DEF CompactionTypeOK, TypeOK
<1>6. Evolves /\ BucketOK'
  BY <1>1, StillBucket
<1>7. ASSUME NEW c \in Client PROVE ClientOK(c)'
  <2>1. manifest' \in Manifest \cup {None} /\ BucketOK /\ ClientOK(c)
    BY <1>1, <1>2 DEF CompactionInv, TypeOK
  <2>2. pc'[c] = pc[c] /\ view'[c] = view[c] /\ rd'[c] = rd[c] /\ op'[c] = op[c] /\ cp'[c] = cp[c]
    BY <1>1
  <2> QED BY <1>2, <1>6, <2>1, <2>2, OthersKeep
<1> QED BY <1>5, <1>6, <1>7 DEF CompactionInv

\* A stuttering step keeps the invariant too.
LEMMA StillKeeps ==
    ASSUME CompactionInv, UNCHANGED allVars PROVE CompactionInv'
<1>1. UNCHANGED <<manifest, log, ckpt, bodies, idxs, pc, view, rd, op, pending, staged, hist, acked, corrupt, lost, calls,
                  cp, aged, windows>>
  BY DEF allVars, compactVars, vars, bucketVars, sessionVars, historyVars
<1>2. CompactionTypeOK /\ CompactionTypeOK'
  BY <1>1 DEF CompactionInv, CompactionTypeOK, TypeOK
<1>3. Evolves /\ BucketOK'
  BY <1>1, StillBucket
<1>4. ASSUME NEW c \in Client PROVE ClientOK(c)'
  <2>1. manifest' \in Manifest \cup {None} /\ BucketOK /\ ClientOK(c)
    BY <1>1, <1>2 DEF CompactionInv, CompactionTypeOK, TypeOK
  <2>2. pc'[c] = pc[c] /\ view'[c] = view[c] /\ rd'[c] = rd[c] /\ op'[c] = op[c] /\ cp'[c] = cp[c]
    BY <1>1
  <2> QED BY <1>2, <1>3, <2>1, <2>2, OthersKeep
<1> QED BY <1>2, <1>3, <1>4 DEF CompactionInv

\* The steps of BucketWal, taken beside a compactor.
LEMMA WalKeeps ==
    ASSUME CompactionInv, NEW c \in Client, Progress(c), KeepCompactVars PROVE CompactionInv'
<1>1. CASE RefreshStep(c)
  BY <1>1, GetManifestKeeps, GetCheckpointKeeps, GetLogKeeps, GetIdxKeeps DEF RefreshStep
<1>2. CASE PushStep(c)
  <2>1. CASE Claim(c)
    BY <2>1, ClaimSlotKeeps DEF Claim
  <2>2. CASE Ensure(c)
    BY <2>2, EnsurePresentKeeps DEF Ensure
  <2>3. CASE Listed(c) \/ Probe(c) \/ Upload(c) \/ PutPack(c) \/ PutIdx(c) \/ UpdateRef(c) \/ Attempt(c)
    BY <2>3, ListedKeeps, ProbeKeeps, UploadKeeps, PutPackKeeps, PutIdxKeeps, UpdateRefKeeps, AttemptKeeps
  <2>4. CASE Cas(c) \/ FoldPut(c) \/ FoldCas(c) \/ Done(c)
    BY <2>4, CasKeeps, FoldPutKeeps, FoldCasKeeps, DoneKeeps
  <2> QED BY <1>2, <2>1, <2>2, <2>3, <2>4 DEF PushStep
<1>3. CASE FetchStep(c)
  BY <1>3, FetchRefsKeeps, ReadObjectKeeps DEF FetchStep
<1>4. CASE Fail(c) \/ Reopen(c)
  BY <1>4, FailKeeps, ReopenKeeps
<1> QED BY <1>1, <1>2, <1>3, <1>4 DEF Progress, Step

\* Every step of everyone keeps the invariant.
LEMMA CompactionNextKeeps == CompactionInv /\ [CompactionNext]_allVars => CompactionInv'
<1> SUFFICES ASSUME CompactionInv, [CompactionNext]_allVars PROVE CompactionInv'
  OBVIOUS
<1>1. CASE UNCHANGED allVars
  BY <1>1, StillKeeps
<1>2. ASSUME NEW c \in Pusher, BeginPush(c) \/ BeginFetch(c), KeepCompactVars PROVE CompactionInv'
  <2>1. c \in Client
    BY CompactionAssumption
  <2> QED BY <1>2, <2>1, BeginPushKeeps, BeginFetchKeeps
<1>3. ASSUME NEW c \in Client, Progress(c), KeepCompactVars PROVE CompactionInv'
  BY <1>3, WalKeeps
<1>4. ASSUME NEW c \in Compactor, BeginCompact(c) \/ ConsolidateStep(c) \/ SweepStep(c) PROVE CompactionInv'
  <2>1. c \in Client
    BY CompactionAssumption
  <2> QED BY <1>4, <2>1, BeginCompactKeeps, ConsolidateKeeps, SweepKeeps
<1>5. CASE GraceElapses
  BY <1>5, GraceKeeps
<1> QED BY <1>1, <1>2, <1>3, <1>4, <1>5 DEF CompactionNext

\* It holds at first.
LEMMA CompactionBegins == CompactionInit => CompactionInv
<1> SUFFICES ASSUME CompactionInit PROVE CompactionInv
  OBVIOUS
<1>1. Init
  BY DEF CompactionInit
<1>2. TypeOK /\ Inv
  BY <1>1, InitInv DEF Inv
<1>3. CompactionTypeOK
  <2>1. 0 \in 0..MaxWindows
    BY CompactionAssumption
  <2> QED BY <1>2, <2>1, NoCompactingIs DEF CompactionInit, CompactionTypeOK
<1>4. hist[0] = [refs |-> NoRefs, packs |-> {}] /\ \A s \in Slot : hist[s] = None /\ ckpt[s] = None
  BY <1>1, WalAssumption DEF Init, Slot
<1>5. manifest = None
  BY <1>1 DEF Init
<1>6. BucketOK
  BY <1>4, <1>5 DEF BucketOK, StatesInv, TailInv, CheckpointsInv
<1>7. ASSUME NEW c \in Client PROVE ClientOK(c)
  <2>1. pc[c] = "idle" /\ rd[c] = NoReading /\ op[c] = NoOp /\ view[c] = None /\ cp[c] = NoCompacting /\ At(c) = "idle"
    BY <1>1 DEF Init, CompactionInit, At, ReadLabels, WalkLabels
  <2>2. StepInv(c)
    BY <2>1 DEF StepInv, ReadLabels, WalkLabels, PushLabels, CommitLabels, LandedLabels, CompactLabels, MergeLabels
  <2>3. PassedInv(c)
    BY <2>1, NoCompactingIs DEF PassedInv, ViewTag, Reaches, NoOp, WalkLabels
  <2>4. TrueWalk(c) /\ TrueView(c)
    BY <2>1 DEF TrueWalk, TrueView, WalkLabels
  <2>5. SlotInv(c)
    BY <2>1 DEF SlotInv, SlotLabels, ClaimedLabels, FoldedLabels
  <2> QED BY <2>2, <2>3, <2>4, <2>5 DEF ClientOK
<1> QED BY <1>3, <1>6, <1>7 DEF CompactionInv

LEMMA AlwaysCompactionInv == CompactionSpec => []CompactionInv
BY CompactionBegins, CompactionNextKeeps, PTL DEF CompactionSpec

-----------------------------------------------------------------------------
(* Theorems                                                                  *)

\* Whatever pushers, fetchers and compactors do, and however long they stall,
\* every variable keeps its type (consolidate, sweep).
THEOREM CompactionTypeCorrect == CompactionSpec => []CompactionTypeOK
<1>1. CompactionInv => CompactionTypeOK
  BY DEF CompactionInv
<1> QED BY <1>1, AlwaysCompactionInv, PTL

\* "a failure between any two operations leaves a bucket a cold start reads"
\* (compact.rs:9), at every step and with no assumption on how long anybody
\* takes: the checkpoint that the manifest names is there and true, and every
\* committed log entry after it is there.
THEOREM ColdStartsRead == CompactionSpec => []ColdStartReads
<1>1. CompactionInv => ColdStartReads
  <2> SUFFICES ASSUME CompactionInv, manifest # None PROVE ColdStartReads
    BY DEF ColdStartReads
  <2>1. /\ BucketOK /\ manifest \in Manifest /\ Folded = manifest.ck
    BY DEF CompactionInv, CompactionTypeOK, TypeOK, Folded, FoldOf
  <2>2. manifest.ck # 0 => ckpt[manifest.ck] = hist[manifest.ck]
    <3> SUFFICES ASSUME manifest.ck # 0 PROVE ckpt[manifest.ck] = hist[manifest.ck]
      OBVIOUS
    <3>1. manifest.ck \in Slot /\ Folded <= manifest.ck
      BY <2>1, WalAssumption DEF Manifest, Slot
    <3>2. ckpt[manifest.ck] # None /\ hist[manifest.ck] # None
      BY <2>1 DEF BucketOK, StatesInv
    <3> QED BY <2>1, <3>1, <3>2 DEF BucketOK, CheckpointsInv
  <2>3. \A s \in Slot : manifest.ck < s /\ hist[s] # None => log[s] # None
    BY <2>1 DEF BucketOK, TailInv
  <2> QED BY <2>2, <2>3 DEF ColdStartReads
<1> QED BY <1>1, AlwaysCompactionInv, PTL

\* A client whose view is of the manifest that is there sees what was
\* committed: a compare-and-swap that succeeds was decided on the truth, even
\* if compactors replaced the chain under the walk that read it (refresh_once,
\* update_ref, consolidate).
THEOREM CurrentViewsAreTrue ==
    CompactionSpec => [](\A c \in Client : view[c] # None /\ view[c].m = manifest =>
                            /\ view[c].refs = CurrentState.refs
                            /\ view[c].packs = CurrentState.packs)
<1> DEFINE Truth == \A c \in Client : view[c] # None /\ view[c].m = manifest =>
                       /\ view[c].refs = CurrentState.refs
                       /\ view[c].packs = CurrentState.packs
<1>1. CompactionInv => Truth
  <2> SUFFICES ASSUME CompactionInv, NEW c \in Client, view[c] # None, view[c].m = manifest
               PROVE  view[c].refs = CurrentState.refs /\ view[c].packs = CurrentState.packs
    OBVIOUS
  <2>1. TypeOK /\ TrueView(c)
    BY DEF CompactionInv, CompactionTypeOK, ClientOK
  <2>2. manifest # None
    BY <2>1, ViewTags, NoneAssumption
  <2>3. Folded = view[c].m.ck /\ Head(manifest) = view[c].m.head
    BY <2>2 DEF Folded, FoldOf, Head
  <2> QED BY <2>1, <2>3 DEF TrueView, CurrentState
<1> QED BY <1>1, AlwaysCompactionInv, PTL

\* A step beside a compactor that moves the manifest is a commit, a fold or a
\* consolidation.
LEMMA WhoMoves ==
    ASSUME CompactionNext, manifest' # manifest
    PROVE  \E c \in Client : Cas(c) \/ FoldCas(c) \/ MergeCas(c)
<1>1. ASSUME NEW c \in Pusher, BeginPush(c) \/ BeginFetch(c) PROVE FALSE
  <2>1. UNCHANGED bucketVars
    BY <1>1, ZenonT(30) DEF BeginPush, BeginFetch
  <2> QED BY <2>1 DEF bucketVars
<1>2. ASSUME NEW c \in Client, Progress(c) PROVE Cas(c) \/ FoldCas(c)
  BY <1>2, StillManifest
<1>3. ASSUME NEW c \in Compactor, BeginCompact(c) \/ ConsolidateStep(c) \/ SweepStep(c) PROVE MergeCas(c)
  <2>1. BeginCompact(c) \/ SweepStep(c) => UNCHANGED manifest
    <3>1. BeginCompact(c) \/ SweepList(c) => UNCHANGED bucketVars
      BY ZenonT(30) DEF BeginCompact, SweepList
    <3>2. SweepDelete(c) => UNCHANGED manifest
      BY ZenonT(30) DEF SweepDelete
    <3>3. SweepIdx(c) => UNCHANGED manifest
      BY ZenonT(30) DEF SweepIdx
    <3>4. SweepBody(c) => UNCHANGED manifest
      BY ZenonT(30) DEF SweepBody
    <3> QED BY <3>1, <3>2, <3>3, <3>4 DEF SweepStep, bucketVars
  <2>2. Compact(c) \/ Plan(c) \/ ReadMembers(c) \/ MergePut(c) \/ MergeIdx(c) \/ Fence(c) \/ MergeDone(c)
          => UNCHANGED manifest
    BY DEF Compact, Plan, ReadMembers, MergePut, MergeIdx, Fence, MergeDone, bucketVars
  <2>3. MergeClaim(c) \/ PutCheckpoint(c) \/ MergeEnsure(c) => UNCHANGED manifest
    BY DEF MergeClaim, ClaimSlot, PutCheckpoint, MergeEnsure, EnsurePacksPresent, bucketVars
  <2> QED BY <1>3, <2>1, <2>2, <2>3 DEF ConsolidateStep
<1>4. GraceElapses => UNCHANGED manifest
  BY DEF GraceElapses, vars, bucketVars
<1> QED BY <1>1, <1>2, <1>3, <1>4, CompactionAssumption DEF CompactionNext

\* A step that moves the manifest leaves a newer head, or a newer fold of the same head.
LEMMA ManifestMoves ==
    ASSUME CompactionInv, CompactionNext, manifest' # manifest
    PROVE  /\ manifest' # None
           /\ \/ Head(manifest') > Head(manifest)
              \/ Head(manifest') = Head(manifest) /\ manifest'.ck > manifest.ck
<1>1. PICK c \in Client : Cas(c) \/ FoldCas(c) \/ MergeCas(c)
  BY WhoMoves
<1>2. TypeOK /\ ClientOK(c) /\ manifest \in Manifest \cup {None}
  BY LocalFacts
<1>3. CASE Cas(c) \/ MergeCas(c)
  <2>1. /\ pc[c] \in SlotLabels /\ manifest = op[c].base
        /\ manifest' = NewManifest(c) \/ manifest' = MergeManifest(c)
    BY <1>3 DEF Cas, MergeCas, TagMatches, SlotLabels
  <2>2. manifest'.head = op[c].seq /\ manifest' \in Manifest
    <3>1. pc[c] = "cas" => manifest' \in Manifest
      BY <1>3, PushCommits DEF Cas, MergeCas, TagMatches
    <3>2. pc[c] = "mergeCas" => manifest' \in Manifest
      BY <1>3, MergeCommits DEF Cas, MergeCas, TagMatches
    <3> QED BY <1>3, <2>1, <3>1, <3>2 DEF Cas, MergeCas, NewManifest, MergeManifest
  <2>3. Head(op[c].base) < op[c].seq
    BY <1>2, <2>1 DEF ClientOK, SlotInv
  <2>4. manifest' # None /\ Head(manifest') = op[c].seq
    BY <2>2, NoneAssumption DEF Head
  <2>5. Head(manifest) \in Int /\ op[c].seq \in Int
    BY <1>2, <2>1, Ranges
  <2> QED BY <2>1, <2>3, <2>4, <2>5
<1>4. CASE FoldCas(c)
  <2>1. /\ pc[c] = "foldCas" /\ manifest = view[c].m
        /\ manifest' = [view[c].m EXCEPT !.ck = view[c].m.head]
    BY <1>4 DEF FoldCas, TagMatches
  <2>2. view[c] # None /\ view[c].m \in Manifest /\ view[c].m.ck < view[c].m.head
    BY <1>2, <2>1, ViewTags DEF ClientOK, StepInv, SlotInv
  <2>3. manifest' \in Manifest /\ manifest'.head = manifest.head /\ manifest'.ck = manifest.head
    BY <2>1, <2>2, WalAssumption DEF Manifest, Slot
  <2>4. manifest # None /\ manifest' # None
    BY <2>1, <2>2, <2>3, NoneAssumption
  <2>5. Head(manifest') = Head(manifest) /\ manifest.head \in Int /\ manifest.ck \in Int
    BY <2>1, <2>2, <2>3, <2>4, WalAssumption DEF Head, Manifest, Slot
  <2> QED BY <2>1, <2>2, <2>3, <2>4, <2>5
<1> QED BY <1>1, <1>3, <1>4

\* With compactors too the manifest only moves forward, so that no tag recurs
\* and no compare-and-swap is fooled by one (put_if_tag in update_ref,
\* maybe_fold_checkpoint and consolidate).
THEOREM CompactedManifestAdvances == CompactionSpec => ManifestAdvances
<1> DEFINE Advance == manifest' # manifest =>
               /\ manifest' # None
               /\ \/ Head(manifest') > Head(manifest)
                  \/ Head(manifest') = Head(manifest) /\ manifest'.ck > manifest.ck
<1>1. ASSUME CompactionInv, [CompactionNext]_allVars PROVE [Advance]_vars
  BY <1>1, ManifestMoves DEF allVars, vars, bucketVars
<1> QED BY <1>1, AlwaysCompactionInv, PTL DEF CompactionSpec, ManifestAdvances
=============================================================================
