----------------------- MODULE TimelyCompactionProofs -----------------------
(***************************************************************************)
(* Proofs about BucketCompaction that rest on what Environment promises.   *)
(*                                                                         *)
(* Over a bucket on which no writer stalls for a whole grace window        *)
(* ("timely"), while readers and sweeps still may, compaction cannot be    *)
(* told from its absence: views are true, acknowledged pushes are there,   *)
(* and the refs move as if nobody compacted.  If, besides, nobody uploads  *)
(* a pack that is byte for byte an old orphan or one that a running sweep  *)
(* has found to be ("fresh"), every published ref can be read, and nobody  *)
(* takes what a sweep deleted for damage.                                  *)
(***************************************************************************)
EXTENDS BucketCompactionProofs

-----------------------------------------------------------------------------
(* Without stalled writers: the second inductive invariant                   *)

\* The manifest a client is about to commit on, from the refresh that reads it
\* to the compare-and-swap.
CommitsOn(c, m) ==
    \/ pc[c] \in WalkLabels /\ rd[c].ret \in {"attempt", "fence"} /\ m = rd[c].m
    \/ pc[c] \in {"attempt", "fence"} /\ m = ViewTag(c)
    \/ pc[c] \in SlotLabels /\ m = op[c].base

\* c has taken slot s and its commit can still succeed.
Owns(c, s) == pc[c] \in ClaimedLabels /\ op[c].seq = s /\ op[c].base = manifest

\* Slots a sweep has emptied, or is to, or may from the checkpoints it finds old.
Doomed(s) ==
    \/ \E k \in Slot : s <= k /\ <<"ckpt", k>> \in aged
    \/ \E d \in Client : s \in cp[d].logs
    \/ s <= Folded /\ log[s] = None

\* Nothing is or will be committed in slot s.
Dead(s) == hist[s] = None /\ \A d \in Client : ~Owns(d, s)

\* No writer finds a slot empty that a committed entry was in: those ahead of the
\* manifest it is to commit on are dead.
DoomInv ==
    /\ \A k \in Slot : <<"ckpt", k>> \in aged => ckpt[k] # None
    /\ \A s \in Slot : Doomed(s) /\ Head(manifest) < s => Dead(s)
    /\ \A c \in Client, m \in Manifest \cup {None}, s \in Slot :
          CommitsOn(c, m) /\ Doomed(s) /\ Head(m) < s => Dead(s)

\* Slots are taken in order.
GapInv ==
    \A s, t \in Slot : Folded < t /\ t < s /\ log[s] # None => log[t] # None

\* One that waits for its commit and has not been overtaken belongs to one client.
OwnersInv ==
    \A c, d \in Client :
        c # d /\ pc[c] \in ClaimedLabels /\ pc[d] \in ClaimedLabels /\ op[c].seq = op[d].seq
            => op[c].seq <= Folded

\* A push that is in the log is the step from the state of its parent to its own.
TrueEntry(s) ==
    /\ log[s].branch \in Branch /\ log[s].new \in Snapshot
    /\ log[s].parent < s /\ hist[log[s].parent] # None
    /\ hist[s] = Extend(hist[log[s].parent], log[s])

\* What is there of the committed entries and checkpoints is true.
RecordsInv ==
    \A s \in Slot : hist[s] # None =>
        /\ log[s] # None /\ log[s].branch # None => TrueEntry(s)
        /\ ckpt[s] # None => ckpt[s] = hist[s]
        /\ Folded < s => Folded <= log[s].parent

\* State g has grown out of state h.
Follows(h, g) ==
    /\ UNION h.packs \subseteq UNION g.packs
    /\ \A b \in Branch : h.refs[b] # None => g.refs[b] # None /\ h.refs[b] \in Ancestors[g.refs[b]]

\* All that the refs of a state reach is in its packs.
Whole(h) == \A b \in Branch : h.refs[b] # None => Ancestors[h.refs[b]] \subseteq UNION h.packs

GrowthInv ==
    /\ \A s \in 0..MaxSeq : hist[s] # None => Whole(hist[s])
    /\ \A s, t \in 0..MaxSeq : s <= t /\ hist[s] # None /\ hist[t] # None => Follows(hist[s], hist[t])

\* The walk of refresh_once, from whatever fold.
WalkTruth(c) ==
    LET r == rd[c] IN
    pc[c] \in WalkLabels =>
        /\ r.m.ck <= r.m.head /\ hist[r.m.head] # None /\ hist[r.m.ck] # None
        /\ \A s \in Slot : r.m.ck < s /\ s <= r.m.head /\ hist[s] # None /\ log[s] # None =>
              log[s].branch # None /\ r.m.ck <= log[s].parent
        /\ pc[c] = "getCheckpoint" => r.cur = r.m.head /\ r.tail = NoRefs /\ r.packs = {}
        /\ pc[c] \in {"getLog", "getIdx"} =>
              /\ r.m.ck <= r.cur /\ r.cur <= r.m.head
              /\ hist[r.cur] # None /\ hist[r.cur].packs \subseteq hist[r.m.head].packs
              /\ r.refs = hist[r.m.ck].refs
              /\ hist[r.m.ck].packs \subseteq r.packs
              /\ r.packs \cup hist[r.cur].packs = hist[r.m.head].packs \cup hist[r.m.ck].packs
              /\ \A b \in Branch : hist[r.m.head].refs[b] =
                    IF r.tail[b] = None THEN hist[r.cur].refs[b] ELSE r.tail[b]
        /\ pc[c] = "getIdx" => r.cur = r.m.ck

\* A slot is sought and taken ahead of all that are taken.
SeekInv(c) ==
    /\ pc[c] \in {"claim", "mergeClaim"} =>
          \A t \in Slot : Folded < t /\ Head(op[c].base) < t /\ t < op[c].seq => log[t] # None
    /\ pc[c] \in ClaimedLabels => hist[op[c].seq] = None

PushTruth(c) ==
    /\ At(c) \in CommitLabels => (op[c].old # None => op[c].old \in Ancestors[op[c].new])
    /\ pc[c] \in {"claim", "ensure", "cas"} =>
          hist[Head(op[c].base)] # None /\ op[c].old = hist[Head(op[c].base)].refs[op[c].branch]
    /\ At(c) \in LandedLabels => OnBranch(op[c].branch, op[c].new)

\* A merge publishes the packs of the view it was planned on, divided anew.
MergeTruth(c) ==
    /\ At(c) \in {"readMembers", "mergePut", "mergeIdx", "fence"} \cup (SlotLabels \cap MergeLabels) =>
          cp[c].parts # {}
    /\ pc[c] \in SlotLabels \cap MergeLabels =>
          cp[c].kept = KeptPacks(c) /\ Merged(c) \subseteq view[c].packs

TimelyClient(c) ==
    WalkTruth(c) /\ ViewInv(c) /\ SeekInv(c) /\ PushTruth(c) /\ HandOverInv(c) /\ MergeTruth(c)

TimelyBucket == DoomInv /\ GapInv /\ OwnersInv /\ RecordsInv /\ GrowthInv /\ AckedIsDurable

TimelyInv == TimelyBucket /\ \A c \in Client : TimelyClient(c)

-----------------------------------------------------------------------------
(* The frame of a step                                                       *)

\* What a step of client c leaves of the others.
Apart(c) ==
    \A d \in Client : d # c =>
        /\ pc'[d] = pc[d] /\ view'[d] = view[d] /\ rd'[d] = rd[d] /\ op'[d] = op[d]
        /\ cp'[d] = cp[d] /\ pending'[d] = pending[d] /\ staged'[d] = staged[d]

\* What the others may rely on, besides Evolves: committed entries at most go,
\* nothing is committed behind the manifest, branches move forward.
Settles ==
    /\ Evolves
    /\ \A s \in Slot : hist[s] # None /\ log'[s] # None => log'[s] = log[s]
    /\ \A s \in Slot : hist[s] = None /\ s <= Head(manifest) => hist'[s] = None
    /\ Objects \subseteq Objects'
    /\ \A b \in Branch, s \in Snapshot : OnBranch(b, s) => OnBranch(b, s)'

\* The numbers a client holds are in range.
LEMMA Numbers ==
    ASSUME CompactionInv, NEW c \in Client
    PROVE  /\ Head(manifest) \in 0..MaxSeq /\ Folded \in 0..MaxSeq /\ Folded <= Head(manifest)
           /\ Head(ViewTag(c)) \in 0..MaxSeq /\ Head(op[c].base) \in 0..MaxSeq
           /\ Head(ViewTag(c)) <= Head(manifest) /\ Head(op[c].base) <= Head(manifest)
           /\ op[c].seq \in 0..(MaxSeq + 1) /\ rd[c].cur \in 0..MaxSeq
           /\ hist[0] # None /\ hist[Head(manifest)] # None /\ hist[Folded] # None
           /\ pc[c] \in WalkLabels =>
                /\ rd[c].m \in Manifest /\ rd[c].m # None /\ rd[c].m.head \in Slot /\ rd[c].m.ck \in 0..MaxSeq
                /\ rd[c].m.head <= Head(manifest) /\ rd[c].m.ck <= Folded /\ Head(rd[c].m) = rd[c].m.head
           /\ view[c] # None =>
                /\ view[c] \in View /\ view[c].m \in Manifest /\ view[c].m.head \in Slot /\ view[c].m.ck \in 0..MaxSeq
                /\ ViewTag(c) = view[c].m /\ Head(ViewTag(c)) = view[c].m.head
<1>1. /\ TypeOK /\ ClientOK(c) /\ BucketOK /\ manifest \in Manifest \cup {None} /\ op[c] \in Op /\ rd[c] \in Reading
      /\ Reaches(op[c].base, manifest) /\ Reaches(ViewTag(c), manifest)
  BY LocalFacts
<1>2. op[c].base \in Manifest \cup {None} /\ ViewTag(c) \in Manifest \cup {None}
  BY <1>1, ViewTags DEF Op
<1>3. /\ Head(manifest) \in 0..MaxSeq /\ Folded \in 0..MaxSeq
      /\ Head(ViewTag(c)) \in 0..MaxSeq /\ Head(op[c].base) \in 0..MaxSeq
      /\ Head(ViewTag(c)) <= Head(manifest) /\ Head(op[c].base) <= Head(manifest)
  BY <1>1, <1>2, Reached DEF Folded
<1>4. Folded <= Head(manifest)
  BY <1>1, WalAssumption DEF BucketOK, StatesInv, Folded, FoldOf, Head
<1>5. op[c].seq \in 0..(MaxSeq + 1) /\ rd[c].cur \in 0..MaxSeq
  BY <1>1, Ranges
<1>6. hist[0] # None
  BY <1>1, NoneAssumption, NoValues DEF BucketOK, StatesInv, Checkpoint
<1>7. hist[Head(manifest)] # None /\ hist[Folded] # None
  BY <1>1, <1>6 DEF BucketOK, StatesInv, Head, Folded, FoldOf
<1>8. pc[c] \in WalkLabels =>
        /\ rd[c].m \in Manifest /\ rd[c].m # None /\ rd[c].m.head \in Slot /\ rd[c].m.ck \in 0..MaxSeq
        /\ rd[c].m.head <= Head(manifest) /\ rd[c].m.ck <= Folded /\ Head(rd[c].m) = rd[c].m.head
  <2> SUFFICES ASSUME pc[c] \in WalkLabels
               PROVE  /\ rd[c].m \in Manifest /\ rd[c].m # None /\ rd[c].m.head \in Slot /\ rd[c].m.ck \in 0..MaxSeq
                      /\ rd[c].m.head <= Head(manifest) /\ rd[c].m.ck <= Folded /\ Head(rd[c].m) = rd[c].m.head
    OBVIOUS
  <2>1. rd[c].m \in Manifest /\ Reaches(rd[c].m, manifest) /\ rd[c].m # None
    BY <1>1, NoneAssumption DEF ClientOK, PassedInv
  <2>2. Head(rd[c].m) <= Head(manifest) /\ FoldOf(rd[c].m) <= FoldOf(manifest)
    BY <1>1, <2>1, Reached
  <2>3. rd[c].m.head \in Slot /\ rd[c].m.ck \in 0..MaxSeq
    BY <1>1, <2>1, Ranges
  <2> QED BY <2>1, <2>2, <2>3 DEF Head, FoldOf, Folded
<1>9. view[c] # None =>
        /\ view[c] \in View /\ view[c].m \in Manifest /\ view[c].m.head \in Slot /\ view[c].m.ck \in 0..MaxSeq
        /\ ViewTag(c) = view[c].m /\ Head(ViewTag(c)) = view[c].m.head
  BY <1>1, ViewTags, Ranges, NoneAssumption DEF Head
<1> QED BY <1>3, <1>4, <1>5, <1>6, <1>7, <1>8, <1>9

\* A step that leaves the locals of a client keeps what is true of it.
LEMMA OthersTimely ==
    ASSUME CompactionInv, CompactionInv', Settles, NEW d \in Client, TimelyClient(d),
           pc'[d] = pc[d], view'[d] = view[d], rd'[d] = rd[d], op'[d] = op[d], cp'[d] = cp[d],
           pending'[d] = pending[d], staged'[d] = staged[d],
           pc[d] \in ClaimedLabels => hist'[op[d].seq] = None
    PROVE  TimelyClient(d)'
<1>0. /\ Head(manifest) \in 0..MaxSeq /\ Folded \in 0..MaxSeq
      /\ Head(ViewTag(d)) \in 0..MaxSeq /\ Head(op[d].base) \in 0..MaxSeq /\ rd[d].cur \in 0..MaxSeq
      /\ op[d].seq \in 0..(MaxSeq + 1) /\ hist[0] # None
      /\ pc[d] \in WalkLabels =>
           rd[d].m.head \in Slot /\ rd[d].m.ck \in 0..MaxSeq /\ rd[d].m.head <= Head(manifest)
      /\ view[d] # None => view[d].m.head \in Slot
  BY Numbers
<1>1. /\ \A s \in 0..MaxSeq : hist[s] # None => hist'[s] = hist[s]
      /\ Folded <= FoldOf(manifest') /\ FoldOf(manifest') \in 0..MaxSeq
      /\ \A s \in Slot : FoldOf(manifest') < s /\ log[s] # None => log'[s] = log[s]
  <2>1. manifest \in Manifest \cup {None} /\ manifest' \in Manifest \cup {None}
    BY DEF CompactionInv, CompactionTypeOK, TypeOK
  <2> QED BY <2>1, Reached DEF Settles, Evolves, Folded
<1>2. At(d)' = At(d) /\ Head(op[d].base)' = Head(op[d].base) /\ Merged(d)' = Merged(d) /\ KeptPacks(d)' = KeptPacks(d)
  BY DEF At, Head, Merged, KeptPacks, Created
<1>3. WalkTruth(d)'
  <2> SUFFICES ASSUME pc[d] \in WalkLabels PROVE WalkTruth(d)'
    BY DEF WalkTruth
  <2>1. hist[rd[d].m.head] # None /\ hist[rd[d].m.ck] # None /\ rd[d].m.head \in 0..MaxSeq
    BY <1>0, WalAssumption DEF TimelyClient, WalkTruth, Slot
  <2>2. hist'[rd[d].m.head] = hist[rd[d].m.head] /\ hist'[rd[d].m.ck] = hist[rd[d].m.ck]
    BY <1>0, <1>1, <2>1
  <2>3. ASSUME NEW s \in Slot, rd[d].m.ck < s, s <= rd[d].m.head, hist'[s] # None, log'[s] # None
        PROVE  log'[s].branch # None /\ rd[d].m.ck <= log'[s].parent
    <3>1. s <= Head(manifest)
      BY <1>0, <2>3, WalAssumption DEF Slot
    <3>2. hist[s] # None
      BY <2>3, <3>1 DEF Settles
    <3>3. log'[s] = log[s]
      BY <2>3, <3>2 DEF Settles
    <3> QED BY <2>3, <3>2, <3>3 DEF TimelyClient, WalkTruth
  <2>4. pc[d] \in {"getLog", "getIdx"} => hist'[rd[d].cur] = hist[rd[d].cur]
    BY <1>0, <1>1 DEF TimelyClient, WalkTruth
  <2> QED BY <2>1, <2>2, <2>3, <2>4 DEF TimelyClient, WalkTruth
<1>4. ViewInv(d)'
  <2>1. view[d] # None => view[d].m.head \in 0..MaxSeq
    BY <1>0, WalAssumption DEF Slot
  <2> QED BY <1>1, <2>1 DEF TimelyClient, ViewInv
<1>5. SeekInv(d)'
  <2>1. ASSUME pc[d] \in {"claim", "mergeClaim"}, NEW t \in Slot, FoldOf(manifest') < t, Head(op[d].base) < t, t < op[d].seq
        PROVE  log'[t] # None
    <3>1. Folded < t
      BY <1>0, <1>1, <2>1, WalAssumption DEF Slot
    <3>2. log[t] # None
      BY <2>1, <3>1 DEF TimelyClient, SeekInv
    <3> QED BY <1>1, <2>1, <3>2
  <2>2. Folded' = FoldOf(manifest')
    BY DEF Folded, FoldOf
  <2> QED BY <1>2, <2>1, <2>2 DEF TimelyClient, SeekInv
<1>6. PushTruth(d)'
  <2>1. pc[d] \in {"claim", "ensure", "cas"} => hist'[Head(op[d].base)] = hist[Head(op[d].base)]
    BY <1>0, <1>1 DEF TimelyClient, PushTruth
  <2>2. At(d) \in LandedLabels => op[d].branch \in Branch /\ op[d].new \in Snapshot
    BY LocalFacts DEF PushLabels
  <2>3. At(d) \in LandedLabels => OnBranch(op[d].branch, op[d].new)'
    <3> SUFFICES ASSUME At(d) \in LandedLabels PROVE OnBranch(op[d].branch, op[d].new)'
      OBVIOUS
    <3>1. PICK b \in Branch, s \in Snapshot : b = op[d].branch /\ s = op[d].new
      BY <2>2
    <3>2. OnBranch(b, s)'
      BY <3>1 DEF TimelyClient, PushTruth, Settles
    <3> QED BY <3>1, <3>2 DEF OnBranch
  <2> QED BY <1>2, <2>1, <2>3 DEF TimelyClient, PushTruth
<1>7. HandOverInv(d)'
  <2>1. Objects \subseteq Objects'
    BY DEF Settles
  <2> QED BY <1>2, <2>1 DEF TimelyClient, HandOverInv
<1>8. MergeTruth(d)'
  BY <1>2 DEF TimelyClient, MergeTruth
<1> QED BY <1>3, <1>4, <1>5, <1>6, <1>7, <1>8 DEF TimelyClient

\* A step of c that leaves the manifest, the log, the checkpoints and the history.
Quiet(c) ==
    /\ Apart(c) /\ UNCHANGED <<manifest, log, ckpt, hist>> /\ aged' \subseteq aged
    /\ \A a \in acked' : a \in acked \/ OnBranch(a[1], a[2])

\* It keeps the invariant if it takes no slot, begins no commit on an old manifest, and
\* lists for deletion no slot but a doomed one.
LEMMA QuietTimely ==
    ASSUME CompactionInv, CompactionInv', TimelyInv, NEW c \in Client, Quiet(c), TimelyClient(c)',
           \A s \in cp'[c].logs : Doomed(s),
           \A m \in Manifest \cup {None} : CommitsOn(c, m)' => CommitsOn(c, m) \/ m = manifest,
           pc'[c] \in ClaimedLabels => pc[c] \in ClaimedLabels /\ op'[c].seq = op[c].seq /\ op'[c].base = op[c].base
    PROVE  TimelyInv'
<1>1. Evolves
  BY StillBucket DEF Quiet
<1>2. Head(manifest)' = Head(manifest) /\ Folded' = Folded /\ CurrentState' = CurrentState
  BY DEF Quiet, Head, Folded, FoldOf, CurrentState
<1>3. Objects' = Objects /\ \A b \in Branch, s \in Snapshot : OnBranch(b, s)' = OnBranch(b, s)
  BY <1>2 DEF Objects, OnBranch
<1>4. Settles
  BY <1>1, <1>3 DEF Settles, Quiet
<1>5. ASSUME NEW d \in Client PROVE TimelyClient(d)'
  <2>1. CASE d = c
    BY <2>1
  <2>2. CASE d # c
    <3>1. /\ pc'[d] = pc[d] /\ view'[d] = view[d] /\ rd'[d] = rd[d] /\ op'[d] = op[d]
          /\ cp'[d] = cp[d] /\ pending'[d] = pending[d] /\ staged'[d] = staged[d]
      BY <2>2 DEF Quiet, Apart
    <3>2. TimelyClient(d)
      BY DEF TimelyInv
    <3>3. pc[d] \in ClaimedLabels => hist'[op[d].seq] = None
      BY <3>2 DEF Quiet, TimelyClient, SeekInv
    <3> QED BY <1>4, <3>1, <3>2, <3>3, OthersTimely
  <2> QED BY <2>1, <2>2
<1>6. \A s \in Slot : Doomed(s)' => Doomed(s)
  <2> SUFFICES ASSUME NEW s \in Slot, Doomed(s)' PROVE Doomed(s)
    OBVIOUS
  <2>1. CASE \E k \in Slot : s <= k /\ <<"ckpt", k>> \in aged'
    BY <2>1 DEF Doomed, Quiet
  <2>2. CASE \E d \in Client : s \in cp'[d].logs
    <3>1. PICK d \in Client : s \in cp'[d].logs
      BY <2>2
    <3>2. CASE d = c
      BY <3>1, <3>2
    <3>3. CASE d # c
      BY <3>1, <3>3 DEF Doomed, Quiet, Apart
    <3> QED BY <3>2, <3>3
  <2>3. CASE s <= Folded' /\ log'[s] = None
    BY <1>2, <2>3 DEF Doomed, Quiet
  <2> QED BY <2>1, <2>2, <2>3 DEF Doomed
<1>7. \A d \in Client, s \in Slot : Owns(d, s)' => Owns(d, s)
  BY DEF Owns, Quiet, Apart
<1>8. \A s \in Slot : Dead(s) => Dead(s)'
  BY <1>7 DEF Dead, Quiet
<1>9. DoomInv'
  <2>1. \A k \in Slot : <<"ckpt", k>> \in aged' => ckpt'[k] # None
    BY DEF Quiet, TimelyInv, TimelyBucket, DoomInv
  <2>2. \A s \in Slot : Doomed(s)' /\ Head(manifest)' < s => Dead(s)'
    BY <1>2, <1>6, <1>8 DEF TimelyInv, TimelyBucket, DoomInv
  <2>3. ASSUME NEW d \in Client, NEW m \in Manifest \cup {None}, NEW s \in Slot, CommitsOn(d, m)', Doomed(s)', Head(m) < s
        PROVE  Dead(s)'
    <3>1. Doomed(s)
      BY <1>6, <2>3
    <3>2. CASE d = c /\ m = manifest
      BY <1>8, <2>3, <3>1, <3>2 DEF TimelyInv, TimelyBucket, DoomInv
    <3>3. CASE ~(d = c /\ m = manifest)
      <4>1. CommitsOn(d, m)
        <5>1. CASE d = c
          BY <2>3, <3>3, <5>1
        <5>2. CASE d # c
          <6>1. pc'[d] = pc[d] /\ rd'[d] = rd[d] /\ view'[d] = view[d] /\ op'[d] = op[d]
            BY <5>2 DEF Quiet, Apart
          <6> QED BY <2>3, <6>1 DEF CommitsOn, ViewTag
        <5> QED BY <5>1, <5>2
      <4> QED BY <1>8, <2>3, <3>1, <4>1 DEF TimelyInv, TimelyBucket, DoomInv
    <3> QED BY <3>2, <3>3
  <2>4. \A m : Head(m)' = Head(m')
    BY DEF Head
  <2> QED BY <2>1, <2>2, <2>3 DEF DoomInv, Head
<1>10. GapInv'
  BY <1>2 DEF Quiet, TimelyInv, TimelyBucket, GapInv
<1>11. OwnersInv'
  <2>1. \A d \in Client : pc'[d] \in ClaimedLabels => pc[d] \in ClaimedLabels /\ op'[d].seq = op[d].seq
    BY DEF Quiet, Apart
  <2> QED BY <1>2, <2>1 DEF TimelyInv, TimelyBucket, OwnersInv
<1>12. RecordsInv'
  <2>1. \A s \in Slot : TrueEntry(s)' = TrueEntry(s)
    BY DEF TrueEntry, Quiet
  <2> QED BY <1>2, <2>1 DEF Quiet, TimelyInv, TimelyBucket, RecordsInv
<1>13. GrowthInv'
  BY DEF Quiet, TimelyInv, TimelyBucket, GrowthInv, Whole, Follows
<1>14. AckedIsDurable'
  BY <1>2 DEF Quiet, TimelyInv, TimelyBucket, AckedIsDurable, OnBranch
<1> QED BY <1>5, <1>9, <1>10, <1>11, <1>12, <1>13, <1>14 DEF TimelyInv, TimelyBucket

\* A step of BucketWal by c moves nobody else, and keeps the ages.
LEMMA WalFrame ==
    ASSUME CompactionInv, NEW c \in Client, BeginPush(c) \/ BeginFetch(c) \/ Progress(c), KeepCompactVars
    PROVE  /\ Apart(c) /\ aged' = aged
           /\ cp'[c] = IF pc'[c] = "idle" THEN NoCompacting ELSE cp[c]
<1>0. TypeOK
  BY DEF CompactionInv, CompactionTypeOK
<1> DEFINE Kin == \A d \in Client : d # c =>
                    /\ pc'[d] = pc[d] /\ view'[d] = view[d] /\ rd'[d] = rd[d] /\ op'[d] = op[d]
                    /\ pending'[d] = pending[d] /\ staged'[d] = staged[d]
           Ended == \A d \in Client : d # c => pc'[d] = pc[d] /\ rd'[d] = rd[d] /\ op'[d] = op[d]
<1>1. ASSUME NEW ret, CallRefresh(c, ret) PROVE \A d \in Client : d # c => pc'[d] = pc[d] /\ rd'[d] = rd[d]
  BY <1>0, <1>1 DEF CallRefresh, Goto, TypeOK
<1>2. ASSUME NEW res, Return(c, res) PROVE Ended
  BY <1>0, <1>2 DEF Return, Goto, TypeOK
<1>3. Acknowledge(c) => Ended
  BY <1>2 DEF Acknowledge
<1>4. ASSUME NEW res, Throw(c, res) PROVE Ended
  BY <1>2, <1>3, <1>4 DEF Throw
<1>5. Gone(c) => Ended
  BY <1>0, <1>4 DEF Gone, Goto, TypeOK
<1>6. ASSUME RefreshStep(c) PROVE Kin
  <2>1. GetManifest(c) => Kin
    BY <1>0 DEF GetManifest, Goto, TypeOK, sessionVars
  <2>2. GetCheckpoint(c) => Kin
    BY <1>0, <1>5 DEF GetCheckpoint, Goto, TypeOK, sessionVars
  <2>3. GetLog(c) => Kin
    BY <1>0, <1>4, <1>5 DEF GetLog, Goto, TypeOK, sessionVars
  <2>4. GetIdx(c) => Kin
    BY <1>0, <1>5 DEF GetIdx, Goto, TypeOK, sessionVars
  <2> QED BY <1>6, <2>1, <2>2, <2>3, <2>4 DEF RefreshStep
<1>7. ASSUME BeginPush(c) \/ BeginFetch(c) \/ FetchRefs(c) PROVE Kin
  BY <1>0, <1>1, <1>7 DEF BeginPush, BeginFetch, FetchRefs, TypeOK, sessionVars
<1>8. ASSUME Listed(c) \/ Attempt(c) \/ Done(c) PROVE Kin
  BY <1>0, <1>1, <1>2, <1>3, <1>8 DEF Listed, Attempt, Done, Goto, TypeOK, sessionVars
<1>9. ASSUME Probe(c) PROVE Kin
  BY <1>0, <1>1, <1>9 DEF Probe, Goto, TypeOK, sessionVars
<1>10. ASSUME Upload(c) \/ PutPack(c) \/ PutIdx(c) PROVE Kin
  BY <1>0, <1>10 DEF Upload, PutPack, PutIdx, Goto, TypeOK, sessionVars
<1>11. ASSUME UpdateRef(c) PROVE Kin
  BY <1>0, <1>1, <1>11 DEF UpdateRef, Goto, TypeOK, sessionVars
<1>12. ASSUME Claim(c) \/ Ensure(c) PROVE Kin
  BY <1>0, <1>2, <1>12 DEF Claim, ClaimSlot, Ensure, EnsurePacksPresent, Goto, TypeOK, sessionVars
<1>13. ASSUME Cas(c) PROVE Kin
  <2>1. Retry(c) => Ended
    BY <1>0, <1>1, <1>2 DEF Retry, TypeOK
  <2> QED BY <1>0, <1>1, <1>13, <2>1 DEF Cas, sessionVars
<1>14. ASSUME FoldPut(c) \/ FoldCas(c) PROVE Kin
  BY <1>0, <1>1, <1>3, <1>14 DEF FoldPut, FoldCas, Goto, TypeOK, sessionVars
<1>15. ASSUME ReadObject(c) PROVE Kin
  <2>1. LookUp(c) => Ended
    BY <1>0, <1>1, <1>2 DEF LookUp, TypeOK
  <2>2. Restart(c) => Ended
    BY <1>0, <1>2 DEF Restart, Goto, TypeOK
  <2> QED BY <1>15, <2>1, <2>2 DEF ReadObject, sessionVars
<1>16. ASSUME Fail(c) PROVE Kin
  BY <1>0, <1>4, <1>16 DEF Fail, TypeOK
<1>17. ASSUME Reopen(c) PROVE Kin
  BY <1>0, <1>17 DEF Reopen, TypeOK
<1>18. Kin
  BY <1>6, <1>7, <1>8, <1>9, <1>10, <1>11, <1>12, <1>13, <1>14, <1>15, <1>16, <1>17
     DEF Progress, Step, PushStep, FetchStep
<1>19. /\ \A d \in Client : d # c => cp'[d] = cp[d]
       /\ cp'[c] = IF pc'[c] = "idle" THEN NoCompacting ELSE cp[c]
  BY <1>18, Kept
<1> QED BY <1>18, <1>19 DEF Apart, KeepCompactVars

\* So does a step of compact.
LEMMA CompactFrame ==
    ASSUME CompactionInv, NEW c \in Client, BeginCompact(c) \/ ConsolidateStep(c) \/ SweepStep(c)
    PROVE  Apart(c) /\ aged' \subseteq aged
<1>0. TypeOK /\ cp \in [Client -> Compacting]
  BY DEF CompactionInv, CompactionTypeOK
<1> DEFINE Ended == \A d \in Client : d # c => pc'[d] = pc[d] /\ rd'[d] = rd[d] /\ op'[d] = op[d]
           Kin == Ended /\ \A d \in Client : d # c =>
                    view'[d] = view[d] /\ cp'[d] = cp[d] /\ pending'[d] = pending[d] /\ staged'[d] = staged[d]
<1>1. ASSUME NEW ret, CallRefresh(c, ret) PROVE \A d \in Client : d # c => pc'[d] = pc[d] /\ rd'[d] = rd[d]
  BY <1>0, <1>1 DEF CallRefresh, Goto, TypeOK
<1>2. ASSUME NEW res, Return(c, res) PROVE Ended
  BY <1>0, <1>2 DEF Return, Goto, TypeOK
<1>3. CallSweep(c) => Ended /\ \A d \in Client : d # c => cp'[d] = cp[d]
  BY <1>0, <1>1 DEF CallSweep, TypeOK
<1>4. ASSUME NEW m, Replan(c, m) PROVE Ended /\ \A d \in Client : d # c => cp'[d] = cp[d]
  BY <1>0, <1>1, <1>3, <1>4 DEF Replan, TypeOK
<1>5. CASE BeginCompact(c)
  <2>1. Kin /\ aged' = aged
    BY <1>0, <1>1, <1>5 DEF BeginCompact, TypeOK, sessionVars, compactVars
  <2> QED BY <2>1 DEF Apart
<1>6. CASE ConsolidateStep(c)
  <2>1. Compact(c) => Kin /\ aged' = aged
    BY <1>0, <1>1, <1>3 DEF Compact, sessionVars
  <2>2. Plan(c) => Kin /\ aged' = aged
    BY <1>0, <1>3 DEF Plan, Goto, TypeOK, sessionVars
  <2>3. ReadMembers(c) => Kin /\ aged' = aged
    BY <1>0, <1>1, <1>2, <1>4 DEF ReadMembers, Goto, TypeOK, sessionVars
  <2>4. MergePut(c) \/ MergeIdx(c) => Kin /\ aged' = aged
    BY <1>0 DEF MergePut, MergeIdx, Goto, TypeOK, sessionVars, compactVars
  <2>5. Fence(c) => Kin /\ aged' = aged
    BY <1>0, <1>3, <1>4 DEF Fence, Goto, TypeOK, sessionVars
  <2>6. MergeClaim(c) \/ MergeEnsure(c) => Kin /\ aged' = aged
    <3> SUFFICES ASSUME MergeClaim(c) \/ MergeEnsure(c) PROVE Kin /\ aged' = aged
      OBVIOUS
    <3>1. Ended /\ \A d \in Client : d # c => view'[d] = view[d] /\ pending'[d] = pending[d] /\ staged'[d] = staged[d]
      BY <1>0, <1>2 DEF MergeClaim, ClaimSlot, MergeEnsure, EnsurePacksPresent, Goto, TypeOK, sessionVars
    <3>2. KeepCompactVars
      BY DEF MergeClaim, MergeEnsure
    <3> QED BY <3>1, <3>2, Kept DEF KeepCompactVars
  <2>7. PutCheckpoint(c) => Kin /\ aged' = aged
    BY <1>0, <1>4 DEF PutCheckpoint, Goto, TypeOK, sessionVars
  <2>8. MergeCas(c) => Kin /\ aged' = aged
    BY <1>0, <1>1, <1>4 DEF MergeCas, sessionVars
  <2>9. MergeDone(c) => Kin /\ aged' = aged
    BY <1>0, <1>3 DEF MergeDone, sessionVars
  <2> QED BY <1>6, <2>1, <2>2, <2>3, <2>4, <2>5, <2>6, <2>7, <2>8, <2>9 DEF ConsolidateStep, Apart
<1>7. CASE SweepStep(c)
  <2>1. SweepList(c) => Kin /\ aged' = aged
    BY <1>0 DEF SweepList, Goto, TypeOK, sessionVars
  <2>2. SweepDelete(c) => Kin /\ aged' \subseteq aged
    BY <1>0, <1>1, <1>2 DEF SweepDelete, Goto, TypeOK, sessionVars
  <2>3. SweepIdx(c) => Kin /\ aged' \subseteq aged
    BY <1>0, <1>2 DEF SweepIdx, Goto, TypeOK, sessionVars
  <2>4. SweepBody(c) => Kin /\ aged' \subseteq aged
    BY <1>0 DEF SweepBody, Goto, TypeOK, sessionVars
  <2> QED BY <1>7, <2>1, <2>2, <2>3, <2>4 DEF SweepStep, Apart
<1> QED BY <1>5, <1>6, <1>7

\* A view that is left stays true.
LEMMA ViewKept ==
    ASSUME CompactionInv, Evolves, NEW c \in Client, ViewInv(c), view'[c] = view[c] PROVE ViewInv(c)'
<1>1. view[c] # None => view[c].m.head \in 0..MaxSeq
  BY Numbers, WalAssumption DEF Slot
<1> QED BY <1>1 DEF ViewInv, Evolves

\* A client between two calls.
LEMMA Resting ==
    ASSUME NEW c \in Client, pc'[c] = "idle", ViewInv(c)' PROVE TimelyClient(c)'
<1>1. At(c)' = "idle"
  BY DEF At, ReadLabels, WalkLabels
<1> QED BY <1>1 DEF TimelyClient, WalkTruth, SeekInv, PushTruth, HandOverInv, MergeTruth, WalkLabels, ClaimedLabels, SlotLabels,
               CommitLabels, LandedLabels, MergeLabels

\* A client that begins a refresh, or comes to a label with no slot in hand.
LEMMA Slotless ==
    ASSUME CompactionInv', NEW c \in Client, pc'[c] \notin WalkLabels \cup SlotLabels, ViewInv(c)',
           At(c)' \in CommitLabels => (op'[c].old # None => op'[c].old \in Ancestors[op'[c].new]) /\ HandOverInv(c)',
           At(c)' \in LandedLabels => OnBranch(op[c].branch, op[c].new)',
           At(c)' \in {"readMembers", "mergePut", "mergeIdx", "fence"} => cp'[c].parts # {}
    PROVE  TimelyClient(c)'
<1>1. HandOverInv(c)'
  <2>1. CASE At(c)' \in CommitLabels
    BY <2>1
  <2>2. CASE At(c)' \notin CommitLabels
    BY <2>2 DEF HandOverInv, CommitLabels
  <2> QED BY <2>1, <2>2
<1>2. WalkTruth(c)' /\ SeekInv(c)'
  BY DEF WalkTruth, SeekInv, ClaimedLabels, SlotLabels
<1>3. PushTruth(c)'
  BY DEF PushTruth, SlotLabels
<1>4. At(c)' \notin SlotLabels
  <2>1. StepInv(c)'
    BY DEF CompactionInv, ClientOK
  <2> QED BY <2>1, LabelSets DEF At, StepInv
<1>5. MergeTruth(c)'
  BY <1>4 DEF MergeTruth
<1> QED BY <1>1, <1>2, <1>3, <1>5 DEF TimelyClient

\* The end of a call keeps the invariant.
LEMMA QuietReturn ==
    ASSUME CompactionInv, CompactionInv', TimelyInv, NEW c \in Client, Quiet(c), pc'[c] = "idle", view'[c] = view[c]
    PROVE  TimelyInv'
<1>1. ViewInv(c)'
  BY DEF Quiet, TimelyInv, TimelyClient, ViewInv
<1>2. TimelyClient(c)'
  BY <1>1, Resting
<1>3. cp'[c] = NoCompacting
  BY DEF CompactionInv, ClientOK, StepInv
<1>4. cp'[c].logs = {}
  BY <1>3, NoCompactingIs
<1>5. \A m : ~CommitsOn(c, m)'
  BY DEF CommitsOn, WalkLabels, SlotLabels
<1> QED BY <1>2, <1>4, <1>5, QuietTimely DEF ClaimedLabels, SlotLabels

\* So does a step to a refresh, or to a label from which no commit is decided yet.
LEMMA QuietGo ==
    ASSUME CompactionInv, CompactionInv', TimelyInv, NEW c \in Client, Quiet(c), view'[c] = view[c],
           pc'[c] \notin WalkLabels \cup SlotLabels \cup {"attempt", "fence"},
           \A s \in cp'[c].logs : Doomed(s),
           At(c)' \in CommitLabels => (op'[c].old # None => op'[c].old \in Ancestors[op'[c].new]) /\ HandOverInv(c)',
           At(c)' \in LandedLabels => OnBranch(op[c].branch, op[c].new)',
           At(c)' \in {"readMembers", "mergePut", "mergeIdx", "fence"} => cp'[c].parts # {}
    PROVE  TimelyInv'
<1>1. ViewInv(c)'
  BY DEF Quiet, TimelyInv, TimelyClient, ViewInv
<1>2. TimelyClient(c)'
  BY <1>1, Slotless
<1>3. \A m : ~CommitsOn(c, m)'
  BY DEF CommitsOn
<1> QED BY <1>2, <1>3, QuietTimely DEF ClaimedLabels

\* A refresh goes on, or ends, for the label it was called from.
LEMMA Onward ==
    ASSUME CompactionInv, CompactionInv', TimelyInv, NEW c \in Client, Quiet(c), pc[c] \in ReadLabels, At(c)' = At(c),
           pc'[c] \notin SlotLabels, UNCHANGED <<op, pending, staged>>, cp'[c] = cp[c], WalkTruth(c)', ViewInv(c)',
           \A m \in Manifest \cup {None} : CommitsOn(c, m)' => CommitsOn(c, m) \/ m = manifest
    PROVE  TimelyInv'
<1>0. TimelyClient(c) /\ pc[c] \notin SlotLabels
  BY LabelSets DEF TimelyInv
<1>1. Objects' = Objects /\ \A b \in Branch, s \in Snapshot : OnBranch(b, s)' = OnBranch(b, s)
  BY DEF Quiet, Objects, OnBranch, CurrentState, Head
<1>2. At(c) \in LandedLabels => OnBranch(op[c].branch, op[c].new)'
  BY <1>0 DEF TimelyClient, PushTruth, Quiet, OnBranch, CurrentState, Head
<1>3. HandOverInv(c)' /\ PushTruth(c)'
  BY <1>0, <1>1, <1>2 DEF TimelyClient, HandOverInv, PushTruth, SlotLabels
<1>4. MergeTruth(c)'
  BY <1>0 DEF TimelyClient, MergeTruth
<1>5. SeekInv(c)'
  BY DEF SeekInv, SlotLabels, ClaimedLabels
<1>6. TimelyClient(c)'
  BY <1>3, <1>4, <1>5 DEF TimelyClient
<1>7. \A s \in cp'[c].logs : Doomed(s)
  BY DEF Doomed
<1> QED BY <1>6, <1>7, QuietTimely DEF ClaimedLabels

\* What a step of BucketWal acknowledges is on its branch, if the client says so.
LEMMA Acks ==
    ASSUME CompactionInv, TimelyInv, NEW c \in Client, BeginPush(c) \/ BeginFetch(c) \/ Progress(c), KeepCompactVars,
           UNCHANGED <<manifest, log, ckpt, hist>>, acked' = acked \/ OnBranch(op[c].branch, op[c].new)
    PROVE  Quiet(c)
BY WalFrame, OtherMoves DEF Quiet

\* A push that has landed is reported done whatever fails.
LEMMA Thrown ==
    ASSUME CompactionInv, TimelyInv, NEW c \in Client, NEW res, Throw(c, res)
    PROVE  /\ acked' = acked \/ OnBranch(op[c].branch, op[c].new)
           /\ pc'[c] = "idle"
<1>1. TimelyClient(c) /\ StepInv(c) /\ pc \in [Client -> Label]
  BY LocalFacts DEF TimelyInv, ClientOK
<1>2. pc'[c] = "idle"
  BY <1>1 DEF Throw, Acknowledge, Return, Goto
<1>3. CASE Committed(c)
  <2>1. At(c) \in LandedLabels
    <3>1. CASE pc[c] \in LandedLabels
      BY <3>1, LabelSets DEF At
    <3>2. CASE rd[c].ret = "done"
      <4>1. pc[c] \in ReadLabels
        BY <1>1, <3>2 DEF StepInv, NoReading
      <4> QED BY <3>2, <4>1 DEF At, LandedLabels
    <3> QED BY <1>3, <3>1, <3>2 DEF Committed
  <2> QED BY <1>1, <1>2, <2>1 DEF TimelyClient, PushTruth
<1>4. CASE ~Committed(c)
  BY <1>2, <1>4 DEF Throw
<1> QED BY <1>3, <1>4

-----------------------------------------------------------------------------
(* Steps of a refresh                                                        *)

\* GetManifest: what it returns for, it returns for with the manifest that is there.
LEMMA GetManifestTimely ==
    ASSUME CompactionInv, CompactionInv', TimelyInv, NEW c \in Client, GetManifest(c), KeepCompactVars
    PROVE  TimelyInv'
<1>0. /\ TypeOK /\ rd[c] \in Reading /\ rd \in [Client -> Reading] /\ manifest \in Manifest \cup {None}
      /\ pc \in [Client -> Label] /\ pc[c] = "getManifest" /\ view \in [Client -> View \cup {None}]
      /\ ClientOK(c) /\ BucketOK /\ pc[c] \in ReadLabels
  BY DEF CompactionInv, CompactionTypeOK, TypeOK, GetManifest, ReadLabels
<1>1. UNCHANGED <<op, pending, staged, bodies, idxs, manifest, log, ckpt, hist, acked, corrupt, lost, calls>>
  BY DEF GetManifest, bucketVars, sessionVars, historyVars
<1>2. Quiet(c)
  BY <1>1, Acks DEF Progress, Step, RefreshStep
<1>3. rd[c].ret \in AllReturns /\ At(c) = rd[c].ret /\ TimelyClient(c)
  BY <1>0 DEF ClientOK, StepInv, At, TimelyInv
<1>4. CASE /\ pc' = [pc EXCEPT ![c] = rd[c].ret]
           /\ rd' = [rd EXCEPT ![c] = NoReading]
           /\ ViewTag(c)' = manifest /\ ViewInv(c)'
  <2>1. pc'[c] = rd[c].ret
    BY <1>0, <1>4
  <2>2. pc'[c] \notin ReadLabels \cup SlotLabels \cup {"idle"}
    BY <1>3, <2>1, LabelSets
  <2>3. At(c)' = At(c) /\ cp'[c] = cp[c]
    BY <1>3, <2>1, <2>2, WalFrame DEF At, Progress, Step, RefreshStep
  <2>4. WalkTruth(c)'
    BY <2>2 DEF WalkTruth, ReadLabels
  <2>5. \A m : CommitsOn(c, m)' => m = manifest
    BY <1>4, <2>2 DEF CommitsOn, ReadLabels
  <2> QED BY <1>0, <1>1, <1>2, <1>4, <2>2, <2>3, <2>4, <2>5, Onward
<1>5. CASE /\ manifest = None
           /\ view' = [view EXCEPT ![c] = None]
           /\ pc' = [pc EXCEPT ![c] = rd[c].ret]
           /\ rd' = [rd EXCEPT ![c] = NoReading]
  <2>1. view'[c] = None
    BY <1>0, <1>5
  <2>2. ViewTag(c)' = manifest /\ ViewInv(c)'
    BY <1>5, <2>1 DEF ViewTag, ViewInv
  <2> QED BY <1>4, <1>5, <2>2
<1>6. CASE /\ manifest # None /\ ViewTag(c) = manifest
           /\ pc' = [pc EXCEPT ![c] = rd[c].ret]
           /\ rd' = [rd EXCEPT ![c] = NoReading]
           /\ view' = view
  <2>1. ViewTag(c)' = manifest /\ ViewInv(c)'
    BY <1>1, <1>3, <1>6 DEF ViewTag, ViewInv, TimelyClient
  <2> QED BY <1>4, <1>6, <2>1
<1>7. CASE /\ manifest # None
           /\ rd' = [rd EXCEPT ![c] = [@ EXCEPT !.m = manifest, !.cur = manifest.head,
                        !.tail = NoRefs, !.refs = NoRefs, !.packs = {}]]
           /\ pc' = [pc EXCEPT ![c] = IF manifest.ck # 0 THEN "getCheckpoint" ELSE "getLog"]
           /\ view' = view
  <2>0. manifest \in Manifest /\ manifest.head \in Slot /\ manifest.ck \in 0..MaxSeq /\ manifest.ck <= manifest.head
    BY <1>0, <1>7 DEF Manifest, BucketOK, StatesInv
  <2>1. /\ rd'[c].ret = rd[c].ret /\ rd'[c].m = manifest /\ rd'[c].cur = manifest.head
        /\ rd'[c].tail = NoRefs /\ rd'[c].refs = NoRefs /\ rd'[c].packs = {}
    BY <1>0, <1>7 DEF Reading
  <2>2. pc'[c] = IF manifest.ck # 0 THEN "getCheckpoint" ELSE "getLog"
    BY <1>0, <1>7
  <2>3. /\ hist[0] = [refs |-> NoRefs, packs |-> {}] /\ hist[manifest.head] # None /\ hist[manifest.ck] # None
        /\ \A b \in Branch : NoRefs[b] = None
    BY <1>0, <1>7 DEF BucketOK, StatesInv, NoRefs
  <2>4. ASSUME NEW s \in Slot, manifest.ck < s, hist[s] # None
        PROVE  log[s].branch # None /\ manifest.ck <= log[s].parent
    <3>1. Folded = manifest.ck
      BY <1>7 DEF Folded, FoldOf
    <3>2. log[s].branch \in Branch
      BY <1>0, <2>4, <3>1 DEF BucketOK, TailInv
    <3> QED BY <2>4, <3>1, <3>2, NoneAssumption DEF TimelyInv, TimelyBucket, RecordsInv
  <2>5. WalkTruth(c)'
    <3>1. pc'[c] = "getLog" => hist[manifest.ck].packs = {} /\ hist[manifest.ck].refs = NoRefs
      BY <2>2, <2>3
    <3> QED BY <1>1, <2>0, <2>1, <2>2, <2>3, <2>4, <3>1, WalAssumption DEF WalkTruth, Slot
  <2>6. ViewInv(c)'
    BY <1>1, <1>3, <1>7 DEF ViewInv, TimelyClient
  <2>7. pc'[c] \in ReadLabels /\ pc'[c] \notin SlotLabels /\ pc'[c] \notin {"attempt", "fence", "idle"}
    BY <2>2 DEF ReadLabels, WalkLabels, SlotLabels
  <2>8. At(c)' = At(c) /\ cp'[c] = cp[c]
    BY <1>3, <2>1, <2>7, WalFrame DEF At, Progress, Step, RefreshStep
  <2>9. \A m : CommitsOn(c, m)' => m = manifest
    BY <2>1, <2>7 DEF CommitsOn
  <2> QED BY <1>0, <1>1, <1>2, <2>5, <2>6, <2>7, <2>8, <2>9, Onward
<1> QED BY <1>5, <1>6, <1>7 DEF GetManifest, Goto

\* A refresh that meets a missing key starts over, or fails.
LEMMA GoneTimely ==
    ASSUME CompactionInv, CompactionInv', TimelyInv, NEW c \in Client, RefreshStep(c), KeepCompactVars,
           pc[c] \in WalkLabels, Gone(c) \/ Throw(c, "corrupt"), UNCHANGED <<manifest, log, ckpt, hist, view, pending, staged>>
    PROVE  TimelyInv'
<1>0. rd[c] \in Reading /\ rd \in [Client -> Reading] /\ pc \in [Client -> Label] /\ pc[c] \in ReadLabels
  BY DEF CompactionInv, CompactionTypeOK, TypeOK, ReadLabels
<1>1. CASE /\ pc' = [pc EXCEPT ![c] = "getManifest"]
           /\ rd' = [rd EXCEPT ![c].failed = rd[c].m, ![c].left = rd[c].left - 1]
           /\ UNCHANGED <<op, acked, corrupt>>
  <2>1. pc'[c] = "getManifest" /\ rd'[c].ret = rd[c].ret
    BY <1>0, <1>1 DEF Reading
  <2>2. At(c)' = At(c) /\ cp'[c] = cp[c]
    BY <1>0, <2>1, WalFrame DEF At, Progress, Step, ReadLabels
  <2>3. WalkTruth(c)' /\ pc'[c] \notin SlotLabels /\ \A m : ~CommitsOn(c, m)'
    BY <2>1 DEF WalkTruth, WalkLabels, SlotLabels, CommitsOn
  <2>4. ViewInv(c)'
    BY DEF TimelyInv, TimelyClient, ViewInv
  <2>5. Quiet(c)
    BY <1>1, Acks DEF Progress, Step
  <2> QED BY <1>0, <1>1, <2>2, <2>3, <2>4, <2>5, Onward
<1>2. ASSUME NEW res, Throw(c, res) PROVE TimelyInv'
  <2>1. (acked' = acked \/ OnBranch(op[c].branch, op[c].new)) /\ pc'[c] = "idle"
    BY <1>2, Thrown
  <2>2. Quiet(c)
    BY <2>1, Acks DEF Progress, Step
  <2> QED BY <2>1, <2>2, QuietReturn
<1> QED BY <1>1, <1>2 DEF Gone, Goto

\* GetCheckpoint reads the state of the fold that its manifest names, whatever fold that is.
LEMMA GetCheckpointTimely ==
    ASSUME CompactionInv, CompactionInv', TimelyInv, NEW c \in Client, GetCheckpoint(c), KeepCompactVars
    PROVE  TimelyInv'
<1> DEFINE k == ckpt[rd[c].m.ck]
<1>0. /\ rd[c] \in Reading /\ rd \in [Client -> Reading] /\ pc \in [Client -> Label] /\ TypeOK
      /\ pc[c] = "getCheckpoint" /\ ClientOK(c) /\ pc[c] \in WalkLabels /\ pc[c] \in ReadLabels
      /\ TimelyClient(c) /\ RefreshStep(c)
  BY DEF CompactionInv, CompactionTypeOK, TypeOK, GetCheckpoint, WalkLabels, ReadLabels, TimelyInv, RefreshStep
<1>1. UNCHANGED <<manifest, log, ckpt, bodies, idxs, view, pending, staged, hist, lost, calls>>
  BY DEF GetCheckpoint, bucketVars, sessionVars
<1>2. rd[c].m.ck \in Slot /\ rd[c].m.head \in Slot /\ rd[c].m.ck <= rd[c].m.head
  <2>1. rd[c].m.ck # 0 /\ rd[c].m.ck \in 0..MaxSeq /\ rd[c].m.head \in Slot
    BY <1>0, Numbers DEF ClientOK, TrueWalk
  <2>2. rd[c].m.ck <= rd[c].m.head
    BY <1>0 DEF TimelyClient, WalkTruth
  <2> QED BY <2>1, <2>2, WalAssumption DEF Slot
<1>3. CASE k = None /\ Gone(c)
  BY <1>0, <1>1, <1>3, GoneTimely
<1>4. CASE /\ k # None
           /\ rd' = [rd EXCEPT ![c].refs = k.refs, ![c].packs = k.packs]
           /\ pc' = [pc EXCEPT ![c] = "getLog"] /\ UNCHANGED <<op, acked, corrupt>>
  <2>1. k = hist[rd[c].m.ck]
    BY <1>0, <1>2, <1>4 DEF TimelyInv, TimelyBucket, RecordsInv, TimelyClient, WalkTruth
  <2>2. /\ rd'[c].ret = rd[c].ret /\ rd'[c].m = rd[c].m /\ rd'[c].cur = rd[c].cur
        /\ rd'[c].tail = rd[c].tail /\ rd'[c].refs = k.refs /\ rd'[c].packs = k.packs /\ pc'[c] = "getLog"
    BY <1>0, <1>4 DEF Reading
  <2>3. \A b \in Branch : NoRefs[b] = None
    BY DEF NoRefs
  <2>4. WalkTruth(c)'
    <3>1. /\ hist[rd[c].m.head] # None /\ hist[rd[c].m.ck] # None
          /\ \A s \in Slot : rd[c].m.ck < s /\ s <= rd[c].m.head /\ hist[s] # None /\ log[s] # None =>
               log[s].branch # None /\ rd[c].m.ck <= log[s].parent
          /\ rd[c].cur = rd[c].m.head /\ rd[c].tail = NoRefs
      BY <1>0 DEF TimelyClient, WalkTruth
    <3> HIDE DEF k
    <3> QED BY <1>1, <1>2, <2>1, <2>2, <2>3, <3>1, WalAssumption DEF WalkTruth, Slot
  <2>5. ViewInv(c)' /\ Quiet(c)
    BY <1>0, <1>1, <1>4, Acks DEF TimelyClient, ViewInv, Progress, Step
  <2>6. At(c)' = At(c) /\ cp'[c] = cp[c] /\ pc'[c] \notin SlotLabels
    BY <1>0, <2>2, WalFrame DEF At, Progress, Step, ReadLabels, WalkLabels, SlotLabels
  <2>7. \A m : CommitsOn(c, m)' => CommitsOn(c, m)
    BY <1>0, <2>2 DEF CommitsOn, SlotLabels
  <2> QED BY <1>0, <1>1, <1>4, <2>4, <2>5, <2>6, <2>7, Onward
<1> QED BY <1>3, <1>4 DEF GetCheckpoint, Goto

\* GetLog reads committed entries only, and passes none by.
LEMMA GetLogTimely ==
    ASSUME CompactionInv, CompactionInv', TimelyInv, NEW c \in Client, GetLog(c), KeepCompactVars
    PROVE  TimelyInv'
<1> DEFINE r == rd[c]
           e == log[r.cur]
<1>0. /\ rd[c] \in Reading /\ rd \in [Client -> Reading] /\ pc \in [Client -> Label] /\ TypeOK
      /\ pc[c] = "getLog" /\ ClientOK(c) /\ pc[c] \in WalkLabels /\ pc[c] \in ReadLabels
      /\ TimelyClient(c) /\ RefreshStep(c)
  BY DEF CompactionInv, CompactionTypeOK, TypeOK, GetLog, WalkLabels, ReadLabels, TimelyInv, RefreshStep
<1>1. UNCHANGED <<manifest, log, ckpt, bodies, idxs, view, pending, staged, hist, lost, calls>>
  BY DEF GetLog, bucketVars, sessionVars
<1>2. r.m \in Manifest /\ r.m.ck \in 0..MaxSeq /\ r.m.head \in Slot /\ r.cur \in 0..MaxSeq
  BY <1>0, Numbers
<1>3. /\ r.m.ck <= r.m.head /\ hist[r.m.head] # None /\ hist[r.m.ck] # None
      /\ \A s \in Slot : r.m.ck < s /\ s <= r.m.head /\ hist[s] # None /\ log[s] # None =>
            log[s].branch # None /\ r.m.ck <= log[s].parent
      /\ r.m.ck <= r.cur /\ r.cur <= r.m.head
      /\ hist[r.cur] # None /\ hist[r.cur].packs \subseteq hist[r.m.head].packs
      /\ r.refs = hist[r.m.ck].refs
      /\ hist[r.m.ck].packs \subseteq r.packs
      /\ r.packs \cup hist[r.cur].packs = hist[r.m.head].packs \cup hist[r.m.ck].packs
      /\ \A b \in Branch : hist[r.m.head].refs[b] =
            IF r.tail[b] = None THEN hist[r.cur].refs[b] ELSE r.tail[b]
  BY <1>0 DEF TimelyClient, WalkTruth
<1>4. ViewInv(c)'
  BY <1>0, <1>1 DEF TimelyClient, ViewInv
<1>5. CASE /\ r.cur = r.m.ck
           /\ pc' = [pc EXCEPT ![c] = "getIdx"]
           /\ UNCHANGED <<rd, op, acked, corrupt>>
  <2>1. rd'[c] = rd[c] /\ pc'[c] = "getIdx"
    BY <1>0, <1>5
  <2>2. WalkTruth(c)'
    BY <1>1, <1>3, <1>5, <2>1 DEF WalkTruth
  <2>3. Quiet(c)
    BY <1>0, <1>1, <1>5, Acks DEF Progress, Step
  <2>4. At(c)' = At(c) /\ cp'[c] = cp[c] /\ pc'[c] \notin SlotLabels
    BY <1>0, <2>1, WalFrame DEF At, Progress, Step, ReadLabels, WalkLabels, SlotLabels
  <2>5. \A m : CommitsOn(c, m)' => CommitsOn(c, m)
    BY <1>0, <2>1 DEF CommitsOn, SlotLabels
  <2> QED BY <1>0, <1>1, <1>4, <1>5, <2>2, <2>3, <2>4, <2>5, Onward
<1>6. CASE /\ r.cur > r.m.ck /\ e # None
           /\ rd' = [rd EXCEPT ![c].cur = e.parent,
                        ![c].packs = r.packs \cup e.packs,
                        ![c].tail = Replay(r.tail, e)]
           /\ UNCHANGED <<pc, op, acked, corrupt>>
  <2>1. r.cur \in Slot /\ e \in LogEntry
    BY <1>0, <1>2, <1>6, WalAssumption DEF Slot, TypeOK
  <2>2. e.parent \in 0..MaxSeq
    BY <2>1 DEF LogEntry
  <2>3. /\ rd'[c].ret = r.ret /\ rd'[c].m = r.m /\ rd'[c].cur = e.parent /\ rd'[c].refs = r.refs
        /\ rd'[c].tail = Replay(r.tail, e) /\ rd'[c].packs = r.packs \cup e.packs
    BY <1>0, <1>6 DEF Reading
  <2>4. pc'[c] = "getLog"
    BY <1>0, <1>6
  <2>5. e.branch # None /\ r.m.ck <= e.parent
    BY <1>2, <1>3, <1>6, <2>1
  <2>6. TrueEntry(r.cur)
    BY <1>3, <1>6, <2>1, <2>5 DEF TimelyInv, TimelyBucket, RecordsInv
  <2>7. /\ e.new \in Snapshot /\ e.parent < r.cur /\ hist[e.parent] # None /\ hist[r.cur] = Extend(hist[e.parent], e)
    BY <2>6 DEF TrueEntry
  <2>8. /\ hist[e.parent].packs \subseteq hist[r.m.head].packs
        /\ hist[r.m.ck].packs \subseteq r.packs \cup e.packs
        /\ (r.packs \cup e.packs) \cup hist[e.parent].packs = hist[r.m.head].packs \cup hist[r.m.ck].packs
        /\ \A b \in Branch : hist[r.m.head].refs[b] =
              IF Replay(r.tail, e)[b] = None THEN hist[e.parent].refs[b] ELSE Replay(r.tail, e)[b]
    <3>3. e.new # None
      BY <2>7, WalAssumption
    <3>4. PICK top, base, here, before, packs, tail, entry :
             /\ top = hist[r.m.head] /\ base = hist[r.m.ck] /\ here = hist[r.cur] /\ before = hist[e.parent]
             /\ packs = r.packs /\ tail = r.tail /\ entry = e
      OBVIOUS
    <3> HIDE DEF r, e
    <3>5. /\ here = Extend(before, entry) /\ entry.new # None
          /\ here.packs \subseteq top.packs /\ base.packs \subseteq packs
          /\ packs \cup here.packs = top.packs \cup base.packs
          /\ \A b \in Branch : top.refs[b] = IF tail[b] = None THEN here.refs[b] ELSE tail[b]
      BY <1>3, <2>7, <3>3, <3>4
    <3>6. /\ before.packs \subseteq top.packs /\ base.packs \subseteq packs \cup entry.packs
          /\ (packs \cup entry.packs) \cup before.packs = top.packs \cup base.packs
          /\ \A b \in Branch : top.refs[b] =
                IF Replay(tail, entry)[b] = None THEN before.refs[b] ELSE Replay(tail, entry)[b]
      <4>1. /\ here.packs = before.packs \cup entry.packs
            /\ \A b \in Branch : here.refs[b] = IF b = entry.branch THEN entry.new ELSE before.refs[b]
        BY <3>5, ExtendIs
      <4>2. \A b \in Branch : Replay(tail, entry)[b] =
                IF b = entry.branch /\ tail[b] = None THEN entry.new ELSE tail[b]
        BY DEF Replay
      <4>3. ASSUME NEW b \in Branch
            PROVE  top.refs[b] = IF Replay(tail, entry)[b] = None THEN before.refs[b] ELSE Replay(tail, entry)[b]
        BY <3>5, <4>1, <4>2
      <4>4. before.packs \subseteq top.packs /\ base.packs \subseteq packs \cup entry.packs
        BY <3>5, <4>1
      <4>5. (packs \cup entry.packs) \cup before.packs = top.packs \cup base.packs
        BY <3>5, <4>1
      <4> QED BY <4>3, <4>4, <4>5
    <3> QED BY <3>4, <3>6
  <2>9. WalkTruth(c)'
    <3>1. e.parent <= r.m.head
      <4> HIDE DEF r, e
      <4>1. r.cur \in Int /\ r.m.head \in Int /\ e.parent \in Int
        BY <1>2, <2>2, WalAssumption DEF Slot
      <4> QED BY <1>3, <2>7, <4>1
    <3> HIDE DEF r, e
    <3> USE DEF r
    <3> QED BY <1>1, <1>3, <2>3, <2>4, <2>5, <2>7, <2>8, <3>1 DEF WalkTruth
  <2>10. Quiet(c)
    BY <1>0, <1>1, <1>6, Acks DEF Progress, Step
  <2>11. At(c)' = At(c) /\ cp'[c] = cp[c] /\ pc'[c] \notin SlotLabels
    BY <1>0, <2>3, <2>4, WalFrame DEF At, Progress, Step, ReadLabels, WalkLabels, SlotLabels
  <2>12. \A m : CommitsOn(c, m)' => CommitsOn(c, m)
    BY <1>0, <2>3, <2>4 DEF CommitsOn, SlotLabels
  <2> HIDE DEF e
  <2> QED BY <1>0, <1>1, <1>4, <1>6, <2>9, <2>10, <2>11, <2>12, Onward
<1>7. CASE Gone(c) \/ Throw(c, "corrupt")
  BY <1>0, <1>1, <1>7, GoneTimely
<1> QED BY <1>5, <1>6, <1>7 DEF GetLog, Goto

\* GetIdx: the new view is true, however old the fold of its manifest.
LEMMA GetIdxTimely ==
    ASSUME CompactionInv, CompactionInv', TimelyInv, NEW c \in Client, GetIdx(c), KeepCompactVars
    PROVE  TimelyInv'
<1> DEFINE r == rd[c]
           refs == [b \in Branch |-> IF r.tail[b] = None THEN r.refs[b] ELSE r.tail[b]]
           v == [m |-> r.m, packs |-> r.packs, refs |-> refs]
<1>0. /\ rd[c] \in Reading /\ rd \in [Client -> Reading] /\ pc \in [Client -> Label] /\ TypeOK
      /\ pc[c] = "getIdx" /\ ClientOK(c) /\ pc[c] \in WalkLabels /\ pc[c] \in ReadLabels
      /\ view \in [Client -> View \cup {None}] /\ TimelyClient(c) /\ RefreshStep(c)
  BY DEF CompactionInv, CompactionTypeOK, TypeOK, GetIdx, WalkLabels, ReadLabels, TimelyInv, RefreshStep
<1>1. UNCHANGED <<manifest, log, ckpt, bodies, idxs, pending, staged, hist, lost, calls>>
  BY DEF GetIdx, bucketVars, sessionVars
<1>2. CASE /\ view' = [view EXCEPT ![c] = v]
           /\ pc' = [pc EXCEPT ![c] = r.ret]
           /\ rd' = [rd EXCEPT ![c] = NoReading]
           /\ UNCHANGED <<op, acked, corrupt>>
  <2>1. refs \in Refs /\ r.m \in Manifest /\ r.m.head \in 0..MaxSeq
    BY <1>0, Numbers, WalAssumption DEF Reading, Refs, Slot
  <2>2. v \in View /\ v # None
    BY <1>0, <2>1, NoneAssumption DEF View, Reading
  <2>3. /\ view'[c] = v /\ view'[c].m = r.m /\ view'[c].packs = r.packs /\ view'[c].refs = refs
        /\ pc'[c] = r.ret /\ ViewTag(c)' = r.m
    BY <1>0, <1>2, <2>2 DEF ViewTag
  <2>4. ViewInv(c)'
    <3>1. /\ hist[r.m.head] # None
          /\ hist[r.cur] # None /\ hist[r.cur].packs \subseteq hist[r.m.head].packs
          /\ r.refs = hist[r.m.ck].refs /\ r.cur = r.m.ck
          /\ hist[r.m.ck].packs \subseteq r.packs
          /\ r.packs \cup hist[r.cur].packs = hist[r.m.head].packs \cup hist[r.m.ck].packs
          /\ \A b \in Branch : hist[r.m.head].refs[b] =
                IF r.tail[b] = None THEN hist[r.cur].refs[b] ELSE r.tail[b]
      BY <1>0 DEF TimelyClient, WalkTruth
    <3>2. hist[r.m.head].refs \in Refs
      BY <1>0, <2>1, <3>1 DEF TypeOK, Checkpoint
    <3>3. refs = hist[r.m.head].refs
      BY <3>1, <3>2 DEF Refs
    <3>4. r.packs = hist[r.m.head].packs
      BY <3>1
    <3> QED BY <1>1, <2>3, <3>1, <3>3, <3>4 DEF ViewInv
  <2>5. rd[c].ret \in AllReturns /\ At(c) = rd[c].ret
    BY <1>0 DEF ClientOK, StepInv, At
  <2>6. pc'[c] \notin ReadLabels \cup SlotLabels \cup {"idle"}
    BY <2>3, <2>5, LabelSets
  <2>7. Quiet(c)
    BY <1>0, <1>1, <1>2, Acks DEF Progress, Step
  <2>8. At(c)' = At(c) /\ cp'[c] = cp[c] /\ WalkTruth(c)'
    BY <1>0, <2>3, <2>5, <2>6, WalFrame DEF At, Progress, Step, WalkTruth, ReadLabels
  <2>9. \A m : CommitsOn(c, m)' => CommitsOn(c, m)
    BY <1>0, <2>3, <2>6 DEF CommitsOn, SlotLabels, ReadLabels
  <2> HIDE DEF v
  <2> QED BY <1>0, <1>1, <1>2, <2>4, <2>6, <2>7, <2>8, <2>9, Onward
<1>3. CASE Gone(c) /\ UNCHANGED view
  BY <1>0, <1>1, <1>3, GoneTimely
<1> QED BY <1>2, <1>3 DEF GetIdx, Goto

-----------------------------------------------------------------------------
(* Steps of a push and of a fetch that leave the log                         *)

\* What a view shows is in.
LEMMA ViewIsGrown ==
    ASSUME CompactionInv, TimelyInv, NEW c \in Client
    PROVE  /\ ViewRefs(c) \in Refs
           /\ \A b \in Branch : ViewRefs(c)[b] # None => OnBranch(b, ViewRefs(c)[b])
           /\ ViewObjects(c) \subseteq Objects
           /\ hist[Head(ViewTag(c))] # None /\ hist[Head(ViewTag(c))].refs = ViewRefs(c)
           /\ UNION hist[Head(ViewTag(c))].packs = ViewObjects(c)
<1>0. TypeOK /\ ViewInv(c) /\ hist[0] = [refs |-> NoRefs, packs |-> {}] /\ hist[0] # None
  BY LocalFacts, Numbers DEF TimelyInv, TimelyClient, BucketOK, StatesInv
<1>1. ViewRefs(c) \in Refs
  BY <1>0, ViewRefsType
<1>2. CASE view[c] = None
  <2>1. Head(ViewTag(c)) = 0 /\ ViewRefs(c) = NoRefs /\ ViewObjects(c) = {}
    BY <1>2 DEF Head, ViewTag, ViewRefs, ViewObjects
  <2>2. \A b \in Branch : NoRefs[b] = None
    BY DEF NoRefs
  <2> QED BY <1>0, <1>1, <2>1, <2>2
<1>3. CASE view[c] # None
  <2>1. /\ ViewTag(c) = view[c].m /\ Head(ViewTag(c)) = view[c].m.head /\ view[c].m.head \in 0..MaxSeq
        /\ view[c].m.head <= Head(manifest) /\ Head(manifest) \in 0..MaxSeq /\ hist[Head(manifest)] # None
    BY <1>3, Numbers, WalAssumption DEF Slot
  <2>2. /\ hist[view[c].m.head] # None
        /\ view[c].refs = hist[view[c].m.head].refs
        /\ view[c].packs = hist[view[c].m.head].packs
    BY <1>0, <1>3 DEF ViewInv
  <2>3. Follows(hist[view[c].m.head], CurrentState)
    BY <2>1, <2>2 DEF TimelyInv, TimelyBucket, GrowthInv, CurrentState
  <2>4. ViewRefs(c) = view[c].refs /\ ViewObjects(c) = UNION view[c].packs
    BY <1>3 DEF ViewRefs, ViewObjects
  <2> QED BY <1>1, <2>1, <2>2, <2>3, <2>4 DEF Follows, OnBranch, Objects
<1> QED BY <1>2, <1>3

\* What holds of a push that is not waiting in a refresh.
LEMMA PushFacts ==
    ASSUME CompactionInv, TimelyInv, NEW c \in Client, pc[c] \in CommitLabels \cup {"listed"} \cup LandedLabels
    PROVE  /\ At(c) = pc[c] /\ op \in [Client -> Op] /\ op[c] \in Op /\ rd \in [Client -> Reading]
           /\ pending \in [Client -> SUBSET Pack] /\ staged \in [Client -> SUBSET Snapshot]
           /\ pc \in [Client -> Label]
           /\ op[c].branch \in Branch /\ op[c].new \in Snapshot /\ op[c].new # None
           /\ pc[c] \in CommitLabels => (op[c].old # None => op[c].old \in Ancestors[op[c].new])
           /\ HandOverInv(c) /\ TimelyClient(c)
           /\ pc[c] \in LandedLabels => OnBranch(op[c].branch, op[c].new)
<1>1. pc[c] \in PushLabels
  BY DEF PushLabels
<1>2. At(c) = pc[c]
  BY <1>1, PushAt DEF At
<1>3. rd \in [Client -> Reading]
  BY DEF CompactionInv, CompactionTypeOK, TypeOK
<1> QED BY <1>1, <1>2, <1>3, PushAt, LocalFacts DEF TimelyInv, TimelyClient, PushTruth

\* The objects of the current state are those there were.
LEMMA SameObjects ==
    ASSUME UNCHANGED <<manifest, hist>>
    PROVE  Objects' = Objects /\ \A b, s : OnBranch(b, s)' = OnBranch(b, s)
BY DEF Objects, OnBranch, CurrentState, Head

\* BeginPush, BeginFetch and FetchRefs begin a refresh for no commit.
LEMMA BeginTimely ==
    ASSUME CompactionInv, CompactionInv', TimelyInv, NEW c \in Client, BeginPush(c) \/ BeginFetch(c) \/ FetchRefs(c),
           KeepCompactVars
    PROVE  TimelyInv'
<1>0. rd \in [Client -> Reading] /\ pc \in [Client -> Label]
  BY DEF CompactionInv, CompactionTypeOK, TypeOK
<1>1. PICK ret \in {"listed", "fetchRefs", "read"} : CallRefresh(c, ret)
  BY DEF BeginPush, BeginFetch, FetchRefs
<1>2. pc'[c] = "getManifest" /\ rd'[c].ret = ret
  BY <1>0, <1>1 DEF CallRefresh, Goto, NoReading
<1>3. At(c)' = ret /\ pc'[c] \notin WalkLabels \cup SlotLabels \cup {"attempt", "fence", "idle"}
  BY <1>2 DEF At, ReadLabels, WalkLabels, SlotLabels
<1>4. UNCHANGED <<manifest, log, ckpt, hist, view, acked>>
  BY DEF BeginPush, BeginFetch, FetchRefs, bucketVars, historyVars
<1>5. Quiet(c)
  BY <1>4, Acks DEF Progress, Step, FetchStep
<1>6. \A s \in cp'[c].logs : Doomed(s)
  BY <1>3, WalFrame DEF Progress, Step, FetchStep, Doomed
<1> QED BY <1>3, <1>4, <1>5, <1>6, QuietGo DEF CommitLabels, LandedLabels

\* Listed acknowledges what the view shows, or goes on with a forward move.
LEMMA ListedTimely ==
    ASSUME CompactionInv, CompactionInv', TimelyInv, NEW c \in Client, Listed(c), KeepCompactVars
    PROVE  TimelyInv'
<1> DEFINE o == op[c]
           tip == ViewRefs(c)[o.branch]
<1>0. pc[c] = "listed" /\ UNCHANGED <<manifest, log, ckpt, bodies, idxs, view, pending, staged, hist, lost, calls>>
  BY DEF Listed, bucketVars, sessionVars
<1>1. /\ o.branch \in Branch /\ o.new \in Snapshot /\ o.new # None /\ op \in [Client -> Op] /\ rd \in [Client -> Reading]
      /\ pc \in [Client -> Label] /\ o \in Op
  BY <1>0, PushFacts
<1>2. tip \in Tip /\ (tip # None => OnBranch(o.branch, tip))
  BY <1>1, ViewIsGrown DEF Refs
<1>3. Progress(c) /\ cp'[c].logs \subseteq cp[c].logs
  BY <1>0, <1>1, WalFrame, NoCompactingIs DEF Progress, Step, PushStep
<1>4. CASE tip = o.new /\ Acknowledge(c)
  <2>1. Quiet(c)
    BY <1>0, <1>1, <1>2, <1>3, <1>4, Acks
  <2>2. pc'[c] = "idle"
    BY <1>1, <1>4 DEF Acknowledge, Return, Goto
  <2> QED BY <1>0, <2>1, <2>2, QuietReturn
<1>5. CASE Return(c, "nonff") /\ UNCHANGED acked
  <2>1. Quiet(c)
    BY <1>0, <1>3, <1>5, Acks
  <2>2. pc'[c] = "idle"
    BY <1>1, <1>5 DEF Return, Goto
  <2> QED BY <1>0, <2>1, <2>2, QuietReturn
<1>6. CASE /\ tip = None \/ tip \in Ancestors[o.new]
           /\ op' = [op EXCEPT ![c].old = tip, ![c].todo = Ancestors[o.new]]
           /\ CallRefresh(c, "probe")
           /\ UNCHANGED <<acked, corrupt>>
  <2>1. pc'[c] = "getManifest" /\ rd'[c].ret = "probe"
    BY <1>1, <1>6 DEF CallRefresh, Goto, NoReading
  <2>2. At(c)' = "probe" /\ pc'[c] \notin WalkLabels \cup SlotLabels \cup {"attempt", "fence", "idle"}
    BY <2>1 DEF At, ReadLabels, WalkLabels, SlotLabels
  <2>3. Ancestors[o.new] \in SUBSET Snapshot /\ o.new \in Ancestors[o.new]
    BY <1>1, WalAssumption
  <2>4. /\ op'[c].branch = o.branch /\ op'[c].new = o.new /\ op'[c].old = tip /\ op'[c].todo = Ancestors[o.new]
    BY <1>1, <1>6 DEF Op
  <2>5. HandOverInv(c)'
    BY <2>2, <2>3, <2>4 DEF HandOverInv
  <2>6. Quiet(c)
    BY <1>0, <1>3, <1>6, Acks
  <2>7. \A s \in cp'[c].logs : Doomed(s)
    BY <1>3 DEF Doomed
  <2> QED BY <1>0, <1>6, <2>2, <2>4, <2>5, <2>6, <2>7, QuietGo DEF LandedLabels
<1> QED BY <1>4, <1>5, <1>6 DEF Listed

\* Probe puts each object in the view or in what is sent.
LEMMA ProbeTimely ==
    ASSUME CompactionInv, CompactionInv', TimelyInv, NEW c \in Client, Probe(c), KeepCompactVars
    PROVE  TimelyInv'
<1> DEFINE o == op[c]
           s == CHOOSE x \in op[c].todo : TRUE
           todo == op[c].todo \ {s}
           send == op[c].send \cup ({s} \ ViewObjects(c))
<1>0. pc[c] = "probe" /\ pc[c] \in CommitLabels
      /\ UNCHANGED <<manifest, log, ckpt, bodies, idxs, view, pending, staged, hist, acked, corrupt, lost, calls>>
  BY DEF Probe, bucketVars, sessionVars, historyVars, CommitLabels
<1>1. /\ At(c) = "probe" /\ op \in [Client -> Op] /\ o \in Op /\ rd \in [Client -> Reading] /\ pc \in [Client -> Label]
      /\ (o.old # None => o.old \in Ancestors[o.new]) /\ HandOverInv(c)
  BY <1>0, PushFacts
<1>2. o.todo # {} /\ Ancestors[o.new] \subseteq o.todo \cup o.send \cup Objects
  BY <1>1 DEF HandOverInv
<1>3. s \in o.todo
  BY <1>2
<1>4. Ancestors[o.new] \subseteq todo \cup send \cup Objects
  BY <1>2, ViewIsGrown
<1>5. op' = [op EXCEPT ![c].todo = todo, ![c].send = send]
  BY DEF Probe
<1>6. op'[c].new = o.new /\ op'[c].old = o.old /\ op'[c].todo = todo /\ op'[c].send = send
  <2> HIDE DEF todo, send
  <2> QED BY <1>1, <1>5 DEF Op
<1>7. Objects' = Objects
  BY <1>0, SameObjects
<1>8. Quiet(c) /\ cp'[c].logs \subseteq cp[c].logs
  BY <1>0, Acks, WalFrame, NoCompactingIs DEF Progress, Step, PushStep
<1>9. \A q \in cp'[c].logs : Doomed(q)
  BY <1>8 DEF Doomed
<1> HIDE DEF todo, send
<1>10. CASE todo # {} /\ CallRefresh(c, "probe")
  <2>1. pc'[c] = "getManifest" /\ rd'[c].ret = "probe"
    BY <1>1, <1>10 DEF CallRefresh, Goto, NoReading
  <2>2. At(c)' = "probe" /\ pc'[c] \notin WalkLabels \cup SlotLabels \cup {"attempt", "fence", "idle"}
    BY <2>1 DEF At, ReadLabels, WalkLabels, SlotLabels
  <2>3. HandOverInv(c)'
    BY <1>4, <1>6, <1>7, <1>10, <2>2 DEF HandOverInv
  <2> QED BY <1>0, <1>1, <1>6, <1>8, <1>9, <2>2, <2>3, QuietGo DEF LandedLabels
<1>11. ASSUME NEW lbl \in {"upload", "updateRef"}, todo = {}, lbl = "updateRef" => send = {}, Goto(c, lbl)
       PROVE  TimelyInv'
  <2>1. pc'[c] = lbl /\ At(c)' = lbl
    BY <1>1, <1>11 DEF At, ReadLabels, WalkLabels, Goto
  <2>2. HandOverInv(c)'
    BY <1>4, <1>6, <1>7, <1>11, <2>1 DEF HandOverInv
  <2> QED BY <1>0, <1>1, <1>6, <1>8, <1>9, <2>1, <2>2, QuietGo DEF LandedLabels, WalkLabels, SlotLabels
<1>12. \/ todo # {} /\ CallRefresh(c, "probe")
       \/ todo = {} /\ send # {} /\ Goto(c, "upload") /\ UNCHANGED rd
       \/ todo = {} /\ send = {} /\ Goto(c, "updateRef") /\ UNCHANGED rd
  BY DEF Probe, todo, send
<1> QED BY <1>10, <1>11, <1>12

\* A push goes on to a label before its commit, with all it has to hand over.
LEMMA PushGoesOn ==
    ASSUME CompactionInv, CompactionInv', TimelyInv, NEW c \in Client, PushStep(c), KeepCompactVars, pc[c] \in CommitLabels,
           UNCHANGED <<manifest, log, ckpt, hist, view, acked>>,
           pc'[c] \in (CommitLabels \cup {"getManifest"}) \ (SlotLabels \cup {"attempt"}),
           At(c)' \in CommitLabels, op'[c].new = op[c].new, op'[c].old = op[c].old, HandOverInv(c)'
    PROVE  TimelyInv'
<1>1. pc'[c] \notin WalkLabels \cup SlotLabels \cup {"attempt", "fence", "idle"}
  BY DEF CommitLabels, WalkLabels
<1>2. Quiet(c)
  BY Acks DEF Progress, Step
<1>3. \A s \in cp'[c].logs : Doomed(s)
  BY <1>1, WalFrame DEF Progress, Step, Doomed
<1>4. op[c].old # None => op[c].old \in Ancestors[op[c].new]
  BY PushFacts
<1> QED BY <1>1, <1>2, <1>3, <1>4, QuietGo DEF CommitLabels, LandedLabels

\* Upload takes what is sent in hand, or stages it.
LEMMA UploadTimely ==
    ASSUME CompactionInv, CompactionInv', TimelyInv, NEW c \in Client, Upload(c), KeepCompactVars
    PROVE  TimelyInv'
<1> DEFINE o == op[c]
<1>0. /\ pc[c] = "upload" /\ pc[c] \in CommitLabels
      /\ UNCHANGED <<manifest, log, ckpt, view, rd, pending, hist, acked>>
  BY DEF Upload, bucketVars, historyVars, CommitLabels
<1>1. /\ At(c) = "upload" /\ op \in [Client -> Op] /\ o \in Op /\ pc \in [Client -> Label]
      /\ staged \in [Client -> SUBSET Snapshot] /\ HandOverInv(c)
  BY <1>0, PushFacts
<1>2. Ancestors[o.new] \subseteq o.send \cup Objects
  BY <1>1 DEF HandOverInv
<1>3. Objects' = Objects
  BY <1>0, SameObjects
<1>4. CASE op' = [op EXCEPT ![c].via = "put_pack"] /\ Goto(c, "putPack") /\ UNCHANGED staged
  <2>1. op'[c].new = o.new /\ op'[c].old = o.old /\ op'[c].send = o.send
    BY <1>1, <1>4 DEF Op
  <2>2. pc'[c] = "putPack" /\ At(c)' = "putPack"
    BY <1>1, <1>4 DEF At, ReadLabels, WalkLabels, Goto
  <2>3. HandOverInv(c)'
    BY <1>2, <1>3, <2>1, <2>2 DEF HandOverInv
  <2> QED BY <1>0, <2>1, <2>2, <2>3, PushGoesOn DEF PushStep, CommitLabels, SlotLabels
<1>5. CASE /\ op' = [op EXCEPT ![c].send = {}] /\ Goto(c, "updateRef")
           /\ staged' = [staged EXCEPT ![c] = @ \cup op[c].send]
  <2>1. op'[c].new = o.new /\ op'[c].old = o.old /\ staged'[c] = staged[c] \cup o.send
    BY <1>1, <1>5 DEF Op
  <2>2. pc'[c] = "updateRef" /\ At(c)' = "updateRef"
    BY <1>1, <1>5 DEF At, ReadLabels, WalkLabels, Goto
  <2>3. HandOverInv(c)'
    BY <1>2, <1>3, <2>1, <2>2 DEF HandOverInv
  <2> QED BY <1>0, <2>1, <2>2, <2>3, PushGoesOn DEF PushStep, CommitLabels, SlotLabels
<1> QED BY <1>4, <1>5 DEF Upload

\* PutPack leaves what is sent in hand; PutIdx makes it pending.
LEMMA PutsTimely ==
    ASSUME CompactionInv, CompactionInv', TimelyInv, NEW c \in Client, PutPack(c) \/ PutIdx(c), KeepCompactVars
    PROVE  TimelyInv'
<1> DEFINE o == op[c]
<1>0. pc[c] \in CommitLabels /\ UNCHANGED <<manifest, log, ckpt, view, rd, hist, acked, staged>>
  BY DEF PutPack, PutIdx, sessionVars, historyVars, CommitLabels
<1>1. /\ At(c) = pc[c] /\ op \in [Client -> Op] /\ o \in Op /\ pc \in [Client -> Label]
      /\ pending \in [Client -> SUBSET Pack] /\ HandOverInv(c)
  BY <1>0, PushFacts
<1>2. Objects' = Objects
  BY <1>0, SameObjects
<1>3. CASE PutPack(c)
  <2>1. pc[c] = "putPack" /\ UNCHANGED <<op, pending>> /\ pc'[c] = "putIdx"
    BY <1>1, <1>3 DEF PutPack, sessionVars, Goto
  <2>2. At(c)' = "putIdx"
    BY <2>1 DEF At, ReadLabels, WalkLabels
  <2>3. HandOverInv(c)'
    BY <1>0, <1>1, <1>2, <2>1, <2>2 DEF HandOverInv
  <2> QED BY <1>0, <1>3, <2>1, <2>2, <2>3, PushGoesOn DEF PushStep, CommitLabels, SlotLabels
<1>4. CASE PutIdx(c)
  <2>1. /\ pc[c] = "putIdx" /\ pc'[c] = "updateRef" /\ op' = [op EXCEPT ![c].send = {}]
        /\ pending' = [pending EXCEPT ![c] = @ \cup {op[c].send}]
    BY <1>1, <1>4 DEF PutIdx, Goto
  <2>2. At(c)' = "updateRef"
    BY <2>1 DEF At, ReadLabels, WalkLabels
  <2>3. op'[c].new = o.new /\ op'[c].old = o.old
    BY <1>1, <2>1 DEF Op
  <2>4. pending'[c] = pending[c] \cup {o.send}
    BY <1>1, <2>1
  <2>5. UNION pending'[c] = o.send \cup UNION pending[c]
    BY <2>4
  <2>6. Ancestors[o.new] \subseteq (o.send \cup staged[c] \cup UNION pending[c]) \cup Objects
    BY <1>1, <2>1 DEF HandOverInv
  <2>7. HandOverInv(c)'
    BY <1>0, <1>2, <2>2, <2>3, <2>5, <2>6 DEF HandOverInv
  <2> QED BY <1>0, <1>4, <2>1, <2>2, <2>3, <2>7, PushGoesOn DEF PushStep, CommitLabels, SlotLabels
<1> QED BY <1>3, <1>4

\* UpdateRef takes what is staged in hand, then what is pending.
LEMMA UpdateRefTimely ==
    ASSUME CompactionInv, CompactionInv', TimelyInv, NEW c \in Client, UpdateRef(c), KeepCompactVars
    PROVE  TimelyInv'
<1> DEFINE o == op[c]
<1>0. /\ pc[c] = "updateRef" /\ pc[c] \in CommitLabels
      /\ UNCHANGED <<manifest, log, ckpt, view, hist, acked>>
  BY DEF UpdateRef, bucketVars, historyVars, CommitLabels
<1>1. /\ At(c) = "updateRef" /\ op \in [Client -> Op] /\ o \in Op /\ pc \in [Client -> Label]
      /\ rd \in [Client -> Reading] /\ pending \in [Client -> SUBSET Pack]
      /\ staged \in [Client -> SUBSET Snapshot] /\ HandOverInv(c)
  BY <1>0, PushFacts
<1>2. Ancestors[o.new] \subseteq (staged[c] \cup UNION pending[c]) \cup Objects
  BY <1>1 DEF HandOverInv
<1>3. Objects' = Objects
  BY <1>0, SameObjects
<1>4. CASE /\ op' = [op EXCEPT ![c].via = "put_object", ![c].send = staged[c]]
           /\ staged' = [staged EXCEPT ![c] = {}]
           /\ Goto(c, "putPack")
           /\ UNCHANGED <<pending, rd>>
  <2>1. op'[c].new = o.new /\ op'[c].old = o.old /\ op'[c].send = staged[c]
    BY <1>1, <1>4 DEF Op
  <2>2. pc'[c] = "putPack" /\ At(c)' = "putPack"
    BY <1>1, <1>4 DEF At, ReadLabels, WalkLabels, Goto
  <2>3. HandOverInv(c)'
    BY <1>2, <1>3, <1>4, <2>1, <2>2 DEF HandOverInv
  <2> QED BY <1>0, <2>1, <2>2, <2>3, PushGoesOn DEF PushStep, CommitLabels, SlotLabels
<1>5. CASE /\ staged[c] = {} /\ op' = [op EXCEPT ![c].pend = pending[c]]
           /\ CallRefresh(c, "attempt")
  <2>1. op'[c].new = o.new /\ op'[c].old = o.old /\ op'[c].pend = pending[c]
    BY <1>1, <1>5 DEF Op
  <2>2. pc'[c] = "getManifest" /\ rd'[c].ret = "attempt"
    BY <1>1, <1>5 DEF CallRefresh, Goto, NoReading
  <2>3. At(c)' = "attempt"
    BY <2>2 DEF At, ReadLabels
  <2>4. HandOverInv(c)'
    BY <1>2, <1>3, <1>5, <2>1, <2>3 DEF HandOverInv
  <2> QED BY <1>0, <2>1, <2>2, <2>3, <2>4, PushGoesOn DEF PushStep, CommitLabels, SlotLabels
<1> QED BY <1>4, <1>5 DEF UpdateRef

\* Attempt acknowledges what the view shows, or seeks a slot for a forward move.
LEMMA AttemptTimely ==
    ASSUME CompactionInv, CompactionInv', TimelyInv, NEW c \in Client, Attempt(c), KeepCompactVars
    PROVE  TimelyInv'
<1> DEFINE o == op[c]
           tip == ViewRefs(c)[o.branch]
<1>0. /\ pc[c] = "attempt" /\ pc[c] \in CommitLabels /\ PushStep(c) /\ Progress(c)
      /\ UNCHANGED <<manifest, log, ckpt, view, pending, staged, hist>>
  BY DEF Attempt, bucketVars, sessionVars, CommitLabels, PushStep, Progress, Step
<1>1. /\ At(c) = "attempt" /\ op \in [Client -> Op] /\ o \in Op /\ rd \in [Client -> Reading] /\ pc \in [Client -> Label]
      /\ o.branch \in Branch /\ o.new \in Snapshot /\ o.new # None /\ (o.old # None => o.old \in Ancestors[o.new])
      /\ HandOverInv(c) /\ TimelyClient(c)
  BY <1>0, PushFacts
<1>2. /\ tip \in Tip /\ (tip # None => OnBranch(o.branch, tip))
      /\ hist[Head(ViewTag(c))] # None /\ tip = hist[Head(ViewTag(c))].refs[o.branch]
  BY <1>1, ViewIsGrown DEF Refs
<1>3. CASE tip = o.new /\ Acknowledge(c)
  <2>1. pc'[c] = "idle" /\ acked' = acked \cup {<<o.branch, o.new>>}
    BY <1>1, <1>3 DEF Acknowledge, Return, Goto
  <2>2. Quiet(c)
    BY <1>0, <1>1, <1>2, <1>3, Acks
  <2> QED BY <1>0, <2>1, <2>2, QuietReturn
<1>4. CASE Return(c, "nonff") /\ UNCHANGED acked
  <2>1. pc'[c] = "idle"
    BY <1>1, <1>4 DEF Return, Goto
  <2>2. Quiet(c)
    BY <1>0, <1>4, Acks
  <2> QED BY <1>0, <2>1, <2>2, QuietReturn
<1>5. CASE /\ ~TipMoved(c)
           /\ op' = [op EXCEPT ![c].base = ViewTag(c), ![c].seq = Head(ViewTag(c)) + 1]
           /\ Goto(c, "claim")
           /\ UNCHANGED <<rd, acked, corrupt>>
  <2>1. PICK tag, seq : tag = ViewTag(c) /\ seq = Head(ViewTag(c)) + 1
    OBVIOUS
  <2>2. op' = [op EXCEPT ![c].base = tag, ![c].seq = seq]
    BY <1>5, <2>1
  <2>3. /\ op'[c].branch = o.branch /\ op'[c].new = o.new /\ op'[c].old = o.old /\ op'[c].base = tag /\ op'[c].seq = seq
        /\ op'[c].pend = o.pend
    BY <1>1, <2>2 DEF Op
  <2>4. pc'[c] = "claim" /\ At(c)' = "claim"
    BY <1>1, <1>5 DEF At, ReadLabels, WalkLabels, Goto
  <2>5. Quiet(c)
    BY <1>0, <1>5, Acks
  <2>6. cp'[c] = cp[c]
    BY <1>0, <2>4, WalFrame
  <2>7. (Head(op[c].base))' = Head(tag)
    BY <2>3 DEF Head
  <2>8. SeekInv(c)'
    <3>1. Head(tag) \in 0..MaxSeq /\ seq = Head(tag) + 1
      BY <2>1, Numbers
    <3>2. \A t \in Slot : ~(Head(tag) < t /\ t < seq)
      BY <3>1, WalAssumption DEF Slot
    <3> QED BY <2>3, <2>4, <2>7, <3>2 DEF SeekInv, ClaimedLabels
  <2>9. PushTruth(c)'
    <3>1. o.old = tip
      BY <1>5 DEF TipMoved
    <3> QED BY <1>0, <1>1, <1>2, <2>1, <2>3, <2>4, <2>7, <3>1 DEF PushTruth, LandedLabels
  <2>10. HandOverInv(c)'
    <3>1. Objects' = Objects
      BY <1>0, SameObjects
    <3> QED BY <1>1, <2>3, <2>4, <3>1 DEF HandOverInv
  <2>11. WalkTruth(c)' /\ ViewInv(c)' /\ MergeTruth(c)'
    BY <1>0, <1>1, <2>4 DEF WalkTruth, MergeTruth, ViewInv, TimelyClient, WalkLabels, MergeLabels
  <2>12. TimelyClient(c)'
    BY <2>8, <2>9, <2>10, <2>11 DEF TimelyClient
  <2>13. \A m : CommitsOn(c, m)' => CommitsOn(c, m)
    BY <1>0, <2>1, <2>3, <2>4 DEF CommitsOn, WalkLabels
  <2>14. \A s \in cp'[c].logs : Doomed(s)
    BY <2>6 DEF Doomed
  <2> QED BY <2>4, <2>5, <2>12, <2>13, <2>14, QuietTimely DEF ClaimedLabels
<1> QED BY <1>3, <1>4, <1>5 DEF Attempt

\* ensure_packs_present leaves the slot taken.
LEMMA EnsurePresentTimely ==
    ASSUME CompactionInv, CompactionInv', TimelyInv, NEW c \in Client, KeepCompactVars, NEW lbl,
           \/ pc[c] = "ensure" /\ lbl = "cas"
           \/ pc[c] = "mergeEnsure" /\ lbl = "mergeCas",
           EnsurePacksPresent(c, lbl), Quiet(c)
    PROVE  TimelyInv'
<1>0. /\ pc \in [Client -> Label] /\ TimelyClient(c)
      /\ UNCHANGED <<manifest, log, ckpt, hist, view, pending, staged>>
  BY LocalFacts DEF TimelyInv, EnsurePacksPresent, bucketVars, sessionVars
<1>1. CASE Return(c, "err")
  <2>1. pc'[c] = "idle"
    BY <1>0, <1>1 DEF Return, Goto
  <2> QED BY <1>0, <2>1, QuietReturn
<1>2. CASE Goto(c, lbl) /\ UNCHANGED <<rd, op, corrupt>>
  <2>1. pc'[c] = lbl
    BY <1>0, <1>2 DEF Goto
  <2>2. cp'[c] = cp[c]
    <3>1. pc'[c] # "idle" /\ \A d \in Client : d # c => pc'[d] = pc[d]
      BY <2>1 DEF Quiet, Apart
    <3> QED BY <3>1, Kept
  <2>3. At(c) = pc[c] /\ At(c)' = lbl
    BY <2>1 DEF At, ReadLabels, WalkLabels
  <2>4. Objects' = Objects
    BY <1>0, SameObjects
  <2>5. WalkTruth(c)' /\ ViewInv(c)' /\ SeekInv(c)'
    BY <1>0, <1>2, <2>1 DEF WalkTruth, WalkLabels, ViewInv, SeekInv, TimelyClient, ClaimedLabels, SlotLabels
  <2>6. PushTruth(c)'
    <3>1. (Head(op[c].base))' = Head(op[c].base)
      BY <1>2 DEF Head
    <3> QED BY <1>0, <1>2, <2>1, <2>3, <3>1 DEF PushTruth, TimelyClient, CommitLabels, LandedLabels
  <2>7. HandOverInv(c)'
    BY <1>0, <1>2, <2>3, <2>4 DEF HandOverInv, TimelyClient
  <2>8. MergeTruth(c)'
    <3>1. Merged(c)' = Merged(c) /\ KeptPacks(c)' = KeptPacks(c)
      BY <1>0, <2>2 DEF Merged, KeptPacks, Created
    <3> QED BY <1>0, <2>1, <2>2, <2>3, <3>1 DEF MergeTruth, TimelyClient, SlotLabels, MergeLabels
  <2>9. TimelyClient(c)'
    BY <2>5, <2>6, <2>7, <2>8 DEF TimelyClient
  <2>10. \A m : CommitsOn(c, m)' => CommitsOn(c, m)
    BY <1>2, <2>1 DEF CommitsOn, WalkLabels, SlotLabels
  <2>11. \A s \in cp'[c].logs : Doomed(s)
    BY <2>2 DEF Doomed
  <2>12. pc[c] \in ClaimedLabels
    BY DEF ClaimedLabels, SlotLabels
  <2> QED BY <1>2, <2>9, <2>10, <2>11, <2>12, QuietTimely
<1> QED BY <1>1, <1>2 DEF EnsurePacksPresent

LEMMA EnsureTimely ==
    ASSUME CompactionInv, CompactionInv', TimelyInv, NEW c \in Client, Ensure(c), KeepCompactVars
    PROVE  TimelyInv'
<1>1. Progress(c) /\ UNCHANGED <<manifest, log, ckpt, hist, acked>>
  BY DEF Progress, Step, PushStep, Ensure, EnsurePacksPresent, bucketVars
<1>2. Quiet(c)
  BY <1>1, Acks
<1> QED BY <1>2, EnsurePresentTimely DEF Ensure

\* A push that has landed may be reported done.
LEMMA AcknowledgeTimely ==
    ASSUME CompactionInv, CompactionInv', TimelyInv, NEW c \in Client, Progress(c), KeepCompactVars,
           pc[c] \in LandedLabels, Acknowledge(c), UNCHANGED <<manifest, log, ckpt, hist, view>>
    PROVE  TimelyInv'
<1>1. pc'[c] = "idle" /\ OnBranch(op[c].branch, op[c].new)
  BY PushFacts DEF Acknowledge, Return, Goto
<1>2. Quiet(c)
  BY <1>1, Acks DEF Acknowledge
<1> QED BY <1>1, <1>2, QuietReturn

\* A read of a fetch keeps the invariant.
LEMMA ReadObjectTimely ==
    ASSUME CompactionInv, CompactionInv', TimelyInv, NEW c \in Client, ReadObject(c), KeepCompactVars
    PROVE  TimelyInv'
<1>0. /\ pc \in [Client -> Label] /\ rd \in [Client -> Reading] /\ pc[c] \in {"read", "reread"} /\ Progress(c)
      /\ UNCHANGED <<manifest, log, ckpt, hist, view, acked>>
  BY LocalFacts DEF ReadObject, bucketVars, TypeOK, Progress, Step, FetchStep
<1>1. Quiet(c)
  BY <1>0, Acks
<1>2. ASSUME NEW lbl \in {"read", "reread"}, pc'[c] = lbl \/ (pc'[c] = "getManifest" /\ rd'[c].ret = lbl)
      PROVE  TimelyInv'
  <2>1. At(c)' = lbl /\ pc'[c] \notin WalkLabels \cup SlotLabels \cup {"attempt", "fence", "idle"}
    BY <1>2 DEF At, ReadLabels, WalkLabels, SlotLabels
  <2>2. \A s \in cp'[c].logs : Doomed(s)
    BY <1>0, <2>1, WalFrame DEF Doomed
  <2> QED BY <1>0, <1>1, <2>1, <2>2, QuietGo DEF CommitLabels, LandedLabels
<1>3. ASSUME NEW res, Return(c, res) PROVE TimelyInv'
  <2>1. pc'[c] = "idle"
    BY <1>0, <1>3 DEF Return, Goto
  <2> QED BY <1>0, <1>1, <2>1, QuietReturn
<1>4. CASE CallRefresh(c, "reread")
  <2>1. pc'[c] = "getManifest" /\ rd'[c].ret = "reread"
    BY <1>0, <1>4 DEF CallRefresh, Goto, NoReading
  <2> QED BY <1>2, <2>1
<1>5. CASE pc[c] = "read" /\ UNCHANGED pc
  BY <1>2, <1>5
<1>6. CASE Goto(c, "read")
  <2>1. pc'[c] = "read"
    BY <1>0, <1>6 DEF Goto
  <2> QED BY <1>2, <2>1
<1>7. CASE pc[c] = "read" /\ LookUp(c)
  BY <1>3, <1>4, <1>5, <1>7 DEF LookUp
<1>8. CASE pc[c] = "reread" /\ Restart(c)
  BY <1>3, <1>6, <1>8 DEF Restart
<1> QED BY <1>7, <1>8 DEF ReadObject

\* So does a request that fails, and a new transport.
LEMMA FailTimely ==
    ASSUME CompactionInv, CompactionInv', TimelyInv, NEW c \in Client, Fail(c), KeepCompactVars
    PROVE  TimelyInv'
<1>1. UNCHANGED <<manifest, log, ckpt, hist, view>> /\ Progress(c)
  BY DEF Fail, bucketVars, Progress
<1>2. pc'[c] = "idle" /\ (acked' = acked \/ OnBranch(op[c].branch, op[c].new))
  BY Thrown DEF Fail
<1>3. Quiet(c)
  BY <1>1, <1>2, Acks
<1> QED BY <1>1, <1>2, <1>3, QuietReturn

LEMMA ReopenTimely ==
    ASSUME CompactionInv, CompactionInv', TimelyInv, NEW c \in Client, Reopen(c), KeepCompactVars
    PROVE  TimelyInv'
<1>0. /\ pc[c] = "idle" /\ view' = [view EXCEPT ![c] = None] /\ view \in [Client -> View \cup {None}]
      /\ UNCHANGED <<manifest, log, ckpt, hist, pc, acked>> /\ Progress(c)
  BY LocalFacts DEF Reopen, bucketVars, historyVars, TypeOK, Progress
<1>1. view'[c] = None /\ pc'[c] = "idle"
  BY <1>0
<1>2. Quiet(c)
  BY <1>0, Acks
<1>3. ViewInv(c)'
  BY <1>1 DEF ViewInv
<1>4. TimelyClient(c)'
  BY <1>1, <1>3, Resting
<1>5. cp'[c].logs = {}
  BY <1>0, <1>1, WalFrame, NoCompactingIs
<1>6. \A m : ~CommitsOn(c, m)'
  BY <1>1 DEF CommitsOn, WalkLabels, SlotLabels
<1> QED BY <1>1, <1>2, <1>4, <1>5, <1>6, QuietTimely DEF ClaimedLabels, SlotLabels

-----------------------------------------------------------------------------
(* Steps of compact that leave the log                                       *)

LEMMA CompactQuiet ==
    ASSUME CompactionInv, NEW c \in Client, BeginCompact(c) \/ ConsolidateStep(c) \/ SweepStep(c),
           UNCHANGED <<manifest, log, ckpt, hist, acked>>
    PROVE  Quiet(c)
BY CompactFrame DEF Quiet

\* A consolidation that is planned anew or gives way has nothing in hand.
LEMMA Anew ==
    ASSUME CompactionInv, CompactionInv', NEW c \in Client, NEW m, CallSweep(c) \/ Replan(c, m), ViewInv(c)'
    PROVE  /\ TimelyClient(c)' /\ cp'[c].logs = {} /\ \A n : ~CommitsOn(c, n)'
           /\ pc'[c] = "getManifest"
<1>0. /\ pc \in [Client -> Label] /\ rd \in [Client -> Reading] /\ cp \in [Client -> Compacting]
  BY LocalFacts DEF TypeOK
<1>1. PICK ret \in {"plan", "sweepList"} : CallRefresh(c, ret)
  BY DEF CallSweep, Replan
<1>2. pc'[c] = "getManifest" /\ rd'[c].ret = ret
  BY <1>0, <1>1 DEF CallRefresh, Goto, NoReading
<1>3. At(c)' = ret /\ pc'[c] \notin WalkLabels \cup SlotLabels \cup {"attempt", "fence"}
  BY <1>2 DEF At, ReadLabels, WalkLabels, SlotLabels
<1>4. cp'[c].logs = {}
  <2>1. CASE CallSweep(c)
    <3>1. cp'[c] = [NoCompacting EXCEPT !.old = aged]
      BY <1>0, <2>1 DEF CallSweep
    <3> QED BY <3>1 DEF NoCompacting
  <2>2. CASE cp' = [cp EXCEPT ![c] = [NoCompacting EXCEPT !.missingOn = m]]
    <3>1. cp'[c] = [NoCompacting EXCEPT !.missingOn = m]
      BY <1>0, <2>2
    <3> QED BY <3>1 DEF NoCompacting
  <2> QED BY <2>1, <2>2 DEF Replan
<1>5. TimelyClient(c)'
  BY <1>3, Slotless DEF CommitLabels, LandedLabels
<1>6. \A n : ~CommitsOn(c, n)'
  BY <1>3 DEF CommitsOn
<1> QED BY <1>2, <1>4, <1>5, <1>6

LEMMA QuietAnew ==
    ASSUME CompactionInv, CompactionInv', TimelyInv, NEW c \in Client, NEW m, CallSweep(c) \/ Replan(c, m), Quiet(c),
           view'[c] = view[c]
    PROVE  TimelyInv'
<1>1. ViewInv(c)'
  BY DEF Quiet, TimelyInv, TimelyClient, ViewInv
<1>2. /\ TimelyClient(c)' /\ cp'[c].logs = {} /\ \A n : ~CommitsOn(c, n)'
      /\ pc'[c] = "getManifest"
  BY <1>1, Anew
<1>3. pc'[c] \notin ClaimedLabels
  BY <1>2 DEF ClaimedLabels, SlotLabels
<1> QED BY <1>2, <1>3, QuietTimely

\* One that goes on has its parts.
LEMMA CompactGoesOn ==
    ASSUME CompactionInv, CompactionInv', TimelyInv, NEW c \in Client, Quiet(c), view'[c] = view[c],
           NEW lbl \in CompactLabels,
           (pc'[c] = lbl /\ lbl \notin SlotLabels \cup {"fence"}) \/ (pc'[c] = "getManifest" /\ rd'[c].ret = lbl),
           \A s \in cp'[c].logs : Doomed(s),
           lbl \in {"readMembers", "mergePut", "mergeIdx", "fence"} => cp'[c].parts # {}
    PROVE  TimelyInv'
<1>1. lbl \notin ReadLabels \cup CommitLabels \cup LandedLabels
  BY DEF CompactLabels, ReadLabels, WalkLabels, CommitLabels, LandedLabels
<1>2. At(c)' = lbl
  BY <1>1 DEF At, ReadLabels
<1>3. pc'[c] \notin WalkLabels \cup SlotLabels \cup {"attempt", "fence"}
  BY <1>1 DEF ReadLabels, WalkLabels, SlotLabels, CommitLabels
<1> QED BY <1>1, <1>2, <1>3, QuietGo

\* What a client at a step of compact has.
LEMMA CompactFacts ==
    ASSUME CompactionInv, TimelyInv, NEW c \in Client, pc[c] \in CompactLabels
    PROVE  /\ pc \in [Client -> Label] /\ rd \in [Client -> Reading] /\ op \in [Client -> Op]
           /\ cp \in [Client -> Compacting] /\ cp[c] \in Compacting /\ At(c) = pc[c] /\ TimelyClient(c)
           /\ pc[c] \in {"readMembers", "mergePut", "mergeIdx", "fence"} => cp[c].parts # {}
           /\ \A s \in cp[c].logs : Doomed(s)
<1>1. At(c) = pc[c]
  BY LabelSets, LocalFacts
<1>2. TimelyClient(c)
  BY DEF TimelyInv
<1>3. pc[c] \in {"readMembers", "mergePut", "mergeIdx", "fence"} => cp[c].parts # {}
  BY <1>1, <1>2 DEF TimelyClient, MergeTruth
<1>4. \A s \in cp[c].logs : Doomed(s)
  BY DEF Doomed
<1> QED BY <1>1, <1>2, <1>3, <1>4, LocalFacts DEF TypeOK

\* BeginCompact, Compact, Plan and MergeDone keep the invariant.
LEMMA PlanTimely ==
    ASSUME CompactionInv, CompactionInv', TimelyInv, NEW c \in Client, BeginCompact(c) \/ Compact(c) \/ Plan(c) \/ MergeDone(c)
    PROVE  TimelyInv'
<1>0. /\ pc \in [Client -> Label] /\ rd \in [Client -> Reading] /\ cp \in [Client -> Compacting] /\ cp[c] \in Compacting
  BY LocalFacts DEF TypeOK
<1>1. UNCHANGED <<manifest, log, ckpt, hist, acked, view>>
  BY DEF BeginCompact, Compact, Plan, MergeDone, bucketVars, historyVars
<1>2. Quiet(c)
  BY <1>1, CompactQuiet DEF ConsolidateStep
<1>3. CASE CallSweep(c)
  BY <1>1, <1>2, <1>3, QuietAnew
<1>4. ASSUME NEW lbl \in {"compact", "plan"}, CallRefresh(c, lbl), UNCHANGED cp
      PROVE  TimelyInv'
  <2>1. pc'[c] = "getManifest" /\ rd'[c].ret = lbl
    BY <1>0, <1>4 DEF CallRefresh, Goto, NoReading
  <2>2. \A s \in cp'[c].logs : Doomed(s)
    BY <1>4 DEF Doomed
  <2> QED BY <1>1, <1>2, <2>1, <2>2, CompactGoesOn DEF CompactLabels
<1>5. ASSUME NEW gs, gs # {}, cp' = [cp EXCEPT ![c].parts = gs, ![c].todo = gs], Goto(c, "readMembers")
      PROVE  TimelyInv'
  <2>1. pc'[c] = "readMembers"
    BY <1>0, <1>5 DEF Goto
  <2>2. cp'[c].logs = cp[c].logs /\ cp'[c].parts = gs
    BY <1>0, <1>5 DEF Compacting
  <2>3. \A s \in cp'[c].logs : Doomed(s)
    BY <2>2 DEF Doomed
  <2> QED BY <1>1, <1>2, <1>5, <2>1, <2>2, <2>3, CompactGoesOn DEF CompactLabels, SlotLabels
<1>6. CASE BeginCompact(c)
  BY <1>4, <1>6 DEF BeginCompact, compactVars
<1>7. CASE Compact(c)
  BY <1>3, <1>4, <1>7 DEF Compact
<1>8. CASE Plan(c)
  BY <1>3, <1>5, <1>8 DEF Plan
<1>9. CASE MergeDone(c)
  BY <1>3, <1>9 DEF MergeDone
<1> QED BY <1>6, <1>7, <1>8, <1>9

\* So do the steps that merge the parts of the plan.
LEMMA MembersTimely ==
    ASSUME CompactionInv, CompactionInv', TimelyInv, NEW c \in Client, ReadMembers(c) \/ MergePut(c) \/ MergeIdx(c)
    PROVE  TimelyInv'
<1>0. /\ pc \in [Client -> Label] /\ rd \in [Client -> Reading] /\ cp \in [Client -> Compacting] /\ cp[c] \in Compacting
      /\ cp[c].parts # {} /\ \A s \in cp[c].logs : Doomed(s)
  <2>1. pc[c] \in CompactLabels /\ pc[c] \in {"readMembers", "mergePut", "mergeIdx"}
    BY DEF ReadMembers, MergePut, MergeIdx, CompactLabels
  <2> QED BY <2>1, CompactFacts
<1>1. UNCHANGED <<manifest, log, ckpt, hist, acked, view>>
  BY DEF ReadMembers, MergePut, MergeIdx, bucketVars, historyVars
<1>2. Quiet(c)
  BY <1>1, CompactQuiet DEF ConsolidateStep
<1>3. ASSUME NEW lbl \in {"readMembers", "mergePut", "mergeIdx"}, Goto(c, lbl),
             cp'[c].parts = cp[c].parts, cp'[c].logs = cp[c].logs
      PROVE  TimelyInv'
  <2>1. pc'[c] = lbl
    BY <1>0, <1>3 DEF Goto
  <2> QED BY <1>0, <1>1, <1>2, <1>3, <2>1, CompactGoesOn DEF CompactLabels, SlotLabels
<1>4. CASE MergePut(c)
  BY <1>3, <1>4 DEF MergePut, compactVars
<1>5. CASE MergeIdx(c)
  BY <1>3, <1>5 DEF MergeIdx, compactVars
<1>6. CASE CallRefresh(c, "fence") /\ UNCHANGED cp
  <2>1. pc'[c] = "getManifest" /\ rd'[c].ret = "fence"
    BY <1>0, <1>6 DEF CallRefresh, Goto, NoReading
  <2> QED BY <1>0, <1>1, <1>2, <1>6, <2>1, CompactGoesOn DEF CompactLabels
<1>7. ASSUME NEW g, cp' = [cp EXCEPT ![c].todo = @ \ {g}], Goto(c, "mergePut") PROVE TimelyInv'
  <2>1. cp'[c].parts = cp[c].parts /\ cp'[c].logs = cp[c].logs
    BY <1>0, <1>7 DEF Compacting
  <2> QED BY <1>3, <1>7, <2>1
<1>8. CASE Return(c, "corrupt")
  <2>1. pc'[c] = "idle"
    BY <1>0, <1>8 DEF Return, Goto
  <2> QED BY <1>1, <1>2, <2>1, QuietReturn
<1>9. CASE Replan(c, view[c].m)
  BY <1>1, <1>2, <1>9, QuietAnew
<1>10. CASE ReadMembers(c)
  <2>1. \/ CallRefresh(c, "fence") /\ UNCHANGED cp
        \/ \E g : cp' = [cp EXCEPT ![c].todo = @ \ {g}] /\ Goto(c, "mergePut")
        \/ Return(c, "corrupt")
        \/ Replan(c, view[c].m)
    BY <1>10, ZenonT(30) DEF ReadMembers
  <2> QED BY <1>6, <1>7, <1>8, <1>9, <2>1
<1> QED BY <1>4, <1>5, <1>10

\* Fence seeks a slot after the view the merge is to be published on.
LEMMA FenceTimely ==
    ASSUME CompactionInv, CompactionInv', TimelyInv, NEW c \in Client, Fence(c)
    PROVE  TimelyInv'
<1>0. /\ pc[c] = "fence" /\ pc[c] \in CompactLabels /\ pc[c] \in MergeLabels
      /\ UNCHANGED <<manifest, log, ckpt, hist, acked, view>>
  BY DEF Fence, CompactLabels, MergeLabels, bucketVars, historyVars
<1>1. /\ pc \in [Client -> Label] /\ cp \in [Client -> Compacting] /\ cp[c] \in Compacting /\ op \in [Client -> Op]
      /\ op[c] \in Op /\ TimelyClient(c) /\ cp[c].parts # {} /\ \A s \in cp[c].logs : Doomed(s)
  BY <1>0, CompactFacts, LocalFacts
<1>2. Quiet(c)
  BY <1>0, CompactQuiet DEF ConsolidateStep
<1>3. view[c] \in View /\ view[c].m \in Manifest /\ ViewTag(c) = view[c].m
  BY <1>0, CompactAt
<1>4. CASE CallSweep(c) \/ Replan(c, cp[c].missingOn)
  BY <1>0, <1>2, <1>4, QuietAnew
<1>5. CASE /\ Merged(c) \subseteq view[c].packs
           /\ cp' = [cp EXCEPT ![c].kept = KeptPacks(c)]
           /\ op' = [op EXCEPT ![c].base = view[c].m, ![c].seq = view[c].m.head + 1, ![c].pend = Created(c)]
           /\ Goto(c, "mergeClaim")
           /\ UNCHANGED rd
  <2>1. PICK kept, created, m, q :
          kept = KeptPacks(c) /\ created = Created(c) /\ m = view[c].m /\ q = view[c].m.head + 1
    OBVIOUS
  <2>2. op' = [op EXCEPT ![c].base = m, ![c].seq = q, ![c].pend = created]
    BY <1>5, <2>1
  <2>3. op'[c].base = m /\ op'[c].seq = q
    BY <1>1, <2>2 DEF Op
  <2>4. cp'[c].logs = cp[c].logs /\ cp'[c].parts = cp[c].parts /\ cp'[c].kept = kept
    BY <1>1, <1>5, <2>1 DEF Compacting
  <2>5. pc'[c] = "mergeClaim" /\ At(c)' = "mergeClaim"
    BY <1>1, <1>5 DEF At, ReadLabels, WalkLabels, Goto
  <2>6. Head(m) = m.head /\ (Head(op[c].base))' = Head(m)
    BY <1>3, <2>1, <2>3, NoneAssumption DEF Head
  <2>7. SeekInv(c)'
    <3>1. m.head \in Slot /\ q = m.head + 1
      BY <1>3, <2>1 DEF Manifest
    <3>2. \A t \in Slot : ~(m.head < t /\ t < q)
      BY <3>1, WalAssumption DEF Slot
    <3> QED BY <2>3, <2>5, <2>6, <3>2 DEF SeekInv, ClaimedLabels
  <2>8. MergeTruth(c)'
    <3>1. Merged(c)' = Merged(c) /\ KeptPacks(c)' = KeptPacks(c) /\ Created(c)' = Created(c)
      BY <1>0, <2>4 DEF Merged, KeptPacks, Created
    <3> QED BY <1>0, <1>1, <1>5, <2>1, <2>4, <3>1 DEF MergeTruth
  <2>9. WalkTruth(c)' /\ PushTruth(c)' /\ HandOverInv(c)'
    BY <2>5 DEF WalkTruth, PushTruth, HandOverInv, WalkLabels, CommitLabels, LandedLabels
  <2>10. ViewInv(c)'
    BY <1>0, <1>1 DEF ViewInv, TimelyClient
  <2>11. TimelyClient(c)'
    BY <2>7, <2>8, <2>9, <2>10 DEF TimelyClient
  <2>12. \A n : CommitsOn(c, n)' => CommitsOn(c, n)
    BY <1>0, <1>3, <2>1, <2>3, <2>5 DEF CommitsOn, WalkLabels
  <2>13. \A s \in cp'[c].logs : Doomed(s)
    BY <1>1, <2>4
  <2>14. pc'[c] \notin ClaimedLabels
    BY <2>5 DEF ClaimedLabels
  <2> QED BY <1>2, <2>11, <2>12, <2>13, <2>14, QuietTimely
<1> QED BY <1>4, <1>5 DEF Fence

LEMMA MergeEnsureTimely ==
    ASSUME CompactionInv, CompactionInv', TimelyInv, NEW c \in Client, MergeEnsure(c)
    PROVE  TimelyInv'
<1>1. UNCHANGED <<manifest, log, ckpt, hist, acked>>
  BY DEF MergeEnsure, EnsurePacksPresent, bucketVars
<1>2. Quiet(c)
  BY <1>1, CompactQuiet DEF ConsolidateStep
<1> QED BY <1>2, EnsurePresentTimely DEF MergeEnsure

\* A sweep lists no log entry but what is behind a checkpoint that it finds old.
LEMMA SweepListTimely ==
    ASSUME CompactionInv, CompactionInv', TimelyInv, NEW c \in Client, SweepList(c)
    PROVE  TimelyInv'
<1> DEFINE k == Cutoff(c)
           ckSeq == IF view[c] = None THEN 0 ELSE view[c].m.ck
           old == {s \in Slot : ckpt[s] # None /\ s <= ckSeq /\ IsOld(c, <<"ckpt", s>>)}
           logs == {s \in Slot : log[s] # None /\ s <= k}
           ckpts == {s \in Slot : ckpt[s] # None /\ s < k}
           live == IF view[c] = None THEN {} ELSE view[c].packs
           packs == (AgedPacks(c) \ live) \ RetainedPacks(k)
<1>0. pc[c] = "sweepList" /\ pc[c] \in CompactLabels /\ UNCHANGED <<manifest, log, ckpt, hist, acked, view>>
  BY DEF SweepList, CompactLabels, bucketVars, historyVars
<1>1. /\ pc \in [Client -> Label] /\ cp \in [Client -> Compacting] /\ cp[c] \in Compacting
  BY <1>0, CompactFacts
<1>2. Quiet(c)
  BY <1>0, CompactQuiet DEF SweepStep
<1>3. k = IF old = {} THEN 0 ELSE CHOOSE s \in old : \A t \in old : t <= s
  BY DEF Cutoff
<1>5. \A s \in logs : Doomed(s)
  <2>1. CASE old = {}
    <3>1. k = 0
      <4> HIDE DEF old, k
      <4> QED BY <1>3, <2>1
    <3>2. logs = {}
      <4> HIDE DEF k
      <4> QED BY <3>1, WalAssumption DEF Slot
    <3> QED BY <3>2
  <2>2. CASE old # {}
    <3>1. old \in SUBSET Slot
      OBVIOUS
    <3>2. k \in old
      <4> HIDE DEF old, k
      <4>1. \E s \in old : \A t \in old : t <= s
        BY <2>2, <3>1, GreatestSlot
      <4> QED BY <1>3, <2>2, <4>1
    <3>3. k \in Slot /\ <<"ckpt", k>> \in aged
      BY <3>2 DEF IsOld
    <3> HIDE DEF k, old
    <3> QED BY <3>3 DEF Doomed
  <2> QED BY <2>1, <2>2
<1> HIDE DEF logs, ckpts, packs
<1>6. cp' = [cp EXCEPT ![c].logs = logs, ![c].ckpts = ckpts, ![c].packs = packs] /\ Goto(c, "sweepDelete")
  BY ZenonT(30) DEF SweepList, logs, ckpts, packs
<1>7. cp'[c].logs = logs
  BY <1>1, <1>6 DEF Compacting
<1>8. pc'[c] = "sweepDelete"
  BY <1>1, <1>6 DEF Goto
<1> QED BY <1>0, <1>2, <1>5, <1>7, <1>8, CompactGoesOn DEF CompactLabels, SlotLabels

\* The deletion of packs leaves the log.
LEMMA SweepPacksTimely ==
    ASSUME CompactionInv, CompactionInv', TimelyInv, NEW c \in Client, SweepIdx(c) \/ SweepBody(c)
    PROVE  TimelyInv'
<1>0. pc[c] \in CompactLabels /\ pc[c] \in {"sweepIdx", "sweepBody"} /\ UNCHANGED <<manifest, log, ckpt, hist, acked, view>>
  BY DEF SweepIdx, SweepBody, CompactLabels, bucketVars, historyVars
<1>1. /\ pc \in [Client -> Label] /\ cp \in [Client -> Compacting] /\ cp[c] \in Compacting /\ \A s \in cp[c].logs : Doomed(s)
  BY <1>0, CompactFacts
<1>2. Quiet(c)
  BY <1>0, CompactQuiet DEF SweepStep
<1>3. ASSUME NEW lbl \in {"sweepIdx", "sweepBody"}, pc'[c] = lbl, cp'[c].logs = cp[c].logs PROVE TimelyInv'
  BY <1>0, <1>1, <1>2, <1>3, CompactGoesOn DEF CompactLabels, SlotLabels
<1>4. CASE SweepBody(c)
  <2>1. pc'[c] = "sweepIdx" /\ cp'[c].logs = cp[c].logs
    BY <1>1, <1>4 DEF SweepBody, Goto, Compacting
  <2> QED BY <1>3, <2>1
<1>5. CASE SweepIdx(c)
  <2>1. CASE Goto(c, "sweepBody") /\ UNCHANGED cp
    <3>1. pc'[c] = "sweepBody"
      BY <1>1, <2>1 DEF Goto
    <3> QED BY <1>3, <2>1, <3>1
  <2>2. CASE cp' = [cp EXCEPT ![c].left = PackDeleteBatch] /\ UNCHANGED pc
    <3>1. cp'[c].logs = cp[c].logs
      BY <1>1, <2>2 DEF Compacting
    <3> QED BY <1>0, <1>3, <2>2, <3>1
  <2>3. CASE Return(c, "ok")
    <3>1. pc'[c] = "idle"
      BY <1>1, <2>3 DEF Return, Goto
    <3> QED BY <1>0, <1>2, <3>1, QuietReturn
  <2> QED BY <1>5, <2>1, <2>2, <2>3 DEF SweepIdx
<1> QED BY <1>4, <1>5

-----------------------------------------------------------------------------
(* The steps that change the bucket                                          *)

\* Such a step of c keeps the invariant if it dooms no slot, leaves the dead ones alone,
\* begins no commit on an old manifest and commits no slot another has taken.
LEMMA TimelyStep ==
    ASSUME CompactionInv, CompactionInv', TimelyInv, NEW c \in Client, Apart(c), Settles, TimelyClient(c)',
           aged' \subseteq aged, \A k \in Slot : <<"ckpt", k>> \in aged' => ckpt'[k] # None,
           \A s \in Slot : Doomed(s)' => Doomed(s),
           \A d \in Client, s \in Slot : Owns(d, s)' => Owns(d, s) \/ ~Doomed(s),
           \A s \in Slot : Doomed(s) /\ Dead(s) => hist'[s] = None,
           \A m \in Manifest \cup {None} : CommitsOn(c, m)' => CommitsOn(c, m) \/ m = manifest,
           \A d \in Client : d # c /\ pc[d] \in ClaimedLabels => hist'[op[d].seq] = None,
           GapInv', OwnersInv', RecordsInv', GrowthInv', AckedIsDurable'
    PROVE  TimelyInv'
<1>1. Head(manifest) \in 0..MaxSeq /\ Head(manifest') \in 0..MaxSeq /\ Head(manifest) <= Head(manifest')
  <2>1. manifest \in Manifest \cup {None} /\ manifest' \in Manifest \cup {None}
    BY DEF CompactionInv, CompactionTypeOK, TypeOK
  <2> QED BY <2>1, Reached DEF Settles, Evolves
<1>2. ASSUME NEW d \in Client PROVE TimelyClient(d)'
  <2>1. CASE d = c
    BY <2>1
  <2>2. CASE d # c
    <3>1. /\ pc'[d] = pc[d] /\ view'[d] = view[d] /\ rd'[d] = rd[d] /\ op'[d] = op[d]
          /\ cp'[d] = cp[d] /\ pending'[d] = pending[d] /\ staged'[d] = staged[d]
      BY <2>2 DEF Apart
    <3>2. TimelyClient(d)
      BY DEF TimelyInv
    <3> QED BY <2>2, <3>1, <3>2, OthersTimely
  <2> QED BY <2>1, <2>2
<1>3. \A s \in Slot : Doomed(s) /\ Dead(s) => Dead(s)'
  BY DEF Dead
<1>4. DoomInv'
  <2>1. \A s \in Slot : Doomed(s)' /\ Head(manifest') < s => Dead(s)'
    <3> SUFFICES ASSUME NEW s \in Slot, Doomed(s)', Head(manifest') < s PROVE Dead(s)'
      OBVIOUS
    <3>1. Head(manifest) < s
      BY <1>1, WalAssumption DEF Slot
    <3> QED BY <1>3, <3>1 DEF TimelyInv, TimelyBucket, DoomInv
  <2>2. ASSUME NEW d \in Client, NEW m \in Manifest \cup {None}, NEW s \in Slot, CommitsOn(d, m)', Doomed(s)', Head(m) < s
        PROVE  Dead(s)'
    <3>1. Doomed(s)
      BY <2>2
    <3>2. CASE d = c /\ m = manifest
      BY <1>3, <2>2, <3>1, <3>2 DEF TimelyInv, TimelyBucket, DoomInv
    <3>3. CASE ~(d = c /\ m = manifest)
      <4>1. CommitsOn(d, m)
        <5>1. CASE d = c
          BY <2>2, <3>3, <5>1
        <5>2. CASE d # c
          <6>1. pc'[d] = pc[d] /\ rd'[d] = rd[d] /\ view'[d] = view[d] /\ op'[d] = op[d]
            BY <5>2 DEF Apart
          <6> QED BY <2>2, <6>1 DEF CommitsOn, ViewTag
        <5> QED BY <5>1, <5>2
      <4> QED BY <1>3, <2>2, <3>1, <4>1 DEF TimelyInv, TimelyBucket, DoomInv
    <3> QED BY <3>2, <3>3
  <2> QED BY <2>1, <2>2 DEF DoomInv, Head
<1> QED BY <1>2, <1>4 DEF TimelyInv, TimelyBucket

\* From the fold to the head of the manifest, every slot is taken.
LEMMA TakenSoFar ==
    ASSUME CompactionInv, TimelyInv
    PROVE  \A t \in Slot : Folded < t /\ t <= Head(manifest) => log[t] # None
<1> SUFFICES ASSUME NEW t \in Slot, Folded < t, t <= Head(manifest) PROVE log[t] # None
  OBVIOUS
<1>1. /\ Head(manifest) \in 0..MaxSeq /\ Folded \in 0..MaxSeq /\ hist[Head(manifest)] # None /\ TailInv
  <2>1. BucketOK /\ TypeOK /\ manifest \in Manifest \cup {None}
    BY DEF CompactionInv, CompactionTypeOK, TypeOK
  <2>2. Head(manifest) \in 0..MaxSeq /\ Folded \in 0..MaxSeq
    BY <2>1, Reached DEF Folded
  <2>3. manifest # None
    <3>1. t \in Int /\ t >= 1
      BY WalAssumption DEF Slot
    <3> QED BY <3>1 DEF Head
  <2> QED BY <2>1, <2>2, <2>3 DEF BucketOK, StatesInv, Head
<1>2. Head(manifest) \in Slot /\ Folded < Head(manifest)
  BY <1>1, WalAssumption DEF Slot
<1>3. log[Head(manifest)] # None
  BY <1>1, <1>2 DEF TailInv
<1>4. CASE t < Head(manifest)
  BY <1>2, <1>3, <1>4 DEF TimelyInv, TimelyBucket, GapInv
<1>5. CASE t = Head(manifest)
  BY <1>3, <1>5
<1> QED BY <1>1, <1>4, <1>5, WalAssumption DEF Slot

\* A slot that a client finds free was never committed, and all before it are taken.
LEMMA SlotFree ==
    ASSUME CompactionInv, TimelyInv, NEW c \in Client, pc[c] \in {"claim", "mergeClaim"},
           NEW q \in Slot, q = op[c].seq, log[q] = None
    PROVE  /\ hist[q] = None /\ Head(op[c].base) < q
           /\ \A t \in Slot : Folded < t /\ t < q => log[t] # None
<1>1. Head(op[c].base) < q
  <2>1. SlotInv(c)
    BY LocalFacts DEF ClientOK
  <2> QED BY <2>1 DEF SlotInv, SlotLabels
<1>2. /\ Head(manifest) \in 0..MaxSeq /\ Folded \in 0..MaxSeq /\ Head(op[c].base) \in 0..MaxSeq
      /\ Head(op[c].base) <= Head(manifest)
  BY Numbers
<1>3. hist[q] = None
  <2>1. CASE Folded < q
    BY <2>1 DEF CompactionInv, BucketOK, TailInv
  <2>2. CASE q <= Folded
    <3>1. Doomed(q)
      BY <2>2 DEF Doomed
    <3>2. op[c].base \in Manifest \cup {None}
      BY LocalFacts DEF Op
    <3>3. CommitsOn(c, op[c].base)
      BY DEF CommitsOn, SlotLabels
    <3>4. Dead(q)
      BY <1>1, <3>1, <3>2, <3>3 DEF TimelyInv, TimelyBucket, DoomInv
    <3> QED BY <3>4 DEF Dead
  <2> QED BY <1>2, <2>1, <2>2, WalAssumption DEF Slot
<1>4. ASSUME NEW t \in Slot, Folded < t, t < q PROVE log[t] # None
  <2>1. CASE Head(op[c].base) < t
    BY <1>4, <2>1 DEF TimelyInv, TimelyClient, SeekInv
  <2>2. CASE ~(Head(op[c].base) < t)
    <3>1. t <= Head(manifest)
      BY <1>2, <2>2, WalAssumption DEF Slot
    <3> QED BY <1>4, <3>1, TakenSoFar
  <2> QED BY <2>1, <2>2
<1> QED BY <1>1, <1>3, <1>4

\* It is taken without harm to what is committed or about to be.
LEMMA SlotTaken ==
    ASSUME CompactionInv, CompactionInv', TimelyInv, NEW c \in Client, pc[c] \in {"claim", "mergeClaim"},
           NEW q \in Slot, q = op[c].seq, log[q] = None, log' = [log EXCEPT ![q] = Entry(c)],
           UNCHANGED <<manifest, ckpt, hist, acked, aged>>, Apart(c), cp'[c] = cp[c],
           pc'[c] \in SlotLabels, op'[c].base = op[c].base, pc'[c] \in ClaimedLabels => op'[c].seq = q,
           TimelyClient(c)'
    PROVE  TimelyInv'
<1>1. Evolves /\ log'[q] = Entry(c) /\ Entry(c) # None /\ log \in [Slot -> LogEntry \cup {None}]
  BY LogGrows, LocalFacts, EntryIsNotNone DEF TypeOK
<1>2. /\ hist[q] = None /\ Head(op[c].base) < q
      /\ \A t \in Slot : Folded < t /\ t < q => log[t] # None
  BY SlotFree
<1>3. \A s \in Slot : s # q => log'[s] = log[s]
  BY <1>1
<1>4. /\ Folded' = Folded /\ Head(manifest)' = Head(manifest)
      /\ Objects' = Objects /\ \A b \in Branch, s \in Snapshot : OnBranch(b, s)' = OnBranch(b, s)
  BY DEF Folded, FoldOf, Head, Objects, OnBranch, CurrentState
<1>5. Settles
  BY <1>1, <1>2, <1>3, <1>4 DEF Settles
<1>6. \A d \in Client : cp'[d] = cp[d] /\ (d # c => pc'[d] = pc[d] /\ op'[d] = op[d])
  BY DEF Apart
<1>7. \A s \in Slot : Doomed(s)' => Doomed(s)
  BY <1>1, <1>3, <1>4, <1>6 DEF Doomed
<1>8. ASSUME op[c].base = manifest PROVE ~Doomed(q)
  <2>1. /\ Head(manifest) < q /\ Folded < q /\ Folded \in Int /\ Head(manifest) \in Int
    BY <1>2, <1>8, Numbers, WalAssumption DEF Slot
  <2>2. ASSUME NEW k \in Slot, q <= k, <<"ckpt", k>> \in aged PROVE FALSE
    <3>1. ckpt[k] # None
      BY <2>2 DEF TimelyInv, TimelyBucket, DoomInv
    <3>2. Head(manifest) < k /\ (k # q => q < k)
      BY <2>1, <2>2, WalAssumption DEF Slot
    <3>3. log[k] # None
      BY <3>1, <3>2 DEF CompactionInv, BucketOK, CheckpointsInv
    <3>4. q < k
      BY <3>2, <3>3
    <3> QED BY <2>1, <3>3, <3>4 DEF TimelyInv, TimelyBucket, GapInv
  <2>3. ASSUME NEW d \in Client, q \in cp[d].logs PROVE FALSE
    <3>1. q <= Folded
      BY <2>3, LocalFacts DEF ClientOK, PassedInv
    <3> QED BY <2>1, <3>1, WalAssumption DEF Slot
  <2>4. ~(q <= Folded)
    BY <2>1, WalAssumption DEF Slot
  <2> QED BY <2>2, <2>3, <2>4 DEF Doomed
<1>9. ASSUME NEW d \in Client, NEW s \in Slot, Owns(d, s)' PROVE Owns(d, s) \/ ~Doomed(s)
  <2>1. CASE d = c
    BY <1>8, <1>9, <2>1 DEF Owns
  <2>2. CASE d # c
    BY <1>6, <1>9, <2>2 DEF Owns
  <2> QED BY <2>1, <2>2
<1>10. \A m : CommitsOn(c, m)' => CommitsOn(c, m)
  <2>1. pc[c] \in SlotLabels /\ pc'[c] \notin WalkLabels \cup {"attempt", "fence"}
    BY DEF SlotLabels, WalkLabels
  <2> QED BY <2>1 DEF CommitsOn
<1>11. \A d \in Client : pc[d] \in ClaimedLabels => hist'[op[d].seq] = None
  BY DEF TimelyInv, TimelyClient, SeekInv
<1>12. GapInv'
  BY <1>1, <1>2, <1>3, <1>4 DEF GapInv, TimelyInv, TimelyBucket
<1>13. OwnersInv'
  <2>1. ASSUME NEW d \in Client, d # c, pc[d] \in ClaimedLabels, op[d].seq = q PROVE q <= Folded
    <3>1. Folded < q => log[q] = Entry(d) /\ Entry(d) # None
      BY <2>1, LocalFacts, EntryIsNotNone DEF ClientOK, SlotInv
    <3>2. q \in Int /\ Folded \in Int
      BY Numbers, WalAssumption DEF Slot
    <3> QED BY <3>1, <3>2
  <2>2. SUFFICES ASSUME NEW d \in Client, NEW e \in Client, d # e, pc'[d] \in ClaimedLabels, pc'[e] \in ClaimedLabels,
                        op'[d].seq = op'[e].seq
                 PROVE  op'[d].seq <= Folded
    BY <1>4 DEF OwnersInv
  <2>3. CASE d = c
    BY <1>6, <2>1, <2>2, <2>3
  <2>4. CASE e = c
    BY <1>6, <2>1, <2>2, <2>4
  <2>5. CASE d # c /\ e # c
    BY <1>6, <2>2, <2>5 DEF TimelyInv, TimelyBucket, OwnersInv
  <2> QED BY <2>3, <2>4, <2>5
<1>14. RecordsInv'
  <2> SUFFICES ASSUME NEW s \in Slot, hist[s] # None
               PROVE  /\ log'[s] # None /\ log'[s].branch # None => TrueEntry(s)'
                      /\ ckpt[s] # None => ckpt[s] = hist[s]
                      /\ Folded < s => Folded <= log'[s].parent
    BY <1>4 DEF RecordsInv
  <2>1. log'[s] = log[s]
    BY <1>2, <1>3
  <2>2. TrueEntry(s)' = TrueEntry(s)
    BY <2>1 DEF TrueEntry
  <2> QED BY <2>1, <2>2 DEF TimelyInv, TimelyBucket, RecordsInv
<1>15. GrowthInv'
  BY DEF TimelyInv, TimelyBucket, GrowthInv, Whole, Follows
<1>16. AckedIsDurable'
  BY <1>4 DEF TimelyInv, TimelyBucket, AckedIsDurable, OnBranch, CurrentState
<1>17. \A k \in Slot : <<"ckpt", k>> \in aged => ckpt[k] # None
  BY DEF TimelyInv, TimelyBucket, DoomInv
<1>18. \A s \in Slot : Doomed(s) /\ Dead(s) => hist'[s] = None
  BY DEF Dead
<1> QED BY <1>5, <1>7, <1>9, <1>10, <1>11, <1>12, <1>13, <1>14, <1>15, <1>16, <1>17, <1>18, TimelyStep

\* put_new of a log entry, of a push or of a compaction.
LEMMA ClaimSlotTimely ==
    ASSUME CompactionInv, CompactionInv', TimelyInv, NEW c \in Client, KeepCompactVars, NEW lbl,
           \/ pc[c] = "claim" /\ lbl = "ensure"
           \/ pc[c] = "mergeClaim" /\ lbl = "putCheckpoint",
           ClaimSlot(c, lbl), Apart(c)
    PROVE  TimelyInv'
<1> DEFINE q == op[c].seq
<1>0. /\ pc \in [Client -> Label] /\ op \in [Client -> Op] /\ op[c] \in Op /\ TimelyClient(c) /\ q \in 0..(MaxSeq + 1)
      /\ Entry(c) # None /\ log \in [Slot -> LogEntry \cup {None}]
      /\ UNCHANGED <<manifest, ckpt, hist, view, pending, staged, acked, aged>>
  BY LocalFacts, EntryIsNotNone DEF TimelyInv, ClaimSlot, sessionVars, KeepCompactVars, TypeOK, Op
<1>1. /\ pc[c] \in SlotLabels \ (ClaimedLabels \cup ReadLabels \cup LandedLabels) /\ lbl \in ClaimedLabels \cap SlotLabels
      /\ lbl \notin ReadLabels \cup LandedLabels \cup {"idle", "attempt", "fence", "probe"} /\ pc[c] # "idle"
      /\ pc[c] \in {"claim", "mergeClaim"} /\ At(c) = pc[c]
      /\ (lbl \in CommitLabels <=> pc[c] \in CommitLabels) /\ (lbl \in MergeLabels <=> pc[c] \in MergeLabels)
  BY DEF SlotLabels, ClaimedLabels, ReadLabels, WalkLabels, LandedLabels, CommitLabels, MergeLabels, At
<1>2. Objects' = Objects
  BY <1>0, SameObjects
<1>3. pc'[c] # "idle" => cp'[c] = cp[c]
  <2>1. \A d \in Client : d # c => pc'[d] = pc[d]
    BY DEF Apart
  <2> QED BY <2>1, Kept
<1>4. (log' = log) => Quiet(c)
  BY <1>0 DEF Quiet
<1>5. CASE Return(c, "err") /\ log' = log
  <2>1. pc'[c] = "idle"
    BY <1>0, <1>5 DEF Return, Goto
  <2> QED BY <1>0, <1>4, <1>5, <2>1, QuietReturn
<1>6. ASSUME q <= MaxSeq, op' = [op EXCEPT ![c].seq = q + 1], pc' = pc, rd' = rd,
             log'[q] # None, \A t \in Slot : log[t] # None => log'[t] # None
      PROVE  TimelyClient(c)'
  <2>1. /\ op'[c].branch = op[c].branch /\ op'[c].new = op[c].new /\ op'[c].old = op[c].old
        /\ op'[c].base = op[c].base /\ op'[c].seq = q + 1 /\ op'[c].pend = op[c].pend
    BY <1>0, <1>6 DEF Op
  <2>2. (Head(op[c].base))' = Head(op[c].base) /\ Folded' = Folded /\ At(c)' = At(c) /\ cp'[c] = cp[c]
    BY <1>0, <1>1, <1>3, <1>6, <2>1 DEF Head, Folded, FoldOf, At
  <2>3. WalkTruth(c)' /\ ViewInv(c)'
    BY <1>0, <1>1, <1>6 DEF WalkTruth, ReadLabels, ViewInv, TimelyClient
  <2>4. SeekInv(c)'
    <3>1. ASSUME NEW t \in Slot, Folded < t, Head(op[c].base) < t, t < q + 1 PROVE log'[t] # None
      <4>1. t < q \/ t = q
        BY <1>0, <3>1, WalAssumption DEF Slot
      <4>2. CASE t < q
        BY <1>0, <1>1, <1>6, <3>1, <4>2 DEF TimelyClient, SeekInv
      <4> QED BY <1>6, <4>1, <4>2
    <3> QED BY <1>1, <1>6, <2>1, <2>2, <3>1 DEF SeekInv
  <2>5. PushTruth(c)'
    BY <1>0, <1>1, <1>6, <2>1, <2>2 DEF PushTruth, TimelyClient
  <2>6. HandOverInv(c)'
    BY <1>0, <1>1, <1>2, <1>6, <2>1, <2>2 DEF HandOverInv, TimelyClient
  <2>7. MergeTruth(c)'
    <3>1. Merged(c)' = Merged(c) /\ KeptPacks(c)' = KeptPacks(c)
      BY <1>0, <2>2 DEF Merged, KeptPacks, Created
    <3> QED BY <1>0, <1>1, <1>6, <2>2, <3>1 DEF MergeTruth, TimelyClient
  <2> QED BY <2>3, <2>4, <2>5, <2>6, <2>7 DEF TimelyClient
<1>7. CASE /\ q <= MaxSeq /\ log[q] # None /\ op' = [op EXCEPT ![c].seq = q + 1]
           /\ UNCHANGED <<log, pc, rd>>
  <2>1. TimelyClient(c)'
    BY <1>6, <1>7
  <2>2. op'[c].base = op[c].base
    BY <1>0, <1>7 DEF Op
  <2>3. \A m : CommitsOn(c, m)' => CommitsOn(c, m)
    BY <1>1, <1>7, <2>2 DEF CommitsOn, ReadLabels
  <2>4. \A s \in cp'[c].logs : Doomed(s)
    BY <1>1, <1>3, <1>7 DEF Doomed
  <2> QED BY <1>1, <1>4, <1>7, <2>1, <2>3, <2>4, QuietTimely
<1>8. CASE /\ q <= MaxSeq /\ log[q] = None /\ log' = [log EXCEPT ![q] = Entry(c)] /\ rd' = rd
           /\ \/ pc' = [pc EXCEPT ![c] = lbl] /\ op' = op
              \/ op' = [op EXCEPT ![c].seq = q + 1] /\ pc' = pc
  <2>1. q \in Slot
    <3>1. Head(op[c].base) \in 0..MaxSeq /\ Head(op[c].base) < q
      BY <1>1, LocalFacts, Numbers DEF ClientOK, SlotInv
    <3> QED BY <1>0, <1>8, <3>1, WalAssumption DEF Slot
  <2>2. log'[q] # None /\ \A t \in Slot : log[t] # None => log'[t] # None
    BY <1>0, <1>8, <2>1
  <2>3. CASE op' = [op EXCEPT ![c].seq = q + 1] /\ pc' = pc
    <3>1. TimelyClient(c)'
      BY <1>6, <1>8, <2>2, <2>3
    <3>2. op'[c].base = op[c].base
      BY <1>0, <2>3 DEF Op
    <3>3. pc'[c] \in SlotLabels /\ pc'[c] \notin ClaimedLabels /\ cp'[c] = cp[c]
      BY <1>1, <1>3, <2>3
    <3> HIDE DEF q
    <3>4. q = op[c].seq
      BY DEF q
    <3> QED BY <1>0, <1>1, <1>8, <2>1, <3>1, <3>2, <3>3, <3>4, SlotTaken
  <2>4. CASE pc' = [pc EXCEPT ![c] = lbl] /\ op' = op
    <3>1. pc'[c] = lbl /\ cp'[c] = cp[c]
      BY <1>0, <1>1, <1>3, <2>4
    <3>2. (Head(op[c].base))' = Head(op[c].base) /\ At(c)' = lbl
      BY <1>1, <2>4, <3>1 DEF Head, At
    <3>3. WalkTruth(c)' /\ ViewInv(c)'
      BY <1>0, <1>1, <3>1 DEF WalkTruth, ReadLabels, ViewInv, TimelyClient
    <3>4. SeekInv(c)'
      <4>1. hist[q] = None
        BY <1>1, <1>8, <2>1, SlotFree
      <4>2. lbl \notin {"claim", "mergeClaim"}
        OBVIOUS
      <4> QED BY <1>0, <2>4, <3>1, <4>1, <4>2 DEF SeekInv
    <3>5. PushTruth(c)'
      BY <1>0, <1>1, <2>4, <3>1, <3>2 DEF PushTruth, TimelyClient
    <3>6. HandOverInv(c)'
      BY <1>0, <1>1, <1>2, <2>4, <3>1, <3>2 DEF HandOverInv, TimelyClient
    <3>7. MergeTruth(c)'
      <4>1. Merged(c)' = Merged(c) /\ KeptPacks(c)' = KeptPacks(c)
        BY <1>0, <3>1 DEF Merged, KeptPacks, Created
      <4> QED BY <1>0, <1>1, <3>1, <3>2, <4>1 DEF MergeTruth, TimelyClient
    <3>8. TimelyClient(c)'
      BY <3>3, <3>4, <3>5, <3>6, <3>7 DEF TimelyClient
    <3>9. pc'[c] \in SlotLabels /\ op'[c].base = op[c].base /\ op'[c].seq = q
      BY <1>1, <2>4, <3>1
    <3> HIDE DEF q
    <3>10. q = op[c].seq
      BY DEF q
    <3> QED BY <1>0, <1>1, <1>8, <2>1, <3>1, <3>8, <3>9, <3>10, SlotTaken
  <2> QED BY <1>8, <2>3, <2>4
<1> QED
  <2>1. \/ Return(c, "err") /\ log' = log
        \/ /\ q <= MaxSeq /\ log[q] = None /\ log' = [log EXCEPT ![q] = Entry(c)] /\ rd' = rd
           /\ \/ pc' = [pc EXCEPT ![c] = lbl] /\ op' = op
              \/ op' = [op EXCEPT ![c].seq = @ + 1] /\ pc' = pc
        \/ /\ q <= MaxSeq /\ log[q] # None /\ op' = [op EXCEPT ![c].seq = NextSlot(@)]
           /\ UNCHANGED <<log, pc, rd>>
    BY ZenonT(30) DEF ClaimSlot, Goto
  <2>2. [op EXCEPT ![c].seq = NextSlot(@)] = [op EXCEPT ![c].seq = q + 1]
    BY <1>0 DEF NextSlot
  <2> QED BY <1>5, <1>7, <1>8, <2>1, <2>2

LEMMA ClaimTimely ==
    ASSUME CompactionInv, CompactionInv', TimelyInv, NEW c \in Client, Claim(c), KeepCompactVars
    PROVE  TimelyInv'
<1>1. Apart(c)
  BY WalFrame DEF Progress, Step, PushStep
<1> QED BY <1>1, ClaimSlotTimely DEF Claim

LEMMA MergeClaimTimely ==
    ASSUME CompactionInv, CompactionInv', TimelyInv, NEW c \in Client, MergeClaim(c)
    PROVE  TimelyInv'
<1>1. Apart(c)
  BY CompactFrame DEF ConsolidateStep
<1> QED BY <1>1, ClaimSlotTimely DEF MergeClaim

\* One state grows out of another over a third.
LEMMA FollowsOn ==
    ASSUME NEW h \in Checkpoint, NEW g \in Checkpoint, NEW k \in Checkpoint, Follows(h, g), Follows(g, k)
    PROVE  Follows(h, k)
<1>1. UNION h.packs \subseteq UNION k.packs
  BY DEF Follows
<1>2. ASSUME NEW b \in Branch, h.refs[b] # None PROVE k.refs[b] # None /\ h.refs[b] \in Ancestors[k.refs[b]]
  <2>1. g.refs[b] # None /\ h.refs[b] \in Ancestors[g.refs[b]] /\ k.refs[b] # None /\ g.refs[b] \in Ancestors[k.refs[b]]
    BY <1>2 DEF Follows
  <2>2. g.refs[b] \in Snapshot /\ k.refs[b] \in Snapshot
    BY <2>1 DEF Checkpoint, Refs, Tip
  <2> QED BY <2>1, <2>2, WalAssumption
<1> QED BY <1>1, <1>2 DEF Follows

\* A state committed after the current one, grown out of it and whole, keeps the history in
\* order and takes back nothing that was acknowledged.
LEMMA NewStateGrows ==
    ASSUME CompactionInv, TimelyInv, NEW q \in Slot, NEW h \in Checkpoint, Head(manifest) < q,
           hist' = [hist EXCEPT ![q] = h], Follows(CurrentState, h), Whole(h), Head(manifest') = q, acked' = acked
    PROVE  /\ hist[q] = None /\ hist'[q] = h /\ q \in 0..MaxSeq
           /\ \A s \in 0..MaxSeq : s # q => hist'[s] = hist[s]
           /\ CurrentState' = h /\ Objects \subseteq Objects'
           /\ \A b \in Branch, s \in Snapshot : OnBranch(b, s) => OnBranch(b, s)'
           /\ GrowthInv' /\ AckedIsDurable'
<1>0. /\ hist \in [0..MaxSeq -> Checkpoint \cup {None}] /\ StatesInv /\ acked \in SUBSET (Branch \X Snapshot)
      /\ Head(manifest) \in 0..MaxSeq /\ hist[Head(manifest)] # None /\ q \in 0..MaxSeq /\ h # None
  <2>1. hist \in [0..MaxSeq -> Checkpoint \cup {None}] /\ StatesInv /\ acked \in SUBSET (Branch \X Snapshot)
    BY DEF CompactionInv, CompactionTypeOK, TypeOK, BucketOK
  <2>2. Head(manifest) \in 0..MaxSeq /\ hist[Head(manifest)] # None
    <3>1. TypeOK /\ manifest \in Manifest \cup {None}
      BY DEF CompactionInv, CompactionTypeOK, TypeOK
    <3>2. hist[0] # None
      BY <2>1, NoneAssumption, NoValues DEF StatesInv, Checkpoint
    <3> QED BY <2>1, <3>1, <3>2, Reached DEF StatesInv, Head
  <2> QED BY <2>1, <2>2, WalAssumption, NoneAssumption DEF Slot
<1>1. \A s \in 0..MaxSeq : hist[s] # None => s <= Head(manifest)
  BY <1>0, WalAssumption DEF StatesInv, Slot
<1>2. hist[q] = None
  BY <1>0, <1>1, WalAssumption DEF Slot
<1>3. hist'[q] = h /\ \A s \in 0..MaxSeq : s # q => hist'[s] = hist[s]
  BY <1>0
<1>4. CurrentState' = h /\ CurrentState \in Checkpoint
  <2>1. Head(manifest)' = q
    BY DEF Head
  <2> QED BY <1>0, <1>3, <2>1 DEF CurrentState
<1>5. Objects \subseteq Objects'
  BY <1>4 DEF Objects, Follows
<1>6. ASSUME NEW b \in Branch, NEW s \in Snapshot, OnBranch(b, s) PROVE OnBranch(b, s)'
  <2>1. CurrentState.refs[b] # None /\ s \in Ancestors[CurrentState.refs[b]]
    BY <1>6 DEF OnBranch
  <2>2. h.refs[b] # None /\ CurrentState.refs[b] \in Ancestors[h.refs[b]]
    BY <2>1 DEF Follows
  <2>3. h.refs[b] \in Snapshot
    BY <2>2 DEF Checkpoint, Refs, Tip
  <2>4. s \in Ancestors[h.refs[b]]
    BY <2>1, <2>2, <2>3, WalAssumption
  <2> QED BY <1>4, <2>2, <2>4 DEF OnBranch
<1>7. Follows(h, h)
  <2>1. \A b \in Branch : h.refs[b] # None => h.refs[b] \in Ancestors[h.refs[b]]
    BY WalAssumption DEF Checkpoint, Refs, Tip
  <2> QED BY <2>1 DEF Follows
<1>8. GrowthInv'
  <2>1. ASSUME NEW s \in 0..MaxSeq, hist'[s] # None PROVE Whole(hist'[s])
    BY <1>3, <2>1 DEF TimelyInv, TimelyBucket, GrowthInv
  <2>2. ASSUME NEW s \in 0..MaxSeq, NEW t \in 0..MaxSeq, s <= t, hist'[s] # None, hist'[t] # None
        PROVE  Follows(hist'[s], hist'[t])
    <3>1. CASE t = q /\ s = q
      BY <1>3, <1>7, <3>1
    <3>2. CASE t = q /\ s # q
      <4>1. hist'[s] = hist[s] /\ hist[s] \in Checkpoint /\ s <= Head(manifest)
        BY <1>0, <1>1, <1>3, <2>2, <3>2
      <4>2. Follows(hist[s], CurrentState)
        BY <1>0, <2>2, <4>1 DEF TimelyInv, TimelyBucket, GrowthInv, CurrentState
      <4> QED BY <1>3, <1>4, <3>2, <4>1, <4>2, FollowsOn
    <3>3. CASE t # q
      <4>1. hist'[t] = hist[t] /\ t <= Head(manifest)
        BY <1>1, <1>3, <2>2, <3>3
      <4>2. s # q
        BY <1>0, <2>2, <4>1, WalAssumption DEF Slot
      <4> QED BY <1>3, <2>2, <4>1, <4>2 DEF TimelyInv, TimelyBucket, GrowthInv
    <3> QED BY <3>1, <3>2, <3>3
  <2> QED BY <2>1, <2>2 DEF GrowthInv, Whole, Follows
<1>9. AckedIsDurable'
  <2> SUFFICES ASSUME NEW a \in acked
               PROVE  CurrentState'.refs[a[1]] # None /\ a[2] \in Ancestors[CurrentState'.refs[a[1]]]
    BY DEF AckedIsDurable
  <2>1. PICK b \in Branch, s \in Snapshot : b = a[1] /\ s = a[2]
    BY <1>0
  <2>2. OnBranch(b, s)
    BY <2>1 DEF TimelyInv, TimelyBucket, AckedIsDurable, OnBranch
  <2>3. OnBranch(b, s)'
    BY <1>6, <2>2
  <2> QED BY <2>1, <2>3 DEF OnBranch
<1> QED BY <1>0, <1>2, <1>3, <1>4, <1>5, <1>6, <1>8, <1>9

\* The compare-and-swap of a push succeeds; that of a consolidation.
PushLands(c) ==
    /\ pc[c] = "cas" /\ manifest = op[c].base /\ manifest' = NewManifest(c)
    /\ hist' = [hist EXCEPT ![op[c].seq] = Extend(hist[Entry(c).parent], Entry(c))]
    /\ UNCHANGED <<log, ckpt, acked>>

MergeIsIn(c) ==
    /\ pc[c] = "mergeCas" /\ manifest = op[c].base /\ manifest' = MergeManifest(c)
    /\ hist' = [hist EXCEPT ![op[c].seq] = [refs |-> hist[Head(op[c].base)].refs, packs |-> cp[c].kept]]
    /\ UNCHANGED <<log, ckpt, acked>>

\* The commit of a push: its entry is true, its branch moves forward and its objects are in.
LEMMA CommitLands ==
    ASSUME CompactionInv, TimelyInv, NEW c \in Client, PushLands(c), NEW q, q = op[c].seq
    PROVE  /\ q \in Slot /\ Head(manifest) < q /\ Head(manifest') = q /\ Folded' = Folded
           /\ hist[q] = None /\ \A s \in 0..MaxSeq : s # q => hist'[s] = hist[s]
           /\ Settles /\ RecordsInv' /\ GrowthInv' /\ AckedIsDurable'
           /\ \A b \in Branch, s \in Snapshot : b = op[c].branch /\ s = op[c].new => OnBranch(b, s)'
           /\ Ancestors[op[c].new] \subseteq Objects'
           /\ CurrentState' = Extend(CurrentState, Entry(c)) /\ CurrentState.refs[op[c].branch] = op[c].old
<1> USE DEF PushLands
<1> DEFINE g == CurrentState
<1>0. /\ TypeOK /\ op[c] \in Op /\ op[c].branch \in Branch /\ op[c].new \in Snapshot /\ op[c].new # None
      /\ (op[c].old # None => op[c].old \in Ancestors[op[c].new]) /\ HandOverInv(c) /\ TimelyClient(c) /\ At(c) = "cas"
      /\ Entry(c) \in LogEntry /\ Entry(c) # None /\ StatesInv /\ CheckpointsInv /\ SlotInv(c)
      /\ hist \in [0..MaxSeq -> Checkpoint \cup {None}] /\ log \in [Slot -> LogEntry \cup {None}]
  BY PushFacts, LocalFacts, EntryIsNotNone DEF BucketOK, ClientOK, CommitLabels, TypeOK
<1>1. /\ Head(manifest) \in 0..MaxSeq /\ Folded \in 0..MaxSeq /\ Folded <= Head(manifest)
      /\ hist[Head(manifest)] # None
  BY Numbers
<1>2. q \in Slot /\ Head(manifest) < q /\ q \in 0..MaxSeq
  <2>1. q \in Slot /\ Head(manifest) < q
    BY <1>0 DEF SlotInv, SlotLabels, ClaimedLabels
  <2> QED BY <2>1, WalAssumption DEF Slot
<1>3. log[q] = Entry(c)
  <2>1. Folded < q
    BY <1>1, <1>2, WalAssumption DEF Slot
  <2> QED BY <1>0, <2>1 DEF SlotInv, SlotLabels, ClaimedLabels
<1>4. PICK e : e = Entry(c)
  OBVIOUS
<1>5. /\ e.parent = Head(manifest) /\ e.branch = op[c].branch /\ e.new = op[c].new /\ e.packs = op[c].pend
      /\ e.packs \in SUBSET Pack /\ e.new \in Tip /\ log[q] = e /\ e # None
  BY <1>0, <1>3, <1>4 DEF Entry, Op
<1>6. PICK h : h = Extend(g, e)
  OBVIOUS
<1>7. g \in Checkpoint /\ g = hist[Head(manifest)] /\ g # None
  BY <1>0, <1>1 DEF CurrentState
<1>8. /\ h.packs = g.packs \cup e.packs
      /\ \A b \in Branch : h.refs[b] = IF b = e.branch THEN e.new ELSE g.refs[b]
  BY <1>6, ExtendIs
<1>9. h \in Checkpoint
  <2>1. g.refs \in Refs /\ g.packs \in SUBSET Pack
    BY <1>7 DEF Checkpoint
  <2> QED BY <1>5, <1>6, <2>1 DEF Extend, Checkpoint, Refs
<1>10. hist' = [hist EXCEPT ![q] = h]
  BY <1>4, <1>5, <1>6, <1>7
<1>11. g.refs[op[c].branch] = op[c].old
  BY <1>0, <1>7 DEF TimelyClient, PushTruth
<1>12. Follows(g, h)
  <2>1. UNION g.packs \subseteq UNION h.packs
    BY <1>8
  <2>2. ASSUME NEW b \in Branch, g.refs[b] # None PROVE h.refs[b] # None /\ g.refs[b] \in Ancestors[h.refs[b]]
    <3>1. CASE b = e.branch
      BY <1>0, <1>5, <1>8, <1>11, <2>2, <3>1
    <3>2. CASE b # e.branch
      <4>1. g.refs[b] \in Snapshot
        BY <1>7, <2>2 DEF Checkpoint, Refs, Tip
      <4> QED BY <1>8, <2>2, <3>2, <4>1, WalAssumption
    <3> QED BY <3>1, <3>2
  <2> QED BY <2>1, <2>2 DEF Follows
<1>13. Ancestors[op[c].new] \subseteq UNION h.packs
  <2>1. Ancestors[op[c].new] \subseteq (UNION op[c].pend) \cup Objects
    BY <1>0 DEF HandOverInv
  <2>2. UNION h.packs = (UNION g.packs) \cup (UNION op[c].pend)
    BY <1>5, <1>8
  <2> QED BY <2>1, <2>2 DEF Objects
<1>14. Whole(h)
  <2>1. Whole(g)
    BY <1>1, <1>7 DEF TimelyInv, TimelyBucket, GrowthInv
  <2>2. ASSUME NEW b \in Branch, h.refs[b] # None PROVE Ancestors[h.refs[b]] \subseteq UNION h.packs
    <3>1. CASE b = e.branch
      BY <1>5, <1>8, <1>13, <3>1
    <3>2. CASE b # e.branch
      <4>1. h.refs[b] = g.refs[b]
        BY <1>8, <3>2
      <4> QED BY <1>12, <2>1, <2>2, <4>1 DEF Whole, Follows
    <3> QED BY <3>1, <3>2
  <2> QED BY <2>2 DEF Whole
<1>15. Head(manifest') = q /\ Folded' = Folded
  <2>1. PICK m : m = NewManifest(c)
    OBVIOUS
  <2>2. m.head = q /\ m.ck = Folded /\ m # None
    <3>1. m.head = q /\ m.ck = Folded
      BY <2>1 DEF NewManifest, Folded, FoldOf
    <3>2. manifest' \in Manifest
      BY PushCommits
    <3> QED BY <2>1, <3>1, <3>2, NoneAssumption
  <2> QED BY <2>1, <2>2 DEF Head, Folded, FoldOf
<1> HIDE DEF g
<1>16. /\ hist[q] = None /\ hist'[q] = h
       /\ \A s \in 0..MaxSeq : s # q => hist'[s] = hist[s]
       /\ CurrentState' = h /\ Objects \subseteq Objects'
       /\ \A b \in Branch, s \in Snapshot : OnBranch(b, s) => OnBranch(b, s)'
       /\ GrowthInv' /\ AckedIsDurable'
  BY <1>2, <1>9, <1>10, <1>12, <1>14, <1>15, NewStateGrows DEF g
<1>17. Settles
  <2>1. Evolves
    BY PushCommits
  <2>2. \A s \in Slot : hist[s] = None /\ s <= Head(manifest) => hist'[s] = None
    <3> SUFFICES ASSUME NEW s \in Slot, hist[s] = None, s <= Head(manifest) PROVE hist'[s] = None
      OBVIOUS
    <3>1. s # q /\ s \in 0..MaxSeq
      BY <1>1, <1>2, WalAssumption DEF Slot
    <3> QED BY <1>16, <3>1
  <2> QED BY <1>16, <2>1, <2>2 DEF Settles
<1>18. RecordsInv'
  <2> SUFFICES ASSUME NEW s \in Slot, hist'[s] # None
               PROVE  /\ log[s] # None /\ log[s].branch # None => TrueEntry(s)'
                      /\ ckpt[s] # None => ckpt[s] = hist'[s]
                      /\ Folded < s => Folded <= log[s].parent
    BY <1>15 DEF RecordsInv
  <2>1. CASE s = q
    <3>1. hist'[Head(manifest)] = hist[Head(manifest)]
      BY <1>1, <1>2, <1>16, WalAssumption DEF Slot
    <3>2. TrueEntry(q)'
      BY <1>0, <1>1, <1>2, <1>5, <1>6, <1>7, <1>16, <3>1 DEF TrueEntry
    <3>3. ckpt[q] = None
      BY <1>0, <1>2, <1>5, NoneAssumption DEF CheckpointsInv
    <3> QED BY <1>1, <1>5, <2>1, <3>2, <3>3
  <2>2. CASE s # q
    <3>1. s \in 0..MaxSeq /\ hist'[s] = hist[s]
      BY <1>16, <2>2, WalAssumption DEF Slot
    <3>2. /\ log[s] # None /\ log[s].branch # None => TrueEntry(s)
          /\ ckpt[s] # None => ckpt[s] = hist[s]
          /\ Folded < s => Folded <= log[s].parent
      BY <2>2, <3>1 DEF TimelyInv, TimelyBucket, RecordsInv
    <3>3. ASSUME log[s] # None, log[s].branch # None PROVE TrueEntry(s)'
      <4>1. log[s] \in LogEntry
        BY <1>0, <3>3
      <4>2. log[s].parent \in 0..MaxSeq
        BY <4>1 DEF LogEntry
      <4>3. hist'[log[s].parent] = hist[log[s].parent]
        BY <1>16, <3>2, <3>3, <4>2 DEF TrueEntry
      <4> QED BY <3>1, <3>2, <3>3, <4>3 DEF TrueEntry
    <3> QED BY <3>1, <3>2, <3>3
  <2> QED BY <2>1, <2>2
<1>19. ASSUME NEW b \in Branch, NEW s \in Snapshot, b = op[c].branch, s = op[c].new PROVE OnBranch(b, s)'
  <2>1. h.refs[b] = s /\ s # None /\ s \in Ancestors[s]
    BY <1>0, <1>5, <1>8, <1>19, WalAssumption
  <2> QED BY <1>16, <2>1 DEF OnBranch
<1>20. Ancestors[op[c].new] \subseteq Objects'
  BY <1>13, <1>16 DEF Objects
<1> QED BY <1>2, <1>4, <1>6, <1>11, <1>15, <1>16, <1>17, <1>18, <1>19, <1>20 DEF g

\* What a failed compare-and-swap leaves of the push that tries again.
LEMMA RetryTimely ==
    ASSUME CompactionInv, CompactionInv', TimelyInv, NEW c \in Client, pc[c] = "cas", Retry(c), view'[c] = view[c],
           UNCHANGED <<pending, staged>>, ViewInv(c)', Objects \subseteq Objects'
    PROVE  /\ TimelyClient(c)' /\ pc'[c] \in {"getManifest", "idle"}
           /\ pc'[c] = "getManifest" => At(c)' = "attempt" /\ HandOverInv(c)'
           /\ op'[c].new = op[c].new \/ pc'[c] = "idle"
           /\ op'[c].old = op[c].old \/ pc'[c] = "idle"
<1>0. /\ op \in [Client -> Op] /\ op[c] \in Op /\ rd \in [Client -> Reading] /\ pc \in [Client -> Label]
      /\ (op[c].old # None => op[c].old \in Ancestors[op[c].new]) /\ HandOverInv(c) /\ At(c) = "cas"
  BY PushFacts DEF CommitLabels
<1>1. CASE /\ op' = [op EXCEPT ![c].n = @ + 1, ![c].base = None, ![c].seq = 0]
           /\ CallRefresh(c, "attempt")
  <2>1. op'[c].new = op[c].new /\ op'[c].old = op[c].old /\ op'[c].pend = op[c].pend
    BY <1>0, <1>1 DEF Op
  <2>2. pc'[c] = "getManifest" /\ rd'[c].ret = "attempt"
    BY <1>0, <1>1 DEF CallRefresh, Goto, NoReading
  <2>3. At(c)' = "attempt" /\ pc'[c] \notin WalkLabels \cup SlotLabels
    BY <2>2 DEF At, ReadLabels, WalkLabels, SlotLabels
  <2>4. HandOverInv(c)'
    BY <1>0, <2>1, <2>3 DEF HandOverInv
  <2>5. TimelyClient(c)'
    BY <1>0, <2>1, <2>3, <2>4, Slotless DEF LandedLabels
  <2> QED BY <2>1, <2>2, <2>3, <2>4, <2>5
<1>2. CASE Return(c, "contention")
  <2>1. pc'[c] = "idle"
    BY <1>0, <1>2 DEF Return, Goto
  <2> QED BY <2>1, Resting
<1> QED BY <1>1, <1>2 DEF Retry

\* The commit point of a push.
LEMMA CasTimely ==
    ASSUME CompactionInv, CompactionInv', TimelyInv, NEW c \in Client, Cas(c), KeepCompactVars
    PROVE  TimelyInv'
<1>0. /\ pc[c] = "cas" /\ UNCHANGED <<log, ckpt, view, pending, staged, acked>> /\ Progress(c)
      /\ TimelyClient(c) /\ op[c] \in Op /\ rd \in [Client -> Reading] /\ pc \in [Client -> Label]
      /\ op[c].branch \in Branch /\ op[c].new \in Snapshot
  BY PushFacts DEF Cas, sessionVars, Progress, Step, PushStep, CommitLabels
<1>1. Apart(c) /\ aged' = aged /\ cp'[c].logs \subseteq cp[c].logs
  BY <1>0, WalFrame, NoCompactingIs
<1>2. CASE Retry(c) /\ UNCHANGED <<manifest, hist>>
  <2>1. Quiet(c)
    BY <1>0, <1>1, <1>2 DEF Quiet
  <2>2. ViewInv(c)' /\ Objects' = Objects
    BY <1>0, <1>2, SameObjects DEF TimelyClient, ViewInv
  <2>3. TimelyClient(c)' /\ pc'[c] \in {"getManifest", "idle"}
    BY <1>0, <1>2, <2>2, RetryTimely
  <2>4. \A s \in cp'[c].logs : Doomed(s)
    BY <1>1 DEF Doomed
  <2>5. pc'[c] \notin ClaimedLabels /\ \A m : ~CommitsOn(c, m)'
    BY <2>3 DEF CommitsOn, WalkLabels, SlotLabels, ClaimedLabels
  <2> QED BY <2>1, <2>3, <2>4, <2>5, QuietTimely
<1>3. CASE /\ manifest = op[c].base
           /\ manifest' = NewManifest(c)
           /\ hist' = [hist EXCEPT ![op[c].seq] = Extend(hist[Entry(c).parent], Entry(c))]
           /\ \/ CallRefresh(c, "foldPut") /\ op' = op
              \/ Retry(c)
  <2>1. PICK q : q = op[c].seq
    OBVIOUS
  <2>2. /\ q \in Slot /\ Head(manifest) < q /\ Head(manifest') = q /\ Folded' = Folded
        /\ hist[q] = None /\ \A s \in 0..MaxSeq : s # q => hist'[s] = hist[s]
        /\ Settles /\ RecordsInv' /\ GrowthInv' /\ AckedIsDurable'
        /\ \A b \in Branch, s \in Snapshot : b = op[c].branch /\ s = op[c].new => OnBranch(b, s)'
    <3>1. PushLands(c)
      BY <1>0, <1>3 DEF PushLands
    <3> QED BY <2>1, <3>1, CommitLands
  <2>3. ViewInv(c)' /\ Objects \subseteq Objects'
    BY <1>0, <2>2, ViewKept DEF TimelyClient, Settles
  <2>4. TimelyClient(c)' /\ pc'[c] \in {"getManifest", "idle"}
    <3>1. CASE CallRefresh(c, "foldPut") /\ op' = op
      <4>1. pc'[c] = "getManifest" /\ rd'[c].ret = "foldPut"
        BY <1>0, <3>1 DEF CallRefresh, Goto, NoReading
      <4>2. At(c)' = "foldPut" /\ pc'[c] \notin WalkLabels \cup SlotLabels
        BY <4>1 DEF At, ReadLabels, WalkLabels, SlotLabels
      <4>3. OnBranch(op[c].branch, op[c].new)'
        <5>1. PICK b \in Branch, s \in Snapshot : b = op[c].branch /\ s = op[c].new
          BY <1>0
        <5>2. OnBranch(b, s)' /\ op'[c].branch = b /\ op'[c].new = s
          BY <2>2, <3>1, <5>1
        <5> QED BY <5>2 DEF OnBranch
      <4> QED BY <2>3, <4>1, <4>2, <4>3, Slotless DEF CommitLabels
    <3>2. CASE Retry(c)
      BY <1>0, <2>3, <3>2, RetryTimely
    <3> QED BY <1>3, <3>1, <3>2
  <2>5. pc'[c] \notin ClaimedLabels /\ \A m : ~CommitsOn(c, m)'
    BY <2>4 DEF CommitsOn, WalkLabels, SlotLabels, ClaimedLabels
  <2>6. Folded <= Head(manifest) /\ Folded \in Int /\ Head(manifest) \in Int /\ Folded < q
    BY <2>2, Numbers, WalAssumption DEF Slot
  <2>7. \A d \in Client : cp'[d].logs \subseteq cp[d].logs
    <3>1. \A d \in Client : d # c => cp'[d] = cp[d]
      BY <1>1 DEF Apart
    <3> QED BY <1>1, <3>1
  <2>8. \A s \in Slot : Doomed(s)' => Doomed(s)
    BY <1>0, <1>1, <2>2, <2>7 DEF Doomed
  <2>9. \A d \in Client, s \in Slot : ~Owns(d, s)'
    <3>1. ASSUME NEW d \in Client, NEW s \in Slot, Owns(d, s)' PROVE FALSE
      <4>1. d # c
        BY <2>5, <3>1 DEF Owns
      <4>2. op[d].base = manifest'
        BY <1>1, <3>1, <4>1 DEF Owns, Apart
      <4>3. Head(op[d].base) = q
        BY <2>2, <4>2
      <4>4. Head(op[d].base) <= Head(manifest)
        BY Numbers
      <4> QED BY <2>2, <2>6, <4>3, <4>4, WalAssumption DEF Slot
    <3> QED BY <3>1
  <2>10. \A s \in Slot : Doomed(s) /\ Dead(s) => hist'[s] = None
    <3> SUFFICES ASSUME NEW s \in Slot, Dead(s) PROVE hist'[s] = None
      OBVIOUS
    <3>1. Owns(c, q)
      BY <1>0, <1>3, <2>1 DEF Owns, ClaimedLabels, SlotLabels
    <3>2. s # q
      BY <3>1 DEF Dead
    <3>3. hist'[s] = hist[s]
      BY <2>2, <3>2, WalAssumption DEF Slot
    <3> QED BY <3>3 DEF Dead
  <2>11. ASSUME NEW d \in Client, d # c, pc[d] \in ClaimedLabels PROVE hist'[op[d].seq] = None
    <3>1. op[d].seq \in Slot
      BY <2>11, LocalFacts DEF ClientOK, SlotInv
    <3>2. op[d].seq # q
      <4>1. pc[c] \in ClaimedLabels
        BY <1>0 DEF ClaimedLabels, SlotLabels
      <4>2. op[d].seq = q => q <= Folded
        BY <2>1, <2>11, <4>1 DEF TimelyInv, TimelyBucket, OwnersInv
      <4> QED BY <2>2, <2>6, <4>2, WalAssumption DEF Slot
    <3>3. hist'[op[d].seq] = hist[op[d].seq]
      BY <2>2, <3>1, <3>2, WalAssumption DEF Slot
    <3> QED BY <2>11, <3>3 DEF TimelyInv, TimelyClient, SeekInv
  <2>12. GapInv'
    BY <1>0, <2>2 DEF GapInv, TimelyInv, TimelyBucket
  <2>13. OwnersInv'
    <3>1. \A d \in Client : pc'[d] \in ClaimedLabels => pc[d] \in ClaimedLabels /\ op'[d] = op[d]
      BY <1>1, <2>5 DEF Apart
    <3> QED BY <2>2, <3>1 DEF OwnersInv, TimelyInv, TimelyBucket
  <2>14. \A k \in Slot : <<"ckpt", k>> \in aged' => ckpt'[k] # None
    BY <1>0, <1>1 DEF TimelyInv, TimelyBucket, DoomInv
  <2> QED BY <1>1, <2>2, <2>4, <2>5, <2>8, <2>9, <2>10, <2>11, <2>12, <2>13, <2>14, TimelyStep
<1> QED BY <1>2, <1>3 DEF Cas, TagMatches

\* A checkpoint beside the chain, of a committed slot or of none.
LEMMA CheckpointPut ==
    ASSUME CompactionInv, CompactionInv', TimelyInv, NEW c \in Client, Apart(c), NEW q \in Slot, NEW k \in Checkpoint,
           ckpt[q] = None, ckpt' = [ckpt EXCEPT ![q] = k], hist[q] # None => k = hist[q],
           Head(manifest) < q => log[q] # None /\ log[q].branch = None,
           UNCHANGED <<manifest, log, hist, acked, aged>>, cp'[c].logs \subseteq cp[c].logs,
           pc'[c] \in ClaimedLabels => pc[c] \in ClaimedLabels /\ op'[c].seq = op[c].seq /\ op'[c].base = op[c].base,
           \A m \in Manifest \cup {None} : CommitsOn(c, m)' => CommitsOn(c, m), TimelyClient(c)'
    PROVE  TimelyInv'
<1>1. Evolves /\ ckpt'[q] = k /\ k # None /\ ckpt \in [Slot -> Checkpoint \cup {None}]
  BY CheckpointGrows DEF CompactionInv, CompactionTypeOK, TypeOK
<1>2. \A s \in Slot : s # q => ckpt'[s] = ckpt[s]
  BY <1>1
<1>3. /\ Folded' = Folded /\ Head(manifest)' = Head(manifest)
      /\ Objects' = Objects /\ \A b \in Branch, s \in Snapshot : OnBranch(b, s)' = OnBranch(b, s)
  BY DEF Folded, FoldOf, Head, Objects, OnBranch, CurrentState
<1>4. Settles
  BY <1>1, <1>3 DEF Settles
<1>5. \A d \in Client : cp'[d].logs \subseteq cp[d].logs /\ (d # c => pc'[d] = pc[d] /\ op'[d] = op[d])
  BY DEF Apart
<1>6. \A s \in Slot : Doomed(s)' => Doomed(s)
  BY <1>3, <1>5 DEF Doomed
<1>7. \A d \in Client, s \in Slot : Owns(d, s)' => Owns(d, s)
  BY <1>5 DEF Owns
<1>8. \A d \in Client : pc[d] \in ClaimedLabels => hist'[op[d].seq] = None
  BY DEF TimelyInv, TimelyClient, SeekInv
<1>9. GapInv'
  BY <1>3 DEF GapInv, TimelyInv, TimelyBucket
<1>10. OwnersInv'
  <2>1. \A d \in Client : pc'[d] \in ClaimedLabels => pc[d] \in ClaimedLabels /\ op'[d].seq = op[d].seq
    BY <1>5
  <2> QED BY <1>3, <2>1 DEF OwnersInv, TimelyInv, TimelyBucket
<1>11. RecordsInv'
  <2>1. \A s \in Slot : TrueEntry(s)' = TrueEntry(s)
    BY DEF TrueEntry
  <2>2. \A s \in Slot : hist[s] # None /\ ckpt'[s] # None => ckpt'[s] = hist[s]
    BY <1>1, <1>2 DEF RecordsInv, TimelyInv, TimelyBucket
  <2> QED BY <1>3, <2>1, <2>2 DEF RecordsInv, TimelyInv, TimelyBucket
<1>12. GrowthInv'
  BY DEF TimelyInv, TimelyBucket, GrowthInv, Whole, Follows
<1>13. AckedIsDurable'
  BY <1>3 DEF TimelyInv, TimelyBucket, AckedIsDurable, OnBranch, CurrentState
<1>14. \A j \in Slot : <<"ckpt", j>> \in aged => ckpt'[j] # None
  BY <1>1, <1>2 DEF TimelyInv, TimelyBucket, DoomInv
<1>15. \A s \in Slot : Doomed(s) /\ Dead(s) => hist'[s] = None
  BY DEF Dead
<1> QED BY <1>4, <1>6, <1>7, <1>8, <1>9, <1>10, <1>11, <1>12, <1>13, <1>14, <1>15, TimelyStep

\* maybe_fold_checkpoint puts the checkpoint of its view.
LEMMA FoldPutTimely ==
    ASSUME CompactionInv, CompactionInv', TimelyInv, NEW c \in Client, FoldPut(c), KeepCompactVars
    PROVE  TimelyInv'
<1> DEFINE v == view[c]
<1>0. /\ pc[c] = "foldPut" /\ pc[c] \in LandedLabels /\ Progress(c) /\ UNCHANGED <<manifest, log, view, pending, staged, hist>>
      /\ TimelyClient(c) /\ pc \in [Client -> Label] /\ OnBranch(op[c].branch, op[c].new)
  BY PushFacts DEF FoldPut, sessionVars, Progress, Step, PushStep, LandedLabels
<1>1. Apart(c) /\ aged' = aged /\ cp'[c].logs \subseteq cp[c].logs
  BY <1>0, WalFrame, NoCompactingIs
<1>2. CASE Acknowledge(c) /\ UNCHANGED ckpt
  BY <1>0, <1>2, AcknowledgeTimely
<1>3. CASE /\ v # None
           /\ ckpt' = IF ckpt[v.m.head] = None
                        THEN [ckpt EXCEPT ![v.m.head] = [refs |-> v.refs, packs |-> v.packs]]
                        ELSE ckpt
           /\ Goto(c, "foldCas")
           /\ UNCHANGED <<rd, op, acked, corrupt>>
  <2>1. /\ v \in View /\ v.m.head \in Slot /\ v.m.head <= Head(manifest) /\ Head(manifest) \in Int
        /\ hist[v.m.head] # None /\ v.refs = hist[v.m.head].refs /\ v.packs = hist[v.m.head].packs
        /\ hist \in [0..MaxSeq -> Checkpoint \cup {None}]
    <3>1. v \in View /\ v.m.head \in Slot /\ v.m.head <= Head(manifest) /\ Head(manifest) \in Int
      BY <1>3, Numbers
    <3>2. hist \in [0..MaxSeq -> Checkpoint \cup {None}]
      BY DEF CompactionInv, CompactionTypeOK, TypeOK
    <3> QED BY <1>0, <1>3, <3>1, <3>2 DEF TimelyClient, ViewInv
  <2>2. PICK q, k : q = v.m.head /\ k = [refs |-> v.refs, packs |-> v.packs]
    OBVIOUS
  <2>3. q \in Slot /\ k \in Checkpoint /\ k = hist[q] /\ ~(Head(manifest) < q)
    <3>1. q \in Slot /\ k \in Checkpoint
      BY <2>1, <2>2 DEF View, Checkpoint
    <3>2. hist[q] \in Checkpoint
      BY <2>1, <2>2, WalAssumption DEF Slot
    <3>3. k = hist[q]
      BY <2>1, <2>2, <3>2 DEF Checkpoint
    <3> QED BY <2>1, <2>2, <3>1, <3>3, WalAssumption DEF Slot
  <2>4. pc'[c] = "foldCas" /\ At(c)' = "foldCas" /\ pc'[c] \notin WalkLabels \cup SlotLabels \cup {"attempt", "fence"}
    BY <1>0, <1>3 DEF Goto, At, ReadLabels, WalkLabels, SlotLabels
  <2>5. OnBranch(op[c].branch, op[c].new)'
    BY <1>0, <1>3 DEF OnBranch, CurrentState, Head
  <2>6. ViewInv(c)'
    BY <1>0 DEF TimelyClient, ViewInv
  <2>7. TimelyClient(c)'
    BY <2>4, <2>5, <2>6, Slotless DEF CommitLabels
  <2>8. pc'[c] \notin ClaimedLabels /\ \A m : ~CommitsOn(c, m)'
    BY <2>4 DEF CommitsOn, ClaimedLabels
  <2>9. CASE ckpt[q] = None
    <3>1. ckpt' = [ckpt EXCEPT ![q] = k]
      BY <1>3, <2>2, <2>9
    <3> HIDE DEF v
    <3> QED BY <1>0, <1>1, <1>3, <2>3, <2>7, <2>8, <2>9, <3>1, CheckpointPut
  <2>10. CASE ckpt[q] # None
    <3>1. Quiet(c)
      BY <1>0, <1>1, <1>3, <2>2, <2>10 DEF Quiet
    <3>2. \A s \in cp'[c].logs : Doomed(s)
      BY <1>1 DEF Doomed
    <3> QED BY <2>7, <2>8, <3>1, <3>2, QuietTimely
  <2> QED BY <2>9, <2>10
<1> QED BY <1>2, <1>3 DEF FoldPut

\* The fold.
LEMMA FoldCasTimely ==
    ASSUME CompactionInv, CompactionInv', TimelyInv, NEW c \in Client, FoldCas(c), KeepCompactVars
    PROVE  TimelyInv'
<1>0. /\ pc[c] = "foldCas" /\ pc[c] \in LandedLabels /\ Progress(c) /\ UNCHANGED <<log, ckpt, view, pending, staged, hist>>
      /\ TimelyClient(c) /\ pc \in [Client -> Label] /\ rd \in [Client -> Reading] /\ OnBranch(op[c].branch, op[c].new)
  BY PushFacts DEF FoldCas, sessionVars, Progress, Step, PushStep, LandedLabels
<1>1. Apart(c) /\ aged' = aged /\ cp'[c].logs \subseteq cp[c].logs
  BY <1>0, WalFrame, NoCompactingIs
<1>2. CASE Acknowledge(c) /\ UNCHANGED manifest
  BY <1>0, <1>2, AcknowledgeTimely
<1>3. CASE /\ manifest = view[c].m /\ manifest' = [view[c].m EXCEPT !.ck = view[c].m.head]
           /\ CallRefresh(c, "done") /\ UNCHANGED <<op, acked, corrupt>>
  <2>1. Evolves /\ manifest' \in Manifest
    BY <1>0, <1>3, FoldLands
  <2>2. manifest \in Manifest /\ manifest # None /\ manifest' # None /\ manifest.ck < manifest.head
    <3>1. view[c] # None /\ view[c].m.ck < view[c].m.head
      BY <1>0, LocalFacts DEF ClientOK, StepInv, SlotInv
    <3>2. view[c].m \in Manifest
      BY <3>1, Numbers
    <3> QED BY <1>3, <2>1, <3>1, <3>2, NoneAssumption
  <2>3. /\ manifest' = [manifest EXCEPT !.ck = manifest.head]
        /\ manifest.head \in Slot /\ manifest.ck \in 0..MaxSeq
    BY <1>3, <2>2, Ranges DEF Manifest
  <2>4. /\ Head(manifest) = manifest.head /\ Folded = manifest.ck /\ Head(manifest') = manifest.head /\ Folded' = manifest.head
        /\ Head(manifest)' = manifest.head /\ FoldOf(manifest') = manifest.head
    BY <2>2, <2>3 DEF Head, Folded, FoldOf, Manifest
  <2>5. /\ Head(manifest) \in Int /\ Folded \in Int /\ Folded < Head(manifest)
        /\ \A s \in Slot : s \in Int
    BY <2>2, <2>3, <2>4, WalAssumption DEF Slot
  <2>6. Objects' = Objects /\ \A b \in Branch, s \in Snapshot : OnBranch(b, s)' = OnBranch(b, s)
    BY <1>0, <2>4 DEF Objects, OnBranch, CurrentState
  <2>7. Settles
    BY <1>0, <2>1, <2>6 DEF Settles
  <2>8. pc'[c] = "getManifest" /\ rd'[c].ret = "done"
    BY <1>0, <1>3 DEF CallRefresh, Goto, NoReading
  <2>9. At(c)' = "done" /\ pc'[c] \notin WalkLabels \cup SlotLabels \cup {"attempt", "fence"}
    BY <2>8 DEF At, ReadLabels, WalkLabels, SlotLabels
  <2>10. TimelyClient(c)'
    <3>1. OnBranch(op[c].branch, op[c].new)'
      BY <1>0, <1>3, <2>4 DEF OnBranch, CurrentState
    <3>2. ViewInv(c)'
      BY <1>0 DEF TimelyClient, ViewInv
    <3> QED BY <2>9, <3>1, <3>2, Slotless DEF CommitLabels
  <2>11. pc'[c] \notin ClaimedLabels /\ \A m : ~CommitsOn(c, m)'
    BY <2>9 DEF CommitsOn, ClaimedLabels
  <2>12. ASSUME NEW s \in Slot, Doomed(s)' PROVE Doomed(s)
    <3>1. CASE \E d \in Client : s \in cp'[d].logs
      BY <1>1, <3>1 DEF Doomed, Apart
    <3>2. CASE s <= manifest.head /\ log[s] = None
      <4>1. s <= Folded
        BY <2>4, <2>5, <3>2, TakenSoFar
      <4> QED BY <3>2, <4>1 DEF Doomed
    <3>3. CASE \E k \in Slot : s <= k /\ <<"ckpt", k>> \in aged
      BY <3>3 DEF Doomed
    <3> QED BY <1>0, <1>1, <2>4, <2>12, <3>1, <3>2, <3>3 DEF Doomed
  <2>13. \A d \in Client, s \in Slot : ~Owns(d, s)'
    <3> SUFFICES ASSUME NEW d \in Client, NEW s \in Slot, Owns(d, s)' PROVE FALSE
      OBVIOUS
    <3>1. op[d].base = manifest'
      BY <1>3, <2>11 DEF Owns
    <3>2. Reaches(op[d].base, manifest)
      BY LocalFacts
    <3>3. FoldOf(op[d].base) <= FoldOf(manifest)
      BY <2>1, <2>2, <3>1, <3>2, Reached
    <3> QED BY <2>4, <2>5, <3>1, <3>3 DEF Folded
  <2>14. \A d \in Client : pc[d] \in ClaimedLabels => hist'[op[d].seq] = None
    BY <1>0 DEF TimelyInv, TimelyClient, SeekInv
  <2>15. GapInv'
    BY <1>0, <2>4, <2>5 DEF GapInv, TimelyInv, TimelyBucket
  <2>16. OwnersInv'
    <3>1. \A d \in Client : pc'[d] \in ClaimedLabels => pc[d] \in ClaimedLabels /\ op'[d] = op[d]
      BY <1>1, <2>11 DEF Apart
    <3>2. \A d \in Client : op[d].seq \in Int
      BY Numbers, WalAssumption
    <3>3. \A d, e \in Client : d # e /\ pc'[d] \in ClaimedLabels /\ pc'[e] \in ClaimedLabels /\ op'[d].seq = op'[e].seq
              => op'[d].seq <= Folded /\ op'[d].seq \in Int
      BY <3>1, <3>2 DEF OwnersInv, TimelyInv, TimelyBucket
    <3>4. \A n \in Int : n <= Folded => n <= manifest.head
      BY <2>4, <2>5
    <3> QED BY <2>4, <3>3, <3>4 DEF OwnersInv
  <2>17. RecordsInv'
    <3>1. \A s \in Slot : TrueEntry(s)' = TrueEntry(s)
      BY <1>0 DEF TrueEntry
    <3>2. \A s \in Slot : hist[s] # None => ~(manifest.head < s)
      BY <2>4, <2>5 DEF CompactionInv, BucketOK, StatesInv
    <3> QED BY <1>0, <2>4, <3>1, <3>2 DEF RecordsInv, TimelyInv, TimelyBucket
  <2>18. GrowthInv'
    BY <1>0 DEF TimelyInv, TimelyBucket, GrowthInv, Whole, Follows
  <2>19. AckedIsDurable'
    BY <1>0, <1>3, <2>4 DEF TimelyInv, TimelyBucket, AckedIsDurable, CurrentState
  <2>20. \A k \in Slot : <<"ckpt", k>> \in aged' => ckpt'[k] # None
    BY <1>0, <1>1 DEF TimelyInv, TimelyBucket, DoomInv
  <2>21. \A s \in Slot : Doomed(s) /\ Dead(s) => hist'[s] = None
    BY <1>0 DEF Dead
  <2> QED BY <1>1, <2>7, <2>10, <2>11, <2>12, <2>13, <2>14, <2>15, <2>16, <2>17, <2>18, <2>19, <2>20, <2>21, TimelyStep
<1> QED BY <1>2, <1>3 DEF FoldCas, TagMatches

\* Done reports a push that has landed.
LEMMA DoneTimely ==
    ASSUME CompactionInv, CompactionInv', TimelyInv, NEW c \in Client, Done(c), KeepCompactVars
    PROVE  TimelyInv'
<1>1. /\ Progress(c) /\ pc[c] \in LandedLabels /\ Acknowledge(c) /\ UNCHANGED <<manifest, log, ckpt, hist, view>>
  BY DEF Done, Progress, Step, PushStep, LandedLabels, bucketVars
<1> QED BY <1>1, AcknowledgeTimely

\* The checkpoint of a consolidation, beside its log entry.
LEMMA PutCheckpointTimely ==
    ASSUME CompactionInv, CompactionInv', TimelyInv, NEW c \in Client, PutCheckpoint(c)
    PROVE  TimelyInv'
<1>0. /\ pc[c] = "putCheckpoint" /\ UNCHANGED <<manifest, log, view, pending, staged, hist, acked, aged>>
      /\ pc[c] \in CompactLabels /\ pc[c] \in SlotLabels /\ pc[c] \in ClaimedLabels /\ pc[c] \in MergeLabels
  BY DEF PutCheckpoint, sessionVars, CompactLabels, SlotLabels, ClaimedLabels, MergeLabels
<1>1. /\ pc \in [Client -> Label] /\ rd \in [Client -> Reading] /\ op \in [Client -> Op] /\ op[c] \in Op
      /\ cp[c] \in Compacting /\ At(c) = pc[c] /\ TimelyClient(c) /\ ClientOK(c) /\ op[c].branch = None /\ TypeOK
  BY <1>0, CompactFacts, CompactAt, LocalFacts
<1>2. Apart(c)
  BY CompactFrame DEF ConsolidateStep
<1>3. ViewInv(c)'
  BY <1>0, <1>1 DEF TimelyClient, ViewInv
<1>4. PICK q, k : q = op[c].seq /\ k = [refs |-> view[c].refs, packs |-> cp[c].kept]
  OBVIOUS
<1>5. q \in Slot /\ k \in Checkpoint /\ hist[q] = None /\ (Head(manifest) < q => log[q] # None /\ log[q].branch = None)
  <2>1. q \in Slot /\ (Folded < q => log[q] = Entry(c)) /\ Entry(c) # None /\ Entry(c).branch = None
    BY <1>0, <1>1, <1>4, EntryIsNotNone DEF ClientOK, SlotInv, Entry
  <2>2. Head(manifest) < q => Folded < q
    BY <2>1, Numbers, WalAssumption DEF Slot
  <2>3. k \in Checkpoint
    <3>1. view[c] # None
      BY <1>0, <1>1 DEF ClientOK, StepInv
    <3>2. view[c] \in View
      BY <3>1, Numbers
    <3> QED BY <1>1, <1>4, <3>2 DEF View, Compacting, Checkpoint
  <2>4. hist[q] = None
    BY <1>0, <1>1, <1>4 DEF TimelyClient, SeekInv
  <2> QED BY <2>1, <2>2, <2>3, <2>4
<1>6. CASE /\ ckpt[q] = None /\ ckpt' = [ckpt EXCEPT ![q] = k]
           /\ Goto(c, "mergeEnsure") /\ UNCHANGED <<rd, op, cp>>
  <2>1. pc'[c] = "mergeEnsure" /\ At(c)' = "mergeEnsure" /\ pc'[c] \in ClaimedLabels
    BY <1>1, <1>6 DEF Goto, At, ReadLabels, WalkLabels, ClaimedLabels, SlotLabels
  <2>2. WalkTruth(c)' /\ SeekInv(c)'
    BY <1>0, <1>1, <1>6, <2>1 DEF WalkTruth, WalkLabels, SeekInv, TimelyClient
  <2>3. PushTruth(c)' /\ HandOverInv(c)'
    BY <2>1 DEF PushTruth, HandOverInv, CommitLabels, LandedLabels
  <2>4. MergeTruth(c)'
    <3>1. Merged(c)' = Merged(c) /\ KeptPacks(c)' = KeptPacks(c)
      BY <1>0, <1>6 DEF Merged, KeptPacks, Created
    <3> QED BY <1>0, <1>1, <1>6, <2>1, <3>1 DEF MergeTruth, TimelyClient, SlotLabels, MergeLabels
  <2>5. TimelyClient(c)'
    BY <1>3, <2>2, <2>3, <2>4 DEF TimelyClient
  <2>6. \A m : CommitsOn(c, m)' => CommitsOn(c, m)
    BY <1>0, <1>6, <2>1 DEF CommitsOn, WalkLabels
  <2> QED BY <1>0, <1>2, <1>5, <1>6, <2>5, <2>6, CheckpointPut
<1>7. ASSUME Replan(c, cp[c].missingOn)
      PROVE  TimelyClient(c)' /\ cp'[c].logs = {} /\ pc'[c] \notin ClaimedLabels /\ \A n : ~CommitsOn(c, n)'
  <2>1. PICK m : m = cp[c].missingOn
    OBVIOUS
  <2>2. TimelyClient(c)' /\ cp'[c].logs = {} /\ (\A n : ~CommitsOn(c, n)') /\ pc'[c] = "getManifest"
    BY <1>3, <1>7, <2>1, Anew
  <2> QED BY <2>2 DEF ClaimedLabels, SlotLabels
<1>8. CASE ckpt[q] = None /\ ckpt' = [ckpt EXCEPT ![q] = k] /\ Replan(c, cp[c].missingOn)
  <2>1. TimelyClient(c)' /\ cp'[c].logs = {} /\ pc'[c] \notin ClaimedLabels /\ \A n : ~CommitsOn(c, n)'
    BY <1>7, <1>8
  <2> QED BY <1>0, <1>2, <1>5, <1>8, <2>1, CheckpointPut
<1>9. CASE Replan(c, cp[c].missingOn) /\ UNCHANGED ckpt
  <2>1. TimelyClient(c)' /\ cp'[c].logs = {} /\ pc'[c] \notin ClaimedLabels /\ \A n : ~CommitsOn(c, n)'
    BY <1>7, <1>9
  <2>2. Quiet(c)
    BY <1>0, <1>2, <1>9 DEF Quiet
  <2> QED BY <2>1, <2>2, QuietTimely
<1> QED BY <1>4, <1>6, <1>8, <1>9 DEF PutCheckpoint

\* The commit of a consolidation: the state it publishes is the current one, its packs merged.
LEMMA MergeLands ==
    ASSUME CompactionInv, TimelyInv, NEW c \in Client, MergeIsIn(c), NEW q, q = op[c].seq
    PROVE  /\ q \in Slot /\ Head(manifest) < q /\ Head(manifest') = q /\ Folded' = q /\ log[q] # None
           /\ hist[q] = None /\ \A s \in 0..MaxSeq : s # q => hist'[s] = hist[s]
           /\ Settles /\ RecordsInv' /\ GrowthInv' /\ AckedIsDurable'
           /\ CurrentState'.refs = CurrentState.refs /\ UNION CurrentState'.packs = UNION CurrentState.packs
<1> USE DEF MergeIsIn
<1> DEFINE g == CurrentState
<1>0. /\ TypeOK /\ op[c] \in Op /\ op[c].branch = None /\ cp[c] \in Compacting /\ TimelyClient(c)
      /\ Entry(c) # None /\ Entry(c).branch = None /\ StatesInv /\ CheckpointsInv /\ SlotInv(c) /\ view[c] # None
      /\ hist \in [0..MaxSeq -> Checkpoint \cup {None}] /\ log \in [Slot -> LogEntry \cup {None}]
      /\ pc[c] \in SlotLabels /\ pc[c] \in MergeLabels /\ pc[c] \in ClaimedLabels /\ pc[c] \in FoldedLabels
  <2>1. /\ pc[c] \in CompactLabels /\ pc[c] \in SlotLabels /\ pc[c] \in MergeLabels
        /\ pc[c] \in ClaimedLabels /\ pc[c] \in FoldedLabels
    BY DEF SlotLabels, MergeLabels, ClaimedLabels, FoldedLabels, CompactLabels
  <2>2. /\ TypeOK /\ op[c] \in Op /\ cp[c] \in Compacting /\ op[c].branch = None /\ BucketOK /\ ClientOK(c)
        /\ Entry(c) # None /\ Entry(c).branch = None
    BY <2>1, LocalFacts, CompactAt, EntryIsNotNone DEF Entry
  <2> QED BY <2>1, <2>2 DEF BucketOK, ClientOK, StepInv, TypeOK, TimelyInv
<1>1. /\ Head(manifest) \in 0..MaxSeq /\ Folded \in 0..MaxSeq /\ Folded <= Head(manifest)
      /\ hist[Head(manifest)] # None
  BY Numbers
<1>2. q \in Slot /\ Head(manifest) < q /\ q \in 0..MaxSeq /\ Folded < q /\ log[q] = Entry(c)
  <2>1. q \in Slot /\ Head(manifest) < q /\ (Folded < q => log[q] = Entry(c))
    BY <1>0 DEF SlotInv
  <2> QED BY <1>1, <2>1, WalAssumption DEF Slot
<1>3. PICK h : h = [refs |-> g.refs, packs |-> cp[c].kept]
  OBVIOUS
<1>4. g \in Checkpoint /\ g = hist[Head(manifest)] /\ g # None
  BY <1>0, <1>1 DEF CurrentState
<1>5. h.refs = g.refs /\ h.packs = cp[c].kept /\ h \in Checkpoint
  <2>1. g.refs \in Refs /\ cp[c].kept \in SUBSET Pack
    BY <1>0, <1>4 DEF Checkpoint, Compacting
  <2> QED BY <1>3, <2>1 DEF Checkpoint
<1>6. hist' = [hist EXCEPT ![q] = h]
  BY <1>3, <1>4
<1>7. view[c].packs = g.packs /\ view[c].refs = g.refs
  <2>1. view[c].m = manifest
    BY <1>0 DEF SlotInv
  <2>2. Head(manifest) = view[c].m.head
    BY <1>0, <2>1, Numbers
  <2> QED BY <1>0, <1>4, <2>2 DEF TimelyClient, ViewInv
<1>8. UNION h.packs = UNION g.packs
  <2>1. h.packs = (g.packs \ Merged(c)) \cup Created(c) /\ Merged(c) \subseteq g.packs
    BY <1>0, <1>5, <1>7 DEF TimelyClient, MergeTruth, KeptPacks
  <2>2. UNION Created(c) = UNION Merged(c)
    BY DEF Created, Merged
  <2> QED BY <2>1, <2>2
<1>9. Follows(g, h)
  <2>1. \A b \in Branch : g.refs[b] # None => g.refs[b] \in Ancestors[g.refs[b]]
    BY <1>4, WalAssumption DEF Checkpoint, Refs, Tip
  <2> QED BY <1>5, <1>8, <2>1 DEF Follows
<1>10. Whole(h)
  <2>1. Whole(g)
    BY <1>1, <1>4 DEF TimelyInv, TimelyBucket, GrowthInv
  <2> QED BY <1>5, <1>8, <2>1 DEF Whole
<1>11. Head(manifest') = q /\ Folded' = q
  <2>1. PICK m : m = MergeManifest(c)
    OBVIOUS
  <2>2. m.head = q /\ m.ck = q /\ m # None
    <3>1. m.head = q /\ m.ck = q
      BY <2>1 DEF MergeManifest
    <3>2. manifest' \in Manifest
      BY MergeCommits
    <3> QED BY <2>1, <3>1, <3>2, NoneAssumption
  <2> QED BY <2>1, <2>2 DEF Head, Folded, FoldOf
<1> HIDE DEF g
<1>12. /\ hist[q] = None /\ hist'[q] = h
       /\ \A s \in 0..MaxSeq : s # q => hist'[s] = hist[s]
       /\ CurrentState' = h /\ Objects \subseteq Objects'
       /\ \A b \in Branch, s \in Snapshot : OnBranch(b, s) => OnBranch(b, s)'
       /\ GrowthInv' /\ AckedIsDurable'
  BY <1>2, <1>5, <1>6, <1>9, <1>10, <1>11, NewStateGrows DEF g
<1>13. Settles
  <2>1. Evolves
    BY MergeCommits
  <2>2. \A s \in Slot : hist[s] = None /\ s <= Head(manifest) => hist'[s] = None
    <3> SUFFICES ASSUME NEW s \in Slot, hist[s] = None, s <= Head(manifest) PROVE hist'[s] = None
      OBVIOUS
    <3>1. s # q /\ s \in 0..MaxSeq
      BY <1>1, <1>2, WalAssumption DEF Slot
    <3> QED BY <1>12, <3>1
  <2> QED BY <1>12, <2>1, <2>2 DEF Settles
<1>14. RecordsInv'
  <2> SUFFICES ASSUME NEW s \in Slot, hist'[s] # None
               PROVE  /\ log[s] # None /\ log[s].branch # None => TrueEntry(s)'
                      /\ ckpt[s] # None => ckpt[s] = hist'[s]
                      /\ ~(q < s)
    BY <1>11 DEF RecordsInv
  <2>1. CASE s = q
    <3>1. ckpt[q] = h
      BY <1>0, <1>2, <1>3, <1>7 DEF SlotInv
    <3> QED BY <1>0, <1>2, <1>12, <2>1, <3>1, WalAssumption DEF Slot
  <2>2. CASE s # q
    <3>1. s \in 0..MaxSeq /\ hist'[s] = hist[s]
      BY <1>12, <2>2, WalAssumption DEF Slot
    <3>2. /\ log[s] # None /\ log[s].branch # None => TrueEntry(s)
          /\ ckpt[s] # None => ckpt[s] = hist[s]
      BY <2>2, <3>1 DEF TimelyInv, TimelyBucket, RecordsInv
    <3>3. ASSUME log[s] # None, log[s].branch # None PROVE TrueEntry(s)'
      <4>1. log[s] \in LogEntry
        BY <1>0, <3>3
      <4>2. log[s].parent \in 0..MaxSeq
        BY <4>1 DEF LogEntry
      <4>3. hist'[log[s].parent] = hist[log[s].parent]
        BY <1>12, <3>2, <3>3, <4>2 DEF TrueEntry
      <4> QED BY <3>1, <3>2, <3>3, <4>3 DEF TrueEntry
    <3>4. ~(q < s)
      <4>1. s <= Head(manifest)
        BY <1>0, <2>2, <3>1 DEF StatesInv
      <4> QED BY <1>1, <1>2, <4>1, WalAssumption DEF Slot
    <3> QED BY <3>1, <3>2, <3>3, <3>4
  <2> QED BY <2>1, <2>2
<1> QED BY <1>0, <1>2, <1>5, <1>8, <1>11, <1>12, <1>13, <1>14 DEF g

\* Fence and fold in one.
LEMMA MergeCasTimely ==
    ASSUME CompactionInv, CompactionInv', TimelyInv, NEW c \in Client, MergeCas(c)
    PROVE  TimelyInv'
<1>0. /\ pc[c] = "mergeCas" /\ UNCHANGED <<log, ckpt, view, pending, staged, acked, aged>>
      /\ pc[c] \in ClaimedLabels
  BY DEF MergeCas, sessionVars, ClaimedLabels, SlotLabels
<1>1. pc \in [Client -> Label] /\ rd \in [Client -> Reading] /\ TimelyClient(c)
  BY <1>0, LocalFacts DEF TypeOK, TimelyInv
<1>2. Apart(c)
  BY CompactFrame DEF ConsolidateStep
<1>3. ASSUME Replan(c, cp[c].missingOn), ViewInv(c)'
      PROVE  TimelyClient(c)' /\ cp'[c].logs = {} /\ pc'[c] = "getManifest"
  <2>1. PICK m : m = cp[c].missingOn
    OBVIOUS
  <2> QED BY <1>3, <2>1, Anew
<1>4. CASE Replan(c, cp[c].missingOn) /\ UNCHANGED <<manifest, hist>>
  <2>1. PICK m : m = cp[c].missingOn
    OBVIOUS
  <2>2. Quiet(c)
    BY <1>0, <1>2, <1>4 DEF Quiet
  <2> QED BY <1>0, <1>4, <2>1, <2>2, QuietAnew
<1>5. CASE /\ manifest = op[c].base /\ manifest' = MergeManifest(c)
           /\ hist' = [hist EXCEPT ![op[c].seq] = [refs |-> hist[Head(op[c].base)].refs, packs |-> cp[c].kept]]
           /\ (CallRefresh(c, "merged") /\ UNCHANGED cp) \/ Replan(c, cp[c].missingOn)
  <2>1. PICK q : q = op[c].seq
    OBVIOUS
  <2>2. /\ q \in Slot /\ Head(manifest) < q /\ Head(manifest') = q /\ Folded' = q /\ log[q] # None
        /\ hist[q] = None /\ \A s \in 0..MaxSeq : s # q => hist'[s] = hist[s]
        /\ Settles /\ RecordsInv' /\ GrowthInv' /\ AckedIsDurable'
    <3>1. MergeIsIn(c)
      BY <1>0, <1>5 DEF MergeIsIn
    <3> QED BY <2>1, <3>1, MergeLands
  <2>3. ViewInv(c)'
    BY <1>0, <1>1, <2>2, ViewKept DEF TimelyClient, Settles
  <2>4. TimelyClient(c)' /\ cp'[c].logs \subseteq cp[c].logs /\ pc'[c] = "getManifest"
    <3>1. CASE CallRefresh(c, "merged") /\ UNCHANGED cp
      <4>1. pc'[c] = "getManifest" /\ rd'[c].ret = "merged"
        BY <1>1, <3>1 DEF CallRefresh, Goto, NoReading
      <4>2. At(c)' = "merged" /\ pc'[c] \notin WalkLabels \cup SlotLabels
        BY <4>1 DEF At, ReadLabels, WalkLabels, SlotLabels
      <4>3. TimelyClient(c)'
        BY <2>3, <4>2, Slotless DEF CommitLabels, LandedLabels
      <4> QED BY <3>1, <4>1, <4>3
    <3>2. CASE Replan(c, cp[c].missingOn)
      BY <1>3, <2>3, <3>2
    <3> QED BY <1>5, <3>1, <3>2
  <2>5. pc'[c] \notin ClaimedLabels /\ \A m : ~CommitsOn(c, m)'
    BY <2>4 DEF CommitsOn, WalkLabels, SlotLabels, ClaimedLabels
  <2>6. Folded <= Head(manifest) /\ Folded \in Int /\ Head(manifest) \in Int /\ q \in Int /\ Folded < q /\ \A s \in Slot : s \in Int
    BY <2>2, Numbers, WalAssumption DEF Slot
  <2>7. \A d \in Client : cp'[d].logs \subseteq cp[d].logs
    <3>1. \A d \in Client : d # c => cp'[d] = cp[d]
      BY <1>2 DEF Apart
    <3> QED BY <2>4, <3>1
  <2>8. ASSUME NEW s \in Slot, Doomed(s)' PROVE Doomed(s)
    <3>1. CASE \E d \in Client : s \in cp'[d].logs
      BY <2>7, <3>1 DEF Doomed
    <3>2. CASE s <= q /\ log[s] = None
      <4>1. s < q
        BY <2>2, <2>6, <3>2
      <4>2. s <= Folded
        <5>1. Folded < s => log[s] # None
          BY <2>2, <4>1 DEF TimelyInv, TimelyBucket, GapInv
        <5> QED BY <2>6, <3>2, <5>1
      <4> QED BY <3>2, <4>2 DEF Doomed
    <3>3. CASE \E k \in Slot : s <= k /\ <<"ckpt", k>> \in aged
      BY <3>3 DEF Doomed
    <3> QED BY <1>0, <2>2, <2>8, <3>1, <3>2, <3>3 DEF Doomed
  <2>9. \A d \in Client, s \in Slot : ~Owns(d, s)'
    <3>1. ASSUME NEW d \in Client, NEW s \in Slot, Owns(d, s)' PROVE FALSE
      <4>1. d # c
        BY <2>5, <3>1 DEF Owns
      <4>2. op[d].base = manifest'
        BY <1>2, <3>1, <4>1 DEF Owns, Apart
      <4>3. Head(op[d].base) = q
        BY <2>2, <4>2
      <4>4. Head(op[d].base) <= Head(manifest)
        BY Numbers
      <4> QED BY <2>2, <2>6, <4>3, <4>4
    <3> QED BY <3>1
  <2>10. \A s \in Slot : Doomed(s) /\ Dead(s) => hist'[s] = None
    <3> SUFFICES ASSUME NEW s \in Slot, Dead(s) PROVE hist'[s] = None
      OBVIOUS
    <3>1. Owns(c, q)
      BY <1>0, <1>5, <2>1 DEF Owns
    <3>2. s # q
      BY <3>1 DEF Dead
    <3>3. hist'[s] = hist[s]
      BY <2>2, <3>2, WalAssumption DEF Slot
    <3> QED BY <3>3 DEF Dead
  <2>11. ASSUME NEW d \in Client, d # c, pc[d] \in ClaimedLabels PROVE hist'[op[d].seq] = None
    <3>1. op[d].seq \in Slot
      BY <2>11, LocalFacts DEF ClientOK, SlotInv
    <3>2. op[d].seq # q
      <4>1. op[d].seq = q => q <= Folded
        BY <1>0, <2>1, <2>11 DEF TimelyInv, TimelyBucket, OwnersInv
      <4> QED BY <2>6, <4>1
    <3>3. hist'[op[d].seq] = hist[op[d].seq]
      BY <2>2, <3>1, <3>2, WalAssumption DEF Slot
    <3> QED BY <2>11, <3>3 DEF TimelyInv, TimelyClient, SeekInv
  <2>12. GapInv'
    BY <1>0, <2>2, <2>6 DEF GapInv, TimelyInv, TimelyBucket
  <2>13. OwnersInv'
    <3>1. \A d \in Client : pc'[d] \in ClaimedLabels => pc[d] \in ClaimedLabels /\ op'[d] = op[d]
      BY <1>2, <2>5 DEF Apart
    <3>2. \A d \in Client : op[d].seq \in Int
      BY Numbers, WalAssumption
    <3>3. \A d, e \in Client : d # e /\ pc'[d] \in ClaimedLabels /\ pc'[e] \in ClaimedLabels /\ op'[d].seq = op'[e].seq
              => op'[d].seq <= Folded /\ op'[d].seq \in Int
      BY <3>1, <3>2 DEF OwnersInv, TimelyInv, TimelyBucket
    <3>4. \A n \in Int : n <= Folded => n <= q
      BY <2>6
    <3> QED BY <2>2, <3>3, <3>4 DEF OwnersInv
  <2>14. \A k \in Slot : <<"ckpt", k>> \in aged' => ckpt'[k] # None
    BY <1>0 DEF TimelyInv, TimelyBucket, DoomInv
  <2> QED BY <1>0, <1>2, <2>2, <2>4, <2>5, <2>8, <2>9, <2>10, <2>11, <2>12, <2>13, <2>14, TimelyStep
<1> QED BY <1>4, <1>5 DEF MergeCas, TagMatches

\* Deleting what the sweep has listed keeps the invariant: a log entry that goes
\* was doomed, and a checkpoint that goes takes its age with it.
LEMMA DeletionTimely ==
    ASSUME CompactionInv, CompactionInv', TimelyInv, NEW c \in Client, pc[c] = "sweepDelete", Apart(c),
           UNCHANGED <<manifest, hist, acked, view, pc, rd, op>>, aged' \subseteq aged, cp'[c].logs \subseteq cp[c].logs,
           NEW S \in SUBSET cp[c].logs, NEW K \in SUBSET cp[c].ckpts,
           log' = [s \in Slot |-> IF s \in S THEN None ELSE log[s]],
           ckpt' = [s \in Slot |-> IF s \in K THEN None ELSE ckpt[s]],
           \A k \in K : <<"ckpt", k>> \notin aged'
    PROVE  TimelyInv'
<1>1. S \in SUBSET Slot /\ K \in SUBSET Slot /\ (\A s \in S : s <= Folded) /\ (\A s \in K : s < Folded)
  BY LocalFacts DEF Compacting, ClientOK, PassedInv
<1>2. Evolves
  BY <1>1, DeletesKeep
<1>3. /\ Head(manifest)' = Head(manifest) /\ Folded' = Folded /\ CurrentState' = CurrentState /\ Objects' = Objects
      /\ \A b \in Branch, s \in Snapshot : OnBranch(b, s)' = OnBranch(b, s)
  BY DEF Head, Folded, FoldOf, CurrentState, Objects, OnBranch
<1>4. /\ \A s \in Slot : log'[s] = log[s] \/ (s \in S /\ log'[s] = None)
      /\ \A s \in Slot : ckpt'[s] = ckpt[s] \/ (s \in K /\ ckpt'[s] = None)
      /\ \A s \in Slot : s \notin S => log'[s] = log[s]
      /\ \A s \in Slot : s \notin K => ckpt'[s] = ckpt[s]
  OBVIOUS
<1>5. Settles
  BY <1>2, <1>3, <1>4 DEF Settles
<1>6. TimelyClient(c)'
  <2>1. pc'[c] = "sweepDelete" /\ At(c)' = "sweepDelete"
    BY DEF At, ReadLabels, WalkLabels
  <2>2. TimelyClient(c)
    BY DEF TimelyInv
  <2>3. ViewInv(c)'
    BY <1>2, <2>2, ViewKept DEF TimelyClient
  <2> QED BY <2>1, <2>3, Slotless DEF WalkLabels, SlotLabels, CommitLabels, LandedLabels
<1>7. \A s \in Slot : Doomed(s)' => Doomed(s)
  <2> SUFFICES ASSUME NEW s \in Slot, Doomed(s)' PROVE Doomed(s)
    OBVIOUS
  <2>1. CASE \E k \in Slot : s <= k /\ <<"ckpt", k>> \in aged'
    BY <2>1 DEF Doomed
  <2>2. CASE \E d \in Client : s \in cp'[d].logs
    <3>1. PICK d \in Client : s \in cp'[d].logs
      BY <2>2
    <3>2. s \in cp[d].logs
      BY <3>1 DEF Apart
    <3> QED BY <3>2 DEF Doomed
  <2>3. CASE s <= Folded' /\ log'[s] = None
    <3>1. CASE s \in S
      BY <3>1 DEF Doomed
    <3>2. CASE s \notin S
      BY <1>3, <1>4, <2>3, <3>2 DEF Doomed
    <3> QED BY <3>1, <3>2
  <2> QED BY <2>1, <2>2, <2>3 DEF Doomed
<1>8. \A d \in Client, s \in Slot : Owns(d, s)' => Owns(d, s)
  BY DEF Owns
<1>9. \A s \in Slot : Doomed(s) /\ Dead(s) => hist'[s] = None
  BY DEF Dead
<1>10. \A m \in Manifest \cup {None} : ~CommitsOn(c, m)'
  BY DEF CommitsOn, WalkLabels, SlotLabels
<1>11. \A d \in Client : d # c /\ pc[d] \in ClaimedLabels => hist'[op[d].seq] = None
  BY DEF TimelyInv, TimelyClient, SeekInv
<1>12. GapInv'
  <2> SUFFICES ASSUME NEW s \in Slot, NEW t \in Slot, Folded < t, t < s, log'[s] # None PROVE log'[t] # None
    BY <1>3 DEF GapInv
  <2>1. log[s] # None
    BY <1>4
  <2>2. log[t] # None
    BY <2>1 DEF TimelyInv, TimelyBucket, GapInv
  <2>3. t \notin S
    <3>1. Folded \in Int /\ t \in Int
      BY Numbers, WalAssumption DEF Slot
    <3> QED BY <1>1, <3>1
  <2> QED BY <1>4, <2>2, <2>3
<1>13. OwnersInv'
  BY <1>3 DEF TimelyInv, TimelyBucket, OwnersInv
<1>14. RecordsInv'
  <2> SUFFICES ASSUME NEW s \in Slot, hist[s] # None
               PROVE  /\ log'[s] # None /\ log'[s].branch # None => TrueEntry(s)'
                      /\ ckpt'[s] # None => ckpt'[s] = hist[s]
                      /\ Folded < s => Folded <= log'[s].parent
    BY <1>3 DEF RecordsInv
  <2>1. /\ log[s] # None /\ log[s].branch # None => TrueEntry(s)
        /\ ckpt[s] # None => ckpt[s] = hist[s]
        /\ Folded < s => Folded <= log[s].parent
    BY DEF TimelyInv, TimelyBucket, RecordsInv
  <2>2. log'[s] = log[s] => TrueEntry(s)' = TrueEntry(s)
    BY DEF TrueEntry
  <2>3. Folded < s => log'[s] = log[s]
    <3>1. Folded \in Int /\ s \in Int
      BY Numbers, WalAssumption DEF Slot
    <3> QED BY <1>1, <1>4, <3>1
  <2> QED BY <1>4, <2>1, <2>2, <2>3
<1>15. GrowthInv'
  BY DEF TimelyInv, TimelyBucket, GrowthInv, Whole, Follows
<1>16. AckedIsDurable'
  BY <1>3 DEF TimelyInv, TimelyBucket, AckedIsDurable, OnBranch
<1>17. \A k \in Slot : <<"ckpt", k>> \in aged' => ckpt'[k] # None
  BY <1>4 DEF TimelyInv, TimelyBucket, DoomInv
<1> QED BY <1>5, <1>6, <1>7, <1>8, <1>9, <1>10, <1>11, <1>12, <1>13, <1>14, <1>15, <1>16, <1>17, TimelyStep

\* One request of the deletions, then the look at the manifest.
LEMMA SweepDeleteTimely ==
    ASSUME CompactionInv, CompactionInv', TimelyInv, NEW c \in Client, SweepDelete(c)
    PROVE  TimelyInv'
<1>0. /\ pc[c] = "sweepDelete" /\ pc[c] \in CompactLabels /\ UNCHANGED <<manifest, hist, acked, view>>
  BY DEF SweepDelete, CompactLabels, sessionVars
<1>1. /\ pc \in [Client -> Label] /\ rd \in [Client -> Reading] /\ op \in [Client -> Op]
      /\ cp \in [Client -> Compacting] /\ cp[c] \in Compacting /\ \A s \in cp[c].logs : Doomed(s)
      /\ log \in [Slot -> LogEntry \cup {None}] /\ ckpt \in [Slot -> Checkpoint \cup {None}]
  BY <1>0, CompactFacts, LocalFacts DEF TypeOK
<1>2. Apart(c) /\ cp[c].logs \in SUBSET Slot /\ cp[c].ckpts \in SUBSET Slot
  BY <1>1, CompactFrame DEF SweepStep, Compacting
<1>3. CASE /\ cp[c].logs # {}
           /\ LET s == Smallest(cp[c].logs) IN
                /\ log' = [log EXCEPT ![s] = None]
                /\ aged' = aged \ {<<"log", s>>}
                /\ cp' = [cp EXCEPT ![c].logs = @ \ {s}]
           /\ UNCHANGED <<ckpt, pc, rd, op, corrupt>>
  <2>1. PICK s, S, K : s = Smallest(cp[c].logs) /\ S = {s} /\ K = {}
    OBVIOUS
  <2>2. s \in cp[c].logs
    BY <1>2, <1>3, <2>1, SmallestIn
  <2>3. /\ log' = [t \in Slot |-> IF t \in S THEN None ELSE log[t]]
        /\ ckpt' = [t \in Slot |-> IF t \in K THEN None ELSE ckpt[t]]
    BY <1>1, <1>3, <2>1
  <2>4. cp'[c].logs \subseteq cp[c].logs
    BY <1>1, <1>3 DEF Compacting
  <2>5. aged' \subseteq aged /\ UNCHANGED <<pc, rd, op>>
    BY <1>3
  <2>6. S \in SUBSET cp[c].logs /\ K \in SUBSET cp[c].ckpts /\ \A k \in K : <<"ckpt", k>> \notin aged'
    BY <2>1, <2>2
  <2> QED BY <1>0, <1>2, <2>3, <2>4, <2>5, <2>6, DeletionTimely
<1>4. CASE /\ cp[c].logs = {} /\ cp[c].ckpts # {}
           /\ LET s == Smallest(cp[c].ckpts) IN
                /\ ckpt' = [ckpt EXCEPT ![s] = None]
                /\ aged' = aged \ {<<"ckpt", s>>}
                /\ cp' = [cp EXCEPT ![c].ckpts = @ \ {s}]
           /\ UNCHANGED <<log, pc, rd, op, corrupt>>
  <2>1. PICK s, S, K : s = Smallest(cp[c].ckpts) /\ K = {s} /\ S = {}
    OBVIOUS
  <2>2. s \in cp[c].ckpts
    BY <1>2, <1>4, <2>1, SmallestIn
  <2>3. /\ log' = [t \in Slot |-> IF t \in S THEN None ELSE log[t]]
        /\ ckpt' = [t \in Slot |-> IF t \in K THEN None ELSE ckpt[t]]
    BY <1>1, <1>4, <2>1
  <2>4. cp'[c].logs \subseteq cp[c].logs
    BY <1>1, <1>4 DEF Compacting
  <2>5. aged' \subseteq aged /\ UNCHANGED <<pc, rd, op>>
    BY <1>4
  <2>6. S \in SUBSET cp[c].logs /\ K \in SUBSET cp[c].ckpts
    BY <2>1, <2>2
  <2>7. \A k \in K : <<"ckpt", k>> \notin aged'
    BY <1>4, <2>1
  <2> QED BY <1>0, <1>2, <2>3, <2>4, <2>5, <2>6, <2>7, DeletionTimely
<1>5. ASSUME UNCHANGED <<log, ckpt, aged>> PROVE Quiet(c)
  BY <1>0, <1>5, CompactQuiet DEF SweepStep
<1>6. CASE /\ cp[c].logs = {} /\ cp[c].ckpts = {} /\ manifest = ViewTag(c)
           /\ cp' = [cp EXCEPT ![c].left = PackDeleteBatch]
           /\ Goto(c, "sweepIdx")
           /\ UNCHANGED <<log, ckpt, aged, rd, op, corrupt>>
  <2>1. pc'[c] = "sweepIdx"
    BY <1>1, <1>6 DEF Goto
  <2>2. cp'[c].logs = {}
    BY <1>1, <1>6 DEF Compacting
  <2> QED BY <1>0, <1>5, <1>6, <2>1, <2>2, CompactGoesOn DEF CompactLabels, SlotLabels
<1>7. CASE /\ cp[c].logs = {}
           /\ op' = [op EXCEPT ![c].n = @ + 1]
           /\ cp' = [cp EXCEPT ![c].packs = {}]
           /\ CallRefresh(c, "sweepList")
           /\ UNCHANGED <<log, ckpt, aged>>
  <2>1. pc'[c] = "getManifest" /\ rd'[c].ret = "sweepList"
    BY <1>1, <1>7 DEF CallRefresh, Goto, NoReading
  <2>2. cp'[c].logs = {}
    BY <1>1, <1>7 DEF Compacting
  <2> QED BY <1>0, <1>5, <1>7, <2>1, <2>2, CompactGoesOn DEF CompactLabels, SlotLabels
<1>8. CASE Return(c, "ok") /\ UNCHANGED <<log, ckpt, aged>>
  <2>1. pc'[c] = "idle"
    BY <1>1, <1>8 DEF Return, Goto
  <2> QED BY <1>0, <1>5, <1>8, <2>1, QuietReturn
<1> QED BY <1>3, <1>4, <1>6, <1>7, <1>8, ZenonT(30) DEF SweepDelete

\* Who is about to commit, or waits for its slot, is writing.
LEMMA CommittersWrite ==
    ASSUME CompactionInv, TimelyInv, NEW c \in Client, ~Writing(c)
    PROVE  pc[c] \notin SlotLabels /\ \A m : ~CommitsOn(c, m)
<1>1. op[c].branch = None /\ cp[c].parts = {}
  BY DEF Writing
<1>2. At(c) \notin CommitLabels
  <2>1. At(c) \in CommitLabels => op[c].branch \in Branch
    BY LocalFacts DEF PushLabels
  <2> QED BY <1>1, <2>1, NoneAssumption
<1>3. At(c) \notin {"readMembers", "mergePut", "mergeIdx", "fence"} \cup (SlotLabels \cap MergeLabels)
  BY <1>1 DEF TimelyInv, TimelyClient, MergeTruth
<1>4. pc[c] \in SlotLabels \cup {"attempt", "fence"} => At(c) = pc[c]
  BY DEF At, ReadLabels, WalkLabels, SlotLabels
<1>5. pc[c] \in WalkLabels => At(c) = rd[c].ret
  BY DEF At, ReadLabels
<1>6. SlotLabels \subseteq CommitLabels \cup (SlotLabels \cap MergeLabels) /\ "attempt" \in CommitLabels
  BY DEF SlotLabels, CommitLabels, MergeLabels
<1>7. pc[c] \notin SlotLabels /\ pc[c] \notin {"attempt", "fence"}
  BY <1>2, <1>3, <1>4, <1>6
<1>8. ~(pc[c] \in WalkLabels /\ rd[c].ret \in {"attempt", "fence"})
  BY <1>2, <1>3, <1>5, <1>6
<1> QED BY <1>7, <1>8 DEF CommitsOn

\* A grace window that nobody writes over leaves all old that is there and no
\* commit under way: what a sweep then finds old cannot be in anyone's way.
LEMMA GraceTimely ==
    ASSUME CompactionInv, CompactionInv', TimelyInv, "timely" \in Environment, GraceElapses
    PROVE  TimelyInv'
<1>1. /\ UNCHANGED <<manifest, log, ckpt, pc, view, rd, op, pending, staged, hist, acked, cp>>
      /\ aged' = Present /\ \A c \in Client : ~Writing(c)
  BY DEF GraceElapses, vars, bucketVars, sessionVars, historyVars
<1>2. \A c \in Client : pc[c] \notin SlotLabels /\ \A m : ~CommitsOn(c, m)
  BY <1>1, CommittersWrite
<1>3. Evolves
  BY <1>1, StillBucket
<1>4. /\ Head(manifest)' = Head(manifest) /\ Folded' = Folded /\ CurrentState' = CurrentState /\ Objects' = Objects
      /\ \A b \in Branch, s \in Snapshot : OnBranch(b, s)' = OnBranch(b, s)
  BY <1>1 DEF Head, Folded, FoldOf, CurrentState, Objects, OnBranch
<1>5. Settles
  BY <1>1, <1>3, <1>4 DEF Settles
<1>6. ASSUME NEW d \in Client PROVE TimelyClient(d)'
  <2>1. TimelyClient(d) /\ pc[d] \notin ClaimedLabels
    BY <1>2 DEF TimelyInv, ClaimedLabels
  <2> QED BY <1>1, <1>5, <2>1, OthersTimely
<1>7. \A d \in Client : pc'[d] \notin ClaimedLabels /\ \A m : ~CommitsOn(d, m)'
  BY <1>1, <1>2 DEF ClaimedLabels, CommitsOn, ViewTag
<1>8. DoomInv'
  <2>1. \A k \in Slot : <<"ckpt", k>> \in aged' => ckpt'[k] # None
    BY <1>1 DEF Present
  <2>2. \A s \in Slot : Head(manifest) < s => hist'[s] = None
    <3> SUFFICES ASSUME NEW s \in Slot, Head(manifest) < s PROVE hist[s] = None
      BY <1>1
    <3>1. Head(manifest) \in Int /\ s \in Int /\ s \in 0..MaxSeq
      <4>1. manifest \in Manifest \cup {None}
        BY DEF CompactionInv, CompactionTypeOK, TypeOK
      <4> QED BY <4>1, Reached, WalAssumption DEF Slot
    <3>2. hist[s] # None => s <= Head(manifest)
      BY <3>1 DEF CompactionInv, BucketOK, StatesInv
    <3> QED BY <3>1, <3>2
  <2>3. \A s \in Slot : Head(manifest)' < s => Dead(s)'
    BY <1>4, <1>7, <2>2 DEF Dead, Owns
  <2> QED BY <1>7, <2>1, <2>3 DEF DoomInv
<1>9. GapInv' /\ OwnersInv'
  BY <1>1, <1>4, <1>7 DEF TimelyInv, TimelyBucket, GapInv, OwnersInv
<1>10. RecordsInv'
  <2>1. \A s \in Slot : TrueEntry(s)' = TrueEntry(s)
    BY <1>1 DEF TrueEntry
  <2> QED BY <1>1, <1>4, <2>1 DEF TimelyInv, TimelyBucket, RecordsInv
<1>11. GrowthInv' /\ AckedIsDurable'
  <2>1. GrowthInv'
    BY <1>1 DEF TimelyInv, TimelyBucket, GrowthInv, Whole, Follows
  <2>2. AckedIsDurable'
    BY <1>1, <1>4 DEF TimelyInv, TimelyBucket, AckedIsDurable, OnBranch
  <2> QED BY <2>1, <2>2
<1> QED BY <1>6, <1>8, <1>9, <1>10, <1>11 DEF TimelyInv, TimelyBucket

\* A stuttering step keeps the invariant too.
LEMMA StillTimely ==
    ASSUME TimelyInv, UNCHANGED allVars PROVE TimelyInv'
<1>1. UNCHANGED <<manifest, log, ckpt, bodies, idxs, pc, view, rd, op, pending, staged, hist, acked, cp, aged>>
  BY DEF allVars, compactVars, vars, bucketVars, sessionVars, historyVars
<1>2. /\ Head(manifest)' = Head(manifest) /\ Folded' = Folded /\ CurrentState' = CurrentState /\ Objects' = Objects
      /\ \A b \in Branch, s \in Snapshot : OnBranch(b, s)' = OnBranch(b, s)
  BY <1>1 DEF Head, Folded, FoldOf, CurrentState, Objects, OnBranch
<1>3. ASSUME NEW c \in Client PROVE TimelyClient(c)'
  <2>1. At(c)' = At(c) /\ Head(op[c].base)' = Head(op[c].base) /\ Merged(c)' = Merged(c) /\ KeptPacks(c)' = KeptPacks(c)
    BY <1>1 DEF At, Head, Merged, KeptPacks, Created
  <2>2. TimelyClient(c)
    BY DEF TimelyInv
  <2>3. WalkTruth(c)' /\ ViewInv(c)' /\ SeekInv(c)' /\ MergeTruth(c)'
    BY <1>1, <1>2, <2>1, <2>2 DEF TimelyClient, WalkTruth, ViewInv, SeekInv, MergeTruth
  <2>4. PushTruth(c)'
    <3>1. OnBranch(op[c].branch, op[c].new)' = OnBranch(op[c].branch, op[c].new)
      BY <1>1, <1>2 DEF OnBranch
    <3> QED BY <1>1, <2>1, <2>2, <3>1 DEF TimelyClient, PushTruth
  <2>5. HandOverInv(c)'
    BY <1>1, <1>2, <2>1, <2>2 DEF TimelyClient, HandOverInv
  <2> QED BY <2>3, <2>4, <2>5 DEF TimelyClient
<1>4. DoomInv'
  <2>1. \A s \in Slot : Doomed(s)' = Doomed(s) /\ Dead(s)' = Dead(s)
    <3>1. \A s \in Slot : Doomed(s)' = Doomed(s)
      BY <1>1, <1>2 DEF Doomed
    <3>2. \A d \in Client, s \in Slot : Owns(d, s)' = Owns(d, s)
      BY <1>1 DEF Owns
    <3> QED BY <1>1, <3>1, <3>2 DEF Dead
  <2>2. \A c \in Client, m \in Manifest \cup {None} : CommitsOn(c, m)' = CommitsOn(c, m)
    BY <1>1 DEF CommitsOn, ViewTag
  <2>3. \A k \in Slot : <<"ckpt", k>> \in aged' => ckpt'[k] # None
    BY <1>1 DEF TimelyInv, TimelyBucket, DoomInv
  <2> QED BY <1>2, <2>1, <2>2, <2>3 DEF TimelyInv, TimelyBucket, DoomInv
<1>5. GapInv' /\ OwnersInv'
  BY <1>1, <1>2 DEF TimelyInv, TimelyBucket, GapInv, OwnersInv
<1>6. RecordsInv'
  <2>1. \A s \in Slot : TrueEntry(s)' = TrueEntry(s)
    BY <1>1 DEF TrueEntry
  <2> QED BY <1>1, <1>2, <2>1 DEF TimelyInv, TimelyBucket, RecordsInv
<1>7. GrowthInv'
  BY <1>1 DEF TimelyInv, TimelyBucket, GrowthInv, Whole, Follows
<1>8. AckedIsDurable'
  BY <1>1, <1>2 DEF TimelyInv, TimelyBucket, AckedIsDurable, OnBranch
<1> QED BY <1>3, <1>4, <1>5, <1>6, <1>7, <1>8 DEF TimelyInv, TimelyBucket

\* The steps of BucketWal, taken beside a compactor.
LEMMA WalTimely ==
    ASSUME CompactionInv, CompactionInv', TimelyInv, NEW c \in Client, Progress(c), KeepCompactVars
    PROVE  TimelyInv'
<1>1. CASE RefreshStep(c)
  BY <1>1, GetManifestTimely, GetCheckpointTimely, GetLogTimely, GetIdxTimely DEF RefreshStep
<1>2. CASE PushStep(c)
  <2>1. CASE Listed(c) \/ Probe(c) \/ Upload(c) \/ PutPack(c) \/ PutIdx(c)
    BY <2>1, ListedTimely, ProbeTimely, UploadTimely, PutsTimely
  <2>2. CASE UpdateRef(c) \/ Attempt(c) \/ Claim(c) \/ Ensure(c)
    BY <2>2, UpdateRefTimely, AttemptTimely, ClaimTimely, EnsureTimely
  <2>3. CASE Cas(c) \/ FoldPut(c) \/ FoldCas(c) \/ Done(c)
    BY <2>3, CasTimely, FoldPutTimely, FoldCasTimely, DoneTimely
  <2> QED BY <1>2, <2>1, <2>2, <2>3 DEF PushStep
<1>3. CASE FetchStep(c)
  BY <1>3, BeginTimely, ReadObjectTimely DEF FetchStep
<1>4. CASE Fail(c) \/ Reopen(c)
  BY <1>4, FailTimely, ReopenTimely
<1> QED BY <1>1, <1>2, <1>3, <1>4 DEF Progress, Step

\* Every step of everyone keeps the invariant, if nobody writes over a grace window.
LEMMA TimelyNextKeeps ==
    ASSUME "timely" \in Environment, CompactionInv, CompactionInv', TimelyInv, [CompactionNext]_allVars
    PROVE  TimelyInv'
<1>1. CASE UNCHANGED allVars
  BY <1>1, StillTimely
<1>2. ASSUME NEW c \in Pusher, BeginPush(c) \/ BeginFetch(c), KeepCompactVars PROVE TimelyInv'
  <2>1. c \in Client
    BY CompactionAssumption
  <2> QED BY <1>2, <2>1, BeginTimely
<1>3. ASSUME NEW c \in Client, Progress(c), KeepCompactVars PROVE TimelyInv'
  BY <1>3, WalTimely
<1>4. ASSUME NEW c \in Compactor, BeginCompact(c) \/ ConsolidateStep(c) \/ SweepStep(c) PROVE TimelyInv'
  <2>1. c \in Client
    BY CompactionAssumption
  <2>2. CASE BeginCompact(c) \/ Compact(c) \/ Plan(c) \/ MergeDone(c)
    BY <2>1, <2>2, PlanTimely
  <2>3. CASE ReadMembers(c) \/ MergePut(c) \/ MergeIdx(c) \/ Fence(c)
    BY <2>1, <2>3, MembersTimely, FenceTimely
  <2>4. CASE MergeClaim(c) \/ PutCheckpoint(c) \/ MergeEnsure(c) \/ MergeCas(c)
    BY <2>1, <2>4, MergeClaimTimely, PutCheckpointTimely, MergeEnsureTimely, MergeCasTimely
  <2>5. CASE SweepStep(c)
    BY <2>1, <2>5, SweepListTimely, SweepDeleteTimely, SweepPacksTimely DEF SweepStep
  <2> QED BY <1>4, <2>2, <2>3, <2>4, <2>5 DEF ConsolidateStep
<1>5. CASE GraceElapses
  BY <1>5, GraceTimely
<1> QED BY <1>1, <1>2, <1>3, <1>4, <1>5 DEF CompactionNext

\* It holds at first.
LEMMA TimelyBegins == CompactionInit => TimelyInv
<1> SUFFICES ASSUME CompactionInit PROVE TimelyInv
  OBVIOUS
<1>1. /\ manifest = None /\ acked = {} /\ aged = {} /\ log = [s \in Slot |-> None]
      /\ \A c \in Client : pc[c] = "idle" /\ view[c] = None /\ cp[c] = NoCompacting
  BY DEF CompactionInit, Init
<1>2. hist[0] = [refs |-> NoRefs, packs |-> {}] /\ \A s \in 0..MaxSeq : s # 0 => hist[s] = None
  BY WalAssumption DEF CompactionInit, Init
<1>3. Folded = 0
  BY <1>1 DEF Folded, FoldOf
<1>4. \A s \in Slot : s \in 0..MaxSeq /\ 0 < s /\ ~(s <= 0) /\ hist[s] = None
  BY <1>2, WalAssumption DEF Slot
<1>5. \A c \in Client : pc[c] \notin ClaimedLabels /\ \A m : ~CommitsOn(c, m)
  BY <1>1 DEF CommitsOn, WalkLabels, SlotLabels, ClaimedLabels
<1>6. \A s \in Slot : ~Doomed(s)
  BY <1>1, <1>3, <1>4, NoCompactingIs DEF Doomed
<1>7. DoomInv
  BY <1>1, <1>6 DEF DoomInv
<1>8. GapInv /\ OwnersInv
  BY <1>1, <1>5 DEF GapInv, OwnersInv
<1>9. RecordsInv
  BY <1>4 DEF RecordsInv
<1>10. GrowthInv
  <2>1. \A b \in Branch : hist[0].refs[b] = None
    BY <1>2 DEF NoRefs
  <2>2. Whole(hist[0]) /\ Follows(hist[0], hist[0])
    BY <2>1 DEF Whole, Follows
  <2> QED BY <1>2, <2>2 DEF GrowthInv
<1>11. AckedIsDurable
  BY <1>1 DEF AckedIsDurable
<1>12. ASSUME NEW c \in Client PROVE TimelyClient(c)
  <2>1. At(c) = "idle" /\ pc[c] = "idle" /\ view[c] = None
    BY <1>1 DEF At, ReadLabels, WalkLabels
  <2> QED BY <2>1 DEF TimelyClient, WalkTruth, ViewInv, SeekInv, PushTruth, HandOverInv, MergeTruth, WalkLabels,
                      ClaimedLabels, SlotLabels, CommitLabels, LandedLabels, MergeLabels
<1> QED BY <1>7, <1>8, <1>9, <1>10, <1>11, <1>12 DEF TimelyInv, TimelyBucket

LEMMA AlwaysTimelyInv == ASSUME "timely" \in Environment PROVE CompactionSpec => []TimelyInv
<1>1. CompactionInv /\ CompactionInv' /\ TimelyInv /\ [CompactionNext]_allVars => TimelyInv'
  BY TimelyNextKeeps
<1> QED BY <1>1, TimelyBegins, AlwaysCompactionInv, PTL DEF CompactionSpec

\* If nobody writes over a grace window, whatever readers and sweeps stall, what
\* a client has replayed is a state that was committed (refresh_once).
THEOREM CompactedViewsAreTrue == ASSUME "timely" \in Environment PROVE CompactionSpec => []ViewIsTruth
<1>1. TimelyInv => ViewIsTruth
  BY DEF TimelyInv, TimelyClient, ViewInv, ViewIsTruth
<1> QED BY <1>1, AlwaysTimelyInv, PTL

\* Under the same assumption no consolidation and no sweep loses a push that was
\* reported done (update_ref, consolidate, sweep).
THEOREM CompactedPushesAreDurable == ASSUME "timely" \in Environment PROVE CompactionSpec => []AckedIsDurable
<1>1. TimelyInv => AckedIsDurable
  BY DEF TimelyInv, TimelyBucket
<1> QED BY <1>1, AlwaysTimelyInv, PTL

\* Compact acknowledges nothing, and but for its compare-and-swap leaves what is committed.
LEMMA CompactMoves ==
    ASSUME NEW c \in Client, BeginCompact(c) \/ ConsolidateStep(c) \/ SweepStep(c)
    PROVE  acked' = acked /\ (MergeCas(c) \/ UNCHANGED <<manifest, hist>>)
<1> USE DEF bucketVars, historyVars
<1>1. CASE BeginCompact(c) \/ Compact(c) \/ Plan(c) \/ ReadMembers(c) \/ MergePut(c) \/ MergeIdx(c) \/ Fence(c)
  BY <1>1 DEF BeginCompact, Compact, Plan, ReadMembers, MergePut, MergeIdx, Fence
<1>2. CASE MergeClaim(c) \/ PutCheckpoint(c) \/ MergeEnsure(c) \/ MergeDone(c)
  BY <1>2 DEF MergeClaim, ClaimSlot, PutCheckpoint, MergeEnsure, EnsurePacksPresent, MergeDone
<1>3. CASE MergeCas(c)
  BY <1>3 DEF MergeCas
<1>4. CASE SweepStep(c)
  <2>1. SweepList(c) => UNCHANGED <<manifest, hist, acked>>
    BY ZenonT(30) DEF SweepList
  <2>2. SweepDelete(c) => UNCHANGED <<manifest, hist, acked>>
    BY ZenonT(30) DEF SweepDelete
  <2>3. SweepIdx(c) => UNCHANGED <<manifest, hist, acked>>
    BY ZenonT(30) DEF SweepIdx
  <2>4. SweepBody(c) => UNCHANGED <<manifest, hist, acked>>
    BY ZenonT(30) DEF SweepBody
  <2> QED BY <1>4, <2>1, <2>2, <2>3, <2>4 DEF SweepStep
<1> QED BY <1>1, <1>2, <1>3, <1>4 DEF ConsolidateStep

\* A fold is of the state that is there.
LEMMA FoldKeepsHead ==
    ASSUME CompactionInv, NEW c \in Client, FoldCas(c)
    PROVE  Head(manifest)' = Head(manifest) /\ hist' = hist
<1>1. pc[c] = "foldCas" /\ hist' = hist
  BY DEF FoldCas
<1>2. CASE manifest' = manifest
  BY <1>1, <1>2 DEF Head
<1>3. CASE manifest = view[c].m /\ manifest' = [view[c].m EXCEPT !.ck = view[c].m.head]
  <2>1. view[c] # None
    BY <1>1, LocalFacts DEF ClientOK, StepInv
  <2>2. view[c].m \in Manifest /\ view[c].m.head \in Slot
    BY <2>1, Numbers
  <2>3. manifest' \in Manifest /\ manifest'.head = manifest.head
    BY <1>3, <2>2 DEF Manifest, Slot
  <2> QED BY <1>1, <1>3, <2>2, <2>3, NoneAssumption DEF Head
<1> QED BY <1>2, <1>3 DEF FoldCas, TagMatches

\* A step of BucketWal beside a compactor is a step of the remote, or invisible in it.
LEMMA WalImplements ==
    ASSUME CompactionInv, CompactionInv', TimelyInv, TimelyInv', NEW c \in Client, BeginPush(c) \/ BeginFetch(c) \/ Progress(c)
    PROVE  [Remote!Next]_(Remote!rVars)
<1>1. /\ acked' = acked \/ acked' = acked \cup {<<op[c].branch, op[c].new>>}
      /\ ~Cas(c) => hist' = hist
      /\ Cas(c) => acked' = acked
  BY OtherMoves
<1>2. CASE hist' = hist /\ Head(manifest)' = Head(manifest)
  <2>1. CurrentState' = CurrentState
    BY <1>2, SameCurrent
  <2>2. CASE acked' = acked
    BY <2>1, <2>2 DEF Remote!rVars
  <2>3. CASE acked' = acked \cup {<<op[c].branch, op[c].new>>}
    <3> DEFINE b == op[c].branch
               s == op[c].new
    <3>1. <<b, s>> \in acked' /\ acked' \in SUBSET (Branch \X Snapshot) /\ AckedIsDurable'
      BY <2>3 DEF CompactionInv, CompactionTypeOK, TypeOK, TimelyInv, TimelyBucket
    <3>2. b \in Branch /\ s \in Snapshot
      BY <3>1
    <3>3. CurrentState.refs[b] # None /\ s \in Ancestors[CurrentState.refs[b]]
      BY <2>1, <3>1 DEF AckedIsDurable
    <3>4. Remote!Acknowledge(b, s)
      BY <2>1, <2>3, <3>3 DEF Remote!Acknowledge
    <3> QED BY <3>2, <3>4 DEF Remote!Next
  <2> QED BY <1>1, <2>2, <2>3
<1>3. CASE /\ Cas(c) /\ manifest = op[c].base /\ manifest' = NewManifest(c)
           /\ hist' = [hist EXCEPT ![op[c].seq] = Extend(hist[Entry(c).parent], Entry(c))]
  <2>1. pc[c] = "cas" /\ UNCHANGED <<log, ckpt, acked>>
    BY <1>3 DEF Cas
  <2>2. /\ op[c].branch \in Branch /\ op[c].new \in Snapshot
        /\ (op[c].old # None => op[c].old \in Ancestors[op[c].new])
    BY <2>1, PushFacts DEF CommitLabels
  <2>3. PICK q : q = op[c].seq
    OBVIOUS
  <2>4. /\ Settles /\ Ancestors[op[c].new] \subseteq Objects'
        /\ CurrentState' = Extend(CurrentState, Entry(c)) /\ CurrentState.refs[op[c].branch] = op[c].old
    <3>1. PushLands(c)
      BY <1>3, <2>1 DEF PushLands
    <3> QED BY <2>3, <3>1, CommitLands
  <2>5. CurrentState.refs \in Refs /\ CurrentState'.packs \in SUBSET Pack
    <3>1. /\ hist \in [0..MaxSeq -> Checkpoint \cup {None}] /\ hist' \in [0..MaxSeq -> Checkpoint \cup {None}]
          /\ Head(manifest) \in 0..MaxSeq /\ Head(manifest') \in 0..MaxSeq
          /\ hist[Head(manifest)] # None /\ hist'[Head(manifest')] # None
      <4>1. Head(manifest) \in 0..MaxSeq /\ hist[Head(manifest)] # None
        BY Numbers
      <4>2. Head(manifest') \in 0..MaxSeq
        <5>1. manifest' \in Manifest \cup {None}
          BY DEF CompactionInv, CompactionTypeOK, TypeOK
        <5> QED BY <5>1, Reached
      <4>3. hist'[Head(manifest')] # None
        <5>1. StatesInv'
          BY DEF CompactionInv, BucketOK
        <5>2. hist'[0] # None
          BY <5>1, NoneAssumption, NoValues DEF StatesInv, Checkpoint
        <5> QED BY <5>1, <5>2 DEF StatesInv, Head
      <4> QED BY <4>1, <4>2, <4>3 DEF CompactionInv, CompactionTypeOK, TypeOK
    <3>2. CurrentState \in Checkpoint /\ CurrentState' \in Checkpoint
      BY <3>1 DEF CurrentState, Head
    <3> QED BY <3>2 DEF Checkpoint
  <2>6. Objects' \subseteq Snapshot /\ Objects \subseteq Objects'
    BY <2>4, <2>5 DEF Objects, Pack, Settles
  <2>7. CurrentState'.refs = [CurrentState.refs EXCEPT ![op[c].branch] = op[c].new]
    <3>1. Entry(c).branch = op[c].branch /\ Entry(c).new = op[c].new
      BY DEF Entry
    <3>2. CurrentState'.refs = [b \in Branch |-> IF b = op[c].branch THEN op[c].new ELSE CurrentState.refs[b]]
      BY <2>4, <3>1 DEF Extend
    <3> QED BY <2>5, <3>2 DEF Refs
  <2>8. Remote!Push(op[c].branch, op[c].new)
    BY <2>1, <2>2, <2>4, <2>6, <2>7 DEF Remote!Push, Objects
  <2> QED BY <2>2, <2>8 DEF Remote!Next
<1>4. CASE Cas(c) /\ UNCHANGED <<manifest, hist>>
  <2>1. Head(manifest)' = Head(manifest) /\ hist' = hist
    BY <1>4 DEF Head
  <2> QED BY <1>2, <2>1
<1>5. CASE FoldCas(c)
  BY <1>2, <1>5, FoldKeepsHead
<1>6. CASE ~Cas(c) /\ ~FoldCas(c)
  <2>1. manifest' = manifest
    BY <1>6, StillManifest
  <2>2. Head(manifest)' = Head(manifest) /\ hist' = hist
    BY <1>1, <1>6, <2>1 DEF Head
  <2> QED BY <1>2, <2>2
<1>7. Cas(c) => \/ /\ manifest = op[c].base /\ manifest' = NewManifest(c)
                   /\ hist' = [hist EXCEPT ![op[c].seq] = Extend(hist[Entry(c).parent], Entry(c))]
                \/ UNCHANGED <<manifest, hist>>
  BY DEF Cas, TagMatches
<1> QED BY <1>3, <1>4, <1>5, <1>6, <1>7

\* What compact publishes is the state that is there, packed anew.
LEMMA CompactIsInvisible ==
    ASSUME CompactionInv, TimelyInv, NEW c \in Client, BeginCompact(c) \/ ConsolidateStep(c) \/ SweepStep(c)
    PROVE  UNCHANGED Remote!rVars
<1>1. acked' = acked /\ (MergeCas(c) \/ UNCHANGED <<manifest, hist>>)
  BY CompactMoves
<1>2. CASE UNCHANGED <<manifest, hist>>
  <2>1. CurrentState' = CurrentState
    BY <1>2 DEF CurrentState, Head
  <2> QED BY <1>1, <2>1 DEF Remote!rVars
<1>3. CASE MergeCas(c) /\ ~UNCHANGED <<manifest, hist>>
  <2>1. MergeIsIn(c)
    BY <1>3 DEF MergeCas, TagMatches, MergeIsIn
  <2>2. PICK q : q = op[c].seq
    OBVIOUS
  <2>3. CurrentState'.refs = CurrentState.refs /\ (UNION CurrentState'.packs) = (UNION CurrentState.packs)
    BY <2>1, <2>2, MergeLands
  <2> QED BY <1>1, <2>3 DEF Remote!rVars
<1> QED BY <1>1, <1>2, <1>3

\* Under the same assumption compaction changes nothing a client of the remote can
\* see: every step of the composition, sweeps that race pushes and readers that
\* stall included, is a step of the abstract remote or invisible in it (compact).
THEOREM CompactionIsInvisible == ASSUME "timely" \in Environment PROVE CompactionSpec => StepsOfRemote
<1>1. ASSUME CompactionInv, CompactionInv', TimelyInv, TimelyInv', [CompactionNext]_allVars
      PROVE  [Remote!Next]_(Remote!rVars)
  <2>1. CASE UNCHANGED allVars
    BY <2>1 DEF allVars, vars, bucketVars, historyVars, Remote!rVars, CurrentState, Head
  <2>2. ASSUME NEW c \in Client, BeginPush(c) \/ BeginFetch(c) \/ Progress(c) PROVE [Remote!Next]_(Remote!rVars)
    BY <1>1, <2>2, WalImplements
  <2>3. ASSUME NEW c \in Client, BeginCompact(c) \/ ConsolidateStep(c) \/ SweepStep(c) PROVE [Remote!Next]_(Remote!rVars)
    BY <1>1, <2>3, CompactIsInvisible
  <2>4. CASE GraceElapses
    BY <2>4 DEF GraceElapses, vars, bucketVars, historyVars, Remote!rVars, CurrentState, Head
  <2> QED BY <1>1, <2>1, <2>2, <2>3, <2>4, CompactionAssumption DEF CompactionNext
<1> QED BY <1>1, AlwaysCompactionInv, AlwaysTimelyInv, PTL DEF CompactionSpec, StepsOfRemote

-----------------------------------------------------------------------------
(* And without a push of an old orphan's twin: the third inductive invariant *)

\* Pack p is young, and in no sweep's hands.
Safe(p) == <<"body", p>> \notin aged /\ \A d \in Client : p \notin cp[d].packs

\* The merged packs that are uploaded.
Ready(c) ==
    {UNION g : g \in cp[c].parts \ cp[c].todo}
        \ (IF pc[c] \in {"mergePut", "mergeIdx"} THEN {op[c].send} ELSE {})

\* The packs that a client is to publish.
Held(c) == pending[c] \cup op[c].pend \cup Ready(c)

\* What a client is to publish is there to stay until it has, and it is counted
\* as writing for as long.
HoldInv(c) ==
    /\ \A p \in Held(c) : p \in bodies \cap idxs /\ Safe(p)
    /\ pc[c] \in {"putIdx", "mergeIdx"} => op[c].send \in bodies /\ Safe(op[c].send)
    /\ op[c].pend # {} => op[c].branch # None \/ cp[c].parts # {}
    /\ At(c) = "fence" \/ pc[c] \in SlotLabels \cap MergeLabels => cp[c].todo = {}

\* A sweep that is to delete packs has none that is live.
SweepInv(c) ==
    /\ pc[c] \in {"sweepIdx", "sweepBody"} \/ (pc[c] = "sweepDelete" /\ manifest = ViewTag(c)) =>
          cp[c].packs \cap CurrentState.packs = {}
    /\ pc[c] = "sweepBody" => op[c].send \in cp[c].packs

PacksInv == CurrentState.packs \subseteq bodies \cap idxs /\ \A c \in Client : HoldInv(c) /\ SweepInv(c)

-----------------------------------------------------------------------------
\* No tag held by a client is one that the manifest is yet to have.
TagsPass == \A d \in Client : manifest' = ViewTag(d) => manifest = ViewTag(d)

\* A step of c deletes no pack but those it has listed, and lists none but old ones.
Spares(c) ==
    /\ Apart(c) /\ aged' \subseteq aged
    /\ bodies \ cp[c].packs \subseteq bodies' /\ idxs \ cp[c].packs \subseteq idxs'
    /\ \A p \in cp'[c].packs : p \in cp[c].packs \/ (p \in bodies => <<"body", p>> \in aged)

LEMMA StaySafe ==
    ASSUME NEW c \in Client, Spares(c), NEW p \in bodies, Safe(p)
    PROVE  p \in bodies' /\ Safe(p)' /\ (p \in idxs => p \in idxs')
<1>1. p \notin cp[c].packs /\ <<"body", p>> \notin aged /\ \A d \in Client : p \notin cp[d].packs
  BY DEF Safe
<1>2. \A d \in Client : p \notin cp'[d].packs
  BY <1>1 DEF Spares, Apart
<1>3. <<"body", p>> \notin aged'
  BY <1>1 DEF Spares
<1> QED BY <1>1, <1>2, <1>3 DEF Safe, Spares

\* Such a step keeps the invariant for the others.
LEMMA PacksStep ==
    ASSUME CompactionInv, CompactionInv', PacksInv, TagsPass, NEW c \in Client, Spares(c),
           CurrentState.packs \subseteq bodies' \cap idxs', CurrentState'.packs \subseteq CurrentState.packs \cup Held(c),
           HoldInv(c)', SweepInv(c)'
    PROVE  PacksInv'
<1>1. ASSUME NEW p \in Held(c) PROVE p \in bodies' \cap idxs' /\ p \in bodies /\ Safe(p)
  <2>1. p \in bodies /\ p \in idxs /\ Safe(p)
    BY DEF PacksInv, HoldInv
  <2> QED BY <2>1, StaySafe
<1>2. CurrentState'.packs \subseteq bodies' \cap idxs'
  BY <1>1
<1>3. ASSUME NEW d \in Client PROVE HoldInv(d)' /\ SweepInv(d)'
  <2>1. CASE d = c
    BY <2>1
  <2>2. CASE d # c
    <3>1. /\ pc'[d] = pc[d] /\ view'[d] = view[d] /\ rd'[d] = rd[d] /\ op'[d] = op[d]
          /\ cp'[d] = cp[d] /\ pending'[d] = pending[d]
      BY <2>2 DEF Spares, Apart
    <3>2. HoldInv(d) /\ SweepInv(d)
      BY DEF PacksInv
    <3>3. Held(d)' = Held(d) /\ At(d)' = At(d) /\ ViewTag(d)' = ViewTag(d)
      BY <3>1 DEF Held, Ready, At, ViewTag
    <3>4. \A p \in Held(d) : p \in bodies' \cap idxs' /\ Safe(p)'
      <4> SUFFICES ASSUME NEW p \in Held(d) PROVE p \in bodies' \cap idxs' /\ Safe(p)'
        OBVIOUS
      <4>1. p \in bodies /\ p \in idxs /\ Safe(p)
        BY <3>2 DEF HoldInv
      <4> QED BY <4>1, StaySafe
    <3>5. pc[d] \in {"putIdx", "mergeIdx"} => op[d].send \in bodies' /\ Safe(op[d].send)'
      <4> SUFFICES ASSUME pc[d] \in {"putIdx", "mergeIdx"} PROVE op[d].send \in bodies' /\ Safe(op[d].send)'
        OBVIOUS
      <4>1. PICK p : p = op[d].send
        OBVIOUS
      <4>2. p \in bodies /\ Safe(p)
        BY <3>2, <4>1 DEF HoldInv
      <4>3. p \in bodies' /\ Safe(p)' /\ op'[d].send = p
        BY <3>1, <4>1, <4>2, StaySafe
      <4> QED BY <3>1, <4>3 DEF Safe
    <3>6. HoldInv(d)'
      <4>1. pc'[d] \in {"putIdx", "mergeIdx"} => op'[d].send \in bodies' /\ Safe(op[d].send)'
        BY <3>1, <3>5
      <4>2. \A p \in Held(d)' : p \in bodies' \cap idxs' /\ Safe(p)'
        BY <3>3, <3>4
      <4>3. op'[d].pend # {} => op'[d].branch # None \/ cp'[d].parts # {}
        BY <3>1, <3>2 DEF HoldInv
      <4>4. At(d)' = "fence" \/ pc'[d] \in SlotLabels \cap MergeLabels => cp'[d].todo = {}
        BY <3>1, <3>2, <3>3 DEF HoldInv
      <4> QED BY <4>1, <4>2, <4>3, <4>4 DEF HoldInv
    <3>7. SweepInv(d)'
      <4>1. cp[d].packs \cap Held(c) = {}
        BY <1>1 DEF Safe
      <4>2. pc[d] \in {"sweepIdx", "sweepBody"} \/ (pc[d] = "sweepDelete" /\ manifest' = ViewTag(d)) =>
              cp[d].packs \cap CurrentState.packs = {}
        BY <3>2 DEF SweepInv, TagsPass
      <4>3. pc[d] \in {"sweepIdx", "sweepBody"} \/ (pc[d] = "sweepDelete" /\ manifest' = ViewTag(d)) =>
              cp[d].packs \cap CurrentState'.packs = {}
        BY <4>1, <4>2
      <4> QED BY <3>1, <3>2, <3>3, <4>3 DEF SweepInv
    <3> QED BY <3>6, <3>7
  <2> QED BY <2>1, <2>2
<1> QED BY <1>2, <1>3 DEF PacksInv

SweepLabels == {"sweepDelete", "sweepIdx", "sweepBody"}

\* A step of c that comes to hold nothing more, and is not a step of a sweep's deletions.
LEMMA PacksQuiet ==
    ASSUME CompactionInv, CompactionInv', PacksInv, TagsPass, NEW c \in Client, Apart(c), aged' \subseteq aged,
           UNCHANGED <<bodies, idxs>>, cp'[c].packs \subseteq cp[c].packs,
           CurrentState'.packs \subseteq CurrentState.packs \cup Held(c), Held(c)' \subseteq Held(c),
           pc'[c] \notin {"putIdx", "mergeIdx"} \cup SweepLabels,
           op'[c].pend # {} => op'[c].branch # None \/ cp'[c].parts # {},
           At(c)' = "fence" \/ pc'[c] \in SlotLabels \cap MergeLabels => cp'[c].todo = {}
    PROVE  PacksInv'
<1>1. Spares(c)
  BY DEF Spares
<1>2. CurrentState.packs \subseteq bodies' \cap idxs'
  BY DEF PacksInv
<1>3. \A p \in Held(c)' : p \in bodies' \cap idxs' /\ Safe(p)'
  <2> SUFFICES ASSUME NEW p \in Held(c) PROVE p \in bodies' \cap idxs' /\ Safe(p)'
    OBVIOUS
  <2>1. p \in bodies /\ p \in idxs /\ Safe(p)
    BY DEF PacksInv, HoldInv
  <2> QED BY <1>1, <2>1, StaySafe
<1>4. HoldInv(c)'
  BY <1>3 DEF HoldInv
<1>5. SweepInv(c)'
  BY DEF SweepInv, SweepLabels
<1> QED BY <1>1, <1>2, <1>4, <1>5, PacksStep

\* What a step of BucketWal leaves of the labels and the packs of the client that takes
\* it, uploads and update_ref apart.
LEMMA WalLocals ==
    ASSUME CompactionInv, CompactionInv', NEW c \in Client, BeginPush(c) \/ BeginFetch(c) \/ Progress(c),
           ~PutPack(c), ~PutIdx(c), ~UpdateRef(c)
    PROVE  /\ UNCHANGED <<bodies, idxs>> /\ pending'[c] \subseteq pending[c]
           /\ op'[c].pend = {} \/ (op'[c].pend = op[c].pend /\ op'[c].branch = op[c].branch)
           /\ pc'[c] = "idle" => op'[c].pend = {} \/ pc[c] = "idle"
           /\ pc[c] \in {"mergePut", "mergeIdx"} => pc'[c] = "idle"
           /\ pc'[c] \notin {"putIdx", "mergePut", "mergeIdx"} \cup SweepLabels \cup (SlotLabels \cap MergeLabels)
           /\ At(c)' = "fence" => At(c) = "fence"
<1>0. /\ TypeOK /\ op \in [Client -> Op] /\ op[c] \in Op /\ pc \in [Client -> Label] /\ rd \in [Client -> Reading]
      /\ pc[c] \in ReadLabels => rd[c].ret \in AllReturns
      /\ pending \in [Client -> SUBSET Pack]
  BY LocalFacts DEF TypeOK, ClientOK, StepInv
<1> DEFINE W == {"idle", "listed", "probe", "upload", "putPack", "updateRef", "attempt", "claim", "ensure", "cas",
                 "foldPut", "foldCas", "done", "fetchRefs", "read", "reread",
                 "compact", "plan", "fence", "merged", "sweepList"} \cup ReadLabels
           Out == pc'[c] = "idle" /\ op'[c].pend = {}
           On == /\ pc[c] \notin {"mergePut", "mergeIdx"} /\ pc'[c] \in W /\ (pc'[c] = "idle" => pc[c] = "idle")
                 /\ op'[c].pend = {} \/ (op'[c].pend = op[c].pend /\ op'[c].branch = op[c].branch)
                 /\ At(c)' = "fence" => At(c) = "fence"
<1>1. ASSUME NEW res, Return(c, res) PROVE Out
  BY <1>0, <1>1 DEF Return, Goto, NoOp
<1>2. ASSUME NEW ret, CallRefresh(c, ret) PROVE pc'[c] = "getManifest" /\ At(c)' = ret
  <2>1. pc'[c] = "getManifest" /\ rd'[c].ret = ret
    BY <1>0, <1>2 DEF CallRefresh, Goto, NoReading
  <2> QED BY <2>1 DEF At, ReadLabels
<1>3. ASSUME NEW lbl \in W \ ReadLabels, lbl # "fence", Goto(c, lbl) PROVE pc'[c] = lbl /\ At(c)' # "fence"
  <2>1. pc'[c] = lbl
    BY <1>0, <1>3 DEF Goto
  <2> QED BY <1>3, <2>1 DEF At
<1>4. Acknowledge(c) => Out
  BY <1>1 DEF Acknowledge
<1>5. ASSUME NEW res, Throw(c, res) PROVE Out
  BY <1>1, <1>4, <1>5 DEF Throw
<1>6. Gone(c) /\ pc[c] \in WalkLabels => Out \/ On
  <2> SUFFICES ASSUME Gone(c), pc[c] \in WalkLabels PROVE Out \/ On
    OBVIOUS
  <2>1. CASE Goto(c, "getManifest") /\ rd' = [rd EXCEPT ![c].failed = rd[c].m, ![c].left = rd[c].left - 1] /\ op' = op
    <3>1. pc'[c] = "getManifest" /\ rd'[c].ret = rd[c].ret /\ op'[c] = op[c]
      BY <1>0, <2>1 DEF Goto, Reading
    <3>2. At(c)' = At(c)
      BY <3>1 DEF At, ReadLabels
    <3> QED BY <3>1, <3>2 DEF ReadLabels, WalkLabels
  <2>2. CASE \E res : Throw(c, res)
    BY <1>5, <2>2
  <2> QED BY <2>1, <2>2 DEF Gone
<1>65. ASSUME Out \/ On, UNCHANGED <<bodies, idxs>>, pending'[c] \subseteq pending[c]
      PROVE  /\ UNCHANGED <<bodies, idxs>> /\ pending'[c] \subseteq pending[c]
             /\ op'[c].pend = {} \/ (op'[c].pend = op[c].pend /\ op'[c].branch = op[c].branch)
             /\ pc'[c] = "idle" => op'[c].pend = {} \/ pc[c] = "idle"
             /\ pc[c] \in {"mergePut", "mergeIdx"} => pc'[c] = "idle"
             /\ pc'[c] \notin {"putIdx", "mergePut", "mergeIdx"} \cup SweepLabels \cup (SlotLabels \cap MergeLabels)
             /\ At(c)' = "fence" => At(c) = "fence"
  BY <1>65 DEF ReadLabels, WalkLabels, SweepLabels, MergeLabels, SlotLabels, At
<1>7. CASE RefreshStep(c)
  <2>1. UNCHANGED <<bodies, idxs, pending>>
    BY <1>7 DEF RefreshStep, GetManifest, GetCheckpoint, GetLog, GetIdx, bucketVars, sessionVars
  <2>2. CASE GetManifest(c)
    <3>1. rd[c].ret \in AllReturns /\ op'[c] = op[c] /\ pc[c] = "getManifest"
      BY <1>0, <2>2 DEF GetManifest, ReadLabels
    <3>2. \/ pc'[c] = rd[c].ret
          \/ pc'[c] \in {"getCheckpoint", "getLog"} /\ rd'[c].ret = rd[c].ret
      <4>1. CASE Goto(c, rd[c].ret)
        BY <1>0, <4>1 DEF Goto
      <4>2. CASE ~Goto(c, rd[c].ret)
        <5>1. /\ Goto(c, IF manifest.ck # 0 THEN "getCheckpoint" ELSE "getLog")
              /\ rd' = [rd EXCEPT ![c] = [@ EXCEPT !.m = manifest, !.cur = manifest.head,
                        !.tail = NoRefs, !.refs = NoRefs, !.packs = {}]]
          BY <2>2, <4>2 DEF GetManifest
        <5>2. pc'[c] \in {"getCheckpoint", "getLog"}
          BY <1>0, <5>1 DEF Goto
        <5>3. rd[c] \in Reading
          BY <1>0
        <5>4. PICK h : h = manifest.head
          OBVIOUS
        <5>5. rd' = [rd EXCEPT ![c] = [rd[c] EXCEPT !.m = manifest, !.cur = h,
                        !.tail = NoRefs, !.refs = NoRefs, !.packs = {}]]
          BY <5>1, <5>4
        <5>6. rd'[c].ret = rd[c].ret
          BY <1>0, <5>3, <5>5 DEF Reading
        <5> QED BY <5>2, <5>6
      <4> QED BY <4>1, <4>2
    <3>3. AllReturns \subseteq W /\ AllReturns \cap ReadLabels = {} /\ "idle" \notin AllReturns
      BY DEF AllReturns, RefreshReturns, ReadLabels, WalkLabels
    <3>4. At(c)' = At(c)
      BY <3>1, <3>2, <3>3 DEF At, ReadLabels, WalkLabels
    <3>5. pc'[c] \in W /\ pc'[c] # "idle"
      BY <3>1, <3>2, <3>3 DEF ReadLabels, WalkLabels
    <3>6. On
      BY <3>1, <3>4, <3>5
    <3> QED BY <2>1, <3>6 DEF ReadLabels, WalkLabels, SweepLabels, MergeLabels, SlotLabels
  <2>3. CASE GetCheckpoint(c) \/ GetLog(c) \/ GetIdx(c)
    <3>1. pc[c] \in WalkLabels
      BY <2>3 DEF GetCheckpoint, GetLog, GetIdx, WalkLabels
    <3>2. CASE op' = op /\ rd'[c].ret = rd[c].ret /\ pc'[c] \in {"getLog", "getIdx"}
      <4>1. At(c)' = At(c) /\ op'[c] = op[c] /\ pc'[c] \in ReadLabels
        BY <3>1, <3>2 DEF At, ReadLabels, WalkLabels
      <4>2. On
        BY <3>1, <4>1 DEF ReadLabels, WalkLabels
      <4> QED BY <2>1, <4>2 DEF ReadLabels, WalkLabels, SweepLabels, MergeLabels, SlotLabels
    <3>3. CASE op' = op /\ pc'[c] = rd[c].ret
      <4>1. rd[c].ret \in AllReturns /\ op'[c] = op[c]
        BY <1>0, <3>1, <3>3 DEF ReadLabels
      <4>2. AllReturns \subseteq W /\ AllReturns \cap ReadLabels = {} /\ "idle" \notin AllReturns
        BY DEF AllReturns, RefreshReturns, ReadLabels, WalkLabels
      <4>3. At(c)' = At(c)
        BY <3>1, <3>3, <4>1, <4>2 DEF At, ReadLabels
      <4>4. On
        BY <3>1, <3>3, <4>1, <4>2, <4>3 DEF WalkLabels
      <4> QED BY <2>1, <4>4 DEF ReadLabels, WalkLabels, SweepLabels, MergeLabels, SlotLabels
    <3>4. CASE Gone(c) \/ \E res : Throw(c, res)
      <4>1. Out \/ On
        <5>1. CASE Gone(c)
          BY <1>6, <3>1, <5>1
        <5>2. CASE \E res : Throw(c, res)
          <6>1. PICK res : Throw(c, res)
            BY <5>2
          <6> QED BY <1>5, <6>1
        <5> QED BY <3>4, <5>1, <5>2
      <4> HIDE DEF Out, On
      <4>2. UNCHANGED <<bodies, idxs>> /\ pending'[c] \subseteq pending[c]
        BY <2>1
      <4> QED BY <1>65, <4>1, <4>2
    <3>5. GetCheckpoint(c) => \/ op' = op /\ rd'[c].ret = rd[c].ret /\ pc'[c] \in {"getLog", "getIdx"}
                              \/ Gone(c)
      BY <1>0 DEF GetCheckpoint, Goto, Reading
    <3>6. GetLog(c) => \/ op' = op /\ rd'[c].ret = rd[c].ret /\ pc'[c] \in {"getLog", "getIdx"}
                       \/ Gone(c) \/ \E res : Throw(c, res)
      BY <1>0 DEF GetLog, Goto, Reading
    <3>7. GetIdx(c) => (op' = op /\ pc'[c] = rd[c].ret) \/ Gone(c)
      BY <1>0 DEF GetIdx, Goto
    <3> QED BY <2>3, <3>2, <3>3, <3>4, <3>5, <3>6, <3>7
  <2> QED BY <1>7, <2>2, <2>3 DEF RefreshStep
<1>9. CASE BeginPush(c) \/ BeginFetch(c) \/ FetchRefs(c)
  <2>1. UNCHANGED <<bodies, idxs, pending>>
    BY <1>9, ZenonT(30) DEF BeginPush, BeginFetch, FetchRefs, bucketVars, sessionVars
  <2>2. PICK lbl \in {"listed", "fetchRefs", "read"} : CallRefresh(c, lbl)
    BY <1>9 DEF BeginPush, BeginFetch, FetchRefs
  <2>3. op'[c].pend = {} \/ (op'[c].pend = op[c].pend /\ op'[c].branch = op[c].branch)
    <3>1. CASE BeginPush(c)
      <4>1. PICK b \in Branch, s \in Snapshot : op' = [op EXCEPT ![c] = [NoOp EXCEPT !.branch = b, !.new = s]]
        BY <3>1 DEF BeginPush
      <4> QED BY <1>0, <4>1 DEF NoOp
    <3>2. CASE BeginFetch(c)
      BY <1>0, <3>2 DEF BeginFetch, NoOp
    <3>3. CASE FetchRefs(c)
      <4>1. PICK T : op' = [op EXCEPT ![c].todo = T, ![c].n = MaxRestarts]
        BY <3>3 DEF FetchRefs
      <4> QED BY <1>0, <4>1 DEF Op
    <3> QED BY <1>9, <3>1, <3>2, <3>3
  <2>4. pc[c] \in {"idle", "fetchRefs"}
    BY <1>9 DEF BeginPush, BeginFetch, FetchRefs
  <2>5. pc'[c] = "getManifest" /\ At(c)' = lbl
    BY <1>2, <2>2
  <2>6. On
    BY <2>3, <2>4, <2>5 DEF ReadLabels
  <2> QED BY <1>65, <2>1, <2>6
<1>10. CASE Listed(c) \/ Attempt(c) \/ Probe(c) \/ Upload(c)
  <2>1. UNCHANGED <<bodies, idxs, pending>> /\ pc[c] \in {"listed", "attempt", "probe", "upload"}
    BY <1>10, ZenonT(30) DEF Listed, Attempt, Probe, Upload, bucketVars, sessionVars
  <2>2. \/ Acknowledge(c) \/ \E res : Return(c, res)
        \/ \E lbl \in {"probe"} : CallRefresh(c, lbl)
        \/ \E lbl \in {"upload", "updateRef", "claim", "putPack"} : Goto(c, lbl)
    BY <1>10 DEF Listed, Attempt, Probe, Upload
  <2>3. Acknowledge(c) \/ (\E res : Return(c, res)) \/ (op'[c].pend = op[c].pend /\ op'[c].branch = op[c].branch)
    BY <1>0, <1>10 DEF Listed, Attempt, Probe, Upload, Op
  <2>4. Out \/ On
    <3>1. CASE Acknowledge(c) \/ \E res : Return(c, res)
      BY <1>1, <1>4, <3>1
    <3>2. CASE op'[c].pend = op[c].pend /\ op'[c].branch = op[c].branch
               /\ ((\E lbl \in {"probe"} : CallRefresh(c, lbl)) \/ \E lbl \in {"upload", "updateRef", "claim", "putPack"} : Goto(c, lbl))
      <4>1. CASE CallRefresh(c, "probe")
        <5>1. pc'[c] = "getManifest" /\ At(c)' = "probe"
          BY <1>2, <4>1
        <5> QED BY <2>1, <3>2, <5>1 DEF ReadLabels
      <4>2. CASE \E lbl \in {"upload", "updateRef", "claim", "putPack"} : Goto(c, lbl)
        <5>1. PICK lbl \in {"upload", "updateRef", "claim", "putPack"} : Goto(c, lbl)
          BY <4>2
        <5>2. lbl \in W \ ReadLabels /\ lbl # "fence"
          BY DEF ReadLabels, WalkLabels
        <5>3. pc'[c] = lbl /\ At(c)' # "fence"
          BY <1>3, <5>1, <5>2
        <5> QED BY <2>1, <3>2, <5>3
      <4> QED BY <3>2, <4>1, <4>2
    <3> QED BY <2>2, <2>3, <3>1, <3>2
  <2> QED BY <1>65, <2>1, <2>4
<1>11. CASE Claim(c) \/ Ensure(c) \/ Cas(c)
  <2>1. UNCHANGED <<bodies, idxs, pending>> /\ pc[c] \in {"claim", "ensure", "cas"}
    BY <1>11 DEF Claim, ClaimSlot, Ensure, EnsurePacksPresent, Cas, bucketVars, sessionVars
  <2>2. \/ \E res : Return(c, res)
        \/ \E lbl \in {"attempt", "foldPut"} : CallRefresh(c, lbl)
        \/ \E lbl \in {"ensure", "cas"} : Goto(c, lbl)
        \/ pc' = pc
    BY <1>11 DEF Claim, ClaimSlot, Ensure, EnsurePacksPresent, Cas, Retry
  <2>3. (\E res : Return(c, res)) \/ (op'[c].pend = op[c].pend /\ op'[c].branch = op[c].branch)
    BY <1>0, <1>11 DEF Claim, ClaimSlot, Ensure, EnsurePacksPresent, Cas, Retry, Op
  <2>4. Out \/ On
    <3>1. CASE \E res : Return(c, res)
      BY <1>1, <3>1
    <3>2. CASE op'[c].pend = op[c].pend /\ op'[c].branch = op[c].branch /\ \E lbl \in {"attempt", "foldPut"} : CallRefresh(c, lbl)
      <4>1. PICK lbl \in {"attempt", "foldPut"} : CallRefresh(c, lbl)
        BY <3>2
      <4>2. pc'[c] = "getManifest" /\ At(c)' = lbl
        BY <1>2, <4>1
      <4> QED BY <2>1, <3>2, <4>2 DEF ReadLabels
    <3>3. CASE op'[c].pend = op[c].pend /\ op'[c].branch = op[c].branch /\ \E lbl \in {"ensure", "cas"} : Goto(c, lbl)
      <4>1. PICK lbl \in {"ensure", "cas"} : Goto(c, lbl)
        BY <3>3
      <4>2. lbl \in W \ ReadLabels /\ lbl # "fence"
        BY DEF ReadLabels, WalkLabels
      <4>3. pc'[c] = lbl /\ At(c)' # "fence"
        BY <1>3, <4>1, <4>2
      <4> QED BY <2>1, <3>3, <4>3
    <3>4. CASE op'[c].pend = op[c].pend /\ op'[c].branch = op[c].branch /\ pc' = pc
      <4>1. pc'[c] = pc[c] /\ At(c)' = pc[c]
        BY <2>1, <3>4 DEF At, ReadLabels, WalkLabels
      <4> QED BY <2>1, <3>4, <4>1
    <3> QED BY <2>2, <2>3, <3>1, <3>2, <3>3, <3>4
  <2> QED BY <1>65, <2>1, <2>4
<1>12. CASE FoldPut(c) \/ FoldCas(c) \/ Done(c)
  <2>1. UNCHANGED <<bodies, idxs, pending>> /\ pc[c] \in {"foldPut", "foldCas", "done"}
    BY <1>12 DEF FoldPut, FoldCas, Done, bucketVars, sessionVars
  <2>2. Acknowledge(c) \/ (Goto(c, "foldCas") /\ op' = op) \/ (CallRefresh(c, "done") /\ op' = op)
    BY <1>12 DEF FoldPut, FoldCas, Done
  <2>3. Goto(c, "foldCas") => pc'[c] = "foldCas" /\ At(c)' # "fence"
    BY <1>3 DEF ReadLabels, WalkLabels
  <2>4. CallRefresh(c, "done") => pc'[c] = "getManifest" /\ At(c)' = "done"
    BY <1>2
  <2>5. Out \/ On
    BY <1>4, <2>1, <2>2, <2>3, <2>4 DEF ReadLabels
  <2> QED BY <1>65, <2>1, <2>5
<1>13. CASE ReadObject(c)
  <2>1. UNCHANGED <<bodies, idxs, pending>> /\ pc[c] \in {"read", "reread"}
    BY <1>13 DEF ReadObject, bucketVars, sessionVars
  <2>2. \/ \E res : Return(c, res)
        \/ /\ op'[c].pend = op[c].pend /\ op'[c].branch = op[c].branch
           /\ CallRefresh(c, "reread") \/ Goto(c, "read") \/ pc' = pc
    <3>1. (\E res : Return(c, res)) \/ CallRefresh(c, "reread") \/ Goto(c, "read") \/ pc' = pc
      BY <1>13, ZenonT(30) DEF ReadObject, LookUp, Restart
    <3>2. (\E res : Return(c, res)) \/ (op'[c].pend = op[c].pend /\ op'[c].branch = op[c].branch)
      <4>1. CASE Restart(c)
        BY <1>0, <4>1 DEF Restart, Op
      <4>2. CASE LookUp(c)
        <5>1. \/ \E res : Return(c, res)
              \/ \E T, n : op' = [op EXCEPT ![c].todo = T, ![c].n = n]
              \/ \E n, b : op' = [op EXCEPT ![c].n = n, ![c].base = b]
          <6> SUFFICES ASSUME ~ \E res : Return(c, res)
                       PROVE  \/ \E T, n : op' = [op EXCEPT ![c].todo = T, ![c].n = n]
                              \/ \E n, b : op' = [op EXCEPT ![c].n = n, ![c].base = b]
            OBVIOUS
          <6>1. PICK s \in op[c].todo : 
                   \/ op' = [op EXCEPT ![c].todo = @ \ {s}, ![c].n = MaxRestarts]
                   \/ op' = [op EXCEPT ![c].n = @ - 1, ![c].base = ViewTag(c)]
            BY <4>2 DEF LookUp
          <6>2. CASE op' = [op EXCEPT ![c].todo = @ \ {s}, ![c].n = MaxRestarts]
            BY <6>2
          <6>3. CASE op' = [op EXCEPT ![c].n = @ - 1, ![c].base = ViewTag(c)]
            BY <6>3
          <6> QED BY <6>1, <6>2, <6>3
        <5>2. CASE \E T, n : op' = [op EXCEPT ![c].todo = T, ![c].n = n]
          <6>1. PICK T, n : op' = [op EXCEPT ![c].todo = T, ![c].n = n]
            BY <5>2
          <6> QED BY <1>0, <6>1 DEF Op
        <5>3. CASE \E n, b : op' = [op EXCEPT ![c].n = n, ![c].base = b]
          <6>1. PICK n, b : op' = [op EXCEPT ![c].n = n, ![c].base = b]
            BY <5>3
          <6> QED BY <1>0, <6>1 DEF Op
        <5> QED BY <5>1, <5>2, <5>3
      <4> QED BY <1>13, <4>1, <4>2 DEF ReadObject
    <3> QED BY <3>1, <3>2
  <2>3. CallRefresh(c, "reread") => pc'[c] = "getManifest" /\ At(c)' = "reread"
    BY <1>2
  <2>4. Goto(c, "read") => pc'[c] = "read" /\ At(c)' # "fence"
    BY <1>3 DEF ReadLabels, WalkLabels
  <2>5. pc' = pc => pc'[c] = pc[c] /\ At(c)' = pc[c]
    BY <2>1 DEF At, ReadLabels, WalkLabels
  <2>6. Out \/ On
    BY <1>1, <2>1, <2>2, <2>3, <2>4, <2>5 DEF ReadLabels
  <2> QED BY <1>65, <2>1, <2>6
<1>14. CASE Fail(c)
  <2>1. UNCHANGED <<bodies, idxs, pending>> /\ \E res : Throw(c, res)
    BY <1>14 DEF Fail, bucketVars
  <2>2. Out
    BY <1>5, <2>1
  <2> QED BY <1>65, <2>1, <2>2
<1>15. CASE Reopen(c)
  <2>1. /\ UNCHANGED <<bodies, idxs>> /\ pc' = pc /\ op' = op /\ pc[c] = "idle" /\ pending'[c] \subseteq pending[c]
    BY <1>0, <1>15 DEF Reopen, bucketVars
  <2>2. On
    BY <2>1 DEF At, ReadLabels, WalkLabels
  <2> QED BY <1>65, <2>1, <2>2
<1> QED BY <1>7, <1>9, <1>10, <1>11, <1>12, <1>13, <1>14, <1>15 DEF Progress, Step, PushStep, FetchStep

\* A manifest that has been overtaken does not come back.
LEMMA OnlyForward ==
    ASSUME CompactionInv, CompactionNext \/ UNCHANGED manifest PROVE TagsPass
<1> SUFFICES ASSUME NEW d \in Client, manifest' = ViewTag(d), manifest' # manifest PROVE FALSE
  BY DEF TagsPass
<1>1. /\ manifest' # None
      /\ \/ Head(manifest') > Head(manifest)
         \/ Head(manifest') = Head(manifest) /\ manifest'.ck > manifest.ck
  BY ManifestMoves
<1>2. manifest \in Manifest \cup {None} /\ ViewTag(d) \in Manifest \cup {None} /\ Reaches(ViewTag(d), manifest)
  BY LocalFacts, ViewTags
<1>3. manifest # None /\ manifest \in Manifest /\ manifest' \in Manifest
      /\ manifest'.head <= manifest.head /\ manifest'.ck <= manifest.ck
  BY <1>1, <1>2 DEF Reaches
<1>4. /\ manifest.head \in Int /\ manifest.ck \in Int /\ manifest'.head \in Int /\ manifest'.ck \in Int
      /\ Head(manifest) = manifest.head /\ Head(manifest') = manifest'.head
  BY <1>1, <1>3, WalAssumption DEF Manifest, Slot, Head
<1> QED BY <1>1, <1>3, <1>4

\* A push publishes what it holds, and a fold nothing.
LEMMA WalPublishes ==
    ASSUME CompactionInv, TimelyInv, NEW c \in Client, BeginPush(c) \/ BeginFetch(c) \/ Progress(c)
    PROVE  CurrentState'.packs \subseteq CurrentState.packs \cup op[c].pend
<1>1. CASE Cas(c)
  <2>1. CASE UNCHANGED <<manifest, hist>>
    BY <2>1 DEF CurrentState, Head
  <2>2. CASE ~UNCHANGED <<manifest, hist>>
    <3>1. PushLands(c)
      BY <1>1, <2>2 DEF Cas, TagMatches, PushLands
    <3>2. CurrentState' = Extend(CurrentState, Entry(c))
      BY <3>1, CommitLands
    <3> QED BY <3>2 DEF Extend, Entry
  <2> QED BY <2>1, <2>2
<1>2. CASE FoldCas(c)
  <2>1. Head(manifest)' = Head(manifest) /\ hist' = hist
    BY <1>2, FoldKeepsHead
  <2>2. CurrentState' = CurrentState
    BY <2>1, SameCurrent
  <2> QED BY <2>2
<1>3. CASE ~Cas(c) /\ ~FoldCas(c)
  <2>1. manifest' = manifest /\ hist' = hist
    <3>1. hist' = hist
      BY <1>3, OtherMoves
    <3>2. BeginPush(c) \/ BeginFetch(c) => manifest' = manifest
      BY ZenonT(30) DEF BeginPush, BeginFetch, bucketVars
    <3>3. Progress(c) => manifest' = manifest
      BY <1>3, StillManifest
    <3> QED BY <3>1, <3>2, <3>3
  <2>2. CurrentState' = CurrentState
    BY <2>1 DEF CurrentState, Head
  <2> QED BY <2>2
<1> QED BY <1>1, <1>2, <1>3

\* A client at rest, or in a call of BucketWal, has merged nothing and deletes nothing.
LEMMA WalPacks ==
    ASSUME CompactionInv, CompactionInv', TimelyInv, PacksInv, TagsPass, NEW c \in Client,
           BeginPush(c) \/ BeginFetch(c) \/ Progress(c), KeepCompactVars, ~PutPack(c), ~PutIdx(c), ~UpdateRef(c)
    PROVE  PacksInv'
<1>1. /\ UNCHANGED <<bodies, idxs>> /\ pending'[c] \subseteq pending[c]
      /\ op'[c].pend = {} \/ (op'[c].pend = op[c].pend /\ op'[c].branch = op[c].branch)
      /\ pc'[c] = "idle" => op'[c].pend = {} \/ pc[c] = "idle"
      /\ pc[c] \in {"mergePut", "mergeIdx"} => pc'[c] = "idle"
      /\ pc'[c] \notin {"putIdx", "mergePut", "mergeIdx"} \cup SweepLabels \cup (SlotLabels \cap MergeLabels)
      /\ At(c)' = "fence" => At(c) = "fence"
  BY WalLocals
<1>2. Apart(c) /\ aged' = aged /\ cp'[c] = IF pc'[c] = "idle" THEN NoCompacting ELSE cp[c]
  BY WalFrame
<1>3. NoCompacting.parts = {} /\ NoCompacting.todo = {} /\ NoCompacting.packs = {}
  BY DEF NoCompacting
<1>4. cp'[c].packs \subseteq cp[c].packs
  BY <1>2, <1>3
<1>5. Ready(c)' \subseteq Ready(c)
  <2>1. CASE pc'[c] = "idle"
    BY <1>2, <1>3, <2>1 DEF Ready
  <2>2. CASE pc'[c] # "idle"
    <3>1. cp'[c] = cp[c] /\ pc[c] \notin {"mergePut", "mergeIdx"} /\ pc'[c] \notin {"mergePut", "mergeIdx"}
      BY <1>1, <1>2, <2>2
    <3>2. Ready(c) = {UNION g : g \in cp[c].parts \ cp[c].todo} /\ Ready(c)' = {UNION g : g \in cp[c].parts \ cp[c].todo}
      BY <3>1 DEF Ready
    <3> QED BY <3>2
  <2> QED BY <2>1, <2>2
<1>6. Held(c)' \subseteq Held(c)
  BY <1>1, <1>5 DEF Held
<1>7. CurrentState'.packs \subseteq CurrentState.packs \cup Held(c)
  BY WalPublishes DEF Held
<1>8. HoldInv(c) /\ (pc[c] = "idle" => cp[c] = NoCompacting)
  BY LocalFacts DEF PacksInv, ClientOK, StepInv
<1>9. op'[c].pend # {} => op'[c].branch # None \/ cp'[c].parts # {}
  <2> SUFFICES ASSUME op'[c].pend # {} PROVE op'[c].branch # None \/ cp'[c].parts # {}
    OBVIOUS
  <2>1. op'[c].pend = op[c].pend /\ op'[c].branch = op[c].branch
    BY <1>1
  <2>2. op[c].branch # None \/ cp[c].parts # {}
    BY <1>8, <2>1 DEF HoldInv
  <2>3. cp[c].parts # {} => cp'[c].parts # {}
    BY <1>1, <1>2, <1>3, <1>8
  <2> QED BY <2>1, <2>2, <2>3
<1>10. At(c)' = "fence" \/ pc'[c] \in SlotLabels \cap MergeLabels => cp'[c].todo = {}
  BY <1>1, <1>2, <1>3, <1>8 DEF HoldInv
<1>11. pc'[c] \notin {"putIdx", "mergeIdx"} \cup SweepLabels /\ aged' \subseteq aged
  BY <1>1, <1>2
<1> QED BY <1>1, <1>2, <1>4, <1>6, <1>7, <1>9, <1>10, <1>11, PacksQuiet

\* put_pack, flush_staged: the body.
LEMMA PutPackPacks ==
    ASSUME CompactionInv, CompactionInv', TimelyInv, PacksInv, TagsPass, "fresh" \in Environment,
           NEW c \in Client, PutPack(c), KeepCompactVars, Fresh(op[c].send)
    PROVE  PacksInv'
<1>1. /\ pc[c] = "putPack" /\ pc'[c] = "putIdx" /\ bodies' = bodies \cup {op[c].send}
      /\ UNCHANGED <<manifest, idxs, op, pending, hist>>
  BY LocalFacts DEF PutPack, Goto, sessionVars, historyVars
<1>2. Apart(c) /\ aged' = aged /\ cp'[c] = cp[c]
  BY <1>1, WalFrame DEF Progress, Step, PushStep
<1>3. Spares(c)
  BY <1>1, <1>2 DEF Spares
<1>4. CurrentState' = CurrentState
  BY <1>1 DEF CurrentState, Head
<1>5. Held(c)' = Held(c)
  BY <1>1, <1>2 DEF Held, Ready
<1>6. \A d \in Client : cp'[d].packs = cp[d].packs
  BY <1>2 DEF Apart
<1>7. Safe(op[c].send)'
  BY <1>1, <1>2, <1>6 DEF Fresh, Safe
<1>8. \A p \in Held(c) : p \in bodies' \cap idxs' /\ Safe(p)'
  <2> SUFFICES ASSUME NEW p \in Held(c) PROVE p \in bodies' \cap idxs' /\ Safe(p)'
    OBVIOUS
  <2>1. p \in bodies /\ p \in idxs /\ Safe(p)
    BY DEF PacksInv, HoldInv
  <2> QED BY <1>3, <2>1, StaySafe
<1>9. op[c].branch # None /\ At(c)' = "putIdx"
  BY <1>1, PushFacts, WalAssumption, NoneAssumption DEF CommitLabels, At, ReadLabels, WalkLabels
<1>10. HoldInv(c)'
  BY <1>1, <1>5, <1>7, <1>8, <1>9 DEF HoldInv, SlotLabels
<1>11. SweepInv(c)'
  BY <1>1 DEF SweepInv
<1>12. CurrentState.packs \subseteq bodies' \cap idxs'
  BY <1>1 DEF PacksInv
<1> QED BY <1>3, <1>4, <1>10, <1>11, <1>12, PacksStep

\* put_pack, flush_staged: the idx; from here on the pack is pending.
LEMMA PutIdxPacks ==
    ASSUME CompactionInv, CompactionInv', TimelyInv, PacksInv, TagsPass,
           NEW c \in Client, PutIdx(c), KeepCompactVars
    PROVE  PacksInv'
<1>1. /\ pc[c] = "putIdx" /\ pc'[c] = "updateRef" /\ idxs' = idxs \cup {op[c].send}
      /\ pending'[c] = pending[c] \cup {op[c].send} /\ op'[c].pend = op[c].pend /\ op'[c].branch = op[c].branch
      /\ UNCHANGED <<manifest, bodies, hist>>
  BY LocalFacts DEF PutIdx, Goto, historyVars, Op
<1>2. Apart(c) /\ aged' = aged /\ cp'[c] = cp[c]
  BY <1>1, WalFrame DEF Progress, Step, PushStep
<1>3. Spares(c)
  BY <1>1, <1>2 DEF Spares
<1>4. CurrentState' = CurrentState
  BY <1>1 DEF CurrentState, Head
<1>5. Held(c)' = Held(c) \cup {op[c].send}
  BY <1>1, <1>2 DEF Held, Ready
<1>6. \A p \in Held(c) : p \in bodies' \cap idxs' /\ Safe(p)'
  <2> SUFFICES ASSUME NEW p \in Held(c) PROVE p \in bodies' \cap idxs' /\ Safe(p)'
    OBVIOUS
  <2>1. p \in bodies /\ p \in idxs /\ Safe(p)
    BY DEF PacksInv, HoldInv
  <2> QED BY <1>3, <2>1, StaySafe
<1>7. \A p : p = op[c].send => p \in bodies' \cap idxs' /\ Safe(p)'
  <2> SUFFICES ASSUME NEW p, p = op[c].send PROVE p \in bodies' \cap idxs' /\ Safe(p)'
    OBVIOUS
  <2>1. p \in bodies /\ Safe(p)
    BY <1>1 DEF PacksInv, HoldInv
  <2>2. p \in bodies' /\ Safe(p)'
    BY <1>3, <2>1, StaySafe
  <2> QED BY <1>1, <2>2
<1>8. op[c].branch # None /\ At(c)' = "updateRef"
  BY <1>1, PushFacts, WalAssumption, NoneAssumption DEF CommitLabels, At, ReadLabels, WalkLabels
<1>9. \A p \in Held(c)' : p \in bodies' \cap idxs' /\ Safe(p)'
  BY <1>5, <1>6, <1>7
<1>10. HoldInv(c)'
  BY <1>1, <1>8, <1>9 DEF HoldInv, SlotLabels
<1>11. SweepInv(c)'
  BY <1>1 DEF SweepInv
<1>12. CurrentState.packs \subseteq bodies' \cap idxs'
  BY <1>1 DEF PacksInv
<1> QED BY <1>3, <1>4, <1>10, <1>11, <1>12, PacksStep

\* update_ref takes the pending packs into the call.
LEMMA UpdateRefPacks ==
    ASSUME CompactionInv, CompactionInv', TimelyInv, PacksInv, TagsPass,
           NEW c \in Client, UpdateRef(c), KeepCompactVars
    PROVE  PacksInv'
<1>0. /\ op[c] \in Op /\ op \in [Client -> Op] /\ pc \in [Client -> Label] /\ rd \in [Client -> Reading]
      /\ pending \in [Client -> SUBSET Pack] /\ pc[c] = "updateRef" /\ op[c].branch # None
  BY LocalFacts, PushFacts, WalAssumption, NoneAssumption DEF UpdateRef, CommitLabels, TypeOK
<1>1. UNCHANGED <<manifest, bodies, idxs, hist>>
  BY ZenonT(30) DEF UpdateRef, bucketVars, historyVars
<1>2. /\ pending'[c] \cup op'[c].pend \subseteq pending[c] \cup op[c].pend /\ op'[c].branch = op[c].branch
      /\ (pc'[c] = "putPack" \/ (pc'[c] = "getManifest" /\ rd'[c].ret = "attempt"))
  <2>1. CASE staged[c] # {}
    <3>1. op' = [op EXCEPT ![c].via = "put_object", ![c].send = staged[c]] /\ Goto(c, "putPack") /\ pending' = pending
      BY <2>1 DEF UpdateRef
    <3> QED BY <1>0, <3>1 DEF Goto, Op
  <2>2. CASE staged[c] = {}
    <3>1. /\ op' = [op EXCEPT ![c].pend = pending[c]] /\ pending' = [pending EXCEPT ![c] = {}]
          /\ CallRefresh(c, "attempt")
      BY <2>2 DEF UpdateRef
    <3>2. pc'[c] = "getManifest" /\ rd'[c].ret = "attempt"
      BY <1>0, <3>1 DEF CallRefresh, Goto, NoReading
    <3>3. op'[c].pend = pending[c] /\ op'[c].branch = op[c].branch /\ pending'[c] = {}
      BY <1>0, <3>1 DEF Op
    <3> QED BY <3>2, <3>3
  <2> QED BY <2>1, <2>2
<1>3. Apart(c) /\ aged' = aged /\ cp'[c] = cp[c]
  BY <1>2, WalFrame DEF Progress, Step, PushStep
<1>4. CurrentState' = CurrentState
  BY <1>1 DEF CurrentState, Head
<1>5. Held(c)' \subseteq Held(c)
  <2>1. Ready(c)' = Ready(c)
    BY <1>0, <1>2, <1>3 DEF Ready
  <2> QED BY <1>2, <2>1 DEF Held
<1>6. At(c)' # "fence" /\ pc'[c] \notin SlotLabels \cup SweepLabels \cup {"putIdx", "mergeIdx"}
  BY <1>2 DEF At, ReadLabels, WalkLabels, SlotLabels, SweepLabels
<1> QED BY <1>0, <1>1, <1>2, <1>3, <1>4, <1>5, <1>6, PacksQuiet

\* A step of a compaction that begins anew, in whatever way, holds nothing.
LEMMA AnewPacks ==
    ASSUME CompactionInv, CompactionInv', PacksInv, TagsPass, NEW c \in Client, NEW m, CallSweep(c) \/ Replan(c, m),
           Apart(c), aged' \subseteq aged, UNCHANGED <<bodies, idxs, pending>>,
           CurrentState'.packs \subseteq CurrentState.packs \cup Held(c)
    PROVE  PacksInv'
<1>0. op \in [Client -> Op] /\ cp \in [Client -> Compacting] /\ pc \in [Client -> Label]
  BY LocalFacts
<1>1. NoCompacting.parts = {} /\ NoCompacting.todo = {} /\ NoCompacting.packs = {}
  BY DEF NoCompacting
<1>2. pc'[c] = "getManifest"
  BY <1>0 DEF CallSweep, Replan, CallRefresh, Goto
<1>3. op'[c].pend = {}
  BY <1>0 DEF CallSweep, Replan, NoOp
<1>4. cp'[c].parts = {} /\ cp'[c].todo = {} /\ cp'[c].packs = {}
  BY <1>0 DEF CallSweep, Replan, NoCompacting
<1>5. Held(c)' \subseteq Held(c)
  BY <1>3, <1>4 DEF Held, Ready
<1>6. pc'[c] \notin {"putIdx", "mergeIdx"} \cup SweepLabels
  BY <1>2 DEF SweepLabels
<1> QED BY <1>3, <1>4, <1>5, <1>6, PacksQuiet

\* The call returns, having dropped what it held.
LEMMA DroppedPacks ==
    ASSUME CompactionInv, CompactionInv', PacksInv, TagsPass, NEW c \in Client, NEW res, Return(c, res),
           Apart(c), aged' \subseteq aged, UNCHANGED <<bodies, idxs, pending, manifest, hist>>, cp'[c] = NoCompacting
    PROVE  PacksInv'
<1>0. op \in [Client -> Op] /\ pc \in [Client -> Label]
  BY LocalFacts
<1>1. cp'[c].parts = {} /\ cp'[c].todo = {} /\ cp'[c].packs = {}
  BY DEF NoCompacting
<1>2. pc'[c] = "idle" /\ op'[c].pend = {}
  BY <1>0 DEF Return, Goto, NoOp
<1>3. Held(c)' \subseteq Held(c)
  BY <1>1, <1>2 DEF Held, Ready
<1>4. pc'[c] \notin {"putIdx", "mergeIdx"} \cup SweepLabels
  BY <1>2 DEF SweepLabels
<1>5. CurrentState' = CurrentState
  BY DEF CurrentState, Head
<1> QED BY <1>1, <1>2, <1>3, <1>4, <1>5, PacksQuiet

\* A compaction goes on with what it holds.
LEMMA GoesOnPacks ==
    ASSUME CompactionInv, CompactionInv', PacksInv, TagsPass, NEW c \in Client,
           pc[c] \notin {"mergePut", "mergeIdx"}, pc'[c] \notin {"putIdx", "mergePut", "mergeIdx"} \cup SweepLabels,
           Apart(c), aged' \subseteq aged, UNCHANGED <<bodies, idxs, pending>>,
           CurrentState'.packs \subseteq CurrentState.packs \cup Held(c), cp'[c].packs = cp[c].packs,
           cp'[c].parts = cp[c].parts, cp'[c].todo = cp[c].todo,
           op'[c].pend = op[c].pend \/ (op'[c].pend \subseteq Ready(c) /\ cp[c].parts # {}), op'[c].branch = op[c].branch,
           At(c)' = "fence" \/ pc'[c] \in SlotLabels \cap MergeLabels => cp[c].todo = {}
    PROVE  PacksInv'
<1>1. Ready(c)' = Ready(c)
  BY DEF Ready
<1>2. Held(c)' \subseteq Held(c)
  BY <1>1 DEF Held
<1>3. op'[c].pend # {} => op'[c].branch # None \/ cp'[c].parts # {}
  BY DEF PacksInv, HoldInv
<1> QED BY <1>2, <1>3, PacksQuiet

\* What begins a compaction, and what it reads before it merges.
LEMMA PlanPacks ==
    ASSUME CompactionInv, CompactionInv', TimelyInv, PacksInv, TagsPass,
           NEW c \in Client, BeginCompact(c) \/ Compact(c) \/ Plan(c) \/ MergeDone(c)
    PROVE  PacksInv'
<1>0. /\ Apart(c) /\ aged' \subseteq aged /\ pc \in [Client -> Label] /\ rd \in [Client -> Reading]
      /\ op \in [Client -> Op] /\ cp \in [Client -> Compacting]
  BY LocalFacts, CompactFrame DEF ConsolidateStep, TypeOK
<1>1. UNCHANGED <<bodies, idxs, pending, manifest, hist>>
  BY ZenonT(30) DEF BeginCompact, Compact, Plan, MergeDone, bucketVars, sessionVars, historyVars
<1>2. CurrentState' = CurrentState
  BY <1>1 DEF CurrentState, Head
<1>3. CASE CallSweep(c)
  BY <1>0, <1>1, <1>2, <1>3, AnewPacks
<1>4. CASE BeginCompact(c)
  <2>1. pc[c] = "idle" /\ op'[c].pend = {} /\ pc'[c] = "getManifest" /\ cp' = cp
    BY <1>0, <1>4 DEF BeginCompact, NoOp, CallRefresh, Goto, compactVars
  <2>2. cp[c] = NoCompacting
    BY <2>1, LocalFacts DEF ClientOK, StepInv
  <2>3. cp[c].todo = {} /\ cp[c].parts = {}
    BY <2>2 DEF NoCompacting
  <2>4. Held(c)' \subseteq Held(c)
    BY <1>1, <2>1, <2>3 DEF Held, Ready
  <2> QED BY <1>0, <1>1, <1>2, <2>1, <2>3, <2>4, PacksQuiet DEF SweepLabels
<1>5. CASE Compact(c) /\ ~CallSweep(c)
  <2>1. pc[c] = "compact" /\ CallRefresh(c, "plan") /\ UNCHANGED <<op, cp>>
    BY <1>5 DEF Compact
  <2>2. pc'[c] = "getManifest" /\ rd'[c].ret = "plan"
    BY <1>0, <2>1 DEF CallRefresh, Goto, NoReading
  <2>3. At(c)' = "plan"
    BY <2>2 DEF At, ReadLabels
  <2> QED BY <1>0, <1>1, <1>2, <2>1, <2>2, <2>3, GoesOnPacks DEF SweepLabels, SlotLabels
<1>6. CASE Plan(c) /\ ~CallSweep(c)
  <2>1. PICK gs : /\ gs # {} /\ cp' = [cp EXCEPT ![c].parts = gs, ![c].todo = gs]
                  /\ Goto(c, "readMembers") /\ UNCHANGED <<rd, op>>
    BY <1>6 DEF Plan
  <2>2. pc[c] = "plan"
    BY <1>6 DEF Plan
  <2>3. pc'[c] = "readMembers" /\ cp'[c].parts = gs /\ cp'[c].todo = gs /\ cp'[c].packs = cp[c].packs
    BY <1>0, <2>1 DEF Goto, Compacting
  <2>4. Held(c)' \subseteq Held(c)
    <3>1. Ready(c)' = {}
      BY <2>3 DEF Ready
    <3> QED BY <1>1, <2>1, <3>1 DEF Held
  <2>5. At(c)' = "readMembers"
    BY <2>3 DEF At, ReadLabels, WalkLabels
  <2> QED BY <1>0, <1>1, <1>2, <2>1, <2>3, <2>4, <2>5, PacksQuiet DEF SweepLabels, SlotLabels
<1>7. MergeDone(c) => CallSweep(c)
  BY DEF MergeDone
<1> QED BY <1>3, <1>4, <1>5, <1>6, <1>7

\* The members of a part are read, and it becomes the pack to upload; what is uploaded
\* stays as it is.
LEMMA ReadMembersPacks ==
    ASSUME CompactionInv, CompactionInv', TimelyInv, PacksInv, TagsPass, NEW c \in Client, ReadMembers(c)
    PROVE  PacksInv'
<1>0. /\ Apart(c) /\ aged' \subseteq aged /\ pc \in [Client -> Label] /\ rd \in [Client -> Reading]
      /\ op \in [Client -> Op] /\ cp \in [Client -> Compacting] /\ pc[c] = "readMembers" /\ cp[c].parts # {}
  <2>1. pc[c] = "readMembers"
    BY DEF ReadMembers
  <2>2. cp[c].parts # {}
    BY <2>1, CompactFacts DEF CompactLabels
  <2> QED BY <2>1, <2>2, LocalFacts, CompactFrame DEF ConsolidateStep, TypeOK
<1>1. UNCHANGED <<bodies, idxs, pending, manifest, hist>>
  BY ZenonT(30) DEF ReadMembers, bucketVars, sessionVars
<1>2. CurrentState' = CurrentState
  BY <1>1 DEF CurrentState, Head
<1>3. CASE cp[c].todo = {} /\ CallRefresh(c, "fence") /\ UNCHANGED <<op, cp>>
  <2>1. pc'[c] = "getManifest"
    BY <1>0, <1>3 DEF CallRefresh, Goto
  <2> QED BY <1>0, <1>1, <1>2, <1>3, <2>1, GoesOnPacks DEF SweepLabels
<1>4. ASSUME NEW g \in cp[c].todo, op' = [op EXCEPT ![c].send = UNION g], cp' = [cp EXCEPT ![c].todo = @ \ {g}],
             Goto(c, "mergePut")
      PROVE  PacksInv'
  <2>1. pc'[c] = "mergePut" /\ op'[c].send = UNION g /\ op'[c].pend = op[c].pend /\ op'[c].branch = op[c].branch
    BY <1>0, <1>4 DEF Goto, Op
  <2>2. cp'[c].parts = cp[c].parts /\ cp'[c].todo = cp[c].todo \ {g} /\ cp'[c].packs = cp[c].packs
    BY <1>0, <1>4 DEF Compacting
  <2>3. Ready(c) = {UNION h : h \in cp[c].parts \ cp[c].todo}
    BY <1>0 DEF Ready
  <2>4. Ready(c)' = {UNION h : h \in cp[c].parts \ (cp[c].todo \ {g})} \ {UNION g}
    BY <2>1, <2>2 DEF Ready
  <2>5. Ready(c)' \subseteq Ready(c)
    BY <2>3, <2>4
  <2>6. Held(c)' \subseteq Held(c)
    BY <1>1, <2>1, <2>5 DEF Held
  <2>7. At(c)' = "mergePut"
    BY <2>1 DEF At, ReadLabels, WalkLabels
  <2> QED BY <1>0, <1>1, <1>2, <2>1, <2>2, <2>6, <2>7, PacksQuiet DEF SweepLabels, SlotLabels
<1>5. CASE Return(c, "corrupt") /\ cp' = [cp EXCEPT ![c] = NoCompacting]
  <2>1. cp'[c] = NoCompacting
    BY <1>0, <1>5
  <2> QED BY <1>0, <1>1, <1>5, <2>1, DroppedPacks
<1>6. CASE Replan(c, view[c].m)
  BY <1>0, <1>1, <1>2, <1>6, AnewPacks
<1> QED BY <1>3, <1>4, <1>5, <1>6 DEF ReadMembers

\* upload_pack of a merged pack: its body.
LEMMA MergePutPacks ==
    ASSUME CompactionInv, CompactionInv', TimelyInv, PacksInv, TagsPass, "fresh" \in Environment,
           NEW c \in Client, MergePut(c)
    PROVE  PacksInv'
<1>1. /\ pc[c] = "mergePut" /\ pc'[c] = "mergeIdx" /\ bodies' = bodies \cup {op[c].send} /\ Fresh(op[c].send)
      /\ UNCHANGED <<manifest, idxs, op, pending, hist, cp, aged>>
  BY LocalFacts DEF MergePut, Goto, sessionVars, historyVars, compactVars
<1>2. Apart(c) /\ aged' \subseteq aged
  BY CompactFrame DEF ConsolidateStep
<1>3. Spares(c)
  BY <1>1, <1>2 DEF Spares
<1>4. CurrentState' = CurrentState
  BY <1>1 DEF CurrentState, Head
<1>5. Held(c)' = Held(c)
  BY <1>1 DEF Held, Ready
<1>6. Safe(op[c].send)'
  BY <1>1 DEF Fresh, Safe
<1>7. \A p \in Held(c) : p \in bodies' \cap idxs' /\ Safe(p)'
  <2> SUFFICES ASSUME NEW p \in Held(c) PROVE p \in bodies' \cap idxs' /\ Safe(p)'
    OBVIOUS
  <2>1. p \in bodies /\ p \in idxs /\ Safe(p)
    BY DEF PacksInv, HoldInv
  <2> QED BY <1>3, <2>1, StaySafe
<1>8. op[c].pend # {} => op[c].branch # None \/ cp[c].parts # {}
  BY DEF PacksInv, HoldInv
<1>9. At(c)' = "mergeIdx"
  BY <1>1 DEF At, ReadLabels, WalkLabels
<1>10. HoldInv(c)'
  BY <1>1, <1>5, <1>6, <1>7, <1>8, <1>9 DEF HoldInv, SlotLabels
<1>11. SweepInv(c)'
  BY <1>1 DEF SweepInv
<1>12. CurrentState.packs \subseteq bodies' \cap idxs'
  BY <1>1 DEF PacksInv
<1> QED BY <1>3, <1>4, <1>10, <1>11, <1>12, PacksStep

\* Its idx: it is ready to be published.
LEMMA MergeIdxPacks ==
    ASSUME CompactionInv, CompactionInv', TimelyInv, PacksInv, TagsPass, NEW c \in Client, MergeIdx(c)
    PROVE  PacksInv'
<1>1. /\ pc[c] = "mergeIdx" /\ pc'[c] = "readMembers" /\ idxs' = idxs \cup {op[c].send}
      /\ op'[c].pend = op[c].pend /\ op'[c].branch = op[c].branch
      /\ UNCHANGED <<manifest, bodies, pending, hist, cp, aged>>
  BY LocalFacts DEF MergeIdx, Goto, sessionVars, historyVars, compactVars, Op
<1>2. Apart(c) /\ aged' \subseteq aged
  BY CompactFrame DEF ConsolidateStep
<1>3. Spares(c)
  BY <1>1, <1>2 DEF Spares
<1>4. CurrentState' = CurrentState
  BY <1>1 DEF CurrentState, Head
<1>5. Held(c)' \subseteq Held(c) \cup {op[c].send}
  BY <1>1 DEF Held, Ready
<1>6. \A p \in Held(c) : p \in bodies' \cap idxs' /\ Safe(p)'
  <2> SUFFICES ASSUME NEW p \in Held(c) PROVE p \in bodies' \cap idxs' /\ Safe(p)'
    OBVIOUS
  <2>1. p \in bodies /\ p \in idxs /\ Safe(p)
    BY DEF PacksInv, HoldInv
  <2> QED BY <1>3, <2>1, StaySafe
<1>7. \A p : p = op[c].send => p \in bodies' \cap idxs' /\ Safe(p)'
  <2> SUFFICES ASSUME NEW p, p = op[c].send PROVE p \in bodies' \cap idxs' /\ Safe(p)'
    OBVIOUS
  <2>1. p \in bodies /\ Safe(p)
    BY <1>1 DEF PacksInv, HoldInv
  <2>2. p \in bodies' /\ Safe(p)'
    BY <1>3, <2>1, StaySafe
  <2> QED BY <1>1, <2>2
<1>8. op'[c].pend # {} => op'[c].branch # None \/ cp'[c].parts # {}
  BY <1>1 DEF PacksInv, HoldInv
<1>9. At(c)' = "readMembers"
  BY <1>1 DEF At, ReadLabels, WalkLabels
<1>10. \A p \in Held(c)' : p \in bodies' \cap idxs' /\ Safe(p)'
  BY <1>5, <1>6, <1>7
<1>11. HoldInv(c)'
  BY <1>1, <1>8, <1>9, <1>10 DEF HoldInv, SlotLabels
<1>12. SweepInv(c)'
  BY <1>1 DEF SweepInv
<1>13. CurrentState.packs \subseteq bodies' \cap idxs'
  BY <1>1 DEF PacksInv
<1> QED BY <1>3, <1>4, <1>11, <1>12, <1>13, PacksStep

\* With every part uploaded, the packs to publish are those that are ready.
LEMMA FencePacks ==
    ASSUME CompactionInv, CompactionInv', TimelyInv, PacksInv, TagsPass, NEW c \in Client, Fence(c)
    PROVE  PacksInv'
<1>0. /\ Apart(c) /\ aged' \subseteq aged /\ pc \in [Client -> Label]
      /\ op \in [Client -> Op] /\ cp \in [Client -> Compacting] /\ pc[c] = "fence" /\ cp[c].parts # {} /\ At(c) = "fence"
  <2>1. pc[c] = "fence"
    BY DEF Fence
  <2>2. cp[c].parts # {} /\ At(c) = "fence"
    BY <2>1, CompactFacts DEF CompactLabels
  <2> QED BY <2>1, <2>2, LocalFacts, CompactFrame DEF ConsolidateStep, TypeOK
<1>1. UNCHANGED <<bodies, idxs, pending, manifest, hist>>
  BY ZenonT(30) DEF Fence, bucketVars, sessionVars, historyVars
<1>2. CurrentState' = CurrentState
  BY <1>1 DEF CurrentState, Head
<1>3. CASE CallSweep(c) \/ Replan(c, cp[c].missingOn)
  BY <1>0, <1>1, <1>2, <1>3, AnewPacks
<1>4. CASE ~(CallSweep(c) \/ Replan(c, cp[c].missingOn))
  <2>1. PICK kept, base, seq : /\ cp' = [cp EXCEPT ![c].kept = kept]
                               /\ op' = [op EXCEPT ![c].base = base, ![c].seq = seq, ![c].pend = Created(c)]
                               /\ Goto(c, "mergeClaim")
    BY <1>4 DEF Fence
  <2>2. cp'[c].parts = cp[c].parts /\ cp'[c].todo = cp[c].todo /\ cp'[c].packs = cp[c].packs
    BY <1>0, <2>1 DEF Compacting
  <2>3. op'[c].pend = Created(c) /\ op'[c].branch = op[c].branch /\ pc'[c] = "mergeClaim"
    BY <1>0, <2>1 DEF Op, Goto
  <2>4. cp[c].todo = {}
    BY <1>0 DEF PacksInv, HoldInv
  <2>5. Created(c) = Ready(c)
    BY <1>0, <2>4 DEF Created, Ready
  <2> QED BY <1>0, <1>1, <1>2, <2>2, <2>3, <2>4, <2>5, GoesOnPacks DEF SweepLabels
<1> QED BY <1>3, <1>4

\* The slot, the checkpoint and the last look at the packs.
LEMMA MergeSlotPacks ==
    ASSUME CompactionInv, CompactionInv', TimelyInv, PacksInv, TagsPass, NEW c \in Client,
           MergeClaim(c) \/ PutCheckpoint(c) \/ MergeEnsure(c)
    PROVE  PacksInv'
<1>0. /\ Apart(c) /\ aged' \subseteq aged /\ pc \in [Client -> Label]
      /\ op \in [Client -> Op] /\ cp \in [Client -> Compacting]
      /\ pc[c] \in {"mergeClaim", "putCheckpoint", "mergeEnsure"}
  <2>1. pc[c] \in {"mergeClaim", "putCheckpoint", "mergeEnsure"}
    BY DEF MergeClaim, PutCheckpoint, MergeEnsure
  <2> QED BY <2>1, LocalFacts, CompactFrame DEF ConsolidateStep, TypeOK
<1>1. UNCHANGED <<bodies, idxs, pending, manifest, hist>>
  <2>1. MergeClaim(c) => UNCHANGED <<bodies, idxs, pending, manifest, hist>>
    BY ZenonT(30) DEF MergeClaim, ClaimSlot, sessionVars
  <2>2. PutCheckpoint(c) => UNCHANGED <<bodies, idxs, pending, manifest, hist>>
    BY ZenonT(30) DEF PutCheckpoint, sessionVars
  <2>3. MergeEnsure(c) => UNCHANGED <<bodies, idxs, pending, manifest, hist>>
    BY ZenonT(30) DEF MergeEnsure, EnsurePacksPresent, bucketVars, sessionVars
  <2> QED BY <2>1, <2>2, <2>3
<1>2. CurrentState' = CurrentState
  BY <1>1 DEF CurrentState, Head
<1>3. cp[c].todo = {}
  BY <1>0 DEF PacksInv, HoldInv, SlotLabels, MergeLabels
<1>4. ASSUME pc'[c] \in {"mergeClaim", "putCheckpoint", "mergeEnsure", "mergeCas"}, cp'[c] = cp[c],
             op'[c].pend = op[c].pend, op'[c].branch = op[c].branch
      PROVE  PacksInv'
  BY <1>0, <1>1, <1>2, <1>3, <1>4, GoesOnPacks DEF SweepLabels
<1>5. CASE MergeClaim(c) \/ MergeEnsure(c)
  <2>1. KeepCompactVars /\ (\/ pc[c] = "mergeClaim" /\ ClaimSlot(c, "putCheckpoint")
                            \/ pc[c] = "mergeEnsure" /\ EnsurePacksPresent(c, "mergeCas"))
    BY <1>5 DEF MergeClaim, MergeEnsure
  <2>2. cp'[c] = IF pc'[c] = "idle" THEN NoCompacting ELSE cp[c]
    BY <2>1 DEF KeepCompactVars
  <2>3. CASE Return(c, "err")
    <3>1. pc'[c] = "idle"
      BY <1>0, <2>3 DEF Return, Goto
    <3> QED BY <1>0, <1>1, <2>2, <2>3, <3>1, DroppedPacks
  <2>4. CASE ~Return(c, "err")
    <3>1. \/ Goto(c, "putCheckpoint") \/ Goto(c, "mergeCas") \/ pc' = pc
      BY <2>1, <2>4 DEF ClaimSlot, EnsurePacksPresent
    <3>2. op' = op \/ \E q : op' = [op EXCEPT ![c].seq = q]
      BY <2>1, <2>4 DEF ClaimSlot, EnsurePacksPresent
    <3>3. op'[c].pend = op[c].pend /\ op'[c].branch = op[c].branch
      <4>1. CASE op' = op
        BY <4>1
      <4>2. CASE \E q : op' = [op EXCEPT ![c].seq = q]
        <5>1. PICK q : op' = [op EXCEPT ![c].seq = q]
          BY <4>2
        <5> QED BY <1>0, <5>1 DEF Op
      <4> QED BY <3>2, <4>1, <4>2
    <3>4. pc'[c] \in {"mergeClaim", "putCheckpoint", "mergeEnsure", "mergeCas"}
      BY <1>0, <3>1 DEF Goto
    <3>5. cp'[c] = cp[c]
      BY <2>2, <3>4
    <3> QED BY <1>4, <3>3, <3>4, <3>5
  <2> QED BY <2>3, <2>4
<1>6. CASE PutCheckpoint(c)
  <2>1. CASE Replan(c, cp[c].missingOn)
    BY <1>0, <1>1, <1>2, <2>1, AnewPacks
  <2>2. CASE ~Replan(c, cp[c].missingOn)
    <3>1. Goto(c, "mergeEnsure") /\ UNCHANGED <<op, cp>>
      BY <1>6, <2>2 DEF PutCheckpoint
    <3>2. pc'[c] = "mergeEnsure"
      BY <1>0, <3>1 DEF Goto
    <3> QED BY <1>4, <3>1, <3>2
  <2> QED BY <2>1, <2>2
<1> QED BY <1>5, <1>6

\* The manifest moves to the kept packs and the merged ones.
LEMMA MergeCasPacks ==
    ASSUME CompactionInv, CompactionInv', TimelyInv, PacksInv, TagsPass, NEW c \in Client, MergeCas(c)
    PROVE  PacksInv'
<1>0. /\ Apart(c) /\ aged' \subseteq aged /\ pc \in [Client -> Label] /\ rd \in [Client -> Reading] /\ pc[c] = "mergeCas"
  <2>1. pc[c] = "mergeCas"
    BY DEF MergeCas
  <2> QED BY <2>1, LocalFacts, CompactFrame DEF ConsolidateStep, TypeOK
<1>1. UNCHANGED <<bodies, idxs, pending>>
  BY DEF MergeCas, sessionVars
<1>2. CurrentState'.packs \subseteq CurrentState.packs \cup Held(c)
  <2>1. CASE UNCHANGED <<manifest, hist>>
    BY <2>1 DEF CurrentState, Head
  <2>2. CASE ~UNCHANGED <<manifest, hist>>
    <3>1. MergeIsIn(c)
      BY <1>0, <2>2 DEF MergeCas, TagMatches, MergeIsIn
    <3>2. PICK q : q = op[c].seq
      OBVIOUS
    <3>3. q \in Slot /\ Head(manifest') = q
      BY <1>0, <3>1, <3>2, MergeLands
    <3>4. hist'[q].packs = cp[c].kept
      <4>1. hist \in [0..MaxSeq -> Checkpoint \cup {None}] /\ q \in 0..MaxSeq
        BY <3>3, WalAssumption DEF CompactionInv, CompactionTypeOK, TypeOK, Slot
      <4> QED BY <3>1, <3>2, <4>1 DEF MergeIsIn
    <3>5. CurrentState'.packs = cp[c].kept
      <4>1. CurrentState' = hist'[Head(manifest')]
        BY DEF CurrentState, Head
      <4> QED BY <3>3, <3>4, <4>1
    <3>6. cp[c].kept = (view[c].packs \ Merged(c)) \cup Created(c)
      BY <1>0, CompactFacts DEF CompactLabels, TimelyClient, MergeTruth, SlotLabels, MergeLabels, KeptPacks
    <3>7. Created(c) = Ready(c)
      <4>1. cp[c].todo = {}
        BY <1>0 DEF PacksInv, HoldInv, SlotLabels, MergeLabels
      <4> QED BY <1>0, <4>1 DEF Created, Ready
    <3>8. view[c].packs = CurrentState.packs
      <4>1. view[c] # None /\ op[c].base = view[c].m
        BY <1>0, LocalFacts DEF ClientOK, StepInv, SlotInv, MergeLabels, SlotLabels
      <4>2. manifest # None /\ Head(manifest) = view[c].m.head
        BY <3>1, <4>1, Numbers, NoneAssumption DEF Head, MergeIsIn
      <4>3. view[c].packs = hist[view[c].m.head].packs
        BY <4>1, CompactFacts, <1>0 DEF CompactLabels, TimelyClient, ViewInv
      <4> QED BY <4>2, <4>3 DEF CurrentState
    <3> QED BY <3>5, <3>6, <3>7, <3>8 DEF Held
  <2> QED BY <2>1, <2>2
<1>3. CASE Replan(c, cp[c].missingOn)
  BY <1>0, <1>1, <1>2, <1>3, AnewPacks
<1>4. CASE ~Replan(c, cp[c].missingOn)
  <2>1. CallRefresh(c, "merged") /\ UNCHANGED <<op, cp>>
    BY <1>4 DEF MergeCas
  <2>2. pc'[c] = "getManifest" /\ rd'[c].ret = "merged"
    BY <1>0, <2>1 DEF CallRefresh, Goto, NoReading
  <2>3. At(c)' = "merged"
    BY <2>2 DEF At, ReadLabels
  <2> QED BY <1>0, <1>1, <1>2, <2>1, <2>2, <2>3, GoesOnPacks DEF SweepLabels, SlotLabels
<1> QED BY <1>3, <1>4

\* A step of c that comes to hold nothing more, deletions included.
LEMMA PacksSweep ==
    ASSUME CompactionInv, CompactionInv', PacksInv, TagsPass, NEW c \in Client, Spares(c), CurrentState' = CurrentState,
           CurrentState.packs \subseteq bodies' \cap idxs', Held(c)' \subseteq Held(c),
           pc'[c] \in SweepLabels, op'[c].pend = op[c].pend, op'[c].branch = op[c].branch, cp'[c].parts = cp[c].parts,
           SweepInv(c)'
    PROVE  PacksInv'
<1>1. \A p \in Held(c)' : p \in bodies' \cap idxs' /\ Safe(p)'
  <2> SUFFICES ASSUME NEW p \in Held(c) PROVE p \in bodies' \cap idxs' /\ Safe(p)'
    OBVIOUS
  <2>1. p \in bodies /\ p \in idxs /\ Safe(p)
    BY DEF PacksInv, HoldInv
  <2> QED BY <2>1, StaySafe
<1>2. op'[c].pend # {} => op'[c].branch # None \/ cp'[c].parts # {}
  BY DEF PacksInv, HoldInv
<1>3. At(c)' # "fence" /\ pc'[c] \notin SlotLabels \cup {"putIdx", "mergeIdx"}
  BY DEF At, ReadLabels, WalkLabels, SweepLabels, SlotLabels
<1>4. HoldInv(c)'
  BY <1>1, <1>2, <1>3 DEF HoldInv
<1> QED BY <1>4, PacksStep

\* What a view holds that is of the current manifest.
LEMMA ViewIsCurrent ==
    ASSUME CompactionInv, TimelyInv, NEW c \in Client, manifest = ViewTag(c)
    PROVE  CurrentState.packs = IF view[c] = None THEN {} ELSE view[c].packs
<1>1. CASE view[c] = None
  <2>1. manifest = None
    BY <1>1 DEF ViewTag
  <2>2. CurrentState = hist[0]
    BY <2>1 DEF CurrentState, Head
  <2>3. hist[0].packs = {}
    BY DEF CompactionInv, BucketOK, StatesInv
  <2> QED BY <1>1, <2>2, <2>3
<1>2. CASE view[c] # None
  <2>1. Head(manifest) = view[c].m.head
    BY <1>2, Numbers
  <2>2. hist[view[c].m.head].packs = view[c].packs
    BY <1>2 DEF TimelyInv, TimelyClient, ViewInv
  <2> QED BY <1>2, <2>1, <2>2 DEF CurrentState
<1> QED BY <1>1, <1>2

\* The listing: no young pack, and none of the view's.
LEMMA SweepListPacks ==
    ASSUME CompactionInv, CompactionInv', TimelyInv, PacksInv, TagsPass, NEW c \in Client, SweepList(c)
    PROVE  PacksInv'
<1>0. /\ Apart(c) /\ aged' = aged /\ pc \in [Client -> Label] /\ cp \in [Client -> Compacting] /\ pc[c] = "sweepList"
      /\ UNCHANGED <<bodies, idxs, pending, manifest, hist, op, view>>
  <2>1. pc[c] = "sweepList" /\ aged' = aged /\ UNCHANGED <<bodies, idxs, pending, manifest, hist, op, view>>
    BY ZenonT(30) DEF SweepList, bucketVars, sessionVars, historyVars
  <2> QED BY <2>1, LocalFacts, CompactFrame DEF SweepStep
<1> DEFINE L == {s \in Slot : log[s] # None /\ s <= Cutoff(c)}
           K == {s \in Slot : ckpt[s] # None /\ s < Cutoff(c)}
           P == (AgedPacks(c) \ (IF view[c] = None THEN {} ELSE view[c].packs)) \ RetainedPacks(Cutoff(c))
<1>1. /\ cp' = [cp EXCEPT ![c].logs = L, ![c].ckpts = K, ![c].packs = P]
      /\ P \subseteq AgedPacks(c) \ (IF view[c] = None THEN {} ELSE view[c].packs)
  BY DEF SweepList
<1> HIDE DEF L, K, P
<1>2. cp'[c].packs = P /\ cp'[c].parts = cp[c].parts /\ cp'[c].todo = cp[c].todo
  BY <1>0, <1>1 DEF Compacting
<1>3. pc'[c] = "sweepDelete"
  BY <1>0 DEF SweepList, Goto
<1>4. \A p \in P : p \in bodies => <<"body", p>> \in aged
  BY <1>1 DEF AgedPacks, IsOld
<1>5. Spares(c)
  BY <1>0, <1>2, <1>4 DEF Spares
<1>6. CurrentState' = CurrentState /\ ViewTag(c)' = ViewTag(c)
  BY <1>0 DEF CurrentState, Head, ViewTag
<1>7. Held(c)' \subseteq Held(c)
  BY <1>0, <1>2, <1>3 DEF Held, Ready
<1>8. SweepInv(c)'
  <2>1. ASSUME manifest = ViewTag(c) PROVE P \cap CurrentState.packs = {}
    BY <1>1, <2>1, ViewIsCurrent
  <2> QED BY <1>0, <1>2, <1>3, <1>6, <2>1 DEF SweepInv
<1>9. CurrentState.packs \subseteq bodies' \cap idxs'
  BY <1>0 DEF PacksInv
<1> QED BY <1>0, <1>2, <1>3, <1>5, <1>6, <1>7, <1>8, <1>9, PacksSweep DEF SweepLabels

\* The records go; then, if the manifest is still the view's, the packs may.
LEMMA SweepDeletePacks ==
    ASSUME CompactionInv, CompactionInv', TimelyInv, PacksInv, TagsPass, NEW c \in Client, SweepDelete(c)
    PROVE  PacksInv'
<1>0. /\ Apart(c) /\ aged' \subseteq aged /\ pc \in [Client -> Label] /\ cp \in [Client -> Compacting]
      /\ op \in [Client -> Op] /\ rd \in [Client -> Reading] /\ pc[c] = "sweepDelete" /\ SweepInv(c)
      /\ UNCHANGED <<bodies, idxs, pending, manifest, hist, view>>
  BY LocalFacts, CompactFrame DEF SweepStep, SweepDelete, sessionVars, PacksInv, TypeOK
<1>1. CurrentState' = CurrentState /\ ViewTag(c)' = ViewTag(c)
  BY <1>0 DEF CurrentState, Head, ViewTag
<1>2. CurrentState.packs \subseteq bodies' \cap idxs'
  BY <1>0 DEF PacksInv
<1>3. ASSUME op'[c].pend = op[c].pend, op'[c].branch = op[c].branch, cp'[c].packs = cp[c].packs,
             cp'[c].parts = cp[c].parts, cp'[c].todo = cp[c].todo,
             pc'[c] = "sweepDelete" \/ (pc'[c] = "sweepIdx" /\ manifest = ViewTag(c))
      PROVE  PacksInv'
  <2>1. Spares(c)
    BY <1>0, <1>3 DEF Spares
  <2>2. Held(c)' \subseteq Held(c)
    BY <1>0, <1>3 DEF Held, Ready
  <2>3. SweepInv(c)'
    BY <1>0, <1>1, <1>3 DEF SweepInv
  <2> QED BY <1>1, <1>2, <1>3, <2>1, <2>2, <2>3, PacksSweep DEF SweepLabels
<1>4. CASE UNCHANGED <<pc, op>> /\ \E T : cp' = [cp EXCEPT ![c].logs = T] \/ cp' = [cp EXCEPT ![c].ckpts = T]
  <2>1. PICK T : cp' = [cp EXCEPT ![c].logs = T] \/ cp' = [cp EXCEPT ![c].ckpts = T]
    BY <1>4
  <2>2. cp'[c].packs = cp[c].packs /\ cp'[c].parts = cp[c].parts /\ cp'[c].todo = cp[c].todo
    BY <1>0, <2>1 DEF Compacting
  <2> QED BY <1>0, <1>3, <1>4, <2>2
<1>5. CASE /\ manifest = ViewTag(c) /\ cp' = [cp EXCEPT ![c].left = PackDeleteBatch]
           /\ Goto(c, "sweepIdx") /\ op' = op
  <2>1. cp'[c].packs = cp[c].packs /\ cp'[c].parts = cp[c].parts /\ cp'[c].todo = cp[c].todo
    BY <1>0, <1>5 DEF Compacting
  <2>2. pc'[c] = "sweepIdx"
    BY <1>0, <1>5 DEF Goto
  <2> QED BY <1>3, <1>5, <2>1, <2>2
<1>6. CASE \E n : op' = [op EXCEPT ![c].n = n] /\ cp' = [cp EXCEPT ![c].packs = {}] /\ CallRefresh(c, "sweepList")
  <2>1. PICK n : op' = [op EXCEPT ![c].n = n] /\ cp' = [cp EXCEPT ![c].packs = {}] /\ CallRefresh(c, "sweepList")
    BY <1>6
  <2>2. pc'[c] = "getManifest" /\ rd'[c].ret = "sweepList"
    BY <1>0, <2>1 DEF CallRefresh, Goto, NoReading
  <2>3. op'[c].pend = op[c].pend /\ op'[c].branch = op[c].branch
    BY <1>0, <2>1 DEF Op
  <2>4. cp'[c].packs = {} /\ cp'[c].parts = cp[c].parts /\ cp'[c].todo = cp[c].todo
    BY <1>0, <2>1 DEF Compacting
  <2>5. Held(c)' \subseteq Held(c)
    BY <1>0, <2>2, <2>3, <2>4 DEF Held, Ready
  <2>6. op'[c].pend # {} => op'[c].branch # None \/ cp'[c].parts # {}
    BY <2>3, <2>4 DEF PacksInv, HoldInv
  <2>7. At(c)' = "sweepList"
    BY <2>2 DEF At, ReadLabels
  <2> QED BY <1>0, <1>1, <2>2, <2>4, <2>5, <2>6, <2>7, PacksQuiet DEF SweepLabels, SlotLabels
<1>7. CASE cp' = [cp EXCEPT ![c] = NoCompacting] /\ Return(c, "ok")
  <2>1. cp'[c] = NoCompacting
    BY <1>0, <1>7
  <2> QED BY <1>0, <1>7, <2>1, DroppedPacks
<1>8. \/ UNCHANGED <<pc, op>> /\ \E T : cp' = [cp EXCEPT ![c].logs = T] \/ cp' = [cp EXCEPT ![c].ckpts = T]
      \/ /\ manifest = ViewTag(c) /\ cp' = [cp EXCEPT ![c].left = PackDeleteBatch]
         /\ Goto(c, "sweepIdx") /\ op' = op
      \/ \E n : op' = [op EXCEPT ![c].n = n] /\ cp' = [cp EXCEPT ![c].packs = {}] /\ CallRefresh(c, "sweepList")
      \/ cp' = [cp EXCEPT ![c] = NoCompacting] /\ Return(c, "ok")
  <2>1. PICK s, t : s = Smallest(cp[c].logs) /\ t = Smallest(cp[c].ckpts)
    OBVIOUS
  <2>2. \/ UNCHANGED <<pc, op>> /\ cp' = [cp EXCEPT ![c].logs = @ \ {s}]
        \/ UNCHANGED <<pc, op>> /\ cp' = [cp EXCEPT ![c].ckpts = @ \ {t}]
        \/ /\ manifest = ViewTag(c) /\ cp' = [cp EXCEPT ![c].left = PackDeleteBatch]
           /\ Goto(c, "sweepIdx") /\ op' = op
        \/ op' = [op EXCEPT ![c].n = @ + 1] /\ cp' = [cp EXCEPT ![c].packs = {}] /\ CallRefresh(c, "sweepList")
        \/ cp' = [cp EXCEPT ![c] = NoCompacting] /\ Return(c, "ok")
    BY <2>1, ZenonT(30) DEF SweepDelete
  <2>3. CASE UNCHANGED <<pc, op>> /\ cp' = [cp EXCEPT ![c].logs = @ \ {s}]
    <3>1. PICK T : T = cp[c].logs \ {s}
      OBVIOUS
    <3> QED BY <2>3, <3>1
  <2>4. CASE UNCHANGED <<pc, op>> /\ cp' = [cp EXCEPT ![c].ckpts = @ \ {t}]
    <3>1. PICK T : T = cp[c].ckpts \ {t}
      OBVIOUS
    <3> QED BY <2>4, <3>1
  <2>5. CASE op' = [op EXCEPT ![c].n = @ + 1] /\ cp' = [cp EXCEPT ![c].packs = {}] /\ CallRefresh(c, "sweepList")
    <3>1. PICK n : n = op[c].n + 1
      OBVIOUS
    <3> QED BY <2>5, <3>1
  <2> QED BY <2>2, <2>3, <2>4, <2>5
<1> QED BY <1>4, <1>5, <1>6, <1>7, <1>8

\* An idx goes, that of no live pack; or the batch is over.
LEMMA SweepIdxPacks ==
    ASSUME CompactionInv, CompactionInv', TimelyInv, PacksInv, TagsPass, NEW c \in Client, SweepIdx(c)
    PROVE  PacksInv'
<1>0. /\ Apart(c) /\ aged' \subseteq aged /\ pc \in [Client -> Label] /\ cp \in [Client -> Compacting]
      /\ op \in [Client -> Op] /\ pc[c] = "sweepIdx" /\ cp[c].packs \cap CurrentState.packs = {}
      /\ UNCHANGED <<bodies, pending, manifest, hist, view>>
  <2>1. pc[c] = "sweepIdx" /\ UNCHANGED <<bodies, pending, manifest, hist, view>>
    BY ZenonT(30) DEF SweepIdx, sessionVars
  <2>2. cp[c].packs \cap CurrentState.packs = {}
    BY <2>1 DEF PacksInv, SweepInv
  <2> QED BY <2>1, <2>2, LocalFacts, CompactFrame DEF SweepStep
<1>1. CurrentState' = CurrentState /\ CurrentState.packs \subseteq bodies' \cap idxs
  BY <1>0 DEF CurrentState, Head, PacksInv
<1>2. ASSUME NEW p \in cp[c].packs, idxs' = idxs \ {p}, op' = [op EXCEPT ![c].send = p],
             Goto(c, "sweepBody"), cp' = cp
      PROVE  PacksInv'
  <2>1. pc'[c] = "sweepBody" /\ cp'[c] = cp[c] /\ op'[c].send = p
        /\ op'[c].pend = op[c].pend /\ op'[c].branch = op[c].branch
    BY <1>0, <1>2 DEF Goto, Op
  <2>2. Spares(c)
    BY <1>0, <1>2, <2>1 DEF Spares
  <2>3. CurrentState.packs \subseteq bodies' \cap idxs'
    BY <1>0, <1>1, <1>2
  <2>4. Held(c)' \subseteq Held(c)
    BY <1>0, <2>1 DEF Held, Ready
  <2>5. SweepInv(c)'
    BY <1>0, <1>1, <1>2, <2>1 DEF SweepInv
  <2> QED BY <1>0, <1>1, <2>1, <2>2, <2>3, <2>4, <2>5, PacksSweep DEF SweepLabels
<1>3. ASSUME UNCHANGED <<idxs, pc, op>>, cp' = [cp EXCEPT ![c].left = PackDeleteBatch]
      PROVE  PacksInv'
  <2>1. cp'[c].packs = cp[c].packs /\ cp'[c].parts = cp[c].parts /\ cp'[c].todo = cp[c].todo
    BY <1>0, <1>3 DEF Compacting
  <2>2. Spares(c)
    BY <1>0, <1>3, <2>1 DEF Spares
  <2>3. Held(c)' \subseteq Held(c)
    BY <1>0, <1>3, <2>1 DEF Held, Ready
  <2>4. SweepInv(c)'
    BY <1>0, <1>1, <1>3, <2>1 DEF SweepInv
  <2> QED BY <1>0, <1>1, <1>3, <2>1, <2>2, <2>3, <2>4, PacksSweep DEF SweepLabels
<1>4. ASSUME idxs' = idxs, cp' = [cp EXCEPT ![c] = NoCompacting], Return(c, "ok")
      PROVE  PacksInv'
  <2>1. cp'[c] = NoCompacting
    BY <1>0, <1>4
  <2> QED BY <1>0, <1>4, <2>1, DroppedPacks
<1>5. \/ /\ \E p \in cp[c].packs : idxs' = idxs \ {p} /\ op' = [op EXCEPT ![c].send = p]
         /\ Goto(c, "sweepBody") /\ cp' = cp
      \/ UNCHANGED <<idxs, pc, op>> /\ cp' = [cp EXCEPT ![c].left = PackDeleteBatch]
      \/ idxs' = idxs /\ cp' = [cp EXCEPT ![c] = NoCompacting] /\ Return(c, "ok")
  BY ZenonT(30) DEF SweepIdx
<1> QED BY <1>2, <1>3, <1>4, <1>5

\* Then its body, and the pack is off the list.
LEMMA SweepBodyPacks ==
    ASSUME CompactionInv, CompactionInv', TimelyInv, PacksInv, TagsPass, NEW c \in Client, SweepBody(c)
    PROVE  PacksInv'
<1>0. /\ Apart(c) /\ aged' \subseteq aged /\ pc \in [Client -> Label] /\ cp \in [Client -> Compacting]
      /\ op \in [Client -> Op] /\ pc[c] = "sweepBody" /\ SweepInv(c)
      /\ UNCHANGED <<idxs, pending, manifest, hist, view>>
  <2>1. pc[c] = "sweepBody" /\ UNCHANGED <<idxs, pending, manifest, hist, view>>
    BY ZenonT(30) DEF SweepBody, sessionVars, historyVars
  <2> QED BY <2>1, LocalFacts, CompactFrame DEF SweepStep, PacksInv
<1>1. CurrentState' = CurrentState /\ CurrentState.packs \subseteq bodies \cap idxs'
  BY <1>0 DEF CurrentState, Head, PacksInv
<1>2. PICK p : p = op[c].send
  OBVIOUS
<1>3. p \in cp[c].packs /\ cp[c].packs \cap CurrentState.packs = {}
  BY <1>0, <1>2 DEF SweepInv
<1>4. bodies' = bodies \ {p}
  BY <1>2 DEF SweepBody
<1>5. /\ pc'[c] = "sweepIdx" /\ op'[c].pend = op[c].pend /\ op'[c].branch = op[c].branch
      /\ cp'[c].packs \subseteq cp[c].packs /\ cp'[c].parts = cp[c].parts /\ cp'[c].todo = cp[c].todo
  <2>1. pc'[c] = "sweepIdx"
    BY <1>0 DEF SweepBody, Goto
  <2>2. op'[c].pend = op[c].pend /\ op'[c].branch = op[c].branch
    BY <1>0 DEF SweepBody, Op
  <2>3. PICK l, P : cp' = [cp EXCEPT ![c].packs = P, ![c].left = l] /\ P = cp[c].packs \ {p}
    BY <1>2 DEF SweepBody
  <2>4. cp'[c].packs = P /\ cp'[c].parts = cp[c].parts /\ cp'[c].todo = cp[c].todo
    BY <1>0, <2>3 DEF Compacting
  <2> QED BY <2>1, <2>2, <2>3, <2>4
<1>6. Spares(c)
  BY <1>0, <1>3, <1>4, <1>5 DEF Spares
<1>7. CurrentState.packs \subseteq bodies' \cap idxs'
  BY <1>1, <1>3, <1>4
<1>8. Held(c)' \subseteq Held(c)
  BY <1>0, <1>5 DEF Held, Ready
<1>9. SweepInv(c)'
  BY <1>1, <1>3, <1>5 DEF SweepInv
<1> QED BY <1>1, <1>5, <1>6, <1>7, <1>8, <1>9, PacksSweep DEF SweepLabels

\* While a grace window passes, nobody holds anything.
LEMMA GracePacks ==
    ASSUME CompactionInv, TimelyInv, PacksInv, "timely" \in Environment, GraceElapses
    PROVE  PacksInv'
<1>1. /\ UNCHANGED <<manifest, bodies, idxs, pc, view, rd, op, pending, hist, cp>>
      /\ \A c \in Client : ~Writing(c)
  BY DEF GraceElapses, vars, bucketVars, sessionVars, historyVars
<1>2. CurrentState' = CurrentState /\ CurrentState'.packs \subseteq bodies' \cap idxs'
  BY <1>1 DEF CurrentState, Head, PacksInv
<1>3. ASSUME NEW c \in Client PROVE HoldInv(c)' /\ SweepInv(c)'
  <2>1. HoldInv(c) /\ SweepInv(c)
    BY DEF PacksInv
  <2>2. op[c].branch = None /\ cp[c].parts = {} /\ pending[c] = {}
    BY <1>1 DEF Writing
  <2>3. op[c].pend = {}
    BY <2>1, <2>2 DEF HoldInv
  <2>4. Held(c)' = {} /\ At(c)' = At(c) /\ ViewTag(c)' = ViewTag(c)
    BY <1>1, <2>2, <2>3 DEF Held, Ready, At, ViewTag
  <2>5. pc[c] # "putIdx"
    BY <2>2, PushFacts, WalAssumption, NoneAssumption DEF CommitLabels
  <2>6. pc[c] # "mergeIdx"
    BY <2>2, CompactFacts DEF CompactLabels
  <2>7. HoldInv(c)'
    BY <1>1, <2>1, <2>3, <2>4, <2>5, <2>6 DEF HoldInv
  <2>8. SweepInv(c)'
    BY <1>1, <1>2, <2>1, <2>4 DEF SweepInv
  <2> QED BY <2>7, <2>8
<1> QED BY <1>2, <1>3 DEF PacksInv

LEMMA StillPacks ==
    ASSUME PacksInv, UNCHANGED allVars PROVE PacksInv'
<1>1. UNCHANGED <<manifest, bodies, idxs, pc, view, rd, op, pending, hist, cp, aged>>
  BY DEF allVars, compactVars, vars, bucketVars, sessionVars, historyVars
<1>2. CurrentState' = CurrentState
  BY <1>1 DEF CurrentState, Head
<1>3. ASSUME NEW c \in Client PROVE HoldInv(c)' /\ SweepInv(c)'
  <2>1. HoldInv(c) /\ SweepInv(c)
    BY DEF PacksInv
  <2>2. Held(c)' = Held(c) /\ At(c)' = At(c) /\ ViewTag(c)' = ViewTag(c)
    BY <1>1 DEF Held, Ready, At, ViewTag
  <2>3. \A p : Safe(p)' = Safe(p)
    BY <1>1 DEF Safe
  <2>4. HoldInv(c)'
    BY <1>1, <2>1, <2>2, <2>3 DEF HoldInv, Safe
  <2>5. SweepInv(c)'
    BY <1>1, <1>2, <2>1, <2>2 DEF SweepInv
  <2> QED BY <2>4, <2>5
<1> QED BY <1>1, <1>2, <1>3 DEF PacksInv

\* Every step of everyone keeps the invariant.
LEMMA PacksNextKeeps ==
    ASSUME "timely" \in Environment, "fresh" \in Environment,
           CompactionInv, CompactionInv', TimelyInv, PacksInv, [CompactionNext]_allVars
    PROVE  PacksInv'
<1>0. TagsPass
  <2>1. CompactionNext \/ UNCHANGED manifest
    BY DEF allVars, vars, bucketVars
  <2> QED BY <2>1, OnlyForward
<1>1. CASE UNCHANGED allVars
  BY <1>1, StillPacks
<1>2. ASSUME NEW c \in Pusher, BeginPush(c) \/ BeginFetch(c), KeepCompactVars PROVE PacksInv'
  <2>1. c \in Client
    BY CompactionAssumption
  <2>2. pc[c] = "idle"
    BY <1>2 DEF BeginPush, BeginFetch
  <2>3. ~PutPack(c) /\ ~PutIdx(c) /\ ~UpdateRef(c)
    BY <2>2 DEF PutPack, PutIdx, UpdateRef
  <2> QED BY <1>0, <1>2, <2>1, <2>3, WalPacks
<1>3. ASSUME NEW c \in Client, Progress(c), pc[c] = "putPack" /\ pc'[c] = "putIdx" => Fresh(op[c].send), KeepCompactVars
      PROVE  PacksInv'
  <2>1. CASE PutPack(c)
    <3>1. pc[c] = "putPack" /\ pc'[c] = "putIdx"
      BY <2>1, LocalFacts DEF PutPack, Goto
    <3> QED BY <1>0, <1>3, <2>1, <3>1, PutPackPacks
  <2>2. CASE PutIdx(c)
    BY <1>0, <1>3, <2>2, PutIdxPacks
  <2>3. CASE UpdateRef(c)
    BY <1>0, <1>3, <2>3, UpdateRefPacks
  <2>4. CASE ~PutPack(c) /\ ~PutIdx(c) /\ ~UpdateRef(c)
    BY <1>0, <1>3, <2>4, WalPacks
  <2> QED BY <2>1, <2>2, <2>3, <2>4
<1>4. ASSUME NEW c \in Compactor, BeginCompact(c) \/ ConsolidateStep(c) \/ SweepStep(c) PROVE PacksInv'
  <2>1. c \in Client
    BY CompactionAssumption
  <2>2. CASE BeginCompact(c) \/ Compact(c) \/ Plan(c) \/ MergeDone(c)
    BY <1>0, <2>1, <2>2, PlanPacks
  <2>3. CASE ReadMembers(c) \/ MergePut(c) \/ MergeIdx(c) \/ Fence(c)
    BY <1>0, <2>1, <2>3, ReadMembersPacks, MergePutPacks, MergeIdxPacks, FencePacks
  <2>4. CASE MergeClaim(c) \/ PutCheckpoint(c) \/ MergeEnsure(c) \/ MergeCas(c)
    BY <1>0, <2>1, <2>4, MergeSlotPacks, MergeCasPacks
  <2>5. CASE SweepStep(c)
    BY <1>0, <2>1, <2>5, SweepListPacks, SweepDeletePacks, SweepIdxPacks, SweepBodyPacks DEF SweepStep
  <2> QED BY <1>4, <2>2, <2>3, <2>4, <2>5 DEF ConsolidateStep
<1>5. CASE GraceElapses
  BY <1>5, GracePacks
<1> QED BY <1>1, <1>2, <1>3, <1>4, <1>5 DEF CompactionNext

\* It holds at first.
LEMMA PacksBegins == CompactionInit => PacksInv
<1> SUFFICES ASSUME CompactionInit PROVE PacksInv
  OBVIOUS
<1>1. /\ manifest = None
      /\ \A c \in Client : pc[c] = "idle" /\ op[c] = NoOp /\ pending[c] = {} /\ cp[c] = NoCompacting
  BY DEF CompactionInit, Init
<1>2. CurrentState.packs = {}
  <2>1. hist[0] = [refs |-> NoRefs, packs |-> {}]
    BY WalAssumption DEF CompactionInit, Init
  <2> QED BY <1>1, <2>1 DEF CurrentState, Head
<1>3. ASSUME NEW c \in Client PROVE HoldInv(c) /\ SweepInv(c)
  <2>1. op[c].pend = {} /\ cp[c].parts = {} /\ cp[c].todo = {}
    BY <1>1 DEF NoOp, NoCompacting
  <2>2. Held(c) = {}
    BY <1>1, <2>1 DEF Held, Ready
  <2> QED BY <1>1, <2>1, <2>2 DEF HoldInv, SweepInv
<1> QED BY <1>2, <1>3 DEF PacksInv

LEMMA AlwaysPacksInv ==
    ASSUME "timely" \in Environment, "fresh" \in Environment PROVE CompactionSpec => []PacksInv
<1>1. CompactionInv /\ CompactionInv' /\ TimelyInv /\ PacksInv /\ [CompactionNext]_allVars => PacksInv'
  BY PacksNextKeeps
<1> QED BY <1>1, PacksBegins, AlwaysCompactionInv, AlwaysTimelyInv, PTL DEF CompactionSpec

\* If, besides, nobody uploads a pack that is byte for byte an old orphan or one that a
\* running sweep has found to be, then whatever is consolidated and swept, all that the
\* published refs reach is in packs whose two objects are in the bucket (sweep).
THEOREM CompactedRefsAreReadable ==
    ASSUME "timely" \in Environment, "fresh" \in Environment PROVE CompactionSpec => []RefsReadable
<1>1. CompactionInv /\ TimelyInv /\ PacksInv => RefsReadable
  <2> SUFFICES ASSUME CompactionInv, TimelyInv, PacksInv PROVE RefsReadable
    OBVIOUS
  <2>1. Head(manifest) \in 0..MaxSeq /\ hist[Head(manifest)] # None
    <3>1. manifest \in Manifest \cup {None}
      BY DEF CompactionInv, CompactionTypeOK, TypeOK
    <3>2. Head(manifest) \in 0..MaxSeq
      BY <3>1, Reached
    <3>3. StatesInv
      BY DEF CompactionInv, BucketOK
    <3>4. hist[0] # None
      BY <3>3, NoneAssumption, NoValues DEF StatesInv, Checkpoint
    <3> QED BY <3>2, <3>3, <3>4 DEF StatesInv, Head
  <2>2. Whole(CurrentState)
    BY <2>1 DEF TimelyInv, TimelyBucket, GrowthInv, CurrentState
  <2> QED BY <2>2 DEF RefsReadable, Whole, PacksInv
<1> QED BY <1>1, AlwaysCompactionInv, AlwaysTimelyInv, AlwaysPacksInv, PTL

-----------------------------------------------------------------------------
(* No read takes a sweep for damage: the fourth inductive invariant          *)

\* A manifest that has been replaced, for good.
Replaced(m) ==
    /\ m \in Manifest /\ m # manifest /\ manifest # None
    /\ m.head < manifest.head \/ (m.head = manifest.head /\ m.ck <= manifest.ck)

PartLabels == {"readMembers", "mergePut", "mergeIdx"}

\* What was found missing was missing from a manifest that has been replaced, and is
\* looked for again under another one.
FaultInv(c) ==
    /\ rd[c].failed # None => Replaced(rd[c].failed)
    /\ At(c) = "reread" => Replaced(op[c].base)
    /\ cp[c].missingOn # None => Replaced(cp[c].missingOn)
    /\ pc[c] \in WalkLabels =>
          /\ rd[c].m # rd[c].failed /\ Head(ViewTag(c)) <= rd[c].m.head
          /\ rd[c].ret = "reread" => rd[c].m # op[c].base
          /\ rd[c].ret = "plan" => rd[c].m # cp[c].missingOn
    /\ pc[c] = "reread" => ViewTag(c) # op[c].base
    /\ pc[c] \in PartLabels \cup {"plan"} => ViewTag(c) # cp[c].missingOn
    /\ At(c) \in {"read", "reread"} => op[c].todo \subseteq ViewObjects(c)
    /\ pc[c] \in PartLabels => UNION cp[c].parts \subseteq view[c].packs /\ cp[c].todo \subseteq cp[c].parts

FaultsInv == corrupt = {} /\ \A c \in Client : FaultInv(c)

-----------------------------------------------------------------------------
\* A manifest that has been replaced stays so.
MovesOn == \A m : Replaced(m) => Replaced(m)'

LEMMA StaysReplaced ==
    ASSUME CompactionInv, CompactionInv', CompactionNext \/ UNCHANGED manifest PROVE MovesOn
<1> SUFFICES ASSUME NEW m, Replaced(m), manifest' # manifest PROVE Replaced(m)'
  BY DEF MovesOn, Replaced
<1>1. /\ manifest' # None
      /\ \/ Head(manifest') > Head(manifest)
         \/ Head(manifest') = Head(manifest) /\ manifest'.ck > manifest.ck
  BY ManifestMoves
<1>2. m \in Manifest /\ manifest \in Manifest /\ manifest' \in Manifest /\ manifest # None
  BY <1>1 DEF Replaced, CompactionInv, CompactionTypeOK, TypeOK
<1>3. /\ m.head \in Int /\ m.ck \in Int /\ manifest.head \in Int /\ manifest.ck \in Int
      /\ manifest'.head \in Int /\ manifest'.ck \in Int
      /\ Head(manifest) = manifest.head /\ Head(manifest') = manifest'.head
  BY <1>1, <1>2, WalAssumption DEF Manifest, Slot, Head
<1>4. m.head < manifest'.head \/ (m.head = manifest'.head /\ m.ck <= manifest'.ck /\ m.ck < manifest'.ck)
  BY <1>1, <1>3 DEF Replaced
<1>5. m # manifest'
  BY <1>3, <1>4
<1> QED BY <1>1, <1>2, <1>4, <1>5 DEF Replaced

\* So is one that was current once and no longer is.
LEMMA OvertakenIsReplaced ==
    ASSUME CompactionInv, NEW m \in Manifest, m # manifest, Reaches(m, manifest) PROVE Replaced(m)
<1>1. m # None /\ manifest \in Manifest \cup {None}
  BY NoneAssumption DEF CompactionInv, CompactionTypeOK, TypeOK
<1>2. manifest # None /\ m.head <= manifest.head /\ m.ck <= manifest.ck
  BY <1>1 DEF Reaches
<1>3. m.head \in Int /\ manifest.head \in Int
  BY <1>1, <1>2, WalAssumption DEF Manifest, Slot
<1> QED BY <1>2, <1>3 DEF Replaced

\* A step of c keeps the invariant for the others.
LEMMA FaultStep ==
    ASSUME FaultsInv, MovesOn, NEW c \in Client, Apart(c), corrupt' = corrupt, FaultInv(c)'
    PROVE  FaultsInv'
<1>1. ASSUME NEW d \in Client, d # c PROVE FaultInv(d)'
  <2>1. /\ pc'[d] = pc[d] /\ view'[d] = view[d] /\ rd'[d] = rd[d] /\ op'[d] = op[d] /\ cp'[d] = cp[d]
    BY <1>1 DEF Apart
  <2>2. FaultInv(d)
    BY DEF FaultsInv
  <2>3. At(d)' = At(d) /\ ViewTag(d)' = ViewTag(d) /\ ViewObjects(d)' = ViewObjects(d)
        /\ Head(ViewTag(d))' = Head(ViewTag(d))
    BY <2>1 DEF At, ViewTag, ViewObjects, Head
  <2>4. ASSUME NEW m, Replaced(m) PROVE Replaced(m)'
    BY <2>4 DEF MovesOn
  <2>5. /\ rd'[d].failed # None => Replaced(rd[d].failed)'
        /\ At(d)' = "reread" => Replaced(op[d].base)'
        /\ cp'[d].missingOn # None => Replaced(cp[d].missingOn)'
    <3>1. PICK f, b, g : f = rd[d].failed /\ b = op[d].base /\ g = cp[d].missingOn
      OBVIOUS
    <3>2. (f # None => Replaced(f)') /\ (At(d) = "reread" => Replaced(b)') /\ (g # None => Replaced(g)')
      BY <2>2, <2>4, <3>1 DEF FaultInv
    <3>3. rd'[d].failed = f /\ op'[d].base = b /\ cp'[d].missingOn = g
      BY <2>1, <3>1
    <3> QED BY <2>3, <3>2, <3>3 DEF Replaced
  <2> QED BY <2>1, <2>2, <2>3, <2>5 DEF FaultInv
<1> QED BY <1>1 DEF FaultsInv

\* A step that leaves c where nothing is looked for.
LEMMA FaultQuiet ==
    ASSUME FaultsInv, MovesOn, NEW c \in Client, Apart(c), corrupt' = corrupt, rd'[c].failed = None,
           At(c)' \notin {"read", "reread"}, pc'[c] \notin WalkLabels \cup PartLabels \cup {"plan"},
           cp'[c].missingOn \in {None, cp[c].missingOn}
    PROVE  FaultsInv'
<1>1. pc'[c] # "reread"
  BY DEF At, ReadLabels, WalkLabels
<1>2. cp'[c].missingOn # None => Replaced(cp[c].missingOn)'
  <2>1. PICK g : g = cp[c].missingOn
    OBVIOUS
  <2>2. cp'[c].missingOn # None => Replaced(g)' /\ cp'[c].missingOn = g
    BY <2>1 DEF FaultsInv, FaultInv, MovesOn
  <2> QED BY <2>2 DEF Replaced
<1>3. FaultInv(c)'
  BY <1>1, <1>2 DEF FaultInv
<1> QED BY <1>3, FaultStep

\* Nothing is looked for, and no damage reported.
Calm(c) ==
    /\ corrupt' = corrupt /\ rd'[c].failed = None
    /\ At(c)' \notin {"read", "reread"} /\ pc'[c] \notin WalkLabels \cup PartLabels \cup {"plan"}

LEMMA CalmReturn ==
    ASSUME CompactionInv, NEW c \in Client, NEW res, res # "corrupt", Return(c, res) PROVE Calm(c)
<1>1. pc \in [Client -> Label] /\ rd \in [Client -> Reading]
  BY LocalFacts DEF TypeOK
<1>2. pc'[c] = "idle" /\ rd'[c] = NoReading /\ corrupt' = corrupt
  BY <1>1 DEF Return, Goto
<1> QED BY <1>2 DEF Calm, At, ReadLabels, WalkLabels, PartLabels, NoReading

LEMMA CalmThrow ==
    ASSUME CompactionInv, NEW c \in Client, Acknowledge(c) \/ Throw(c, "err") PROVE Calm(c)
<1>1. Acknowledge(c) => Calm(c)
  BY CalmReturn DEF Acknowledge
<1> QED BY <1>1, CalmReturn DEF Throw

LEMMA CalmRefresh ==
    ASSUME CompactionInv, NEW c \in Client, NEW lbl, lbl \notin {"read", "reread"}, CallRefresh(c, lbl), corrupt' = corrupt
    PROVE  Calm(c)
<1>1. pc \in [Client -> Label] /\ rd \in [Client -> Reading]
  BY LocalFacts DEF TypeOK
<1>2. pc'[c] = "getManifest" /\ rd'[c].ret = lbl /\ rd'[c].failed = None
  BY <1>1 DEF CallRefresh, Goto, NoReading
<1> QED BY <1>2 DEF Calm, At, ReadLabels, WalkLabels, PartLabels

LEMMA CalmGo ==
    ASSUME CompactionInv, NEW c \in Client, pc[c] \notin ReadLabels, rd' = rd, corrupt' = corrupt,
           pc'[c] \notin {"read", "reread", "plan"} \cup ReadLabels \cup PartLabels
    PROVE  Calm(c)
<1>1. rd[c] = NoReading
  BY LocalFacts DEF ClientOK, StepInv
<1>2. At(c)' = pc'[c] /\ rd'[c].failed = None
  BY <1>1 DEF At, NoReading
<1> QED BY <1>2 DEF Calm, ReadLabels, WalkLabels

\* Outside of refresh and of the reading of objects a client looks for nothing.
LEMMA WalCalm ==
    ASSUME CompactionInv, NEW c \in Client, BeginPush(c) \/ BeginFetch(c) \/ PushStep(c) \/ Fail(c) \/ Reopen(c)
    PROVE  Calm(c)
<1>0. pc \in [Client -> Label]
  BY LocalFacts
<1>1. ASSUME NEW lbl \in {"upload", "putPack", "putIdx", "updateRef", "claim", "ensure", "cas", "foldCas"},
             Goto(c, lbl), rd' = rd, corrupt' = corrupt, pc[c] \notin ReadLabels
      PROVE  Calm(c)
  <2>1. pc'[c] = lbl
    BY <1>0, <1>1 DEF Goto
  <2> QED BY <1>1, <2>1, CalmGo DEF ReadLabels, WalkLabels, PartLabels
<1>2. CASE BeginPush(c) \/ BeginFetch(c)
  <2>1. \E lbl \in {"listed", "fetchRefs"} : CallRefresh(c, lbl) /\ corrupt' = corrupt
    BY <1>2 DEF BeginPush, BeginFetch
  <2> QED BY <2>1, CalmRefresh
<1>3. CASE Listed(c)
  <2>1. Acknowledge(c) \/ Return(c, "nonff") \/ (CallRefresh(c, "probe") /\ corrupt' = corrupt)
    BY <1>3 DEF Listed
  <2> QED BY <2>1, CalmRefresh, CalmReturn, CalmThrow
<1>4. CASE Probe(c) \/ Upload(c) \/ PutPack(c) \/ PutIdx(c)
  <2>1. /\ corrupt' = corrupt /\ pc[c] \in {"probe", "upload", "putPack", "putIdx"}
        /\ \/ CallRefresh(c, "probe")
           \/ rd' = rd /\ \E lbl \in {"upload", "updateRef", "putPack", "putIdx"} : Goto(c, lbl)
    BY <1>4 DEF Probe, Upload, PutPack, PutIdx, historyVars
  <2> QED BY <1>1, <2>1, CalmRefresh DEF ReadLabels, WalkLabels
<1>5. CASE UpdateRef(c)
  <2>1. /\ corrupt' = corrupt /\ pc[c] = "updateRef"
        /\ CallRefresh(c, "attempt") \/ (rd' = rd /\ Goto(c, "putPack"))
    BY <1>5 DEF UpdateRef, historyVars
  <2> QED BY <1>1, <2>1, CalmRefresh DEF ReadLabels, WalkLabels
<1>6. CASE Attempt(c)
  <2>1. /\ pc[c] = "attempt"
        /\ Acknowledge(c) \/ Return(c, "nonff") \/ (Goto(c, "claim") /\ rd' = rd /\ corrupt' = corrupt)
    BY <1>6 DEF Attempt
  <2> QED BY <1>1, <2>1, CalmReturn, CalmThrow DEF ReadLabels, WalkLabels
<1>7. CASE Claim(c) \/ Ensure(c)
  <2>1. /\ pc[c] \in {"claim", "ensure"}
        /\ \/ Return(c, "err")
           \/ rd' = rd /\ corrupt' = corrupt /\ (pc' = pc \/ Goto(c, "ensure") \/ Goto(c, "cas"))
    BY <1>7 DEF Claim, ClaimSlot, Ensure, EnsurePacksPresent
  <2>2. pc' = pc /\ rd' = rd /\ corrupt' = corrupt => Calm(c)
    BY <2>1, CalmGo DEF ReadLabels, WalkLabels, PartLabels
  <2> QED BY <1>1, <2>1, <2>2, CalmReturn DEF ReadLabels, WalkLabels
<1>8. CASE Cas(c)
  <2>1. \/ Return(c, "contention") \/ (CallRefresh(c, "foldPut") /\ corrupt' = corrupt)
        \/ CallRefresh(c, "attempt") /\ corrupt' = corrupt
    BY <1>8 DEF Cas, Retry
  <2> QED BY <2>1, CalmReturn, CalmRefresh
<1>9. CASE FoldPut(c) \/ FoldCas(c) \/ Done(c)
  <2>1. /\ pc[c] \in {"foldPut", "foldCas", "done"}
        /\ \/ Acknowledge(c) \/ (CallRefresh(c, "done") /\ corrupt' = corrupt)
           \/ Goto(c, "foldCas") /\ rd' = rd /\ corrupt' = corrupt
    BY <1>9 DEF FoldPut, FoldCas, Done
  <2> QED BY <1>1, <2>1, CalmThrow, CalmRefresh DEF ReadLabels, WalkLabels
<1>10. CASE Fail(c)
  BY <1>10, CalmThrow DEF Fail
<1>11. CASE Reopen(c)
  <2>1. pc[c] = "idle" /\ UNCHANGED <<pc, rd, corrupt>>
    BY <1>11 DEF Reopen, historyVars
  <2> QED BY <2>1, CalmGo DEF ReadLabels, WalkLabels, PartLabels
<1> QED BY <1>2, <1>3, <1>4, <1>5, <1>6, <1>7, <1>8, <1>9, <1>10, <1>11 DEF PushStep

\* Such a step keeps the invariant.
LEMMA CalmKeeps ==
    ASSUME FaultsInv, MovesOn, NEW c \in Client, Apart(c), Calm(c), cp'[c].missingOn \in {None, cp[c].missingOn}
    PROVE  FaultsInv'
BY FaultQuiet DEF Calm

\* refresh_once: the manifest is not one under which something was missing before.
LEMMA GetManifestFault ==
    ASSUME CompactionInv, FaultsInv, MovesOn, NEW c \in Client, GetManifest(c), KeepCompactVars
    PROVE  FaultsInv'
<1>0. /\ pc[c] = "getManifest" /\ pc \in [Client -> Label] /\ rd \in [Client -> Reading] /\ view \in [Client -> View \cup {None}]
      /\ rd[c].ret \in AllReturns /\ At(c) = rd[c].ret /\ FaultInv(c) /\ op' = op
      /\ UNCHANGED <<manifest, hist, corrupt>>
  BY LocalFacts DEF TypeOK, GetManifest, ClientOK, StepInv, At, ReadLabels, FaultsInv, bucketVars, historyVars
<1>1. /\ rd[c].ret \notin ReadLabels \cup PartLabels /\ rd[c].ret # "idle"
      /\ At(c) = "plan" => manifest # None
  BY <1>0, LocalFacts DEF AllReturns, RefreshReturns, ReadLabels, WalkLabels, PartLabels, ClientOK, StepInv, MergeLabels
<1>2. ASSUME pc'[c] # "idle" PROVE Apart(c) /\ cp'[c] = cp[c]
  BY <1>2, WalFrame DEF Progress, Step, RefreshStep
<1>3. \A m : Replaced(m) => Replaced(m)' /\ m # manifest /\ m # None /\ manifest # None
  BY NoneAssumption DEF MovesOn, Replaced
<1>4. CASE Goto(c, rd[c].ret) /\ rd' = [rd EXCEPT ![c] = NoReading] /\ ViewTag(c) = manifest /\ view'[c] = view[c]
  <2>1. pc'[c] = rd[c].ret /\ rd'[c] = NoReading
    BY <1>0, <1>4 DEF Goto
  <2>2. At(c)' = At(c) /\ ViewTag(c)' = manifest /\ ViewObjects(c)' = ViewObjects(c) /\ rd'[c].failed = None
    BY <1>0, <1>1, <1>4, <2>1 DEF At, ViewTag, ViewObjects, NoReading
  <2>3. Apart(c) /\ cp'[c] = cp[c] /\ op'[c] = op[c]
    BY <1>0, <1>1, <1>2, <2>1
  <2>4. PICK b, g : b = op[c].base /\ g = cp[c].missingOn
    OBVIOUS
  <2>5. (At(c) = "reread" => Replaced(b)' /\ b # manifest) /\ (g # None => Replaced(g)' /\ g # manifest)
    BY <1>0, <1>3, <2>4 DEF FaultInv
  <2>6. (At(c)' = "reread" => Replaced(op[c].base)') /\ (cp'[c].missingOn # None => Replaced(cp[c].missingOn)')
    BY <2>2, <2>3, <2>4, <2>5 DEF Replaced
  <2>7. pc'[c] = "reread" => ViewTag(c)' # op'[c].base
    BY <1>0, <2>1, <2>2, <2>3, <2>4, <2>5
  <2>8. pc'[c] = "plan" => ViewTag(c)' # cp'[c].missingOn
    BY <1>0, <1>1, <2>1, <2>2, <2>3, <2>4, <2>5
  <2>9. FaultInv(c)'
    BY <1>0, <1>1, <2>1, <2>2, <2>3, <2>6, <2>7, <2>8 DEF FaultInv, ReadLabels
  <2> QED BY <1>0, <2>3, <2>9, FaultStep
<1>5. CASE manifest = None /\ view' = [view EXCEPT ![c] = None] /\ Goto(c, rd[c].ret) /\ rd' = [rd EXCEPT ![c] = NoReading]
  <2>1. Reaches(ViewTag(c), manifest) /\ TypeOK
    BY LocalFacts
  <2>2. ViewTag(c) = None
    BY <1>5, <2>1 DEF Reaches
  <2>3. view[c] = None
    BY <2>1, <2>2, ViewTags, NoneAssumption
  <2> QED BY <1>0, <1>4, <1>5, <2>2, <2>3
<1>6. CASE /\ manifest # None
           /\ rd' = [rd EXCEPT ![c] = [@ EXCEPT !.m = manifest, !.cur = manifest.head,
                         !.tail = NoRefs, !.refs = NoRefs, !.packs = {}]]
           /\ Goto(c, IF manifest.ck # 0 THEN "getCheckpoint" ELSE "getLog") /\ UNCHANGED view
  <2>1. pc'[c] \in {"getCheckpoint", "getLog"}
    BY <1>0, <1>6 DEF Goto
  <2>2. PICK n, h : n = manifest /\ h = manifest.head
    OBVIOUS
  <2>3. rd[c] \in Reading /\ rd' = [rd EXCEPT ![c] = [rd[c] EXCEPT !.m = n, !.cur = h,
                        !.tail = NoRefs, !.refs = NoRefs, !.packs = {}]]
    BY <1>0, <1>6, <2>2
  <2>4. rd'[c].m = n /\ rd'[c].failed = rd[c].failed /\ rd'[c].ret = rd[c].ret
    BY <1>0, <2>3 DEF Reading
  <2>5. Apart(c) /\ cp'[c] = cp[c] /\ op'[c] = op[c] /\ At(c)' = At(c) /\ ViewTag(c)' = ViewTag(c)
        /\ ViewObjects(c)' = ViewObjects(c) /\ Head(ViewTag(c))' = Head(ViewTag(c))
    BY <1>0, <1>2, <1>6, <2>1, <2>4 DEF At, ViewTag, ViewObjects, ReadLabels, WalkLabels, Head
  <2>6. PICK b, f, g : b = op[c].base /\ f = rd[c].failed /\ g = cp[c].missingOn
    OBVIOUS
  <2>7. /\ At(c) = "reread" => Replaced(b)' /\ b # manifest
        /\ f # None => Replaced(f)' /\ f # manifest
        /\ g # None => Replaced(g)' /\ g # manifest
    BY <1>0, <1>3, <2>6 DEF FaultInv
  <2>8. /\ At(c)' = "reread" => Replaced(op[c].base)'
        /\ rd'[c].failed # None => Replaced(rd[c].failed)'
        /\ cp'[c].missingOn # None => Replaced(cp[c].missingOn)'
    BY <2>4, <2>5, <2>6, <2>7 DEF Replaced
  <2>9. Head(ViewTag(c)) <= rd'[c].m.head
    BY <1>6, <2>2, <2>4, Numbers DEF Head
  <2>10. /\ rd'[c].m # rd'[c].failed
         /\ rd'[c].ret = "reread" => rd'[c].m # op'[c].base
         /\ rd'[c].ret = "plan" => rd'[c].m # cp'[c].missingOn
    BY <1>0, <1>6, <2>2, <2>4, <2>5, <2>6, <2>7
  <2>11. FaultInv(c)'
    BY <1>0, <2>1, <2>5, <2>8, <2>9, <2>10 DEF FaultInv, PartLabels
  <2> QED BY <1>0, <2>5, <2>11, FaultStep
<1>7. ViewTag(c) = manifest /\ UNCHANGED view => view'[c] = view[c]
  OBVIOUS
<1> QED BY <1>4, <1>5, <1>6 DEF GetManifest

\* A key that is gone is gone from a manifest that has been replaced.
LEMMA GoneFault ==
    ASSUME CompactionInv, FaultsInv, MovesOn, NEW c \in Client, Gone(c), pc[c] \in WalkLabels, rd[c].m # manifest,
           UNCHANGED <<manifest, view>>, Apart(c), cp'[c] = (IF pc'[c] = "idle" THEN NoCompacting ELSE cp[c])
    PROVE  FaultsInv'
<1>0. pc \in [Client -> Label] /\ rd \in [Client -> Reading] /\ FaultInv(c) /\ At(c) = rd[c].ret
  BY LocalFacts DEF TypeOK, FaultsInv, At, ReadLabels
<1>1. rd[c].m # rd[c].failed
  BY <1>0 DEF FaultInv
<1>2. CASE Throw(c, "err")
  <2>1. Calm(c)
    BY <1>2, CalmThrow
  <2>2. cp'[c].missingOn \in {None, cp[c].missingOn}
    BY DEF NoCompacting
  <2> QED BY <2>1, <2>2, CalmKeeps
<1>3. CASE /\ Goto(c, "getManifest") /\ rd' = [rd EXCEPT ![c].failed = rd[c].m, ![c].left = rd[c].left - 1]
           /\ UNCHANGED <<op, corrupt>>
  <2>1. pc'[c] = "getManifest" /\ rd'[c].failed = rd[c].m /\ rd'[c].ret = rd[c].ret /\ cp'[c] = cp[c]
    BY <1>0, <1>3 DEF Goto, Reading
  <2>2. PICK m : m = rd[c].m
    OBVIOUS
  <2>3. Replaced(m)'
    <3>1. m \in Manifest /\ Reaches(m, manifest)
      BY <2>2, LocalFacts DEF ClientOK, PassedInv
    <3> QED BY <2>2, <3>1, OvertakenIsReplaced DEF MovesOn
  <2>4. At(c)' = At(c) /\ ViewTag(c)' = ViewTag(c) /\ ViewObjects(c)' = ViewObjects(c) /\ op'[c] = op[c]
    BY <1>0, <1>3, <2>1 DEF At, ViewTag, ViewObjects, ReadLabels
  <2>5. PICK b, g : b = op[c].base /\ g = cp[c].missingOn
    OBVIOUS
  <2>6. (At(c) = "reread" => Replaced(b)') /\ (g # None => Replaced(g)')
    BY <1>0, <2>5 DEF FaultInv, MovesOn
  <2>7. /\ At(c)' = "reread" => Replaced(op[c].base)'
        /\ rd'[c].failed # None => Replaced(rd[c].failed)'
        /\ cp'[c].missingOn # None => Replaced(cp[c].missingOn)'
    BY <2>1, <2>2, <2>3, <2>4, <2>5, <2>6 DEF Replaced
  <2>8. FaultInv(c)'
    BY <1>0, <2>1, <2>4, <2>7 DEF FaultInv, WalkLabels, PartLabels
  <2> QED BY <1>3, <2>8, FaultStep
<1> QED BY <1>1, <1>2, <1>3 DEF Gone, SameManifest

\* The walk goes on.
LEMMA WalkFault ==
    ASSUME FaultsInv, MovesOn, NEW c \in Client, Apart(c), pc[c] \in WalkLabels, pc'[c] \in WalkLabels,
           UNCHANGED <<view, op, corrupt>>, cp'[c] = cp[c],
           rd'[c].m = rd[c].m, rd'[c].failed = rd[c].failed, rd'[c].ret = rd[c].ret
    PROVE  FaultsInv'
<1>1. FaultInv(c) /\ op'[c] = op[c] /\ view'[c] = view[c]
  BY DEF FaultsInv
<1>2. At(c)' = At(c) /\ ViewTag(c)' = ViewTag(c) /\ ViewObjects(c)' = ViewObjects(c) /\ Head(ViewTag(c))' = Head(ViewTag(c))
  BY <1>1 DEF At, ViewTag, ViewObjects, Head, ReadLabels
<1>3. PICK b, f, g : b = op[c].base /\ f = rd[c].failed /\ g = cp[c].missingOn
  OBVIOUS
<1>4. (At(c) = "reread" => Replaced(b)') /\ (f # None => Replaced(f)') /\ (g # None => Replaced(g)')
  BY <1>1, <1>3 DEF FaultInv, MovesOn
<1>5. /\ At(c)' = "reread" => Replaced(op[c].base)'
      /\ rd'[c].failed # None => Replaced(rd[c].failed)'
      /\ cp'[c].missingOn # None => Replaced(cp[c].missingOn)'
  BY <1>1, <1>2, <1>3, <1>4 DEF Replaced
<1>6. FaultInv(c)'
  BY <1>1, <1>2, <1>5 DEF FaultInv, WalkLabels, PartLabels
<1> QED BY <1>6, FaultStep

LEMMA GetCheckpointFault ==
    ASSUME CompactionInv, FaultsInv, MovesOn, NEW c \in Client, GetCheckpoint(c), KeepCompactVars
    PROVE  FaultsInv'
<1>0. /\ pc[c] = "getCheckpoint" /\ pc[c] \in WalkLabels /\ pc \in [Client -> Label] /\ rd \in [Client -> Reading]
      /\ UNCHANGED <<manifest, view>> /\ Apart(c) /\ cp'[c] = (IF pc'[c] = "idle" THEN NoCompacting ELSE cp[c])
  <2>1. pc[c] = "getCheckpoint" /\ UNCHANGED <<manifest, view>>
    BY DEF GetCheckpoint, bucketVars
  <2> QED BY <2>1, LocalFacts, WalFrame DEF TypeOK, WalkLabels, Progress, Step, RefreshStep
<1>1. CASE ckpt[rd[c].m.ck] = None /\ Gone(c)
  <2>1. rd[c].m # manifest
    <3> SUFFICES ASSUME rd[c].m = manifest PROVE FALSE
      OBVIOUS
    <3>1. manifest # None /\ manifest.ck # 0
      BY <1>0, Numbers, LocalFacts DEF ClientOK, TrueWalk
    <3> QED BY <1>1, <3>1 DEF CompactionInv, BucketOK, StatesInv
  <2> QED BY <1>0, <1>1, <2>1, GoneFault
<1>2. CASE /\ \E S, R : rd' = [rd EXCEPT ![c].refs = R, ![c].packs = S]
           /\ Goto(c, "getLog") /\ UNCHANGED <<op, corrupt>>
  <2>1. PICK S, R : rd' = [rd EXCEPT ![c].refs = R, ![c].packs = S]
    BY <1>2
  <2>2. rd'[c].m = rd[c].m /\ rd'[c].failed = rd[c].failed /\ rd'[c].ret = rd[c].ret
    BY <1>0, <2>1 DEF Reading
  <2>3. pc'[c] = "getLog"
    BY <1>0, <1>2 DEF Goto
  <2> QED BY <1>0, <1>2, <2>2, <2>3, WalkFault DEF WalkLabels
<1> QED BY <1>1, <1>2 DEF GetCheckpoint

LEMMA GetLogFault ==
    ASSUME CompactionInv, TimelyInv, FaultsInv, MovesOn, NEW c \in Client, GetLog(c), KeepCompactVars
    PROVE  FaultsInv'
<1>0. /\ pc[c] = "getLog" /\ pc[c] \in WalkLabels /\ pc \in [Client -> Label] /\ rd \in [Client -> Reading]
      /\ UNCHANGED <<manifest, view>> /\ Apart(c) /\ cp'[c] = (IF pc'[c] = "idle" THEN NoCompacting ELSE cp[c])
  <2>1. pc[c] = "getLog" /\ UNCHANGED <<manifest, view>>
    BY DEF GetLog, bucketVars
  <2> QED BY <2>1, LocalFacts, WalFrame DEF TypeOK, WalkLabels, Progress, Step, RefreshStep
<1>1. /\ rd[c].m.ck <= rd[c].cur /\ rd[c].cur <= rd[c].m.head /\ hist[rd[c].cur] # None
      /\ rd[c].m.ck \in Int /\ rd[c].cur \in Int /\ rd[c].cur \in 0..MaxSeq /\ rd[c].m.ck \in 0..MaxSeq
  <2>1. WalkTruth(c)
    BY DEF TimelyInv, TimelyClient
  <2>2. rd[c].m.ck \in 0..MaxSeq /\ rd[c].cur \in 0..MaxSeq
    BY <1>0, Numbers
  <2> QED BY <1>0, <2>1, <2>2, WalAssumption DEF WalkTruth
<1>2. CASE rd[c].cur > rd[c].m.ck /\ log[rd[c].cur] = None /\ Gone(c)
  <2>1. rd[c].m # manifest
    <3> SUFFICES ASSUME rd[c].m = manifest PROVE FALSE
      OBVIOUS
    <3>1. manifest # None /\ Folded = manifest.ck
      BY <1>0, Numbers DEF Folded, FoldOf
    <3>2. rd[c].cur \in Slot /\ Folded < rd[c].cur
      BY <1>1, <1>2, <3>1, WalAssumption DEF Slot
    <3>3. TailInv
      BY DEF CompactionInv, BucketOK
    <3> QED BY <1>1, <1>2, <3>2, <3>3 DEF TailInv
  <2> QED BY <1>0, <1>2, <2>1, GoneFault
<1>3. CASE /\ rd' = rd \/ \E n, S, T : rd' = [rd EXCEPT ![c].cur = n, ![c].packs = S, ![c].tail = T]
           /\ Goto(c, "getIdx") \/ pc' = pc
           /\ UNCHANGED <<op, corrupt>>
  <2>1. rd'[c].m = rd[c].m /\ rd'[c].failed = rd[c].failed /\ rd'[c].ret = rd[c].ret
    <3>1. CASE rd' = rd
      BY <3>1
    <3>2. CASE rd' # rd
      <4>1. PICK n, S, T : rd' = [rd EXCEPT ![c].cur = n, ![c].packs = S, ![c].tail = T]
        BY <1>3, <3>2
      <4> QED BY <1>0, <4>1 DEF Reading
    <3> QED BY <3>1, <3>2
  <2>2. pc'[c] \in {"getLog", "getIdx"}
    BY <1>0, <1>3 DEF Goto
  <2> QED BY <1>0, <1>3, <2>1, <2>2, WalkFault DEF WalkLabels
<1>4. ~(rd[c].cur < rd[c].m.ck)
  BY <1>1
<1>5. \/ /\ rd' = rd \/ \E n, S, T : rd' = [rd EXCEPT ![c].cur = n, ![c].packs = S, ![c].tail = T]
         /\ Goto(c, "getIdx") \/ pc' = pc
         /\ UNCHANGED <<op, corrupt>>
      \/ rd[c].cur > rd[c].m.ck /\ log[rd[c].cur] = None /\ Gone(c)
      \/ rd[c].cur < rd[c].m.ck
  <2>1. PICK n, S, T : /\ n = log[rd[c].cur].parent /\ S = rd[c].packs \cup log[rd[c].cur].packs
                       /\ T = Replay(rd[c].tail, log[rd[c].cur])
    OBVIOUS
  <2>2. \/ Goto(c, "getIdx") /\ UNCHANGED <<rd, op, corrupt>>
        \/ rd' = [rd EXCEPT ![c].cur = n, ![c].packs = S, ![c].tail = T] /\ UNCHANGED <<pc, op, corrupt>>
        \/ rd[c].cur > rd[c].m.ck /\ log[rd[c].cur] = None /\ Gone(c)
        \/ rd[c].cur < rd[c].m.ck
    BY <2>1 DEF GetLog
  <2> QED BY <2>2
<1> QED BY <1>2, <1>3, <1>4, <1>5

LEMMA GetIdxFault ==
    ASSUME CompactionInv, TimelyInv, PacksInv, FaultsInv, MovesOn, NEW c \in Client, GetIdx(c), KeepCompactVars
    PROVE  FaultsInv'
<1>0. /\ pc[c] = "getIdx" /\ pc[c] \in WalkLabels /\ pc \in [Client -> Label] /\ rd \in [Client -> Reading]
      /\ view \in [Client -> View \cup {None}] /\ rd[c].ret \in AllReturns /\ At(c) = rd[c].ret /\ FaultInv(c)
      /\ UNCHANGED <<manifest, hist>> /\ Apart(c) /\ cp'[c] = (IF pc'[c] = "idle" THEN NoCompacting ELSE cp[c])
  <2>1. pc[c] = "getIdx" /\ UNCHANGED <<manifest, hist>>
    BY DEF GetIdx, bucketVars
  <2> QED BY <2>1, LocalFacts, WalFrame
          DEF TypeOK, WalkLabels, Progress, Step, RefreshStep, ClientOK, StepInv, At, ReadLabels, FaultsInv
<1>1. /\ rd[c].m # None /\ rd[c].m.head \in 0..MaxSeq /\ hist[rd[c].m.head] # None /\ Head(rd[c].m) = rd[c].m.head
      /\ rd[c].packs = hist[rd[c].m.head].packs
  <2>1. WalkTruth(c) /\ rd[c].m # None /\ rd[c].m.head \in 0..MaxSeq /\ Head(rd[c].m) = rd[c].m.head
    BY <1>0, Numbers, WalAssumption DEF TimelyInv, TimelyClient, Slot
  <2>2. /\ hist[rd[c].m.head] # None /\ rd[c].cur = rd[c].m.ck
        /\ hist[rd[c].cur].packs \subseteq hist[rd[c].m.head].packs /\ hist[rd[c].m.ck].packs \subseteq rd[c].packs
        /\ rd[c].packs \cup hist[rd[c].cur].packs = hist[rd[c].m.head].packs \cup hist[rd[c].m.ck].packs
    BY <1>0, <2>1 DEF WalkTruth
  <2>3. rd[c].packs = hist[rd[c].m.head].packs
    BY <2>2
  <2> QED BY <2>1, <2>2, <2>3
<1>2. CASE ~(rd[c].packs \subseteq idxs) /\ Gone(c) /\ UNCHANGED view
  <2>1. rd[c].m # manifest
    <3> SUFFICES ASSUME rd[c].m = manifest PROVE FALSE
      OBVIOUS
    <3>1. rd[c].packs = CurrentState.packs
      BY <1>1 DEF CurrentState
    <3> QED BY <1>2, <3>1 DEF PacksInv
  <2> QED BY <1>0, <1>2, <2>1, GoneFault
<1>3. CASE /\ \E R \in Refs : view' = [view EXCEPT ![c] = [m |-> rd[c].m, packs |-> rd[c].packs, refs |-> R]]
           /\ Goto(c, rd[c].ret) /\ rd' = [rd EXCEPT ![c] = NoReading] /\ UNCHANGED <<op, corrupt>>
  <2>1. PICK R \in Refs : view' = [view EXCEPT ![c] = [m |-> rd[c].m, packs |-> rd[c].packs, refs |-> R]]
    BY <1>3
  <2>2. PICK v : v = [m |-> rd[c].m, packs |-> rd[c].packs, refs |-> R]
    OBVIOUS
  <2>3. view'[c] = v /\ v # None /\ v.m = rd[c].m /\ v.packs = rd[c].packs
    <3>1. rd[c].m \in Manifest /\ rd[c].packs \in SUBSET Pack
      BY <1>0, Numbers DEF Reading
    <3> QED BY <1>0, <2>1, <2>2, <3>1, NoneAssumption DEF View
  <2>4. ViewTag(c)' = rd[c].m /\ ViewObjects(c)' = UNION hist[rd[c].m.head].packs
    BY <1>1, <2>3 DEF ViewTag, ViewObjects
  <2>5. pc'[c] = rd[c].ret /\ rd'[c] = NoReading /\ op'[c] = op[c]
    BY <1>0, <1>3 DEF Goto
  <2>6. rd[c].ret \notin ReadLabels \cup PartLabels /\ rd[c].ret # "idle" /\ rd'[c].failed = None
    BY <1>0, <2>5 DEF AllReturns, RefreshReturns, ReadLabels, WalkLabels, PartLabels, NoReading
  <2>7. At(c)' = At(c) /\ cp'[c] = cp[c]
    BY <1>0, <2>5, <2>6 DEF At
  <2>8. ViewObjects(c) \subseteq ViewObjects(c)'
    <3>1. Head(ViewTag(c)) <= rd[c].m.head /\ Head(ViewTag(c)) \in 0..MaxSeq
      BY <1>0, Numbers DEF FaultInv
    <3>2. hist[Head(ViewTag(c))] # None /\ UNION hist[Head(ViewTag(c))].packs = ViewObjects(c)
      BY ViewIsGrown
    <3>3. Follows(hist[Head(ViewTag(c))], hist[rd[c].m.head])
      BY <1>1, <3>1, <3>2 DEF TimelyInv, TimelyBucket, GrowthInv
    <3> QED BY <2>4, <3>2, <3>3 DEF Follows
  <2>9. PICK b, g : b = op[c].base /\ g = cp[c].missingOn
    OBVIOUS
  <2>10. (At(c) = "reread" => Replaced(b)') /\ (g # None => Replaced(g)')
    BY <1>0, <2>9 DEF FaultInv, MovesOn
  <2>11. (At(c)' = "reread" => Replaced(op[c].base)') /\ (cp'[c].missingOn # None => Replaced(cp[c].missingOn)')
    BY <2>5, <2>7, <2>9, <2>10 DEF Replaced
  <2>12. FaultInv(c)'
    BY <1>0, <2>4, <2>5, <2>6, <2>7, <2>8, <2>11 DEF FaultInv, ReadLabels
  <2> QED BY <1>0, <1>3, <2>12, FaultStep
<1>4. [b \in Branch |-> IF rd[c].tail[b] = None THEN rd[c].refs[b] ELSE rd[c].tail[b]] \in Refs
  BY <1>0 DEF Reading, Refs
<1> QED BY <1>2, <1>3, <1>4 DEF GetIdx

-----------------------------------------------------------------------------
\* A client that reads objects, or is about to.
LEMMA FaultReads ==
    ASSUME FaultsInv, MovesOn, NEW c \in Client, Apart(c), corrupt' = corrupt, rd'[c].failed = None,
           pc'[c] \notin WalkLabels \cup PartLabels \cup {"plan", "reread"},
           cp'[c] = (IF pc'[c] = "idle" THEN NoCompacting ELSE cp[c]),
           At(c)' \in {"read", "reread"}, op'[c].todo \subseteq ViewObjects(c)',
           NEW b, b = op'[c].base, At(c)' = "reread" => Replaced(b)
    PROVE  FaultsInv'
<1>1. PICK g : g = cp[c].missingOn
  OBVIOUS
<1>2. cp'[c].missingOn \in {None, g} /\ (g # None => Replaced(g)') /\ (Replaced(b) => Replaced(b)')
  BY <1>1 DEF FaultsInv, FaultInv, MovesOn, NoCompacting
<1>3. (At(c)' = "reread" => Replaced(op[c].base)') /\ (cp'[c].missingOn # None => Replaced(cp[c].missingOn)')
  BY <1>2 DEF Replaced
<1>4. FaultInv(c)'
  BY <1>3 DEF FaultInv
<1> QED BY <1>4, FaultStep

\* fetch reads what the refs of its view reach, and that is in the view.
LEMMA FetchRefsFault ==
    ASSUME CompactionInv, TimelyInv, FaultsInv, MovesOn, NEW c \in Client, FetchRefs(c), KeepCompactVars
    PROVE  FaultsInv'
<1>0. /\ pc \in [Client -> Label] /\ rd \in [Client -> Reading] /\ op \in [Client -> Op]
      /\ Apart(c) /\ cp'[c] = (IF pc'[c] = "idle" THEN NoCompacting ELSE cp[c])
      /\ corrupt' = corrupt /\ view' = view /\ CallRefresh(c, "read")
  BY LocalFacts, WalFrame DEF TypeOK, Progress, Step, FetchStep, FetchRefs, historyVars
<1>1. pc'[c] = "getManifest" /\ rd'[c].ret = "read" /\ rd'[c].failed = None
  BY <1>0 DEF CallRefresh, Goto, NoReading
<1>2. PICK T : T = UNION {Ancestors[s] : s \in {ViewRefs(c)[b] : b \in Branch} \ {None}}
  OBVIOUS
<1>3. op'[c].todo = T
  <2>1. op' = [op EXCEPT ![c].todo = T, ![c].n = MaxRestarts]
    BY <1>2 DEF FetchRefs
  <2> QED BY <1>0, <2>1 DEF Op
<1>4. T \subseteq ViewObjects(c)
  <2>1. /\ hist[Head(ViewTag(c))] # None /\ hist[Head(ViewTag(c))].refs = ViewRefs(c)
        /\ UNION hist[Head(ViewTag(c))].packs = ViewObjects(c) /\ Head(ViewTag(c)) \in 0..MaxSeq
    BY ViewIsGrown, Numbers
  <2>2. Whole(hist[Head(ViewTag(c))])
    BY <2>1 DEF TimelyInv, TimelyBucket, GrowthInv
  <2>3. \A b \in Branch : ViewRefs(c)[b] # None => Ancestors[ViewRefs(c)[b]] \subseteq ViewObjects(c)
    BY <2>1, <2>2 DEF Whole
  <2> QED BY <1>2, <2>3
<1>5. ViewObjects(c)' = ViewObjects(c) /\ At(c)' = "read"
  BY <1>0, <1>1 DEF ViewObjects, At, ReadLabels
<1>6. PICK b : b = op'[c].base
  OBVIOUS
<1> QED BY <1>0, <1>1, <1>3, <1>4, <1>5, <1>6, FaultReads DEF WalkLabels, PartLabels

\* object_bytes: a body that is absent was deleted after the manifest moved on.
LEMMA ReadObjectFault ==
    ASSUME CompactionInv, TimelyInv, PacksInv, FaultsInv, MovesOn, NEW c \in Client, ReadObject(c), KeepCompactVars
    PROVE  FaultsInv'
<1>0. /\ pc \in [Client -> Label] /\ rd \in [Client -> Reading] /\ op \in [Client -> Op] /\ FaultInv(c) /\ view' = view
      /\ Apart(c) /\ cp'[c] = (IF pc'[c] = "idle" THEN NoCompacting ELSE cp[c])
      /\ pc[c] \in {"read", "reread"} /\ At(c) = pc[c] /\ rd[c] = NoReading
      /\ op[c].todo \subseteq ViewObjects(c) /\ ViewObjects(c)' = ViewObjects(c)
  <2>1. pc[c] \in {"read", "reread"} /\ pc[c] \notin ReadLabels /\ view' = view
    BY DEF ReadObject, ReadLabels, WalkLabels
  <2>2. rd[c] = NoReading /\ At(c) = pc[c]
    BY <2>1, LocalFacts DEF ClientOK, StepInv
  <2>3. op[c].todo \subseteq ViewObjects(c) /\ FaultInv(c)
    BY <2>1, <2>2 DEF FaultsInv, FaultInv
  <2>4. ViewObjects(c)' = ViewObjects(c)
    BY <2>1 DEF ViewObjects
  <2> QED BY <2>1, <2>2, <2>3, <2>4, LocalFacts, WalFrame DEF TypeOK, Progress, Step, FetchStep
<1>1. ASSUME NEW res, res # "corrupt", Return(c, res) PROVE FaultsInv'
  <2>1. Calm(c) /\ cp'[c].missingOn \in {None, cp[c].missingOn}
    BY <1>0, <1>1, CalmReturn DEF NoCompacting
  <2> QED BY <1>0, <2>1, CalmKeeps
<1>2. ASSUME NEW s \in op[c].todo, s \notin ViewObjects(c) PROVE FALSE
  BY <1>0, <1>2
<1>3. ASSUME NEW s, op' = [op EXCEPT ![c].todo = @ \ {s}, ![c].n = MaxRestarts], UNCHANGED <<pc, rd, corrupt>>,
             pc[c] = "read"
      PROVE  FaultsInv'
  <2>1. PICK T : T = op[c].todo \ {s} /\ op' = [op EXCEPT ![c].todo = T, ![c].n = MaxRestarts]
    BY <1>3
  <2>2. op'[c].todo \subseteq ViewObjects(c)
    BY <1>0, <2>1 DEF Op
  <2>3. At(c)' = "read" /\ pc'[c] = "read" /\ rd'[c].failed = None
    BY <1>0, <1>3 DEF At, ReadLabels, WalkLabels, NoReading
  <2>4. PICK b : b = op'[c].base
    OBVIOUS
  <2> QED BY <1>0, <1>3, <2>2, <2>3, <2>4, FaultReads DEF WalkLabels, PartLabels
<1>4. ASSUME NEW p, view[c] # None, p \in view[c].packs, p \notin bodies,
             NEW n, op' = [op EXCEPT ![c].n = n, ![c].base = ViewTag(c)], CallRefresh(c, "reread"), corrupt' = corrupt
      PROVE  FaultsInv'
  <2>1. PICK b : b = ViewTag(c)
    OBVIOUS
  <2>2. op'[c].base = b /\ op'[c].todo = op[c].todo
    BY <1>0, <1>4, <2>1 DEF Op
  <2>3. b # manifest
    BY <1>4, <2>1, ViewIsCurrent DEF PacksInv
  <2>4. b \in Manifest /\ Reaches(b, manifest)
    BY <1>4, <2>1, LocalFacts, ViewTags
  <2>5. Replaced(b)
    BY <2>3, <2>4, OvertakenIsReplaced
  <2>6. pc'[c] = "getManifest" /\ rd'[c].ret = "reread" /\ rd'[c].failed = None
    BY <1>0, <1>4 DEF CallRefresh, Goto, NoReading
  <2>7. At(c)' = "reread"
    BY <2>6 DEF At, ReadLabels
  <2> QED BY <1>0, <1>4, <2>2, <2>5, <2>6, <2>7, FaultReads DEF WalkLabels, PartLabels
<1>5. CASE pc[c] = "read" /\ LookUp(c)
  <2>1. CASE Return(c, "ok") \/ Return(c, "err")
    BY <1>1, <2>1
  <2>2. CASE ~Return(c, "ok") /\ ~Return(c, "err")
    <3>1. PICK s \in op[c].todo :
             \/ s \notin ViewObjects(c)
             \/ \E p \in (IF view[c] = None THEN {} ELSE view[c].packs) :
                  \/ /\ op' = [op EXCEPT ![c].todo = @ \ {s}, ![c].n = MaxRestarts]
                     /\ UNCHANGED <<pc, rd, corrupt>>
                  \/ /\ p \notin bodies
                     /\ op' = [op EXCEPT ![c].n = @ - 1, ![c].base = ViewTag(c)]
                     /\ CallRefresh(c, "reread") /\ UNCHANGED corrupt
      BY <1>5, <2>2 DEF LookUp
    <3>2. PICK p \in (IF view[c] = None THEN {} ELSE view[c].packs) :
                  \/ /\ op' = [op EXCEPT ![c].todo = @ \ {s}, ![c].n = MaxRestarts]
                     /\ UNCHANGED <<pc, rd, corrupt>>
                  \/ /\ p \notin bodies
                     /\ op' = [op EXCEPT ![c].n = @ - 1, ![c].base = ViewTag(c)]
                     /\ CallRefresh(c, "reread") /\ UNCHANGED corrupt
      BY <1>2, <3>1
    <3>3. view[c] # None /\ p \in view[c].packs
      BY <3>2
    <3>4. PICK n : n = op[c].n - 1
      OBVIOUS
    <3>5. \/ /\ op' = [op EXCEPT ![c].todo = @ \ {s}, ![c].n = MaxRestarts]
             /\ UNCHANGED <<pc, rd, corrupt>>
          \/ /\ p \notin bodies
             /\ op' = [op EXCEPT ![c].n = n, ![c].base = ViewTag(c)]
             /\ CallRefresh(c, "reread") /\ UNCHANGED corrupt
      BY <3>2, <3>4
    <3> QED BY <1>3, <1>4, <1>5, <3>3, <3>5
  <2> QED BY <2>1, <2>2
<1>6. CASE pc[c] = "reread" /\ Restart(c)
  <2>1. ViewTag(c) # op[c].base
    BY <1>0, <1>6 DEF FaultInv
  <2>2. op' = [op EXCEPT ![c].base = None] /\ Goto(c, "read") /\ UNCHANGED <<rd, corrupt>>
    BY <1>6, <2>1 DEF Restart
  <2>3. op'[c].todo = op[c].todo /\ pc'[c] = "read" /\ rd'[c].failed = None
    BY <1>0, <2>2 DEF Op, Goto, NoReading
  <2>4. At(c)' = "read"
    BY <2>3 DEF At, ReadLabels, WalkLabels
  <2>5. PICK b : b = op'[c].base
    OBVIOUS
  <2> QED BY <1>0, <2>2, <2>3, <2>4, <2>5, FaultReads DEF WalkLabels, PartLabels
<1> QED BY <1>5, <1>6 DEF ReadObject

\* The steps of BucketWal, taken beside a compactor.
LEMMA WalFault ==
    ASSUME CompactionInv, TimelyInv, PacksInv, FaultsInv, MovesOn,
           NEW c \in Client, BeginPush(c) \/ BeginFetch(c) \/ Progress(c), KeepCompactVars
    PROVE  FaultsInv'
<1>1. CASE BeginPush(c) \/ BeginFetch(c) \/ PushStep(c) \/ Fail(c) \/ Reopen(c)
  <2>1. Calm(c) /\ Apart(c) /\ cp'[c] = (IF pc'[c] = "idle" THEN NoCompacting ELSE cp[c])
    BY <1>1, WalCalm, WalFrame
  <2>2. cp'[c].missingOn \in {None, cp[c].missingOn}
    BY <2>1 DEF NoCompacting
  <2> QED BY <2>1, <2>2, CalmKeeps
<1>2. CASE RefreshStep(c)
  BY <1>2, GetManifestFault, GetCheckpointFault, GetLogFault, GetIdxFault DEF RefreshStep
<1>3. CASE FetchStep(c)
  BY <1>3, FetchRefsFault, ReadObjectFault DEF FetchStep
<1> QED BY <1>1, <1>2, <1>3 DEF Progress, Step

-----------------------------------------------------------------------------
\* Neither does compact, but while it merges.
LEMMA CalmSweep ==
    ASSUME CompactionInv, NEW c \in Client, CallSweep(c) \/ Replan(c, cp[c].missingOn), corrupt' = corrupt
    PROVE  Calm(c) /\ cp'[c].missingOn \in {None, cp[c].missingOn}
<1>0. cp \in [Client -> Compacting]
  BY LocalFacts
<1>1. \E lbl \in {"sweepList", "plan"} : CallRefresh(c, lbl)
  BY DEF CallSweep, Replan
<1>2. Calm(c)
  BY <1>1, CalmRefresh
<1>3. CallSweep(c) => cp'[c].missingOn = None
  BY <1>0 DEF CallSweep, NoCompacting
<1>4. Replan(c, cp[c].missingOn) => CallSweep(c) \/ cp'[c].missingOn = cp[c].missingOn
  BY <1>0 DEF Replan, NoCompacting
<1> QED BY <1>2, <1>3, <1>4

LEMMA CompactCalm ==
    ASSUME CompactionInv, NEW c \in Client,
           \/ BeginCompact(c) \/ Compact(c) \/ Fence(c) \/ MergeClaim(c) \/ PutCheckpoint(c) \/ MergeEnsure(c)
           \/ MergeCas(c) \/ MergeDone(c) \/ SweepStep(c)
    PROVE  Calm(c) /\ cp'[c].missingOn \in {None, cp[c].missingOn}
<1> DEFINE Same == cp'[c].missingOn \in {None, cp[c].missingOn}
<1>0. pc \in [Client -> Label] /\ cp \in [Client -> Compacting] /\ NoCompacting.missingOn = None
  BY LocalFacts DEF NoCompacting
<1>1. ASSUME NEW lbl \in {"mergeClaim", "putCheckpoint", "mergeEnsure", "mergeCas", "sweepDelete", "sweepIdx", "sweepBody"},
             Goto(c, lbl) \/ (pc' = pc /\ pc[c] = lbl), rd' = rd, corrupt' = corrupt, pc[c] \notin ReadLabels
      PROVE  Calm(c)
  <2>1. pc'[c] = lbl
    BY <1>0, <1>1 DEF Goto
  <2> QED BY <1>1, <2>1, CalmGo DEF ReadLabels, WalkLabels, PartLabels
<1>2. ASSUME NEW res, res # "corrupt", Return(c, res) PROVE Calm(c)
  BY <1>2, CalmReturn
<1>3. KeepCompactVars => Same
  <2> SUFFICES ASSUME KeepCompactVars PROVE Same
    OBVIOUS
  <2>1. cp'[c] = cp[c] \/ cp'[c] = NoCompacting
    BY <1>0 DEF KeepCompactVars, compactVars
  <2> QED BY <1>0, <2>1
<1>4. CASE BeginCompact(c) \/ Compact(c) \/ MergeDone(c)
  <2>1. /\ corrupt' = corrupt
        /\ CallSweep(c) \/ (cp' = cp /\ \E lbl \in {"compact", "plan"} : CallRefresh(c, lbl))
    BY <1>4 DEF BeginCompact, Compact, MergeDone, historyVars, compactVars
  <2> QED BY <2>1, CalmSweep, CalmRefresh
<1>5. CASE Fence(c)
  <2>1. /\ corrupt' = corrupt /\ pc[c] = "fence"
        /\ \/ CallSweep(c) \/ Replan(c, cp[c].missingOn)
           \/ Goto(c, "mergeClaim") /\ rd' = rd /\ \E k : cp' = [cp EXCEPT ![c].kept = k]
    BY <1>5 DEF Fence, historyVars
  <2>2. ASSUME NEW k, cp' = [cp EXCEPT ![c].kept = k] PROVE Same
    BY <1>0, <2>2 DEF Compacting
  <2> QED BY <1>1, <2>1, <2>2, CalmSweep DEF ReadLabels, WalkLabels
<1>6. CASE MergeClaim(c) \/ MergeEnsure(c)
  <2>1. /\ pc[c] \in {"mergeClaim", "mergeEnsure"} /\ KeepCompactVars
        /\ \/ Return(c, "err")
           \/ rd' = rd /\ corrupt' = corrupt /\ (pc' = pc \/ Goto(c, "putCheckpoint") \/ Goto(c, "mergeCas"))
    BY <1>6 DEF MergeClaim, ClaimSlot, MergeEnsure, EnsurePacksPresent
  <2> QED BY <1>1, <1>2, <1>3, <2>1 DEF ReadLabels, WalkLabels
<1>7. CASE PutCheckpoint(c)
  <2>1. /\ pc[c] = "putCheckpoint" /\ corrupt' = corrupt
        /\ Replan(c, cp[c].missingOn) \/ (Goto(c, "mergeEnsure") /\ rd' = rd /\ cp' = cp)
    BY <1>7 DEF PutCheckpoint
  <2> QED BY <1>1, <2>1, CalmSweep DEF ReadLabels, WalkLabels
<1>8. CASE MergeCas(c)
  <2>1. corrupt' = corrupt /\ (Replan(c, cp[c].missingOn) \/ (CallRefresh(c, "merged") /\ cp' = cp))
    BY <1>8 DEF MergeCas
  <2> QED BY <2>1, CalmSweep, CalmRefresh
<1>9. CASE SweepList(c)
  <2>1. pc[c] = "sweepList" /\ Goto(c, "sweepDelete") /\ UNCHANGED <<rd, corrupt>>
    BY <1>9, ZenonT(30) DEF SweepList, historyVars
  <2>2. PICK L, K, P : cp' = [cp EXCEPT ![c].logs = L, ![c].ckpts = K, ![c].packs = P]
    BY <1>9 DEF SweepList
  <2>3. Same
    BY <1>0, <2>2 DEF Compacting
  <2> QED BY <1>1, <2>1, <2>3 DEF ReadLabels, WalkLabels
<1>10. CASE SweepDelete(c)
  <2>1. PICK s, t : s = Smallest(cp[c].logs) /\ t = Smallest(cp[c].ckpts)
    OBVIOUS
  <2>2. /\ pc[c] = "sweepDelete"
        /\ \/ UNCHANGED <<pc, rd, corrupt>> /\ cp' = [cp EXCEPT ![c].logs = @ \ {s}]
           \/ UNCHANGED <<pc, rd, corrupt>> /\ cp' = [cp EXCEPT ![c].ckpts = @ \ {t}]
           \/ /\ cp' = [cp EXCEPT ![c].left = PackDeleteBatch]
              /\ Goto(c, "sweepIdx") /\ UNCHANGED <<rd, corrupt>>
           \/ cp' = [cp EXCEPT ![c].packs = {}] /\ CallRefresh(c, "sweepList") /\ UNCHANGED corrupt
           \/ cp' = [cp EXCEPT ![c] = NoCompacting] /\ Return(c, "ok")
    BY <1>10, <2>1, ZenonT(30) DEF SweepDelete
  <2>3. Same
    <3>1. PICK S, T : S = cp[c].logs \ {s} /\ T = cp[c].ckpts \ {t}
      OBVIOUS
    <3>2. \/ cp' = [cp EXCEPT ![c].logs = S] \/ cp' = [cp EXCEPT ![c].ckpts = T]
          \/ cp' = [cp EXCEPT ![c].left = PackDeleteBatch] \/ cp' = [cp EXCEPT ![c].packs = {}]
          \/ cp' = [cp EXCEPT ![c] = NoCompacting]
      BY <2>2, <3>1
    <3> QED BY <1>0, <3>2 DEF Compacting
  <2>4. Calm(c)
    BY <1>1, <1>2, <2>2, CalmRefresh DEF ReadLabels, WalkLabels
  <2> QED BY <2>3, <2>4
<1>11. CASE SweepIdx(c)
  <2>1. /\ pc[c] = "sweepIdx"
        /\ \/ cp' = cp /\ Goto(c, "sweepBody") /\ UNCHANGED <<rd, corrupt>>
           \/ cp' = [cp EXCEPT ![c].left = PackDeleteBatch] /\ UNCHANGED <<pc, rd, corrupt>>
           \/ cp' = [cp EXCEPT ![c] = NoCompacting] /\ Return(c, "ok")
    BY <1>11, ZenonT(30) DEF SweepIdx
  <2>2. Same
    BY <1>0, <2>1 DEF Compacting
  <2>3. Calm(c)
    BY <1>1, <1>2, <2>1 DEF ReadLabels, WalkLabels
  <2> QED BY <2>2, <2>3
<1>12. CASE SweepBody(c)
  <2>1. pc[c] = "sweepBody" /\ Goto(c, "sweepIdx") /\ UNCHANGED <<rd, corrupt>>
    BY <1>12, ZenonT(30) DEF SweepBody, historyVars
  <2>2. PICK l, P : cp' = [cp EXCEPT ![c].packs = P, ![c].left = l]
    BY <1>12 DEF SweepBody
  <2>3. Same
    BY <1>0, <2>2 DEF Compacting
  <2> QED BY <1>1, <2>1, <2>3 DEF ReadLabels, WalkLabels
<1> QED BY <1>4, <1>5, <1>6, <1>7, <1>8, <1>9, <1>10, <1>11, <1>12 DEF SweepStep

\* While it merges, the view it plans from is not the one under which something was
\* missing, and what it merges is in the list of that view.
LEMMA PartFault ==
    ASSUME FaultsInv, MovesOn, NEW c \in Client, Apart(c), corrupt' = corrupt, rd'[c].failed = None,
           pc'[c] \in PartLabels, view' = view, cp'[c].missingOn = cp[c].missingOn,
           ViewTag(c) # cp[c].missingOn, UNION cp'[c].parts \subseteq view[c].packs, cp'[c].todo \subseteq cp'[c].parts
    PROVE  FaultsInv'
<1>1. /\ pc'[c] \notin WalkLabels \cup {"reread"} /\ At(c)' \notin {"read", "reread"}
      /\ ViewTag(c)' = ViewTag(c)
  BY DEF PartLabels, At, ReadLabels, WalkLabels, ViewTag
<1>2. cp'[c].missingOn # None => Replaced(cp[c].missingOn)'
  <2>1. PICK g : g = cp[c].missingOn
    OBVIOUS
  <2>2. cp'[c].missingOn # None => Replaced(g)' /\ cp'[c].missingOn = g
    BY <2>1 DEF FaultsInv, FaultInv, MovesOn
  <2> QED BY <2>2 DEF Replaced
<1>3. FaultInv(c)'
  BY <1>1, <1>2 DEF FaultInv
<1> QED BY <1>3, FaultStep

\* plan_groups: parts of the packs the view lists.
LEMMA PlanFault ==
    ASSUME CompactionInv, FaultsInv, MovesOn, NEW c \in Client, Plan(c)
    PROVE  FaultsInv'
<1>0. /\ pc[c] = "plan" /\ pc \in [Client -> Label] /\ cp \in [Client -> Compacting] /\ Apart(c)
      /\ corrupt' = corrupt /\ view' = view /\ pc[c] \notin ReadLabels
  BY LocalFacts, CompactFrame DEF ConsolidateStep, Plan, historyVars, ReadLabels, WalkLabels
<1>1. CASE CallSweep(c)
  <2>1. Calm(c) /\ cp'[c].missingOn \in {None, cp[c].missingOn}
    BY <1>0, <1>1, CalmSweep
  <2> QED BY <1>0, <2>1, CalmKeeps
<1>2. CASE ~CallSweep(c)
  <2>1. PICK gs \in Groupings(view[c].packs \cap bodies) :
           cp' = [cp EXCEPT ![c].parts = gs, ![c].todo = gs] /\ Goto(c, "readMembers") /\ rd' = rd
    BY <1>2 DEF Plan
  <2>2. UNION gs \subseteq view[c].packs
    BY <2>1 DEF Groupings
  <2>3. pc'[c] = "readMembers" /\ cp'[c].parts = gs /\ cp'[c].todo = gs /\ cp'[c].missingOn = cp[c].missingOn
    BY <1>0, <2>1 DEF Goto, Compacting
  <2>4. rd'[c].failed = None
    BY <1>0, <2>1, LocalFacts DEF ClientOK, StepInv, NoReading
  <2>5. ViewTag(c) # cp[c].missingOn
    BY <1>0 DEF FaultsInv, FaultInv
  <2> QED BY <1>0, <2>2, <2>3, <2>4, <2>5, PartFault DEF PartLabels
<1> QED BY <1>1, <1>2

\* The pack and then its idx are uploaded.
LEMMA MergeUpFault ==
    ASSUME CompactionInv, FaultsInv, MovesOn, NEW c \in Client, MergePut(c) \/ MergeIdx(c)
    PROVE  FaultsInv'
<1>1. /\ pc[c] \in PartLabels /\ pc[c] \notin ReadLabels /\ pc'[c] \in PartLabels
      /\ corrupt' = corrupt /\ view' = view /\ cp' = cp /\ rd' = rd /\ Apart(c)
  BY LocalFacts, CompactFrame
     DEF ConsolidateStep, MergePut, MergeIdx, Goto, PartLabels, ReadLabels, WalkLabels, historyVars, compactVars
<1>2. rd'[c].failed = None
  BY <1>1, LocalFacts DEF ClientOK, StepInv, NoReading
<1>3. ViewTag(c) # cp[c].missingOn /\ UNION cp[c].parts \subseteq view[c].packs /\ cp[c].todo \subseteq cp[c].parts
  BY <1>1 DEF FaultsInv, FaultInv
<1> QED BY <1>1, <1>2, <1>3, PartFault

\* consolidate: a member that is absent was deleted after the manifest moved on.
LEMMA ReadMembersFault ==
    ASSUME CompactionInv, TimelyInv, PacksInv, FaultsInv, MovesOn, NEW c \in Client, ReadMembers(c)
    PROVE  FaultsInv'
<1>0. /\ pc[c] = "readMembers" /\ pc \in [Client -> Label] /\ cp \in [Client -> Compacting] /\ op \in [Client -> Op]
      /\ rd \in [Client -> Reading] /\ Apart(c) /\ view' = view /\ pc[c] \notin ReadLabels /\ pc[c] \in PartLabels
      /\ pc[c] \in MergeLabels
  BY LocalFacts, CompactFrame DEF ConsolidateStep, ReadMembers, ReadLabels, WalkLabels, PartLabels, MergeLabels, TypeOK
<1>1. /\ view[c] # None /\ rd[c] = NoReading /\ ViewTag(c) = view[c].m /\ view[c].m \in Manifest
      /\ Reaches(view[c].m, manifest)
  BY <1>0, LocalFacts, ViewTags DEF ClientOK, StepInv
<1>2. view[c].m # cp[c].missingOn /\ UNION cp[c].parts \subseteq view[c].packs /\ cp[c].todo \subseteq cp[c].parts
  BY <1>0, <1>1 DEF FaultsInv, FaultInv
<1>3. CASE CallRefresh(c, "fence") /\ UNCHANGED <<op, corrupt, cp>>
  <2>1. Calm(c)
    BY <1>3, CalmRefresh
  <2> QED BY <1>0, <1>3, <2>1, CalmKeeps
<1>4. ASSUME NEW g \in cp[c].todo, cp' = [cp EXCEPT ![c].todo = @ \ {g}], Goto(c, "mergePut"), UNCHANGED <<rd, corrupt>>
      PROVE  FaultsInv'
  <2>1. /\ pc'[c] = "mergePut" /\ cp'[c].parts = cp[c].parts /\ cp'[c].todo = cp[c].todo \ {g}
        /\ cp'[c].missingOn = cp[c].missingOn
    BY <1>0, <1>4 DEF Goto, Compacting
  <2>2. rd'[c].failed = None
    BY <1>1, <1>4 DEF NoReading
  <2>3. UNION cp'[c].parts \subseteq view[c].packs /\ cp'[c].todo \subseteq cp'[c].parts
    BY <1>2, <2>1
  <2> QED BY <1>0, <1>1, <1>2, <1>4, <2>1, <2>2, <2>3, PartFault DEF PartLabels
<1>5. ASSUME NEW g \in cp[c].todo, ~(g \subseteq bodies), Replan(c, view[c].m), UNCHANGED corrupt
      PROVE  FaultsInv'
  <2>1. ~(view[c].packs \subseteq bodies)
    BY <1>2, <1>5
  <2>2. view[c].m # manifest
    BY <1>1, <2>1, ViewIsCurrent DEF PacksInv
  <2>3. PICK m : m = view[c].m
    OBVIOUS
  <2>4. Replaced(m)
    BY <1>1, <2>2, <2>3, OvertakenIsReplaced
  <2>5. Replaced(m)'
    BY <2>4 DEF MovesOn
  <2>6. CASE CallSweep(c)
    <3>1. Calm(c) /\ cp'[c].missingOn \in {None, cp[c].missingOn}
      BY <1>5, <2>6, CalmSweep
    <3> QED BY <1>0, <3>1, CalmKeeps
  <2>7. CASE /\ cp' = [cp EXCEPT ![c] = [NoCompacting EXCEPT !.missingOn = view[c].m]]
             /\ CallRefresh(c, "plan")
    <3>1. cp'[c].missingOn = m
      BY <1>0, <2>3, <2>7 DEF NoCompacting
    <3>2. pc'[c] = "getManifest" /\ rd'[c].ret = "plan" /\ rd'[c].failed = None
      BY <1>0, <2>7 DEF CallRefresh, Goto, NoReading
    <3>3. At(c)' = "plan" /\ pc'[c] \notin WalkLabels \cup PartLabels \cup {"plan", "reread"}
      BY <3>2 DEF At, ReadLabels, WalkLabels, PartLabels
    <3>4. Replaced(cp[c].missingOn)'
      BY <2>5, <3>1 DEF Replaced
    <3>5. FaultInv(c)'
      BY <3>2, <3>3, <3>4 DEF FaultInv
    <3> QED BY <1>0, <1>5, <3>5, FaultStep
  <2> QED BY <1>5, <2>6, <2>7 DEF Replan
<1> QED BY <1>2, <1>3, <1>4, <1>5 DEF ReadMembers

-----------------------------------------------------------------------------
\* Time passes, or nothing happens.
LEMMA StillFault ==
    ASSUME FaultsInv, UNCHANGED <<manifest, pc, view, rd, op, cp, corrupt>> PROVE FaultsInv'
<1>1. ASSUME NEW c \in Client PROVE FaultInv(c)'
  <2>1. FaultInv(c) /\ At(c)' = At(c) /\ ViewTag(c)' = ViewTag(c) /\ ViewObjects(c)' = ViewObjects(c)
        /\ Head(ViewTag(c))' = Head(ViewTag(c))
    BY DEF FaultsInv, At, ViewTag, ViewObjects, Head
  <2>2. \A m : Replaced(m)' = Replaced(m)
    BY DEF Replaced
  <2> QED BY <2>1, <2>2 DEF FaultInv, Replaced
<1> QED BY <1>1 DEF FaultsInv

\* Every step of everyone keeps the invariant.
LEMMA FaultNextKeeps ==
    ASSUME CompactionInv, CompactionInv', TimelyInv, PacksInv, FaultsInv, [CompactionNext]_allVars
    PROVE  FaultsInv'
<1>0. MovesOn
  <2>1. CompactionNext \/ UNCHANGED manifest
    BY DEF allVars, vars, bucketVars
  <2> QED BY <2>1, StaysReplaced
<1>1. CASE UNCHANGED allVars
  BY <1>1, StillFault DEF allVars, compactVars, vars, bucketVars, sessionVars, historyVars
<1>2. ASSUME NEW c \in Client, BeginPush(c) \/ BeginFetch(c) \/ Progress(c), KeepCompactVars PROVE FaultsInv'
  BY <1>0, <1>2, WalFault
<1>3. ASSUME NEW c \in Client, BeginCompact(c) \/ ConsolidateStep(c) \/ SweepStep(c) PROVE FaultsInv'
  <2>1. CASE Plan(c)
    BY <1>0, <2>1, PlanFault
  <2>2. CASE ReadMembers(c)
    BY <1>0, <2>2, ReadMembersFault
  <2>3. CASE MergePut(c) \/ MergeIdx(c)
    BY <1>0, <2>3, MergeUpFault
  <2>4. CASE \/ BeginCompact(c) \/ Compact(c) \/ Fence(c) \/ MergeClaim(c) \/ PutCheckpoint(c) \/ MergeEnsure(c)
             \/ MergeCas(c) \/ MergeDone(c) \/ SweepStep(c)
    <3>1. Calm(c) /\ cp'[c].missingOn \in {None, cp[c].missingOn}
      BY <2>4, CompactCalm
    <3>2. Apart(c)
      BY <1>3, CompactFrame
    <3> QED BY <1>0, <3>1, <3>2, CalmKeeps
  <2> QED BY <1>3, <2>1, <2>2, <2>3, <2>4 DEF ConsolidateStep
<1>4. CASE GraceElapses
  BY <1>4, StillFault DEF GraceElapses, vars, bucketVars, sessionVars, historyVars
<1>5. Pusher \subseteq Client /\ Compactor \subseteq Client
  BY CompactionAssumption
<1> QED BY <1>1, <1>2, <1>3, <1>4, <1>5 DEF CompactionNext

\* It holds at first.
LEMMA FaultBegins == CompactionInit => FaultsInv
<1> SUFFICES ASSUME CompactionInit PROVE FaultsInv
  OBVIOUS
<1>1. /\ corrupt = {}
      /\ \A c \in Client : pc[c] = "idle" /\ rd[c] = NoReading /\ cp[c] = NoCompacting
  BY DEF CompactionInit, Init
<1>2. ASSUME NEW c \in Client PROVE FaultInv(c)
  <2>1. At(c) = "idle" /\ rd[c].failed = None /\ cp[c].missingOn = None /\ pc[c] = "idle"
    BY <1>1 DEF At, ReadLabels, WalkLabels, NoReading, NoCompacting
  <2> QED BY <2>1 DEF FaultInv, WalkLabels, PartLabels
<1> QED BY <1>1, <1>2 DEF FaultsInv

LEMMA AlwaysFaultsInv ==
    ASSUME "timely" \in Environment, "fresh" \in Environment PROVE CompactionSpec => []FaultsInv
<1>1. CompactionInv /\ CompactionInv' /\ TimelyInv /\ PacksInv /\ FaultsInv /\ [CompactionNext]_allVars => FaultsInv'
  BY FaultNextKeeps
<1> QED BY <1>1, FaultBegins, AlwaysCompactionInv, AlwaysTimelyInv, AlwaysPacksInv, PTL DEF CompactionSpec

\* And no reader and no compactor reports a damaged bucket: a record or a pack that is
\* absent was retired after the manifest moved on, and the second look, under the
\* manifest of that moment, is not for the same one (refresh, object_bytes, consolidate).
THEOREM CompactionNeverLooksCorrupt ==
    ASSUME "timely" \in Environment, "fresh" \in Environment PROVE CompactionSpec => []NoFalseCorruption
<1>1. FaultsInv => NoFalseCorruption
  BY DEF FaultsInv, NoFalseCorruption
<1> QED BY <1>1, AlwaysFaultsInv, PTL
=============================================================================
