-------------------------- MODULE BucketWalProofs --------------------------
(***************************************************************************)
(* Proofs about BucketWal, for any number of clients, branches, snapshots, *)
(* log slots, retries and lost responses: the invariant Inv, what follows  *)
(* from it, and the refinement of RemoteRefs.                              *)
(***************************************************************************)
EXTENDS BucketWal, TLAPS

RefreshReturns == {"listed", "probe", "attempt", "foldPut", "done",
                   "fetchRefs", "read", "reread"}

\* Where a client is in its call: a refresh counts as the label it returns to.
At(c) == IF pc[c] \in ReadLabels THEN rd[c].ret ELSE pc[c]

-----------------------------------------------------------------------------
(* The inductive invariant: what holds of the bucket and its history, and    *)
(* what each client may rely on at each of its labels.                       *)

Objects == UNION CurrentState.packs

\* s is the tip of branch b or behind it.
OnBranch(b, s) == CurrentState.refs[b] # None /\ s \in Ancestors[CurrentState.refs[b]]

\* Committed log entries form a tree of states rooted in the empty one, and a
\* checkpoint is the state of the entry it is named after.
ChainInv ==
    /\ hist[0] = [refs |-> NoRefs, packs |-> {}]
    /\ \A s \in Slot : log[s] # None => log[s].branch \in Branch /\ log[s].new \in Snapshot
    /\ \A s \in Slot : hist[s] # None =>
          /\ log[s] # None
          /\ hist[log[s].parent] # None
          /\ hist[s] = Extend(hist[log[s].parent], log[s])
    /\ \A s \in Slot : ckpt[s] # None => hist[s] # None /\ ckpt[s] = hist[s]

GoodManifest(m) == hist[m.head] # None /\ (m.ck # 0 => ckpt[m.ck] # None)

\* The current state has grown out of every committed one.
CurrentInv ==
    /\ manifest # None => GoodManifest(manifest)
    /\ \A s \in 0..MaxSeq : hist[s] # None =>
          /\ hist[s].packs \subseteq CurrentState.packs
          /\ \A b \in Branch : hist[s].refs[b] # None => OnBranch(b, hist[s].refs[b])

\* A log slot that waits for its commit belongs to one client.
SlotsInv ==
    \A c, d \in Client :
        c # d /\ pc[c] \in {"ensure", "cas"} /\ pc[d] \in {"ensure", "cas"} => op[c].seq # op[d].seq

ControlInv(c) ==
    /\ pc[c] \in Label \ CompactLabels
    /\ pc[c] \in ReadLabels => rd[c].ret \in RefreshReturns
    /\ pc[c] \notin ReadLabels => rd[c] = NoReading
    /\ At(c) \in {"listed"} \cup CommitLabels \cup LandedLabels =>
          op[c].branch \in Branch /\ op[c].new \in Snapshot

\* The walk of refresh_once: what has been read, completed by the state of
\* the entry to be read next, is the state the manifest stands for.
WalkInv(c) ==
    LET r == rd[c] IN
    /\ pc[c] \in WalkLabels => r.m \in Manifest /\ GoodManifest(r.m)
    /\ pc[c] = "getCheckpoint" =>
          r.m.ck # 0 /\ r.cur = r.m.head /\ r.tail = NoRefs /\ r.packs = {}
    /\ pc[c] \in {"getLog", "getIdx"} =>
          /\ hist[r.cur] # None /\ hist[r.cur].packs \subseteq hist[r.m.head].packs
          /\ r.refs = hist[r.m.ck].refs
          /\ hist[r.m.ck].packs \subseteq r.packs
          /\ r.packs \cup hist[r.cur].packs = hist[r.m.head].packs \cup hist[r.m.ck].packs
          /\ \A b \in Branch : hist[r.m.head].refs[b] =
                IF r.tail[b] = None THEN hist[r.cur].refs[b] ELSE r.tail[b]
    /\ pc[c] = "getIdx" => r.cur = r.m.ck

ViewInv(c) ==
    view[c] # None =>
        /\ hist[view[c].m.head] # None
        /\ view[c].refs = hist[view[c].m.head].refs
        /\ view[c].packs = hist[view[c].m.head].packs

\* A push has a place for everything its tip reaches: in the bucket, or in
\* what it is about to hand over.
HandOverInv(c) ==
    LET o == op[c]  Needs(S) == Ancestors[o.new] \subseteq S \cup Objects IN
    /\ At(c) = "probe" => o.todo # {} /\ Needs(o.todo \cup o.send)
    /\ At(c) = "upload" => Needs(o.send)
    /\ At(c) \in {"putPack", "putIdx"} => Needs(o.send \cup staged[c] \cup UNION pending[c])
    /\ At(c) = "updateRef" => Needs(staged[c] \cup UNION pending[c])
    /\ At(c) \in {"attempt", "claim", "ensure", "cas"} => Needs(UNION o.pend)

PushInv(c) ==
    /\ pending[c] \subseteq bodies \cap idxs /\ op[c].pend \subseteq bodies \cap idxs
    /\ pc[c] = "putIdx" => op[c].send \in bodies
    /\ At(c) \in CommitLabels => (op[c].old # None => op[c].old \in Ancestors[op[c].new])
    /\ pc[c] \in {"claim", "ensure", "cas"} =>
          /\ Head(op[c].base) < op[c].seq
          /\ hist[Head(op[c].base)] # None
          /\ op[c].old = hist[Head(op[c].base)].refs[op[c].branch]
    /\ pc[c] \in {"ensure", "cas"} =>
          op[c].seq \in Slot /\ log[op[c].seq] = Entry(c) /\ hist[op[c].seq] = None
    /\ At(c) \in LandedLabels => OnBranch(op[c].branch, op[c].new)
    /\ pc[c] = "foldCas" =>
          view[c] # None /\ view[c].m.ck < view[c].m.head /\ ckpt[view[c].m.head] # None

ClientInv(c) == ControlInv(c) /\ WalkInv(c) /\ ViewInv(c) /\ HandOverInv(c) /\ PushInv(c)

BucketInv == ChainInv /\ CurrentInv /\ RefsReadable /\ AckedIsDurable /\ SlotsInv

Inv == TypeOK /\ BucketInv /\ \A c \in Client : ClientInv(c)

-----------------------------------------------------------------------------
(* Facts about the values and the frame of a step *)

\* The initial values are values of their sets.
LEMMA NoValues == NoRefs \in Refs /\ NoReading \in Reading /\ NoOp \in Op
<1>1. NoRefs \in Refs
  BY DEF NoRefs, Refs, Tip
<1>2. NoReading \in Reading
  BY <1>1, WalAssumption DEF NoReading, Reading, Label
<1>3. NoOp \in Op
  <2>1. 0 \in 0..(MaxSeq + 1)
    BY WalAssumption
  <2> QED BY <2>1 DEF NoOp, Op, Tip
<1> QED BY <1>1, <1>2, <1>3

\* Every label a step of BucketWal names is a label.
LEMMA Labels ==
    /\ {"idle", "listed", "getManifest", "getCheckpoint", "getLog", "getIdx"} \subseteq Label
    /\ CommitLabels \subseteq Label /\ LandedLabels \subseteq Label /\ FetchLabels \subseteq Label
    /\ RefreshReturns \subseteq Label
BY DEF Label, ReadLabels, WalkLabels, CommitLabels, LandedLabels, FetchLabels, RefreshReturns

\* What a step of client c leaves of the locals of the others.
Local(c) == <<pc[c], view[c], rd[c], op[c], pending[c], staged[c]>>
Others(c) == \A d \in Client : d # c => Local(d)' = Local(d)

\* What the others may rely on: nothing committed changes, nothing uploaded
\* goes, branches move forward.
Grows ==
    /\ \A s \in 0..MaxSeq : hist[s] # None => hist'[s] = hist[s]
    /\ \A s \in Slot : log[s] # None => log'[s] = log[s]
    /\ \A s \in Slot : ckpt[s] # None => ckpt'[s] = ckpt[s]
    /\ bodies \subseteq bodies' /\ idxs \subseteq idxs'
    /\ Objects \subseteq Objects'
    /\ \A b \in Branch, s \in Snapshot : OnBranch(b, s) => OnBranch(b, s)'

\* The slots and manifests a client holds are in range.
LEMMA Ranges ==
    ASSUME TypeOK, NEW c \in Client
    PROVE  /\ view[c] # None => view[c].m \in Manifest /\ view[c].m.head \in Slot /\ view[c].m.ck \in 0..MaxSeq
           /\ rd[c].m \in Manifest => rd[c].m.head \in Slot /\ rd[c].m.ck \in 0..MaxSeq
           /\ rd[c].cur \in 0..MaxSeq
           /\ Head(op[c].base) \in 0..MaxSeq /\ op[c].seq \in 0..(MaxSeq + 1)
           /\ \A s \in Slot : s \in 0..MaxSeq /\ s # 0
           /\ 0 \in 0..MaxSeq /\ \A s \in 0..MaxSeq : s # 0 => s \in Slot
<1>1. view[c] # None => view[c].m \in Manifest /\ view[c].m.head \in Slot /\ view[c].m.ck \in 0..MaxSeq
  BY DEF TypeOK, View, Manifest
<1>2. rd[c].m \in Manifest => rd[c].m.head \in Slot /\ rd[c].m.ck \in 0..MaxSeq
  BY DEF Manifest
<1>3. rd[c].cur \in 0..MaxSeq
  BY DEF TypeOK, Reading
<1>4. Head(op[c].base) \in 0..MaxSeq /\ op[c].seq \in 0..(MaxSeq + 1)
  BY WalAssumption DEF TypeOK, Op, Manifest, Head, Slot
<1> QED BY <1>1, <1>2, <1>3, <1>4, WalAssumption DEF Slot

\* A prepared entry is not None: a claimed slot is seen as taken.
LEMMA EntryIsNotNone ==
    ASSUME TypeOK, NEW c \in Client PROVE Entry(c) \in LogEntry /\ Entry(c) # None
<1>1. Head(op[c].base) \in 0..MaxSeq
  BY Ranges
<1>2. Entry(c) \in LogEntry
  BY <1>1 DEF TypeOK, Op, Entry, LogEntry
<1> QED BY <1>2, NoneAssumption

\* A step of another client keeps a client's invariant.
LEMMA ClientFrame ==
    ASSUME TypeOK, ChainInv, NEW c \in Client, NEW d \in Client, d # c, Others(c), Grows, ClientInv(d),
           pc[d] \in {"ensure", "cas"} => hist'[op[d].seq] = None
    PROVE  ClientInv(d)'
<1>1. /\ pc'[d] = pc[d] /\ view'[d] = view[d] /\ rd'[d] = rd[d] /\ op'[d] = op[d]
      /\ pending'[d] = pending[d] /\ staged'[d] = staged[d]
  BY DEF Others, Local
<1>2. At(d)' = At(d) /\ (Head(op[d].base))' = Head(op[d].base) /\ Entry(d)' = Entry(d)
  BY <1>1 DEF At, Head, Entry
<1>3. ControlInv(d)'
  BY <1>1, <1>2 DEF ClientInv, ControlInv
<1>4. ASSUME NEW m \in Manifest, GoodManifest(m)
      PROVE  GoodManifest(m)' /\ hist'[m.head] = hist[m.head] /\ hist'[m.ck] = hist[m.ck]
  <2>1. m.head \in 0..MaxSeq /\ m.ck \in 0..MaxSeq /\ (m.ck # 0 => m.ck \in Slot)
    BY <1>4 DEF Manifest, Slot
  <2>2. hist[0] # None
    BY NoneAssumption, NoValues DEF ChainInv, Checkpoint
  <2> QED BY <1>4, <2>1, <2>2 DEF GoodManifest, Grows, ChainInv
<1>5. WalkInv(d)'
  <2>1. CASE pc[d] \in WalkLabels
    <3>1. rd[d].m \in Manifest /\ GoodManifest(rd[d].m)
      BY <2>1 DEF ClientInv, WalkInv
    <3>2. GoodManifest(rd[d].m)' /\ hist'[rd[d].m.head] = hist[rd[d].m.head]
            /\ hist'[rd[d].m.ck] = hist[rd[d].m.ck]
      BY <3>1, <1>1, <1>4 DEF GoodManifest
    <3>3. pc[d] \in {"getLog", "getIdx"} => hist'[rd[d].cur] = hist[rd[d].cur]
      BY Ranges DEF ClientInv, WalkInv, Grows
    <3> QED BY <1>1, <3>1, <3>2, <3>3 DEF ClientInv, WalkInv
  <2>2. CASE pc[d] \notin WalkLabels
    BY <1>1, <2>2 DEF WalkInv, WalkLabels
  <2> QED BY <2>1, <2>2
<1>6. ViewInv(d)'
  BY <1>1, Ranges DEF ClientInv, ViewInv, Grows
<1>7. HandOverInv(d)'
  BY <1>1, <1>2 DEF ClientInv, HandOverInv, Grows
<1>8. PushInv(d)'
  <2>1. At(d) \in LandedLabels => OnBranch(op[d].branch, op[d].new)'
    BY <1>1 DEF ClientInv, ControlInv, PushInv, Grows
  <2>2. pc[d] \in {"claim", "ensure", "cas"} => hist'[Head(op[d].base)] = hist[Head(op[d].base)]
    BY Ranges DEF ClientInv, PushInv, Grows
  <2>3. pc[d] \in {"ensure", "cas"} => log'[op[d].seq] = Entry(d)
    BY EntryIsNotNone DEF ClientInv, PushInv, Grows
  <2>4. pc[d] = "foldCas" => ckpt'[view[d].m.head] # None
    BY Ranges DEF ClientInv, PushInv, Grows
  <2> QED BY <1>1, <1>2, <2>1, <2>2, <2>3, <2>4 DEF ClientInv, PushInv, Grows
<1> QED BY <1>3, <1>5, <1>6, <1>7, <1>8 DEF ClientInv

\* A step that publishes nothing: the current state stays.
LEMMA SameCurrent ==
    ASSUME Head(manifest)' = Head(manifest), hist' = hist
    PROVE  /\ CurrentState' = CurrentState /\ Objects' = Objects
           /\ \A b, s : OnBranch(b, s)' <=> OnBranch(b, s)
BY DEF CurrentState, Objects, OnBranch, Head

\* A step that publishes nothing loses nothing.
LEMMA QuietGrows ==
    ASSUME UNCHANGED <<manifest, log, ckpt, hist>>, bodies \subseteq bodies', idxs \subseteq idxs'
    PROVE  Grows
<1>1. Objects' = Objects /\ \A b, s : OnBranch(b, s)' <=> OnBranch(b, s)
  BY SameCurrent DEF Head
<1> QED BY <1>1 DEF Grows

\* A step that at most adds packs to the bucket keeps the invariant if it keeps that of
\* its client, and reports only what is in.
LEMMA QuietStep ==
    ASSUME Inv, NEW c \in Client, Others(c), TypeOK', ClientInv(c)',
           UNCHANGED <<manifest, log, ckpt, hist>>, bodies \subseteq bodies', idxs \subseteq idxs',
           \A a \in acked' \ acked : OnBranch(a[1], a[2]),
           pc'[c] \in {"ensure", "cas"} => pc[c] \in {"ensure", "cas"} /\ op'[c].seq = op[c].seq
    PROVE  Inv'
<1>1. /\ CurrentState' = CurrentState /\ Objects' = Objects
      /\ \A b, s : OnBranch(b, s)' <=> OnBranch(b, s)
  BY SameCurrent DEF Head
<1>2. Grows
  BY QuietGrows
<1>3. \A d \in Client : ClientInv(d)'
  <2> SUFFICES ASSUME NEW d \in Client, d # c PROVE ClientInv(d)'
    OBVIOUS
  <2>1. pc[d] \in {"ensure", "cas"} => hist'[op[d].seq] = None
    BY DEF Inv, ClientInv, PushInv
  <2> QED BY <1>2, <2>1, ClientFrame DEF Inv, BucketInv
<1>4. ChainInv'
  BY DEF Inv, BucketInv, ChainInv
<1>5. CurrentInv'
  BY <1>1 DEF Inv, BucketInv, CurrentInv, GoodManifest
<1>6. RefsReadable'
  BY <1>1 DEF Inv, BucketInv, RefsReadable
<1>7. AckedIsDurable'
  BY <1>1 DEF Inv, BucketInv, AckedIsDurable, OnBranch
<1>8. SlotsInv'
  BY DEF Inv, BucketInv, SlotsInv, Others, Local
<1> QED BY <1>3, <1>4, <1>5, <1>6, <1>7, <1>8 DEF Inv, BucketInv

-----------------------------------------------------------------------------
(* Steps that end a call *)

\* A client whose call has ended.
LEMMA ReturningClient ==
    ASSUME TypeOK, NEW c \in Client, NEW res, ClientInv(c), Return(c, res), Grows, UNCHANGED <<view, pending>>
    PROVE  /\ pc' \in [Client -> Label] /\ rd' \in [Client -> Reading] /\ op' \in [Client -> Op]
           /\ corrupt' \subseteq Client /\ pc'[c] = "idle"
           /\ \A d \in Client : d # c => pc'[d] = pc[d] /\ rd'[d] = rd[d] /\ op'[d] = op[d]
           /\ ClientInv(c)'
<1>1. /\ pc' \in [Client -> Label] /\ rd' \in [Client -> Reading] /\ op' \in [Client -> Op] /\ corrupt' \subseteq Client
      /\ \A d \in Client : d # c => pc'[d] = pc[d] /\ rd'[d] = rd[d] /\ op'[d] = op[d]
  BY NoValues, Labels DEF TypeOK, Return, Goto
<1>2. pc'[c] = "idle" /\ rd'[c] = NoReading /\ op'[c] = NoOp
  BY DEF TypeOK, Return, Goto
<1>3. ControlInv(c)'
  BY <1>2, Labels DEF ControlInv, At, ReadLabels, WalkLabels, CommitLabels, LandedLabels, CompactLabels
<1>4. WalkInv(c)'
  BY <1>2 DEF WalkInv, WalkLabels
<1>5. ViewInv(c)'
  BY Ranges DEF ClientInv, ViewInv, Grows
<1>6. HandOverInv(c)'
  BY <1>2 DEF HandOverInv, At, ReadLabels, WalkLabels
<1>7. PushInv(c)'
  BY <1>2 DEF ClientInv, PushInv, At, ReadLabels, WalkLabels, CommitLabels, LandedLabels, NoOp, Grows
<1> QED BY <1>1, <1>2, <1>3, <1>4, <1>5, <1>6, <1>7 DEF ClientInv

\* Return keeps the invariant.
LEMMA Returns ==
    ASSUME Inv, NEW c \in Client, NEW res, Return(c, res),
           UNCHANGED <<manifest, log, ckpt, bodies, idxs, view, pending, hist, lost, calls>>,
           staged' \in [Client -> SUBSET Snapshot],
           \A d \in Client : d # c => staged'[d] = staged[d],
           acked' \in SUBSET (Branch \X Snapshot),
           \A a \in acked' \ acked : OnBranch(a[1], a[2])
    PROVE  Inv'
<1>1. Grows
  BY QuietGrows
<1>2. /\ pc' \in [Client -> Label] /\ rd' \in [Client -> Reading] /\ op' \in [Client -> Op]
      /\ corrupt' \subseteq Client /\ pc'[c] = "idle"
      /\ \A d \in Client : d # c => pc'[d] = pc[d] /\ rd'[d] = rd[d] /\ op'[d] = op[d]
      /\ ClientInv(c)'
  BY <1>1, ReturningClient DEF Inv
<1>3. TypeOK'
  BY <1>2 DEF Inv, TypeOK
<1>4. Others(c)
  BY <1>2 DEF Others, Local
<1> QED BY <1>2, <1>3, <1>4, QuietStep

\* So does the acknowledgement of a push that is in.
LEMMA Acknowledges ==
    ASSUME Inv, NEW c \in Client, Acknowledge(c), OnBranch(op[c].branch, op[c].new),
           op[c].branch \in Branch, op[c].new \in Snapshot,
           UNCHANGED <<manifest, log, ckpt, bodies, idxs, view, pending, hist, lost, calls>>,
           staged' \in [Client -> SUBSET Snapshot],
           \A d \in Client : d # c => staged'[d] = staged[d]
    PROVE  Inv'
<1>1. Return(c, "ok")
  BY DEF Acknowledge
<1>2. acked' \in SUBSET (Branch \X Snapshot)
  BY DEF Acknowledge, Inv, TypeOK
<1>3. \A a \in acked' \ acked : OnBranch(a[1], a[2])
  BY DEF Acknowledge
<1> QED BY <1>1, <1>2, <1>3, Returns

\* A committed push is on its branch.
LEMMA CommittedIsOn ==
    ASSUME Inv, NEW c \in Client, Committed(c)
    PROVE  op[c].branch \in Branch /\ op[c].new \in Snapshot /\ OnBranch(op[c].branch, op[c].new)
<1>1. At(c) \in LandedLabels
  BY DEF Committed, Inv, ClientInv, ControlInv, At, ReadLabels, WalkLabels, LandedLabels, NoReading
<1> QED BY <1>1 DEF Inv, ClientInv, ControlInv, PushInv

\* An error ends the call, and acknowledges it only after its commit.
LEMMA Throws ==
    ASSUME Inv, NEW c \in Client, NEW res, Throw(c, res),
           UNCHANGED <<manifest, log, ckpt, bodies, idxs, view, pending, hist, lost, calls>>,
           staged' \in [Client -> SUBSET Snapshot],
           \A d \in Client : d # c => staged'[d] = staged[d]
    PROVE  Inv'
<1>1. CASE Committed(c)
  BY <1>1, CommittedIsOn, Acknowledges DEF Throw
<1>2. CASE ~Committed(c)
  <2>1. Return(c, res) /\ acked' = acked
    BY <1>2 DEF Throw
  <2>2. acked' \in SUBSET (Branch \X Snapshot)
    BY <2>1 DEF Inv, TypeOK
  <2> QED BY <2>1, <2>2, Returns
<1> QED BY <1>1, <1>2

-----------------------------------------------------------------------------
(* refresh *)

\* A step inside a refresh has only its walk to care for.
LEMMA RefreshGoesOn ==
    ASSUME Inv, NEW c \in Client, pc[c] \in ReadLabels, pc'[c] \in ReadLabels,
           rd'[c].ret = rd[c].ret, Others(c), TypeOK', WalkInv(c)',
           UNCHANGED <<manifest, log, ckpt, bodies, idxs, view, op, pending, staged, hist, acked>>
    PROVE  Inv'
<1>1. ClientInv(c)
  BY DEF Inv
<1>2. Objects' = Objects /\ \A b, s : OnBranch(b, s)' <=> OnBranch(b, s)
  BY SameCurrent DEF Head
<1>3. At(c)' = At(c)
  BY DEF At
<1>4. pc'[c] \in Label \ CompactLabels
  BY Labels DEF ReadLabels, WalkLabels, CompactLabels
<1>5. pc'[c] \notin {"claim", "ensure", "cas", "foldCas", "putIdx"}
  BY DEF ReadLabels, WalkLabels
<1>6. ControlInv(c)'
  BY <1>1, <1>3, <1>4 DEF ClientInv, ControlInv
<1>7. ViewInv(c)' /\ HandOverInv(c)'
  BY <1>1, <1>2, <1>3 DEF ClientInv, ViewInv, HandOverInv
<1>8. PushInv(c)'
  BY <1>1, <1>2, <1>3, <1>5 DEF ClientInv, PushInv
<1> QED BY <1>5, <1>6, <1>7, <1>8, QuietStep DEF ClientInv

\* GetManifest keeps the invariant.
LEMMA GetManifestStep == ASSUME Inv, NEW c \in Client, GetManifest(c) PROVE Inv'
<1>0. /\ rd[c] \in Reading /\ rd \in [Client -> Reading] /\ manifest \in Manifest \cup {None}
      /\ pc \in [Client -> Label] /\ pc[c] = "getManifest" /\ view \in [Client -> View \cup {None}]
      /\ ControlInv(c) /\ ViewInv(c) /\ PushInv(c) /\ HandOverInv(c)
  BY DEF Inv, TypeOK, GetManifest, ClientInv
<1>1. rd[c].ret \in RefreshReturns /\ At(c) = rd[c].ret
  BY <1>0 DEF ControlInv, ReadLabels, At
<1>2. UNCHANGED <<op, pending, staged, bodies, idxs, manifest, log, ckpt, hist, acked, corrupt, lost, calls>>
  BY DEF GetManifest, bucketVars, sessionVars, historyVars
<1>3. /\ Objects' = Objects /\ \A b, s : OnBranch(b, s)' <=> OnBranch(b, s)
  BY <1>2, SameCurrent DEF Head
<1>4. CASE /\ pc' = [pc EXCEPT ![c] = rd[c].ret]
           /\ rd' = [rd EXCEPT ![c] = NoReading]
           /\ view' = view \/ view' = [view EXCEPT ![c] = None]
  <2>1. TypeOK'
    BY <1>0, <1>1, <1>2, <1>4, NoValues, Labels DEF Inv, TypeOK
  <2>2. Others(c)
    BY <1>0, <1>2, <1>4 DEF Others, Local
  <2>3. pc'[c] = rd[c].ret /\ rd'[c] = NoReading /\ (view'[c] = view[c] \/ view'[c] = None)
    BY <1>0, <1>4
  <2>4. pc'[c] \notin ReadLabels /\ pc'[c] \notin {"claim", "ensure", "cas", "foldCas", "putIdx"}
    BY <1>1, <2>3 DEF RefreshReturns, ReadLabels, WalkLabels
  <2>5. At(c)' = At(c)
    BY <1>1, <2>3, <2>4 DEF At
  <2>6. ControlInv(c)'
    BY <1>0, <1>1, <1>2, <2>3, <2>4, <2>5, Labels DEF ControlInv, RefreshReturns, CompactLabels
  <2>7. WalkInv(c)' /\ ViewInv(c)'
    BY <1>0, <1>2, <2>3, <2>4 DEF WalkInv, ReadLabels, WalkLabels, ViewInv
  <2>8. HandOverInv(c)'
    BY <1>0, <1>2, <1>3, <2>5 DEF HandOverInv
  <2>9. PushInv(c)'
    BY <1>0, <1>2, <1>3, <2>4, <2>5 DEF PushInv
  <2> QED BY <1>2, <2>1, <2>2, <2>4, <2>6, <2>7, <2>8, <2>9, QuietStep DEF ClientInv
<1>5. CASE /\ manifest # None
           /\ rd' = [rd EXCEPT ![c] = [@ EXCEPT !.m = manifest, !.cur = manifest.head,
                        !.tail = NoRefs, !.refs = NoRefs, !.packs = {}]]
           /\ pc' = [pc EXCEPT ![c] = IF manifest.ck # 0 THEN "getCheckpoint" ELSE "getLog"]
           /\ view' = view
  <2>0. manifest \in Manifest /\ manifest.head \in 0..MaxSeq /\ GoodManifest(manifest)
    BY <1>0, <1>5 DEF Manifest, Slot, Inv, BucketInv, CurrentInv
  <2>1. TypeOK'
    <3>1. rd' \in [Client -> Reading]
      BY <1>0, <1>5, <2>0, NoValues DEF Reading
    <3>2. pc' \in [Client -> Label]
      BY <1>0, <1>5, Labels
    <3> QED BY <3>1, <3>2, <1>5, <1>2 DEF Inv, TypeOK
  <2>2. Others(c)
    BY <1>0, <1>2, <1>5 DEF Others, Local
  <2>3. /\ rd'[c].ret = rd[c].ret /\ rd'[c].m = manifest /\ rd'[c].cur = manifest.head
        /\ rd'[c].tail = NoRefs /\ rd'[c].refs = NoRefs /\ rd'[c].packs = {}
    BY <1>0, <1>5 DEF Reading
  <2>4. pc'[c] = (IF manifest.ck # 0 THEN "getCheckpoint" ELSE "getLog") /\ view'[c] = view[c]
    BY <1>0, <1>5
  <2>5. pc'[c] \in ReadLabels
    BY <2>4 DEF ReadLabels, WalkLabels
  <2>6. WalkInv(c)'
    <3>1. GoodManifest(rd[c].m)'
      BY <1>2, <2>0, <2>3 DEF GoodManifest
    <3>2. hist[0] = [refs |-> NoRefs, packs |-> {}]
      BY DEF Inv, BucketInv, ChainInv
    <3>3. \A b \in Branch : NoRefs[b] = None
      BY DEF NoRefs
    <3>4. hist[manifest.head] # None
      BY <2>0 DEF GoodManifest
    <3> QED BY <1>2, <2>0, <2>3, <2>4, <3>1, <3>2, <3>3, <3>4 DEF WalkInv
  <2> QED BY <1>0, <1>2, <1>5, <2>1, <2>2, <2>3, <2>5, <2>6, RefreshGoesOn DEF ReadLabels
<1> QED BY <1>4, <1>5 DEF GetManifest, Goto

\* A missing key: the refresh starts over or fails.
LEMMA GoneStep ==
    ASSUME Inv, NEW c \in Client, pc[c] \in WalkLabels, Gone(c),
           UNCHANGED <<manifest, log, ckpt, bodies, idxs, view, pending, staged, hist, lost, calls>>
    PROVE  Inv'
<1>0. /\ rd[c] \in Reading /\ rd \in [Client -> Reading] /\ pc \in [Client -> Label]
      /\ staged \in [Client -> SUBSET Snapshot]
  BY DEF Inv, TypeOK
<1>1. CASE /\ rd[c].left > 0 /\ pc' = [pc EXCEPT ![c] = "getManifest"]
           /\ rd' = [rd EXCEPT ![c].failed = rd[c].m, ![c].left = rd[c].left - 1]
           /\ UNCHANGED <<op, acked, corrupt>>
  <2>1. rd' \in [Client -> Reading]
    <3>1. rd[c].left - 1 \in 0..MaxRestarts
      BY <1>0, <1>1, WalAssumption DEF Reading
    <3> QED BY <1>0, <1>1, <3>1 DEF Reading
  <2>2. TypeOK'
    BY <1>0, <1>1, <2>1, Labels DEF Inv, TypeOK
  <2>3. Others(c)
    BY <1>0, <1>1 DEF Others, Local
  <2>4. pc'[c] = "getManifest" /\ rd'[c].ret = rd[c].ret
    BY <1>0, <1>1 DEF Reading
  <2>5. WalkInv(c)'
    BY <2>4 DEF WalkInv, WalkLabels
  <2> QED BY <1>1, <2>2, <2>3, <2>4, <2>5, RefreshGoesOn DEF ReadLabels
<1>2. CASE \E res : Throw(c, res)
  <2>1. PICK res : Throw(c, res)
    BY <1>2
  <2> QED BY <1>0, <2>1, Throws
<1> QED BY <1>1, <1>2 DEF Gone, Goto

\* GetCheckpoint keeps the invariant.
LEMMA GetCheckpointStep == ASSUME Inv, NEW c \in Client, GetCheckpoint(c) PROVE Inv'
<1> DEFINE k == ckpt[rd[c].m.ck]
<1>0. /\ rd[c] \in Reading /\ rd \in [Client -> Reading] /\ pc \in [Client -> Label]
      /\ pc[c] = "getCheckpoint" /\ WalkInv(c) /\ ChainInv /\ TypeOK
  BY DEF Inv, TypeOK, GetCheckpoint, ClientInv, BucketInv
<1>1. UNCHANGED <<manifest, log, ckpt, bodies, idxs, view, pending, staged, hist, lost, calls>>
  BY DEF GetCheckpoint, bucketVars, sessionVars
<1>2. /\ rd[c].m \in Manifest /\ GoodManifest(rd[c].m) /\ rd[c].m.ck # 0
      /\ rd[c].cur = rd[c].m.head /\ rd[c].tail = NoRefs /\ rd[c].packs = {}
  BY <1>0 DEF WalkInv, WalkLabels
<1>3. rd[c].m.ck \in Slot /\ rd[c].m.head \in Slot
  BY <1>0, <1>2, Ranges
<1>4. k # None /\ k \in Checkpoint /\ hist[rd[c].m.ck] # None /\ k = hist[rd[c].m.ck]
  BY <1>0, <1>2, <1>3 DEF GoodManifest, ChainInv, TypeOK
<1>5. /\ rd' = [rd EXCEPT ![c].refs = k.refs, ![c].packs = k.packs]
      /\ pc' = [pc EXCEPT ![c] = "getLog"] /\ UNCHANGED <<op, acked, corrupt>>
  BY <1>4 DEF GetCheckpoint, Goto
<1>6. k.refs \in Refs /\ k.packs \in SUBSET Pack
  BY <1>4 DEF Checkpoint
<1>7. rd' \in [Client -> Reading]
  BY <1>0, <1>5, <1>6 DEF Reading
<1>8. TypeOK'
  BY <1>0, <1>1, <1>5, <1>7, Labels DEF TypeOK
<1>9. Others(c)
  BY <1>0, <1>1, <1>5 DEF Others, Local
<1>10. /\ pc'[c] = "getLog" /\ rd'[c].ret = rd[c].ret /\ rd'[c].m = rd[c].m /\ rd'[c].cur = rd[c].cur
       /\ rd'[c].tail = rd[c].tail /\ rd'[c].refs = k.refs /\ rd'[c].packs = k.packs
  BY <1>0, <1>5 DEF Reading
<1>11. WalkInv(c)'
  <2>1. GoodManifest(rd[c].m)'
    BY <1>1, <1>2, <1>10 DEF GoodManifest
  <2>2. \A b \in Branch : NoRefs[b] = None
    BY DEF NoRefs
  <2>3. hist[rd[c].m.head] # None
    BY <1>2 DEF GoodManifest
  <2> QED BY <1>1, <1>2, <1>4, <1>10, <2>1, <2>2, <2>3 DEF WalkInv
<1> QED BY <1>0, <1>1, <1>5, <1>8, <1>9, <1>10, <1>11, RefreshGoesOn DEF ReadLabels, WalkLabels

\* What one entry of the log does to the state before it.
LEMMA ExtendIs ==
    ASSUME NEW h, NEW e
    PROVE  /\ Extend(h, e).packs = h.packs \cup e.packs
           /\ \A b \in Branch : Extend(h, e).refs[b] = IF b = e.branch THEN e.new ELSE h.refs[b]
BY DEF Extend

\* GetLog keeps the invariant.
LEMMA GetLogStep == ASSUME Inv, NEW c \in Client, GetLog(c) PROVE Inv'
<1> DEFINE r == rd[c]
           e == log[r.cur]
<1>0. /\ rd[c] \in Reading /\ rd \in [Client -> Reading] /\ pc \in [Client -> Label]
      /\ pc[c] = "getLog" /\ WalkInv(c) /\ ChainInv /\ TypeOK
  BY DEF Inv, TypeOK, GetLog, ClientInv, BucketInv
<1>1. UNCHANGED <<manifest, log, ckpt, bodies, idxs, view, pending, staged, hist, lost, calls>>
  BY DEF GetLog, bucketVars, sessionVars
<1>2. /\ r.m \in Manifest /\ GoodManifest(r.m)
      /\ hist[r.cur] # None /\ hist[r.cur].packs \subseteq hist[r.m.head].packs
      /\ r.refs = hist[r.m.ck].refs
      /\ hist[r.m.ck].packs \subseteq r.packs
      /\ r.packs \cup hist[r.cur].packs = hist[r.m.head].packs \cup hist[r.m.ck].packs
      /\ \A b \in Branch : hist[r.m.head].refs[b] =
            IF r.tail[b] = None THEN hist[r.cur].refs[b] ELSE r.tail[b]
  BY <1>0 DEF WalkInv, WalkLabels
<1>3. CASE /\ r.cur = r.m.ck
           /\ pc' = [pc EXCEPT ![c] = "getIdx"]
           /\ UNCHANGED <<rd, op, acked, corrupt>>
  <2>1. TypeOK'
    BY <1>0, <1>1, <1>3, Labels DEF TypeOK
  <2>2. Others(c)
    BY <1>0, <1>1, <1>3 DEF Others, Local
  <2>3. pc'[c] = "getIdx" /\ rd'[c] = rd[c]
    BY <1>0, <1>3
  <2>4. GoodManifest(rd[c].m)'
    BY <1>1, <1>2, <2>3 DEF GoodManifest
  <2>5. WalkInv(c)'
    BY <1>1, <1>2, <1>3, <2>3, <2>4 DEF WalkInv
  <2> QED BY <1>0, <1>1, <1>3, <2>1, <2>2, <2>3, <2>5, RefreshGoesOn DEF ReadLabels, WalkLabels
<1>4. CASE /\ r.cur > r.m.ck /\ e # None
           /\ rd' = [rd EXCEPT ![c].cur = e.parent,
                        ![c].packs = r.packs \cup e.packs,
                        ![c].tail = Replay(r.tail, e)]
           /\ UNCHANGED <<pc, op, acked, corrupt>>
  <2>1. r.cur \in Slot
    <3>1. r.cur \in 0..MaxSeq /\ r.m.ck \in 0..MaxSeq
      BY <1>0, <1>2, Ranges
    <3> QED BY <1>4, <3>1 DEF Slot
  <2>2. e \in LogEntry /\ e.branch \in Branch /\ e.new \in Snapshot
    BY <1>0, <1>4, <2>1 DEF TypeOK, ChainInv
  <2>3. e.parent \in 0..MaxSeq /\ e.packs \in SUBSET Pack
    BY <2>2 DEF LogEntry
  <2>4. Replay(r.tail, e) \in Refs
    BY <1>0, <2>2 DEF Replay, Refs, Tip, Reading
  <2>5. rd' \in [Client -> Reading]
    <3>1. r.packs \cup e.packs \in SUBSET Pack
      BY <1>0, <2>3 DEF Reading
    <3> QED BY <1>0, <1>4, <2>3, <2>4, <3>1 DEF Reading
  <2>6. TypeOK'
    BY <1>0, <1>1, <1>4, <2>5 DEF TypeOK
  <2>7. Others(c)
    BY <1>0, <1>1, <1>4 DEF Others, Local
  <2>8. /\ pc'[c] = "getLog" /\ rd'[c].ret = r.ret /\ rd'[c].m = r.m /\ rd'[c].cur = e.parent
        /\ rd'[c].tail = Replay(r.tail, e) /\ rd'[c].refs = r.refs /\ rd'[c].packs = r.packs \cup e.packs
    BY <1>0, <1>4 DEF Reading
  <2>9. hist[e.parent] # None /\ hist[r.cur] = Extend(hist[e.parent], e)
    BY <1>0, <1>2, <2>1 DEF ChainInv
  <2>10. /\ hist[r.cur].packs = hist[e.parent].packs \cup e.packs
         /\ \A b \in Branch : hist[r.cur].refs[b] = IF b = e.branch THEN e.new ELSE hist[e.parent].refs[b]
    <3> DEFINE x == Extend(hist[e.parent], e)
    <3>1. /\ x.packs = hist[e.parent].packs \cup e.packs
          /\ \A b \in Branch : x.refs[b] = IF b = e.branch THEN e.new ELSE hist[e.parent].refs[b]
      BY ExtendIs
    <3> QED BY <2>9, <3>1
  <2>11. GoodManifest(rd[c].m)'
    BY <1>1, <1>2, <2>8 DEF GoodManifest
  <2>12. ASSUME NEW b \in Branch
         PROVE  hist[r.m.head].refs[b] =
                    IF Replay(r.tail, e)[b] = None THEN hist[e.parent].refs[b] ELSE Replay(r.tail, e)[b]
    BY <1>2, <2>2, <2>10, WalAssumption DEF Replay
  <2>13. (r.packs \cup e.packs) \cup hist[e.parent].packs = hist[r.m.head].packs \cup hist[r.m.ck].packs
    BY <1>2, <2>10
  <2>14. hist[e.parent].packs \subseteq hist[r.m.head].packs /\ hist[r.m.ck].packs \subseteq r.packs \cup e.packs
    BY <1>2, <2>10
  <2>15. WalkInv(c)'
    BY <1>1, <1>2, <2>8, <2>9, <2>11, <2>12, <2>13, <2>14 DEF WalkInv
  <2> QED BY <1>0, <1>1, <1>4, <2>6, <2>7, <2>8, <2>15, RefreshGoesOn DEF ReadLabels, WalkLabels
<1>5. CASE Gone(c)
  BY <1>0, <1>1, <1>5, GoneStep DEF WalkLabels
<1>6. CASE Throw(c, "corrupt")
  BY <1>0, <1>1, <1>6, Throws DEF TypeOK
<1> QED BY <1>3, <1>4, <1>5, <1>6 DEF GetLog, Goto

\* GetIdx keeps the invariant.
LEMMA GetIdxStep == ASSUME Inv, NEW c \in Client, GetIdx(c) PROVE Inv'
<1> DEFINE r == rd[c]
           refs == [b \in Branch |-> IF r.tail[b] = None THEN r.refs[b] ELSE r.tail[b]]
<1>0. /\ rd[c] \in Reading /\ rd \in [Client -> Reading] /\ pc \in [Client -> Label]
      /\ pc[c] = "getIdx" /\ ControlInv(c) /\ WalkInv(c) /\ HandOverInv(c) /\ PushInv(c) /\ ChainInv /\ TypeOK
      /\ view \in [Client -> View \cup {None}]
  BY DEF Inv, TypeOK, GetIdx, ClientInv, BucketInv
<1>1. UNCHANGED <<manifest, log, ckpt, bodies, idxs, pending, staged, hist, lost, calls>>
  BY DEF GetIdx, bucketVars, sessionVars
<1>2. /\ r.m \in Manifest /\ GoodManifest(r.m) /\ r.cur = r.m.ck
      /\ hist[r.cur] # None /\ hist[r.cur].packs \subseteq hist[r.m.head].packs
      /\ r.refs = hist[r.m.ck].refs
      /\ hist[r.m.ck].packs \subseteq r.packs
      /\ r.packs \cup hist[r.cur].packs = hist[r.m.head].packs \cup hist[r.m.ck].packs
      /\ \A b \in Branch : hist[r.m.head].refs[b] =
            IF r.tail[b] = None THEN hist[r.cur].refs[b] ELSE r.tail[b]
  BY <1>0 DEF WalkInv, WalkLabels
<1>3. r.ret \in RefreshReturns /\ At(c) = r.ret
  BY <1>0 DEF ControlInv, ReadLabels, WalkLabels, At
<1>4. CASE /\ view' = [view EXCEPT ![c] = [m |-> r.m, packs |-> r.packs, refs |-> refs]]
           /\ pc' = [pc EXCEPT ![c] = r.ret]
           /\ rd' = [rd EXCEPT ![c] = NoReading]
           /\ UNCHANGED <<op, acked, corrupt>>
  <2>1. refs \in Refs
    BY <1>0 DEF Reading, Refs
  <2>2. [m |-> r.m, packs |-> r.packs, refs |-> refs] \in View
    BY <1>0, <1>2, <2>1 DEF View, Reading
  <2>3. TypeOK'
    BY <1>0, <1>1, <1>3, <1>4, <2>2, NoValues, Labels DEF TypeOK
  <2>4. Others(c)
    BY <1>0, <1>1, <1>4 DEF Others, Local
  <2>5. /\ pc'[c] = r.ret /\ rd'[c] = NoReading /\ view'[c] = [m |-> r.m, packs |-> r.packs, refs |-> refs]
        /\ view'[c].m = r.m /\ view'[c].packs = r.packs /\ view'[c].refs = refs
    BY <1>0, <1>4
  <2>6. hist[r.m.head] # None /\ r.m.head \in 0..MaxSeq
    BY <1>0, <1>2, Ranges DEF GoodManifest
  <2>7. hist[r.m.head].refs \in Refs
    BY <1>0, <2>6 DEF TypeOK, Checkpoint
  <2>8. refs = hist[r.m.head].refs
    BY <1>2, <2>7 DEF Refs
  <2>9. r.packs = hist[r.m.head].packs
    BY <1>2
  <2>10. ViewInv(c)'
    BY <1>1, <2>5, <2>6, <2>8, <2>9 DEF ViewInv
  <2>11. pc'[c] \notin ReadLabels /\ pc'[c] \notin {"claim", "ensure", "cas", "foldCas", "putIdx"}
    BY <1>3, <2>5 DEF RefreshReturns, ReadLabels, WalkLabels
  <2>12. At(c)' = At(c)
    BY <1>3, <2>5, <2>11 DEF At
  <2>13. ControlInv(c)'
    BY <1>0, <1>3, <1>4, <2>5, <2>11, <2>12, Labels DEF ControlInv, RefreshReturns, CompactLabels
  <2>14. WalkInv(c)'
    BY <2>11 DEF WalkInv, ReadLabels, WalkLabels
  <2>15. Objects' = Objects /\ \A b, s : OnBranch(b, s)' <=> OnBranch(b, s)
    BY <1>1, SameCurrent DEF Head
  <2>16. HandOverInv(c)'
    BY <1>0, <1>1, <1>4, <2>12, <2>15 DEF HandOverInv
  <2>17. PushInv(c)'
    BY <1>0, <1>1, <1>4, <2>11, <2>12, <2>15 DEF PushInv
  <2> QED BY <1>1, <1>4, <2>3, <2>4, <2>10, <2>11, <2>13, <2>14, <2>16, <2>17, QuietStep DEF ClientInv
<1>5. CASE Gone(c) /\ UNCHANGED view
  BY <1>0, <1>1, <1>5, GoneStep DEF WalkLabels
<1> QED BY <1>4, <1>5 DEF GetIdx, Goto

-----------------------------------------------------------------------------
(* The steps of a push up to its commit *)

\* Where a step that calls refresh leaves its client.
LEMMA RefreshCall ==
    ASSUME TypeOK, NEW c \in Client, NEW ret \in RefreshReturns, CallRefresh(c, ret)
    PROVE  /\ pc' \in [Client -> Label] /\ rd' \in [Client -> Reading]
           /\ pc'[c] = "getManifest" /\ rd'[c].ret = ret /\ At(c)' = ret
           /\ \A d \in Client : d # c => pc'[d] = pc[d] /\ rd'[d] = rd[d]
<1>1. [NoReading EXCEPT !.ret = ret, !.left = MaxRestarts] \in Reading
  <2>1. ret \in Label /\ MaxRestarts \in 0..MaxRestarts
    BY Labels, WalAssumption
  <2> QED BY <2>1, NoValues DEF Reading
<1>2. pc' \in [Client -> Label] /\ rd' \in [Client -> Reading]
  BY <1>1, Labels DEF TypeOK, CallRefresh, Goto
<1>3. /\ pc'[c] = "getManifest" /\ rd'[c] = [NoReading EXCEPT !.ret = ret, !.left = MaxRestarts]
      /\ \A d \in Client : d # c => pc'[d] = pc[d] /\ rd'[d] = rd[d]
  BY DEF TypeOK, CallRefresh, Goto
<1>4. rd'[c].ret = ret
  BY <1>3 DEF NoReading
<1> QED BY <1>2, <1>3, <1>4 DEF At, ReadLabels

\* A client that has begun a refresh, and what it needs at its return.
LEMMA RefreshingClient ==
    ASSUME TypeOK, NEW c \in Client, NEW ret \in RefreshReturns, ClientInv(c), CallRefresh(c, ret), Grows,
           UNCHANGED view,
           ret \in {"listed", "probe", "attempt", "foldPut", "done"} =>
                op'[c].branch \in Branch /\ op'[c].new \in Snapshot,
           ret = "probe" =>
                op'[c].todo # {} /\ Ancestors[op'[c].new] \subseteq op'[c].todo \cup op'[c].send \cup Objects,
           ret = "attempt" => Ancestors[op'[c].new] \subseteq (UNION op'[c].pend) \cup Objects,
           ret \in {"probe", "attempt"} => (op'[c].old # None => op'[c].old \in Ancestors[op'[c].new]),
           ret \in LandedLabels => \A b, s : b = op'[c].branch /\ s = op'[c].new => OnBranch(b, s)',
           pending'[c] \subseteq bodies \cap idxs, op'[c].pend \subseteq bodies \cap idxs
    PROVE  /\ pc' \in [Client -> Label] /\ rd' \in [Client -> Reading] /\ pc'[c] = "getManifest"
           /\ \A d \in Client : d # c => pc'[d] = pc[d] /\ rd'[d] = rd[d]
           /\ ClientInv(c)'
<1>1. /\ pc' \in [Client -> Label] /\ rd' \in [Client -> Reading]
      /\ pc'[c] = "getManifest" /\ rd'[c].ret = ret /\ At(c)' = ret
      /\ \A d \in Client : d # c => pc'[d] = pc[d] /\ rd'[d] = rd[d]
  BY RefreshCall
<1>2. ControlInv(c)'
  BY <1>1, Labels DEF ControlInv, ReadLabels, RefreshReturns, CommitLabels, LandedLabels, CompactLabels
<1>3. WalkInv(c)'
  BY <1>1 DEF WalkInv, WalkLabels
<1>4. ViewInv(c)'
  BY Ranges DEF ClientInv, ViewInv, Grows
<1>5. HandOverInv(c)'
  BY <1>1 DEF HandOverInv, RefreshReturns, Grows
<1>6. PushInv(c)'
  <2>1. ret \in LandedLabels => OnBranch(op[c].branch, op[c].new)'
    BY DEF OnBranch
  <2> QED BY <1>1, <2>1 DEF PushInv, RefreshReturns, CommitLabels, Grows
<1> QED BY <1>1, <1>2, <1>3, <1>4, <1>5, <1>6 DEF ClientInv

\* A step that goes on with a refresh.
LEMMA Refreshes ==
    ASSUME Inv, NEW c \in Client, NEW ret \in RefreshReturns, CallRefresh(c, ret),
           op' \in [Client -> Op], pending' \in [Client -> SUBSET Pack],
           staged' \in [Client -> SUBSET Snapshot], lost' \in 0..MaxLost, calls' \in 0..MaxCalls,
           UNCHANGED <<manifest, log, ckpt, bodies, idxs, view, hist, acked, corrupt>>,
           \A d \in Client : d # c =>
                op'[d] = op[d] /\ pending'[d] = pending[d] /\ staged'[d] = staged[d],
           ret \in {"listed", "probe", "attempt", "foldPut", "done"} =>
                op'[c].branch \in Branch /\ op'[c].new \in Snapshot,
           ret = "probe" =>
                op'[c].todo # {} /\ Ancestors[op'[c].new] \subseteq op'[c].todo \cup op'[c].send \cup Objects,
           ret = "attempt" => Ancestors[op'[c].new] \subseteq (UNION op'[c].pend) \cup Objects,
           ret \in {"probe", "attempt"} => (op'[c].old # None => op'[c].old \in Ancestors[op'[c].new]),
           ret \notin LandedLabels,
           pending'[c] \subseteq bodies \cap idxs, op'[c].pend \subseteq bodies \cap idxs
    PROVE  Inv'
<1>1. Grows
  BY QuietGrows
<1>2. TypeOK /\ ClientInv(c)
  BY DEF Inv
<1>3. /\ pc' \in [Client -> Label] /\ rd' \in [Client -> Reading] /\ pc'[c] = "getManifest"
      /\ \A d \in Client : d # c => pc'[d] = pc[d] /\ rd'[d] = rd[d]
      /\ ClientInv(c)'
  BY <1>1, <1>2, RefreshingClient
<1>4. TypeOK'
  BY <1>2, <1>3 DEF TypeOK
<1>5. Others(c)
  BY <1>3 DEF Others, Local
<1> QED BY <1>3, <1>4, <1>5, QuietStep

\* What a view shows is in.
LEMMA ViewIsIn ==
    ASSUME Inv, NEW c \in Client
    PROVE  /\ ViewRefs(c) \in Refs
           /\ \A b \in Branch : ViewRefs(c)[b] # None => OnBranch(b, ViewRefs(c)[b])
           /\ ViewObjects(c) \subseteq Objects
<1>1. CASE view[c] = None
  BY <1>1, NoValues DEF ViewRefs, ViewObjects, NoRefs
<1>2. CASE view[c] # None
  <2>1. /\ view[c] \in View /\ view[c].m.head \in 0..MaxSeq /\ hist[view[c].m.head] # None
        /\ view[c].refs = hist[view[c].m.head].refs
        /\ view[c].packs = hist[view[c].m.head].packs
    BY <1>2, Ranges DEF Inv, TypeOK, ClientInv, ViewInv
  <2>2. view[c].packs \subseteq CurrentState.packs
    BY <2>1 DEF Inv, BucketInv, CurrentInv
  <2>3. \A b \in Branch : view[c].refs[b] # None => OnBranch(b, view[c].refs[b])
    BY <2>1 DEF Inv, BucketInv, CurrentInv
  <2> QED BY <1>2, <2>1, <2>2, <2>3 DEF ViewRefs, ViewObjects, View, Objects
<1> QED BY <1>1, <1>2

\* BeginPush keeps the invariant.
LEMMA BeginPushStep == ASSUME Inv, NEW c \in Client, BeginPush(c) PROVE Inv'
<1>1. PICK b \in Branch, s \in Snapshot : op' = [op EXCEPT ![c] = [NoOp EXCEPT !.branch = b, !.new = s]]
  BY DEF BeginPush
<1>2. /\ op \in [Client -> Op] /\ pending \in [Client -> SUBSET Pack] /\ staged \in [Client -> SUBSET Snapshot]
      /\ lost \in 0..MaxLost /\ PushInv(c)
  BY DEF Inv, TypeOK, ClientInv
<1>3. calls' \in 0..MaxCalls
  BY WalAssumption DEF BeginPush, Inv, TypeOK
<1>4. [NoOp EXCEPT !.branch = b, !.new = s] \in Op
  BY NoValues DEF Op, Tip
<1>5. op'[c].branch = b /\ op'[c].new = s /\ op'[c].pend = {}
  BY <1>1, <1>2 DEF NoOp
<1> QED BY <1>1, <1>2, <1>3, <1>4, <1>5, Refreshes
        DEF BeginPush, bucketVars, sessionVars, RefreshReturns, LandedLabels, PushInv

\* BeginFetch keeps the invariant.
LEMMA BeginFetchStep == ASSUME Inv, NEW c \in Client, BeginFetch(c) PROVE Inv'
<1>1. op' = [op EXCEPT ![c] = NoOp]
  BY DEF BeginFetch
<1>2. /\ op \in [Client -> Op] /\ pending \in [Client -> SUBSET Pack] /\ staged \in [Client -> SUBSET Snapshot]
      /\ lost \in 0..MaxLost /\ PushInv(c)
  BY DEF Inv, TypeOK, ClientInv
<1>3. calls' \in 0..MaxCalls
  BY WalAssumption DEF BeginFetch, Inv, TypeOK
<1>4. op'[c].pend = {}
  BY <1>1, <1>2 DEF NoOp
<1> QED BY <1>1, <1>2, <1>3, <1>4, NoValues, Refreshes
        DEF BeginFetch, bucketVars, sessionVars, RefreshReturns, LandedLabels, PushInv

\* Listed keeps the invariant.
LEMMA ListedStep == ASSUME Inv, NEW c \in Client, Listed(c) PROVE Inv'
<1> DEFINE o == op[c]
           tip == ViewRefs(c)[o.branch]
<1>0. /\ op \in [Client -> Op] /\ op[c] \in Op /\ pending \in [Client -> SUBSET Pack]
      /\ staged \in [Client -> SUBSET Snapshot] /\ lost \in 0..MaxLost /\ calls \in 0..MaxCalls
      /\ acked \in SUBSET (Branch \X Snapshot) /\ PushInv(c) /\ ControlInv(c) /\ pc[c] = "listed"
  BY DEF Inv, TypeOK, ClientInv, Listed
<1>1. UNCHANGED <<manifest, log, ckpt, bodies, idxs, view, pending, staged, hist, lost, calls>>
  BY DEF Listed, bucketVars, sessionVars
<1>2. o.branch \in Branch /\ o.new \in Snapshot /\ o.new # None
  BY <1>0, WalAssumption DEF ControlInv, At, ReadLabels, WalkLabels
<1>3. tip \in Tip /\ (tip # None => OnBranch(o.branch, tip))
  BY <1>2, ViewIsIn DEF Refs
<1>4. CASE tip = o.new /\ Acknowledge(c)
  BY <1>0, <1>1, <1>2, <1>3, <1>4, Acknowledges
<1>5. CASE Return(c, "nonff") /\ UNCHANGED acked
  BY <1>0, <1>1, <1>5, Returns
<1>6. CASE /\ tip = None \/ tip \in Ancestors[o.new]
           /\ op' = [op EXCEPT ![c].old = tip, ![c].todo = Ancestors[o.new]]
           /\ CallRefresh(c, "probe")
           /\ UNCHANGED <<acked, corrupt>>
  <2>1. Ancestors[o.new] \in SUBSET Snapshot /\ o.new \in Ancestors[o.new]
    BY <1>2, WalAssumption
  <2>2. op' \in [Client -> Op]
    BY <1>0, <1>3, <1>6, <2>1 DEF Op
  <2>3. /\ op'[c].branch = o.branch /\ op'[c].new = o.new /\ op'[c].pend = o.pend /\ op'[c].old = tip
        /\ op'[c].todo = Ancestors[o.new] /\ \A d \in Client : d # c => op'[d] = op[d]
    BY <1>0, <1>6 DEF Op
  <2> QED BY <1>0, <1>1, <1>2, <1>6, <2>1, <2>2, <2>3, Refreshes DEF RefreshReturns, LandedLabels, PushInv
<1> QED BY <1>4, <1>5, <1>6 DEF Listed

\* A local step, or an upload.
LEMMA Goes ==
    ASSUME Inv, NEW c \in Client, pc[c] \notin ReadLabels, NEW lbl \in CommitLabels,
           pc' = [pc EXCEPT ![c] = lbl],
           op' \in [Client -> Op], pending' \in [Client -> SUBSET Pack],
           staged' \in [Client -> SUBSET Snapshot], bodies' \in SUBSET Pack, idxs' \in SUBSET Pack,
           UNCHANGED <<manifest, log, ckpt, view, rd, hist, acked, corrupt, lost, calls>>,
           bodies \subseteq bodies', idxs \subseteq idxs',
           \A d \in Client : d # c =>
                op'[d] = op[d] /\ pending'[d] = pending[d] /\ staged'[d] = staged[d],
           op'[c].branch \in Branch, op'[c].new \in Snapshot,
           HandOverInv(c)', PushInv(c)',
           lbl \in {"ensure", "cas"} => pc[c] \in {"ensure", "cas"} /\ op'[c].seq = op[c].seq
    PROVE  Inv'
<1>0. TypeOK /\ ClientInv(c) /\ pc \in [Client -> Label]
  BY DEF Inv, TypeOK
<1>1. pc'[c] = lbl /\ \A d \in Client : d # c => pc'[d] = pc[d]
  BY <1>0
<1>2. TypeOK'
  BY <1>0, Labels DEF TypeOK
<1>3. Others(c)
  BY <1>1 DEF Others, Local
<1>4. lbl \notin ReadLabels /\ lbl \in Label \ CompactLabels
  BY Labels DEF ReadLabels, WalkLabels, CommitLabels, CompactLabels
<1>5. ControlInv(c)'
  BY <1>0, <1>1, <1>4 DEF ClientInv, ControlInv
<1>6. WalkInv(c)' /\ ViewInv(c)'
  BY <1>0, <1>1, <1>4 DEF ClientInv, WalkInv, ViewInv, ReadLabels, WalkLabels
<1> QED BY <1>1, <1>2, <1>3, <1>5, <1>6, QuietStep DEF ClientInv

\* Probe keeps the invariant.
LEMMA ProbeStep == ASSUME Inv, NEW c \in Client, Probe(c) PROVE Inv'
<1> DEFINE o == op[c]
           s == CHOOSE x \in op[c].todo : TRUE
           todo == op[c].todo \ {s}
           send == op[c].send \cup ({s} \ ViewObjects(c))
<1>0. /\ op \in [Client -> Op] /\ op[c] \in Op /\ pending \in [Client -> SUBSET Pack]
      /\ staged \in [Client -> SUBSET Snapshot] /\ lost \in 0..MaxLost /\ calls \in 0..MaxCalls
      /\ bodies \in SUBSET Pack /\ idxs \in SUBSET Pack
      /\ PushInv(c) /\ ControlInv(c) /\ HandOverInv(c) /\ pc[c] = "probe" /\ At(c) = "probe"
  BY DEF Inv, TypeOK, ClientInv, Probe, At, ReadLabels, WalkLabels
<1>1. UNCHANGED <<manifest, log, ckpt, bodies, idxs, view, pending, staged, hist, acked, corrupt, lost, calls>>
  BY DEF Probe, bucketVars, sessionVars, historyVars
<1>2. /\ o.branch \in Branch /\ o.new \in Snapshot /\ (o.old # None => o.old \in Ancestors[o.new])
      /\ pending[c] \subseteq bodies \cap idxs /\ o.pend \subseteq bodies \cap idxs
  BY <1>0 DEF ControlInv, PushInv, CommitLabels
<1>3. o.todo # {} /\ Ancestors[o.new] \subseteq o.todo \cup o.send \cup Objects
  BY <1>0 DEF HandOverInv
<1>4. s \in o.todo /\ o.todo \in SUBSET Snapshot /\ o.send \in SUBSET Snapshot
  BY <1>0, <1>3 DEF Op
<1>5. Ancestors[o.new] \subseteq todo \cup send \cup Objects
  BY <1>3, ViewIsIn
<1>6. op' = [op EXCEPT ![c].todo = todo, ![c].send = send]
  BY DEF Probe
<1>7. op' \in [Client -> Op]
  <2>1. todo \in SUBSET Snapshot /\ send \in SUBSET Snapshot
    BY <1>4
  <2> HIDE DEF todo, send
  <2> QED BY <1>0, <1>6, <2>1 DEF Op
<1>8. /\ op'[c].branch = o.branch /\ op'[c].new = o.new /\ op'[c].pend = o.pend /\ op'[c].old = o.old
      /\ op'[c].todo = todo /\ op'[c].send = send /\ \A d \in Client : d # c => op'[d] = op[d]
  <2> HIDE DEF todo, send
  <2> QED BY <1>0, <1>6 DEF Op
<1>9. Objects' = Objects
  BY <1>1, SameCurrent DEF Head
<1> HIDE DEF todo, send
<1>10. CASE todo # {} /\ CallRefresh(c, "probe")
  BY <1>0, <1>1, <1>2, <1>5, <1>7, <1>8, <1>10, Refreshes DEF RefreshReturns, LandedLabels
<1>11. ASSUME NEW lbl \in {"upload", "updateRef"}, todo = {}, lbl = "updateRef" => send = {},
              pc' = [pc EXCEPT ![c] = lbl], UNCHANGED rd
       PROVE  Inv'
  <2>1. pc'[c] = lbl /\ At(c)' = lbl
    BY <1>11 DEF At, ReadLabels, WalkLabels, Inv, TypeOK
  <2>2. HandOverInv(c)'
    BY <1>5, <1>8, <1>9, <1>11, <2>1 DEF HandOverInv
  <2>3. PushInv(c)'
    BY <1>1, <1>2, <1>8, <1>11, <2>1 DEF PushInv, LandedLabels
  <2> QED BY <1>0, <1>1, <1>2, <1>7, <1>8, <1>11, <2>2, <2>3, Goes DEF CommitLabels, ReadLabels, WalkLabels
<1>12. \/ todo # {} /\ CallRefresh(c, "probe")
       \/ todo = {} /\ send # {} /\ Goto(c, "upload") /\ UNCHANGED rd
       \/ todo = {} /\ send = {} /\ Goto(c, "updateRef") /\ UNCHANGED rd
  BY DEF Probe, todo, send
<1> QED BY <1>10, <1>11, <1>12 DEF Goto

\* Upload keeps the invariant.
LEMMA UploadStep == ASSUME Inv, NEW c \in Client, Upload(c) PROVE Inv'
<1> DEFINE o == op[c]
<1>0. /\ op \in [Client -> Op] /\ op[c] \in Op /\ pending \in [Client -> SUBSET Pack]
      /\ staged \in [Client -> SUBSET Snapshot] /\ pc \in [Client -> Label]
      /\ bodies \in SUBSET Pack /\ idxs \in SUBSET Pack
      /\ PushInv(c) /\ ControlInv(c) /\ HandOverInv(c) /\ pc[c] = "upload" /\ At(c) = "upload"
  BY DEF Inv, TypeOK, ClientInv, Upload, At, ReadLabels, WalkLabels
<1>1. UNCHANGED <<manifest, log, ckpt, bodies, idxs, view, rd, pending, hist, acked, corrupt, lost, calls>>
  BY DEF Upload, bucketVars, historyVars
<1>2. /\ o.branch \in Branch /\ o.new \in Snapshot /\ (o.old # None => o.old \in Ancestors[o.new])
      /\ pending[c] \subseteq bodies \cap idxs /\ o.pend \subseteq bodies \cap idxs
      /\ Ancestors[o.new] \subseteq o.send \cup Objects
  BY <1>0 DEF ControlInv, PushInv, CommitLabels, HandOverInv
<1>3. Objects' = Objects
  BY <1>1, SameCurrent DEF Head
<1>4. CASE /\ "put_pack" \in Uploads
           /\ op' = [op EXCEPT ![c].via = "put_pack"]
           /\ pc' = [pc EXCEPT ![c] = "putPack"] /\ UNCHANGED staged
  <2>1. op' \in [Client -> Op]
    BY <1>0, <1>4 DEF Op
  <2>2. /\ op'[c].branch = o.branch /\ op'[c].new = o.new /\ op'[c].pend = o.pend /\ op'[c].old = o.old
        /\ op'[c].send = o.send /\ \A d \in Client : d # c => op'[d] = op[d]
    BY <1>0, <1>4 DEF Op
  <2>3. pc'[c] = "putPack" /\ At(c)' = "putPack"
    BY <1>0, <1>4 DEF At, ReadLabels, WalkLabels
  <2>4. HandOverInv(c)'
    BY <1>2, <1>3, <2>2, <2>3 DEF HandOverInv
  <2>5. PushInv(c)'
    BY <1>1, <1>2, <2>2, <2>3 DEF PushInv, LandedLabels
  <2> QED BY <1>0, <1>1, <1>2, <1>4, <2>1, <2>2, <2>4, <2>5, Goes DEF CommitLabels, ReadLabels, WalkLabels
<1>5. CASE /\ op' = [op EXCEPT ![c].send = {}]
           /\ staged' = [staged EXCEPT ![c] = @ \cup op[c].send]
           /\ pc' = [pc EXCEPT ![c] = "updateRef"]
  <2>1. op' \in [Client -> Op]
    BY <1>0, <1>5 DEF Op
  <2>2. /\ op'[c].branch = o.branch /\ op'[c].new = o.new /\ op'[c].pend = o.pend /\ op'[c].old = o.old
        /\ \A d \in Client : d # c => op'[d] = op[d]
    BY <1>0, <1>5 DEF Op
  <2>3. o.send \in SUBSET Snapshot
    BY <1>0 DEF Op
  <2>4. /\ staged' \in [Client -> SUBSET Snapshot] /\ staged'[c] = staged[c] \cup o.send
        /\ \A d \in Client : d # c => staged'[d] = staged[d]
    BY <1>0, <1>5, <2>3
  <2>5. pc'[c] = "updateRef" /\ At(c)' = "updateRef"
    BY <1>0, <1>5 DEF At, ReadLabels, WalkLabels
  <2>6. HandOverInv(c)'
    BY <1>1, <1>2, <1>3, <2>2, <2>4, <2>5 DEF HandOverInv
  <2>7. PushInv(c)'
    BY <1>1, <1>2, <2>2, <2>5 DEF PushInv, LandedLabels
  <2> QED BY <1>0, <1>1, <1>2, <1>5, <2>1, <2>2, <2>4, <2>6, <2>7, Goes DEF CommitLabels, ReadLabels, WalkLabels
<1> QED BY <1>4, <1>5 DEF Upload, Goto

\* PutPack keeps the invariant.
LEMMA PutPackStep == ASSUME Inv, NEW c \in Client, PutPack(c) PROVE Inv'
<1> DEFINE o == op[c]
<1>0. /\ op \in [Client -> Op] /\ op[c] \in Op /\ pending \in [Client -> SUBSET Pack]
      /\ staged \in [Client -> SUBSET Snapshot] /\ pc \in [Client -> Label]
      /\ bodies \in SUBSET Pack /\ idxs \in SUBSET Pack
      /\ PushInv(c) /\ ControlInv(c) /\ HandOverInv(c) /\ pc[c] = "putPack" /\ At(c) = "putPack"
  BY DEF Inv, TypeOK, ClientInv, PutPack, At, ReadLabels, WalkLabels
<1>1. /\ UNCHANGED <<manifest, log, ckpt, idxs, view, rd, op, pending, staged, hist, acked, corrupt, lost, calls>>
      /\ bodies' = bodies \cup {o.send} /\ pc' = [pc EXCEPT ![c] = "putIdx"]
  BY DEF PutPack, sessionVars, historyVars, Goto
<1>2. /\ o.branch \in Branch /\ o.new \in Snapshot /\ (o.old # None => o.old \in Ancestors[o.new])
      /\ pending[c] \subseteq bodies \cap idxs /\ o.pend \subseteq bodies \cap idxs
      /\ Ancestors[o.new] \subseteq (o.send \cup staged[c] \cup UNION pending[c]) \cup Objects
  BY <1>0 DEF ControlInv, PushInv, CommitLabels, HandOverInv
<1>3. Objects' = Objects
  BY <1>1, SameCurrent DEF Head
<1>4. bodies' \in SUBSET Pack
  BY <1>0, <1>1 DEF Op, Pack
<1>5. pc'[c] = "putIdx" /\ At(c)' = "putIdx"
  BY <1>0, <1>1 DEF At, ReadLabels, WalkLabels
<1>6. HandOverInv(c)'
  BY <1>1, <1>2, <1>3, <1>5 DEF HandOverInv
<1>7. PushInv(c)'
  BY <1>1, <1>2, <1>5 DEF PushInv, LandedLabels
<1> QED BY <1>0, <1>1, <1>2, <1>4, <1>6, <1>7, Goes DEF CommitLabels, ReadLabels, WalkLabels

\* PutIdx keeps the invariant.
LEMMA PutIdxStep == ASSUME Inv, NEW c \in Client, PutIdx(c) PROVE Inv'
<1> DEFINE o == op[c]
<1>0. /\ op \in [Client -> Op] /\ op[c] \in Op /\ pending \in [Client -> SUBSET Pack]
      /\ staged \in [Client -> SUBSET Snapshot] /\ pc \in [Client -> Label]
      /\ bodies \in SUBSET Pack /\ idxs \in SUBSET Pack
      /\ PushInv(c) /\ ControlInv(c) /\ HandOverInv(c) /\ pc[c] = "putIdx" /\ At(c) = "putIdx"
  BY DEF Inv, TypeOK, ClientInv, PutIdx, At, ReadLabels, WalkLabels
<1>1. /\ UNCHANGED <<manifest, log, ckpt, bodies, view, rd, staged, hist, acked, corrupt, lost, calls>>
      /\ idxs' = idxs \cup {o.send} /\ pc' = [pc EXCEPT ![c] = "updateRef"]
      /\ pending' = [pending EXCEPT ![c] = @ \cup {o.send}]
      /\ op' = [op EXCEPT ![c].send = {}]
  BY DEF PutIdx, historyVars, Goto
<1>2. /\ o.branch \in Branch /\ o.new \in Snapshot /\ (o.old # None => o.old \in Ancestors[o.new])
      /\ pending[c] \subseteq bodies \cap idxs /\ o.pend \subseteq bodies \cap idxs /\ o.send \in bodies
      /\ Ancestors[o.new] \subseteq (o.send \cup staged[c] \cup UNION pending[c]) \cup Objects
  BY <1>0 DEF ControlInv, PushInv, CommitLabels, HandOverInv
<1>3. Objects' = Objects
  BY <1>1, SameCurrent DEF Head
<1>4. idxs' \in SUBSET Pack /\ o.send \in Pack
  BY <1>0, <1>1 DEF Op, Pack
<1>5. pc'[c] = "updateRef" /\ At(c)' = "updateRef"
  BY <1>0, <1>1 DEF At, ReadLabels, WalkLabels
<1>6. op' \in [Client -> Op]
  BY <1>0, <1>1 DEF Op
<1>7. /\ op'[c].branch = o.branch /\ op'[c].new = o.new /\ op'[c].pend = o.pend /\ op'[c].old = o.old
      /\ \A d \in Client : d # c => op'[d] = op[d]
  BY <1>0, <1>1 DEF Op
<1>8. /\ pending' \in [Client -> SUBSET Pack] /\ pending'[c] = pending[c] \cup {o.send}
      /\ \A d \in Client : d # c => pending'[d] = pending[d]
  BY <1>0, <1>1, <1>4
<1>9. HandOverInv(c)'
  <2>1. UNION pending'[c] = o.send \cup UNION pending[c]
    BY <1>8
  <2> QED BY <1>1, <1>2, <1>3, <1>5, <1>7, <2>1 DEF HandOverInv
<1>10. PushInv(c)'
  BY <1>1, <1>2, <1>5, <1>7, <1>8 DEF PushInv, LandedLabels
<1> QED BY <1>0, <1>1, <1>2, <1>4, <1>6, <1>7, <1>8, <1>9, <1>10, Goes DEF CommitLabels, ReadLabels, WalkLabels

\* UpdateRef keeps the invariant.
LEMMA UpdateRefStep == ASSUME Inv, NEW c \in Client, UpdateRef(c) PROVE Inv'
<1> DEFINE o == op[c]
<1>0. /\ op \in [Client -> Op] /\ op[c] \in Op /\ pending \in [Client -> SUBSET Pack]
      /\ staged \in [Client -> SUBSET Snapshot] /\ pc \in [Client -> Label]
      /\ bodies \in SUBSET Pack /\ idxs \in SUBSET Pack /\ lost \in 0..MaxLost /\ calls \in 0..MaxCalls
      /\ PushInv(c) /\ ControlInv(c) /\ HandOverInv(c) /\ pc[c] = "updateRef" /\ At(c) = "updateRef"
  BY DEF Inv, TypeOK, ClientInv, UpdateRef, At, ReadLabels, WalkLabels
<1>1. UNCHANGED <<manifest, log, ckpt, bodies, idxs, view, hist, acked, corrupt, lost, calls>>
  BY DEF UpdateRef, bucketVars, historyVars
<1>2. /\ o.branch \in Branch /\ o.new \in Snapshot /\ (o.old # None => o.old \in Ancestors[o.new])
      /\ pending[c] \subseteq bodies \cap idxs /\ o.pend \subseteq bodies \cap idxs
      /\ Ancestors[o.new] \subseteq (staged[c] \cup UNION pending[c]) \cup Objects
  BY <1>0 DEF ControlInv, PushInv, CommitLabels, HandOverInv
<1>3. Objects' = Objects
  BY <1>1, SameCurrent DEF Head
<1>4. CASE /\ staged[c] # {} /\ op' = [op EXCEPT ![c].via = "put_object", ![c].send = staged[c]]
           /\ staged' = [staged EXCEPT ![c] = {}]
           /\ pc' = [pc EXCEPT ![c] = "putPack"] /\ UNCHANGED <<pending, rd>>
  <2>1. op' \in [Client -> Op]
    BY <1>0, <1>4 DEF Op
  <2>2. /\ op'[c].branch = o.branch /\ op'[c].new = o.new /\ op'[c].pend = o.pend /\ op'[c].old = o.old
        /\ op'[c].send = staged[c] /\ \A d \in Client : d # c => op'[d] = op[d]
    BY <1>0, <1>4 DEF Op
  <2>3. /\ staged' \in [Client -> SUBSET Snapshot]
        /\ \A d \in Client : d # c => staged'[d] = staged[d]
    BY <1>0, <1>4
  <2>4. pc'[c] = "putPack" /\ At(c)' = "putPack"
    BY <1>0, <1>4 DEF At, ReadLabels, WalkLabels
  <2>5. HandOverInv(c)'
    BY <1>2, <1>3, <1>4, <2>2, <2>4 DEF HandOverInv
  <2>6. PushInv(c)'
    BY <1>1, <1>2, <1>4, <2>2, <2>4 DEF PushInv, LandedLabels
  <2> QED BY <1>0, <1>1, <1>2, <1>4, <2>1, <2>2, <2>3, <2>5, <2>6, Goes DEF CommitLabels, ReadLabels, WalkLabels
<1>5. CASE /\ staged[c] = {} /\ op' = [op EXCEPT ![c].pend = pending[c]]
           /\ pending' = [pending EXCEPT ![c] = {}]
           /\ CallRefresh(c, "attempt") /\ UNCHANGED staged
  <2>1. op' \in [Client -> Op]
    BY <1>0, <1>5 DEF Op
  <2>2. /\ op'[c].branch = o.branch /\ op'[c].new = o.new /\ op'[c].pend = pending[c] /\ op'[c].old = o.old
        /\ \A d \in Client : d # c => op'[d] = op[d]
    BY <1>0, <1>5 DEF Op
  <2>3. /\ pending' \in [Client -> SUBSET Pack] /\ pending'[c] = {}
        /\ \A d \in Client : d # c => pending'[d] = pending[d]
    BY <1>0, <1>5
  <2> QED BY <1>0, <1>1, <1>2, <1>5, <2>1, <2>2, <2>3, Refreshes DEF RefreshReturns, LandedLabels
<1> QED BY <1>4, <1>5 DEF UpdateRef, Goto

\* Attempt keeps the invariant.
LEMMA AttemptStep == ASSUME Inv, NEW c \in Client, Attempt(c) PROVE Inv'
<1> DEFINE o == op[c]
           tip == ViewRefs(c)[o.branch]
<1>0. /\ op \in [Client -> Op] /\ op[c] \in Op /\ pending \in [Client -> SUBSET Pack]
      /\ staged \in [Client -> SUBSET Snapshot] /\ pc \in [Client -> Label] /\ TypeOK
      /\ bodies \in SUBSET Pack /\ idxs \in SUBSET Pack /\ acked \in SUBSET (Branch \X Snapshot)
      /\ PushInv(c) /\ ControlInv(c) /\ ViewInv(c) /\ HandOverInv(c)
      /\ pc[c] = "attempt" /\ At(c) = "attempt"
  BY DEF Inv, TypeOK, ClientInv, Attempt, At, ReadLabels, WalkLabels
<1>1. UNCHANGED <<manifest, log, ckpt, bodies, idxs, view, pending, staged, hist, lost, calls>>
  BY DEF Attempt, bucketVars, sessionVars
<1>2. /\ o.branch \in Branch /\ o.new \in Snapshot /\ (o.old # None => o.old \in Ancestors[o.new])
      /\ pending[c] \subseteq bodies \cap idxs /\ o.pend \subseteq bodies \cap idxs
      /\ Ancestors[o.new] \subseteq (UNION o.pend) \cup Objects
  BY <1>0 DEF ControlInv, PushInv, CommitLabels, HandOverInv
<1>3. tip # None => OnBranch(o.branch, tip)
  BY <1>2, ViewIsIn
<1>4. CASE tip = o.new /\ Acknowledge(c)
  <2>1. OnBranch(o.branch, o.new)
    BY <1>2, <1>3, <1>4, WalAssumption
  <2> QED BY <1>0, <1>1, <1>2, <1>4, <2>1, Acknowledges
<1>5. CASE Return(c, "nonff") /\ UNCHANGED acked
  BY <1>0, <1>1, <1>5, Returns
<1>6. CASE /\ tip = o.old
           /\ op' = [op EXCEPT ![c].base = ViewTag(c), ![c].seq = Head(ViewTag(c)) + 1]
           /\ pc' = [pc EXCEPT ![c] = "claim"]
           /\ UNCHANGED <<rd, acked, corrupt>>
  <2>1. ViewTag(c) \in Manifest \cup {None} /\ Head(ViewTag(c)) \in 0..MaxSeq
    BY <1>0, NoneAssumption, WalAssumption, Ranges DEF ViewTag, Head
  <2>2. op' \in [Client -> Op]
    <3>1. Head(ViewTag(c)) + 1 \in 0..(MaxSeq + 1)
      BY <2>1, WalAssumption
    <3> QED BY <1>0, <1>6, <2>1, <3>1 DEF Op
  <2>3. /\ op'[c].branch = o.branch /\ op'[c].new = o.new /\ op'[c].pend = o.pend /\ op'[c].old = o.old
        /\ op'[c].base = ViewTag(c) /\ op'[c].seq = Head(ViewTag(c)) + 1
        /\ \A d \in Client : d # c => op'[d] = op[d]
    BY <1>0, <1>6 DEF Op
  <2>4. pc'[c] = "claim" /\ At(c)' = "claim"
    BY <1>0, <1>6 DEF At, ReadLabels, WalkLabels
  <2>5. Objects' = Objects
    BY <1>1, SameCurrent DEF Head
  <2>6. HandOverInv(c)'
    BY <1>2, <2>3, <2>4, <2>5 DEF HandOverInv
  <2>7. /\ hist[Head(ViewTag(c))] # None
        /\ hist[Head(ViewTag(c))].refs = ViewRefs(c)
    <3>1. CASE view[c] = None
      <4>1. Head(ViewTag(c)) = 0 /\ ViewRefs(c) = NoRefs
        BY <3>1 DEF Head, ViewTag, ViewRefs
      <4>2. hist[0] = [refs |-> NoRefs, packs |-> {}] /\ hist[0] # None
        BY NoneAssumption, NoValues DEF Inv, BucketInv, ChainInv, Checkpoint
      <4> QED BY <4>1, <4>2
    <3>2. CASE view[c] # None
      <4>1. ViewTag(c) = view[c].m /\ ViewTag(c) # None /\ ViewRefs(c) = view[c].refs
        BY <1>0, <3>2, NoneAssumption, Ranges DEF ViewTag, ViewRefs
      <4> QED BY <1>0, <3>2, <4>1 DEF ViewInv, Head
    <3> QED BY <3>1, <3>2
  <2>8. (Head(op[c].base))' = Head(ViewTag(c))
    BY <2>3 DEF Head
  <2>9. PushInv(c)'
    <3>1. Head(ViewTag(c)) < Head(ViewTag(c)) + 1
      BY <2>1
    <3>2. (Head(op[c].base) < op[c].seq)'
      BY <2>3, <2>8, <3>1
    <3>3. hist'[(Head(op[c].base))'] # None /\ op'[c].old = hist'[(Head(op[c].base))'].refs[op'[c].branch]
      BY <1>1, <1>6, <2>3, <2>7, <2>8
    <3> QED BY <1>1, <1>2, <2>3, <2>4, <3>2, <3>3 DEF PushInv, LandedLabels
  <2> QED BY <1>0, <1>1, <1>2, <1>6, <2>2, <2>3, <2>6, <2>9, Goes DEF CommitLabels, ReadLabels, WalkLabels
<1> QED BY <1>4, <1>5, <1>6 DEF Attempt, Goto, TipMoved

\* Ensure keeps the invariant.
LEMMA EnsureStep == ASSUME Inv, NEW c \in Client, Ensure(c) PROVE Inv'
<1>0. /\ op \in [Client -> Op] /\ pending \in [Client -> SUBSET Pack]
      /\ staged \in [Client -> SUBSET Snapshot] /\ pc \in [Client -> Label]
      /\ bodies \in SUBSET Pack /\ idxs \in SUBSET Pack /\ acked \in SUBSET (Branch \X Snapshot)
      /\ PushInv(c) /\ ControlInv(c) /\ HandOverInv(c) /\ pc[c] = "ensure" /\ At(c) = "ensure"
  BY DEF Inv, TypeOK, ClientInv, Ensure, At, ReadLabels, WalkLabels
<1>1. UNCHANGED <<manifest, log, ckpt, bodies, idxs, view, pending, staged, hist, acked, lost, calls>>
  BY DEF Ensure, EnsurePacksPresent, bucketVars, sessionVars
<1>2. CASE pc' = [pc EXCEPT ![c] = "cas"] /\ UNCHANGED <<rd, op, corrupt>>
  <2>1. pc'[c] = "cas" /\ At(c)' = "cas"
    BY <1>0, <1>2 DEF At, ReadLabels, WalkLabels
  <2>2. Objects' = Objects
    BY <1>1, SameCurrent DEF Head
  <2>3. HandOverInv(c)'
    BY <1>0, <1>2, <2>1, <2>2 DEF HandOverInv
  <2>4. Entry(c)' = Entry(c) /\ (Head(op[c].base))' = Head(op[c].base)
    BY <1>2 DEF Entry, Head
  <2>5. PushInv(c)'
    BY <1>0, <1>1, <1>2, <2>1, <2>4 DEF PushInv, LandedLabels, CommitLabels
  <2>6. op[c].branch \in Branch /\ op[c].new \in Snapshot
    BY <1>0 DEF ControlInv, CommitLabels
  <2> QED BY <1>0, <1>1, <1>2, <2>3, <2>5, <2>6, Goes DEF CommitLabels, ReadLabels, WalkLabels
<1>3. CASE Return(c, "err")
  BY <1>0, <1>1, <1>3, Returns
<1> QED BY <1>2, <1>3 DEF Ensure, EnsurePacksPresent, Goto

\* A new log entry is on no chain yet.
LEMMA LogStep ==
    ASSUME Inv, NEW c \in Client, Others(c), TypeOK', ClientInv(c)',
           op[c].seq \in Slot, log[op[c].seq] = None, log' = [log EXCEPT ![op[c].seq] = Entry(c)],
           op[c].branch \in Branch, op[c].new \in Snapshot,
           UNCHANGED <<manifest, ckpt, bodies, idxs, hist, acked>>,
           pc'[c] \in {"ensure", "cas"} => op'[c].seq = op[c].seq
    PROVE  Inv'
<1>0. TypeOK /\ log \in [Slot -> LogEntry \cup {None}] /\ ChainInv
  BY DEF Inv, TypeOK, BucketInv
<1>1. /\ CurrentState' = CurrentState /\ Objects' = Objects
      /\ \A b, s : OnBranch(b, s)' <=> OnBranch(b, s)
  BY SameCurrent DEF Head
<1>2. /\ log'[op[c].seq] = Entry(c) /\ Entry(c).branch \in Branch /\ Entry(c).new \in Snapshot
      /\ \A s \in Slot : s # op[c].seq => log'[s] = log[s]
  BY <1>0 DEF Entry
<1>3. Grows
  BY <1>1, <1>2 DEF Grows
<1>4. \A d \in Client : ClientInv(d)'
  <2> SUFFICES ASSUME NEW d \in Client, d # c PROVE ClientInv(d)'
    OBVIOUS
  <2>1. pc[d] \in {"ensure", "cas"} => hist'[op[d].seq] = None
    BY DEF Inv, ClientInv, PushInv
  <2> QED BY <1>3, <2>1, ClientFrame DEF Inv, BucketInv
<1>5. ChainInv'
  <2>1. hist[op[c].seq] = None
    BY <1>0 DEF ChainInv
  <2> QED BY <1>0, <1>2, <2>1 DEF ChainInv, Extend
<1>6. CurrentInv' /\ RefsReadable' /\ AckedIsDurable'
  BY <1>1 DEF Inv, BucketInv, CurrentInv, GoodManifest, RefsReadable, AckedIsDurable
<1>7. SlotsInv'
  <2>1. ASSUME NEW d \in Client, d # c, pc[d] \in {"ensure", "cas"} PROVE op[d].seq # op[c].seq
    BY <1>0, <2>1, EntryIsNotNone DEF Inv, ClientInv, PushInv
  <2> QED BY <2>1 DEF Inv, BucketInv, SlotsInv, Others, Local
<1> QED BY <1>4, <1>5, <1>6, <1>7 DEF Inv, BucketInv

\* Claim keeps the invariant.
LEMMA ClaimStep == ASSUME Inv, NEW c \in Client, Claim(c) PROVE Inv'
<1> DEFINE o == op[c]
<1>0. /\ op \in [Client -> Op] /\ op[c] \in Op /\ pending \in [Client -> SUBSET Pack]
      /\ staged \in [Client -> SUBSET Snapshot] /\ pc \in [Client -> Label] /\ TypeOK
      /\ bodies \in SUBSET Pack /\ idxs \in SUBSET Pack /\ acked \in SUBSET (Branch \X Snapshot)
      /\ PushInv(c) /\ ControlInv(c) /\ HandOverInv(c) /\ WalkInv(c) /\ ViewInv(c)
      /\ pc[c] = "claim" /\ At(c) = "claim"
  BY DEF Inv, TypeOK, ClientInv, Claim, At, ReadLabels, WalkLabels
<1>1. UNCHANGED <<manifest, ckpt, bodies, idxs, view, pending, staged, hist, acked, calls>>
  BY DEF Claim, ClaimSlot, sessionVars
<1>2. /\ o.branch \in Branch /\ o.new \in Snapshot /\ (o.old # None => o.old \in Ancestors[o.new])
      /\ pending[c] \subseteq bodies \cap idxs /\ o.pend \subseteq bodies \cap idxs
      /\ Ancestors[o.new] \subseteq (UNION o.pend) \cup Objects
      /\ Head(o.base) < o.seq /\ hist[Head(o.base)] # None /\ o.old = hist[Head(o.base)].refs[o.branch]
  BY <1>0 DEF ControlInv, PushInv, CommitLabels, HandOverInv
<1>3. Head(o.base) \in 0..MaxSeq /\ o.seq \in 0..(MaxSeq + 1)
  BY <1>0, Ranges
<1>4. Objects' = Objects
  BY <1>1, SameCurrent DEF Head
<1>5. CASE Return(c, "err") /\ UNCHANGED <<log, lost>>
  BY <1>0, <1>1, <1>5, Returns
<1>6. o.seq <= MaxSeq => o.seq \in Slot /\ o.seq + 1 \in 0..(MaxSeq + 1)
  BY <1>2, <1>3, WalAssumption DEF Slot
<1>7. ASSUME op' = [op EXCEPT ![c].seq = @ + 1], o.seq <= MaxSeq, UNCHANGED <<pc, rd, corrupt>>
      PROVE  /\ op' \in [Client -> Op] /\ HandOverInv(c)' /\ PushInv(c)'
             /\ op'[c].branch = o.branch /\ op'[c].new = o.new /\ \A d \in Client : d # c => op'[d] = op[d]
  <2>1. op' \in [Client -> Op]
    BY <1>0, <1>6, <1>7 DEF Op
  <2>2. /\ op'[c].branch = o.branch /\ op'[c].new = o.new /\ op'[c].pend = o.pend /\ op'[c].old = o.old
        /\ op'[c].base = o.base /\ op'[c].seq = o.seq + 1
        /\ \A d \in Client : d # c => op'[d] = op[d]
    BY <1>0, <1>7 DEF Op
  <2>3. pc'[c] = "claim" /\ At(c)' = "claim"
    BY <1>0, <1>7 DEF At, ReadLabels, WalkLabels
  <2>4. HandOverInv(c)'
    BY <1>2, <1>4, <2>2, <2>3 DEF HandOverInv
  <2>5. (Head(op[c].base))' = Head(o.base) /\ Head(o.base) < o.seq + 1
    BY <1>2, <1>3, <2>2 DEF Head
  <2>6. PushInv(c)'
    <3>1. (Head(op[c].base) < op[c].seq)'
      BY <2>2, <2>5
    <3>2. hist'[(Head(op[c].base))'] # None /\ op'[c].old = hist'[(Head(op[c].base))'].refs[op'[c].branch]
      BY <1>1, <1>2, <2>2, <2>5
    <3> QED BY <1>1, <1>2, <2>2, <2>3, <3>1, <3>2 DEF PushInv, LandedLabels
  <2> QED BY <2>1, <2>2, <2>4, <2>6
<1>8. CASE /\ o.seq <= MaxSeq /\ op' = [op EXCEPT ![c].seq = @ + 1] /\ UNCHANGED <<log, pc, rd, corrupt, lost>>
  <2>1. pc' = [pc EXCEPT ![c] = "claim"]
    BY <1>0, <1>8
  <2> QED BY <1>0, <1>1, <1>2, <1>7, <1>8, <2>1, Goes DEF CommitLabels, ReadLabels, WalkLabels
<1>9. CASE /\ o.seq <= MaxSeq /\ log[o.seq] = None /\ log' = [log EXCEPT ![o.seq] = Entry(c)]
           /\ UNCHANGED <<rd, corrupt>>
           /\ \/ pc' = [pc EXCEPT ![c] = "ensure"] /\ UNCHANGED <<op, lost>>
              \/ lost < MaxLost /\ lost' = lost + 1 /\ op' = [op EXCEPT ![c].seq = @ + 1] /\ UNCHANGED pc
  <2>0. o.seq \in Slot /\ Entry(c) \in LogEntry
    BY <1>0, <1>6, <1>9, EntryIsNotNone
  <2>1. log' \in [Slot -> LogEntry \cup {None}] /\ log'[o.seq] = Entry(c)
    BY <1>0, <1>9, <2>0 DEF TypeOK
  <2>2. CASE pc' = [pc EXCEPT ![c] = "ensure"] /\ UNCHANGED <<op, lost>>
    <3>1. TypeOK'
      BY <1>0, <1>1, <1>9, <2>1, <2>2, Labels DEF TypeOK, CommitLabels
    <3>2. Others(c)
      BY <1>0, <1>1, <1>9, <2>2 DEF Others, Local
    <3>3. pc'[c] = "ensure" /\ At(c)' = "ensure" /\ "ensure" \in Label \ CompactLabels /\ "ensure" \notin ReadLabels
      BY <1>0, <2>2, Labels DEF At, ReadLabels, WalkLabels, CommitLabels, CompactLabels
    <3>4. ControlInv(c)'
      BY <1>0, <1>2, <1>9, <2>2, <3>3 DEF ControlInv, ReadLabels, WalkLabels
    <3>5. WalkInv(c)' /\ ViewInv(c)'
      BY <1>0, <1>1, <3>3 DEF WalkInv, ViewInv, WalkLabels
    <3>6. HandOverInv(c)'
      BY <1>2, <1>4, <2>2, <3>3 DEF HandOverInv
    <3>7. hist[o.seq] = None
      BY <1>9, <2>0 DEF Inv, BucketInv, ChainInv
    <3>8. Entry(c)' = Entry(c) /\ (Head(op[c].base))' = Head(op[c].base)
      BY <2>2 DEF Entry, Head
    <3>9. PushInv(c)'
      BY <1>1, <1>2, <2>0, <2>1, <2>2, <3>3, <3>7, <3>8 DEF PushInv, LandedLabels
    <3> QED BY <1>1, <1>2, <1>9, <2>0, <2>2, <3>1, <3>2, <3>4, <3>5, <3>6, <3>9, LogStep DEF ClientInv
  <2>3. CASE lost < MaxLost /\ lost' = lost + 1 /\ op' = [op EXCEPT ![c].seq = @ + 1] /\ UNCHANGED pc
    <3>0. /\ op' \in [Client -> Op] /\ HandOverInv(c)' /\ PushInv(c)'
          /\ op'[c].branch = o.branch /\ op'[c].new = o.new /\ \A d \in Client : d # c => op'[d] = op[d]
      BY <1>7, <1>9, <2>3
    <3>1. TypeOK'
      <4>1. lost' \in 0..MaxLost
        BY <1>0, <2>3, WalAssumption DEF TypeOK
      <4> QED BY <1>0, <1>1, <1>9, <2>1, <2>3, <3>0, <4>1 DEF TypeOK
    <3>2. Others(c)
      BY <1>0, <1>1, <1>9, <2>3, <3>0 DEF Others, Local
    <3>3. pc'[c] = "claim" /\ At(c)' = At(c)
      BY <1>0, <2>3, <1>9 DEF At
    <3>4. ControlInv(c)'
      BY <1>0, <1>2, <1>9, <3>0, <3>3 DEF ControlInv
    <3>5. WalkInv(c)' /\ ViewInv(c)'
      BY <1>0, <1>1, <3>3 DEF WalkInv, ViewInv, WalkLabels
    <3> QED BY <1>1, <1>2, <1>9, <2>0, <3>0, <3>1, <3>2, <3>3, <3>4, <3>5, LogStep DEF ClientInv
  <2> QED BY <1>9, <2>2, <2>3
<1> QED BY <1>5, <1>8, <1>9 DEF Claim, ClaimSlot, Goto, NextSlot

-----------------------------------------------------------------------------
(* The commit *)

\* What the manifest's compare-and-swap does to the bucket: the branch moves
\* forward, everything its new tip reaches is there, and nothing else changes.
LEMMA CommitFacts ==
    ASSUME Inv, NEW c \in Client, pc[c] = "cas", manifest = op[c].base, manifest' = NewManifest(c),
           hist' = [hist EXCEPT ![op[c].seq] = Extend(hist[Entry(c).parent], Entry(c))],
           UNCHANGED <<log, ckpt, bodies, idxs, acked>>
    PROVE  /\ manifest' \in Manifest /\ hist' \in [0..MaxSeq -> Checkpoint \cup {None}]
           /\ CurrentState.refs[op[c].branch] = op[c].old
           /\ CurrentState'.refs = [CurrentState.refs EXCEPT ![op[c].branch] = op[c].new]
           /\ Objects' \subseteq Snapshot /\ Objects \cup Ancestors[op[c].new] \subseteq Objects'
           /\ Grows /\ ChainInv' /\ CurrentInv' /\ RefsReadable' /\ AckedIsDurable'
           /\ \A b, s : b = op[c].branch /\ s = op[c].new => OnBranch(b, s)'
           /\ \A d \in Client : d # c /\ pc[d] \in {"ensure", "cas"} => hist'[op[d].seq] = None
<1> DEFINE o == op[c]
           h == hist[Head(manifest)]
           x == Extend(h, Entry(c))
<1>0. /\ TypeOK /\ ChainInv /\ CurrentInv /\ RefsReadable /\ AckedIsDurable /\ SlotsInv
      /\ hist \in [0..MaxSeq -> Checkpoint \cup {None}] /\ o \in Op
      /\ PushInv(c) /\ ControlInv(c) /\ HandOverInv(c) /\ At(c) = "cas"
  BY DEF Inv, BucketInv, TypeOK, ClientInv, At, ReadLabels, WalkLabels
<1>1. /\ o.branch \in Branch /\ o.new \in Snapshot /\ (o.old # None => o.old \in Ancestors[o.new])
      /\ o.pend \subseteq bodies \cap idxs /\ Ancestors[o.new] \subseteq (UNION o.pend) \cup Objects
      /\ Head(manifest) < o.seq /\ h # None /\ o.old = h.refs[o.branch]
      /\ o.seq \in Slot /\ log[o.seq] = Entry(c) /\ hist[o.seq] = None
  BY <1>0 DEF ControlInv, PushInv, CommitLabels, HandOverInv
<1>2. Head(manifest) \in 0..MaxSeq /\ o.seq \in 0..MaxSeq /\ o.seq # 0 /\ Head(manifest) # o.seq
  BY <1>0, <1>1, Ranges, WalAssumption DEF Slot
<1>3. h \in Checkpoint /\ h.refs \in Refs /\ h.packs \in SUBSET Pack /\ CurrentState = h
  BY <1>0, <1>1, <1>2 DEF Checkpoint, CurrentState
<1>4. Entry(c).parent = Head(manifest) /\ Entry(c).packs = o.pend /\ Entry(c).branch = o.branch /\ Entry(c).new = o.new
  BY DEF Entry
<1>5. /\ x.refs = [h.refs EXCEPT ![o.branch] = o.new] /\ x.packs = h.packs \cup o.pend
      /\ x \in Checkpoint /\ x # None
  <2>1. x = [refs |-> [b \in Branch |-> IF b = o.branch THEN o.new ELSE h.refs[b]], packs |-> h.packs \cup o.pend]
    BY <1>4 DEF Extend
  <2>2. [b \in Branch |-> IF b = o.branch THEN o.new ELSE h.refs[b]] = [h.refs EXCEPT ![o.branch] = o.new]
    BY <1>3 DEF Refs
  <2>3. [h.refs EXCEPT ![o.branch] = o.new] \in Refs
    BY <1>1, <1>3 DEF Refs, Tip
  <2>4. h.packs \cup o.pend \in SUBSET Pack
    BY <1>0, <1>3 DEF Op
  <2>5. x \in Checkpoint
    BY <2>1, <2>2, <2>3, <2>4 DEF Checkpoint
  <2> HIDE DEF x
  <2> QED BY <2>1, <2>2, <2>5, NoneAssumption
<1>6. /\ hist' = [hist EXCEPT ![o.seq] = x] /\ hist' \in [0..MaxSeq -> Checkpoint \cup {None}]
      /\ hist'[o.seq] = x /\ \A s \in 0..MaxSeq : s # o.seq => hist'[s] = hist[s]
  BY <1>0, <1>2, <1>4, <1>5
<1>7. manifest' \in Manifest /\ manifest' # None /\ manifest'.head = o.seq
      /\ (manifest'.ck # 0 => manifest # None /\ manifest'.ck = manifest.ck)
  <2>1. manifest \in Manifest \cup {None}
    BY <1>0 DEF TypeOK
  <2>2. manifest' \in Manifest
    BY <1>1, <2>1, WalAssumption DEF NewManifest, Manifest
  <2> QED BY <2>2, NoneAssumption DEF NewManifest
<1>8. CurrentState' = x
  BY <1>6, <1>7 DEF CurrentState, Head
<1> HIDE DEF x
<1>9. /\ Objects = UNION h.packs /\ Objects' = UNION (h.packs \cup o.pend)
      /\ UNION (h.packs \cup o.pend) = Objects \cup UNION o.pend
  <2>1. Objects = UNION h.packs
    BY <1>3 DEF Objects
  <2>2. Objects' = UNION x.packs
    BY <1>8 DEF Objects
  <2> QED BY <1>5, <2>1, <2>2
<1>10. Objects \cup Ancestors[o.new] \subseteq Objects' /\ Objects' \subseteq Snapshot
  <2>1. x.packs \in SUBSET Pack
    BY <1>5 DEF Checkpoint
  <2>2. Objects' \subseteq Snapshot
    BY <1>8, <2>1 DEF Objects, Pack
  <2> QED BY <1>1, <1>9, <2>2
<1>11. ASSUME NEW b \in Branch, NEW s \in Snapshot, OnBranch(b, s) PROVE OnBranch(b, s)'
  <2>1. h.refs[b] # None /\ s \in Ancestors[h.refs[b]] /\ h.refs[b] \in Snapshot
    BY <1>3, <1>11 DEF OnBranch, Refs, Tip
  <2>2. CASE b = o.branch
    <3>1. x.refs[b] = o.new /\ o.new # None
      BY <1>1, <1>3, <1>5, <2>2, WalAssumption DEF Refs
    <3>2. s \in Ancestors[o.new]
      BY <1>1, <2>1, <2>2, WalAssumption
    <3> QED BY <1>8, <3>1, <3>2 DEF OnBranch
  <2>3. CASE b # o.branch
    <3>1. x.refs[b] = h.refs[b]
      BY <1>3, <1>5, <2>3 DEF Refs
    <3> QED BY <1>8, <2>1, <3>1 DEF OnBranch
  <2> QED BY <2>2, <2>3
<1>12. ASSUME NEW b, NEW s, b = o.branch, s = o.new PROVE OnBranch(b, s)'
  <2>1. x.refs[o.branch] = o.new /\ o.new # None /\ o.new \in Ancestors[o.new]
    BY <1>1, <1>3, <1>5, WalAssumption DEF Refs
  <2> QED BY <1>8, <1>12, <2>1 DEF OnBranch
<1>13. Grows
  BY <1>1, <1>6, <1>10, <1>11 DEF Grows
<1>14. ChainInv'
  <2>1. hist'[0] = hist[0]
    BY <1>2, <1>6, WalAssumption
  <2>2. ASSUME NEW s \in Slot, hist'[s] # None
        PROVE  log[s] # None /\ hist'[log[s].parent] # None /\ hist'[s] = Extend(hist'[log[s].parent], log[s])
    <3>1. CASE s = o.seq
      <4>1. log[s] = Entry(c) /\ Entry(c) # None /\ log[s].parent = Head(manifest)
        BY <1>0, <1>1, <1>4, <3>1, EntryIsNotNone
      <4>2. hist'[Head(manifest)] = h /\ h # None
        BY <1>1, <1>2, <1>6
      <4> QED BY <1>6, <3>1, <4>1, <4>2 DEF x
    <3>2. CASE s # o.seq
      <4>1. hist'[s] = hist[s] /\ hist[s] # None
        BY <1>6, <2>2, <3>2, <1>0, Ranges
      <4>2. log[s] # None /\ hist[log[s].parent] # None /\ hist[s] = Extend(hist[log[s].parent], log[s])
        BY <1>0, <4>1 DEF ChainInv
      <4>3. log[s].parent \in 0..MaxSeq /\ log[s].parent # o.seq
        BY <1>0, <1>1, <4>2 DEF TypeOK, LogEntry
      <4> QED BY <1>6, <4>1, <4>2, <4>3
    <3> QED BY <3>1, <3>2
  <2>3. ASSUME NEW s \in Slot, ckpt[s] # None PROVE hist'[s] # None /\ ckpt[s] = hist'[s]
    <3>1. hist[s] # None /\ ckpt[s] = hist[s] /\ s \in 0..MaxSeq
      BY <1>0, <2>3, Ranges DEF ChainInv
    <3> QED BY <1>1, <1>6, <3>1
  <2> QED BY <1>0, <2>1, <2>2, <2>3 DEF ChainInv
<1>15. CurrentInv'
  <2>1. GoodManifest(manifest)'
    BY <1>0, <1>5, <1>6, <1>7 DEF CurrentInv, GoodManifest
  <2>2. ASSUME NEW s \in 0..MaxSeq, hist'[s] # None
        PROVE  /\ hist'[s].packs \subseteq CurrentState'.packs
               /\ \A b \in Branch : hist'[s].refs[b] # None => OnBranch(b, hist[s].refs[b])'
    <3>1. CASE s = o.seq
      <4>1. hist'[s] = x /\ x.refs \in Refs
        BY <1>5, <1>6, <3>1 DEF Checkpoint
      <4>2. \A b \in Branch : x.refs[b] # None => x.refs[b] \in Ancestors[x.refs[b]]
        BY <4>1, WalAssumption DEF Refs, Tip
      <4> QED BY <1>8, <4>1, <4>2 DEF OnBranch
    <3>2. CASE s # o.seq
      <4>1. hist'[s] = hist[s] /\ hist[s] # None /\ hist[s].refs \in Refs
        BY <1>0, <1>6, <2>2, <3>2 DEF Checkpoint
      <4>2. hist[s].packs \subseteq h.packs
            /\ \A b \in Branch : hist[s].refs[b] # None => OnBranch(b, hist[s].refs[b])
        BY <1>0, <1>3, <4>1 DEF CurrentInv
      <4>3. ASSUME NEW b \in Branch, hist[s].refs[b] # None PROVE OnBranch(b, hist[s].refs[b])'
        <5>1. hist[s].refs[b] \in Snapshot /\ OnBranch(b, hist[s].refs[b])
          BY <4>1, <4>2, <4>3 DEF Refs, Tip
        <5>2. CurrentState'.refs[b] # None /\ hist[s].refs[b] \in Ancestors[CurrentState'.refs[b]]
          BY <1>11, <5>1 DEF OnBranch
        <5> QED BY <4>1, <5>2 DEF OnBranch
      <4> QED BY <1>5, <1>8, <4>1, <4>2, <4>3
    <3> QED BY <3>1, <3>2
  <2> QED BY <2>1, <2>2 DEF CurrentInv
<1>16. RefsReadable'
  <2>1. x.packs \subseteq bodies \cap idxs
    BY <1>0, <1>1, <1>3, <1>5 DEF RefsReadable
  <2>2. ASSUME NEW b \in Branch, x.refs[b] # None PROVE Ancestors[x.refs[b]] \subseteq Objects'
    <3>1. CASE b = o.branch
      <4>1. x.refs[b] = o.new
        BY <1>3, <1>5, <3>1 DEF Refs
      <4> QED BY <1>10, <4>1
    <3>2. CASE b # o.branch
      <4>1. x.refs[b] = h.refs[b]
        BY <1>3, <1>5, <3>2 DEF Refs
      <4>2. Ancestors[h.refs[b]] \subseteq Objects
        BY <1>0, <1>3, <2>2, <4>1 DEF RefsReadable, Objects
      <4> QED BY <1>10, <4>1, <4>2
    <3> QED BY <3>1, <3>2
  <2>3. Objects' = UNION x.packs
    BY <1>8 DEF Objects
  <2> QED BY <1>8, <2>1, <2>2, <2>3 DEF RefsReadable
<1>17. AckedIsDurable'
  <2> SUFFICES ASSUME NEW a \in acked PROVE OnBranch(a[1], a[2])'
    BY DEF AckedIsDurable, OnBranch
  <2>1. a[1] \in Branch /\ a[2] \in Snapshot /\ OnBranch(a[1], a[2])
    BY <1>0 DEF TypeOK, AckedIsDurable, OnBranch
  <2> QED BY <1>11, <2>1
<1>18. ASSUME NEW d \in Client, d # c, pc[d] \in {"ensure", "cas"} PROVE hist'[op[d].seq] = None
  <2>1. op[d].seq # o.seq /\ op[d].seq \in Slot /\ hist[op[d].seq] = None
    BY <1>0, <1>18 DEF SlotsInv, Inv, ClientInv, PushInv
  <2> QED BY <1>0, <1>6, <2>1, Ranges
<1>19. /\ CurrentState.refs[o.branch] = o.old
       /\ CurrentState'.refs = [CurrentState.refs EXCEPT ![o.branch] = o.new]
  BY <1>1, <1>3, <1>5, <1>8
<1> QED BY <1>6, <1>7, <1>10, <1>12, <1>13, <1>14, <1>15, <1>16, <1>17, <1>18, <1>19

\* A step that changes the bucket, by what it does to it.
LEMMA BucketStep ==
    ASSUME Inv, NEW c \in Client, Others(c), TypeOK', ClientInv(c)', Grows,
           ChainInv', CurrentInv', RefsReadable', AckedIsDurable',
           \A d \in Client : d # c /\ pc[d] \in {"ensure", "cas"} => hist'[op[d].seq] = None,
           pc'[c] \notin {"ensure", "cas"}
    PROVE  Inv'
<1>1. \A d \in Client : ClientInv(d)'
  BY ClientFrame DEF Inv, BucketInv
<1>2. SlotsInv'
  BY DEF Inv, BucketInv, SlotsInv, Others, Local
<1> QED BY <1>1, <1>2 DEF Inv, BucketInv

\* The locals of a push that tries again.
LEMMA RetryFacts ==
    ASSUME Inv, NEW c \in Client, pc[c] = "cas",
           op' = [op EXCEPT ![c].n = @ + 1, ![c].base = None, ![c].seq = 0]
    PROVE  /\ op' \in [Client -> Op] /\ \A d \in Client : d # c => op'[d] = op[d]
           /\ op'[c].branch = op[c].branch /\ op'[c].new = op[c].new
           /\ op'[c].pend = op[c].pend /\ op'[c].old = op[c].old
<1>1. op \in [Client -> Op] /\ op[c] \in Op /\ op[c].n + 1 \in Nat /\ 0 \in 0..(MaxSeq + 1)
  BY WalAssumption DEF Inv, TypeOK, Op
<1> QED BY <1>1 DEF Op

\* Cas keeps the invariant.
LEMMA CasStep == ASSUME Inv, NEW c \in Client, Cas(c) PROVE Inv'
<1> DEFINE o == op[c]
<1>0. /\ op \in [Client -> Op] /\ o \in Op /\ pending \in [Client -> SUBSET Pack]
      /\ staged \in [Client -> SUBSET Snapshot] /\ pc \in [Client -> Label] /\ TypeOK
      /\ lost \in 0..MaxLost /\ calls \in 0..MaxCalls /\ acked \in SUBSET (Branch \X Snapshot)
      /\ ClientInv(c) /\ pc[c] = "cas" /\ At(c) = "cas"
  BY DEF Inv, TypeOK, Cas, At, ReadLabels, WalkLabels
<1>1. UNCHANGED <<log, ckpt, bodies, idxs, view, pending, staged, acked, calls>>
  BY DEF Cas, sessionVars
<1>2. /\ o.branch \in Branch /\ o.new \in Snapshot /\ (o.old # None => o.old \in Ancestors[o.new])
      /\ pending[c] \subseteq bodies \cap idxs /\ o.pend \subseteq bodies \cap idxs
      /\ Ancestors[o.new] \subseteq (UNION o.pend) \cup Objects
  BY <1>0 DEF ClientInv, ControlInv, PushInv, CommitLabels, HandOverInv
<1>3. CASE /\ Retry(c) /\ UNCHANGED <<manifest, hist, lost>>
  <2>1. CASE /\ op' = [op EXCEPT ![c].n = @ + 1, ![c].base = None, ![c].seq = 0]
             /\ CallRefresh(c, "attempt") /\ UNCHANGED corrupt
    BY <1>0, <1>1, <1>2, <1>3, <2>1, RetryFacts, Refreshes DEF RefreshReturns, LandedLabels
  <2>2. CASE Return(c, "contention")
    BY <1>0, <1>1, <1>3, <2>2, Returns
  <2> QED BY <1>3, <2>1, <2>2 DEF Retry
<1>4. CASE /\ manifest = o.base /\ manifest' = NewManifest(c)
           /\ hist' = [hist EXCEPT ![o.seq] = Extend(hist[Entry(c).parent], Entry(c))]
           /\ \/ CallRefresh(c, "foldPut") /\ UNCHANGED <<op, corrupt, lost>>
              \/ lost < MaxLost /\ lost' = lost + 1 /\ Retry(c)
  <2>1. /\ manifest' \in Manifest /\ hist' \in [0..MaxSeq -> Checkpoint \cup {None}]
        /\ Grows /\ ChainInv' /\ CurrentInv' /\ RefsReadable' /\ AckedIsDurable'
        /\ \A b, s : b = op[c].branch /\ s = op[c].new => OnBranch(b, s)'
        /\ \A d \in Client : d # c /\ pc[d] \in {"ensure", "cas"} => hist'[op[d].seq] = None
    BY <1>0, <1>1, <1>4, CommitFacts
  <2>2. CASE CallRefresh(c, "foldPut") /\ UNCHANGED <<op, corrupt, lost>>
    <3>1. /\ pc' \in [Client -> Label] /\ rd' \in [Client -> Reading] /\ pc'[c] = "getManifest"
          /\ \A d \in Client : d # c => pc'[d] = pc[d] /\ rd'[d] = rd[d]
          /\ ClientInv(c)'
      BY <1>0, <1>1, <1>2, <2>1, <2>2, RefreshingClient DEF RefreshReturns, LandedLabels
    <3>2. TypeOK'
      BY <1>0, <1>1, <2>1, <2>2, <3>1 DEF TypeOK
    <3>3. Others(c)
      BY <1>1, <2>2, <3>1 DEF Others, Local
    <3> QED BY <2>1, <3>1, <3>2, <3>3, BucketStep
  <2>3. CASE lost < MaxLost /\ lost' = lost + 1 /\ Retry(c)
    <3>0. lost' \in 0..MaxLost
      BY <1>0, <2>3, WalAssumption
    <3>1. CASE /\ op' = [op EXCEPT ![c].n = @ + 1, ![c].base = None, ![c].seq = 0]
               /\ CallRefresh(c, "attempt") /\ UNCHANGED corrupt
      <4>1. /\ op' \in [Client -> Op] /\ \A d \in Client : d # c => op'[d] = op[d]
            /\ op'[c].branch = o.branch /\ op'[c].new = o.new
            /\ op'[c].pend = o.pend /\ op'[c].old = o.old
        BY <1>0, <3>1, RetryFacts
      <4>2. /\ pc' \in [Client -> Label] /\ rd' \in [Client -> Reading] /\ pc'[c] = "getManifest"
            /\ \A d \in Client : d # c => pc'[d] = pc[d] /\ rd'[d] = rd[d]
            /\ ClientInv(c)'
        BY <1>0, <1>1, <1>2, <2>1, <3>1, <4>1, RefreshingClient DEF RefreshReturns, LandedLabels
      <4>3. TypeOK'
        BY <1>0, <1>1, <2>1, <3>0, <3>1, <4>1, <4>2 DEF TypeOK
      <4>4. Others(c)
        BY <1>1, <4>1, <4>2 DEF Others, Local
      <4> QED BY <2>1, <4>2, <4>3, <4>4, BucketStep
    <3>2. CASE Return(c, "contention")
      <4>1. /\ pc' \in [Client -> Label] /\ rd' \in [Client -> Reading] /\ op' \in [Client -> Op]
            /\ corrupt' \subseteq Client /\ pc'[c] = "idle"
            /\ \A d \in Client : d # c => pc'[d] = pc[d] /\ rd'[d] = rd[d] /\ op'[d] = op[d]
            /\ ClientInv(c)'
        BY <1>0, <1>1, <2>1, <3>2, ReturningClient
      <4>2. TypeOK'
        BY <1>0, <1>1, <2>1, <3>0, <4>1 DEF TypeOK
      <4>3. Others(c)
        BY <1>1, <4>1 DEF Others, Local
      <4> QED BY <2>1, <4>1, <4>2, <4>3, BucketStep
    <3> QED BY <2>3, <3>1, <3>2 DEF Retry
  <2> QED BY <1>4, <2>2, <2>3
<1> QED BY <1>3, <1>4 DEF Cas, TagMatches

-----------------------------------------------------------------------------
(* The fold *)

\* FoldPut keeps the invariant.
LEMMA FoldPutStep == ASSUME Inv, NEW c \in Client, FoldPut(c) PROVE Inv'
<1> DEFINE v == view[c]
           ck == [refs |-> v.refs, packs |-> v.packs]
<1>0. /\ pc \in [Client -> Label] /\ staged \in [Client -> SUBSET Snapshot] /\ TypeOK /\ ClientInv(c)
      /\ ckpt \in [Slot -> Checkpoint \cup {None}] /\ pc[c] = "foldPut" /\ At(c) = "foldPut" /\ Committed(c)
  BY DEF Inv, TypeOK, FoldPut, At, ReadLabels, WalkLabels, Committed, LandedLabels
<1>1. UNCHANGED <<manifest, log, bodies, idxs, view, pending, staged, hist, lost, calls>>
  BY DEF FoldPut, sessionVars
<1>2. op[c].branch \in Branch /\ op[c].new \in Snapshot /\ OnBranch(op[c].branch, op[c].new)
  BY <1>0, CommittedIsOn
<1>3. CASE Acknowledge(c) /\ UNCHANGED ckpt
  BY <1>0, <1>1, <1>2, <1>3, Acknowledges
<1>4. CASE /\ v # None /\ ~(v.m.head - v.m.ck <= CheckpointInterval)
           /\ ckpt' = IF ckpt[v.m.head] = None THEN [ckpt EXCEPT ![v.m.head] = ck] ELSE ckpt
           /\ pc' = [pc EXCEPT ![c] = "foldCas"]
           /\ UNCHANGED <<rd, op, acked, corrupt>>
  <2>1. /\ v.m.head \in Slot /\ v.m.head \in 0..MaxSeq /\ v.m.ck \in 0..MaxSeq
        /\ hist[v.m.head] # None /\ v.refs = hist[v.m.head].refs /\ v.packs = hist[v.m.head].packs
    BY <1>0, <1>4, Ranges DEF ClientInv, ViewInv
  <2>2. hist[v.m.head] \in Checkpoint
    BY <1>0, <2>1 DEF TypeOK
  <2>3. ck = hist[v.m.head] /\ ck \in Checkpoint /\ ck # None
    BY <2>1, <2>2, NoneAssumption DEF Checkpoint
  <2> HIDE DEF ck
  <2>4. v.m.ck < v.m.head
    BY <1>4, <2>1, WalAssumption DEF Slot
  <2>5. /\ ckpt' \in [Slot -> Checkpoint \cup {None}] /\ ckpt'[v.m.head] # None
        /\ \A s \in Slot : ckpt[s] # None => ckpt'[s] = ckpt[s]
        /\ \A s \in Slot : ckpt'[s] # None => ckpt'[s] = ckpt[s] \/ (s = v.m.head /\ ckpt'[s] = ck)
    BY <1>0, <1>4, <2>1, <2>3
  <2>6. TypeOK'
    BY <1>0, <1>1, <1>4, <2>5, Labels DEF TypeOK, LandedLabels
  <2>7. Others(c)
    BY <1>0, <1>1, <1>4 DEF Others, Local
  <2>8. pc'[c] = "foldCas" /\ At(c)' = "foldCas" /\ "foldCas" \in Label \ CompactLabels /\ "foldCas" \notin ReadLabels
    BY <1>0, <1>4, Labels DEF At, ReadLabels, WalkLabels, LandedLabels, CompactLabels
  <2>9. /\ CurrentState' = CurrentState /\ Objects' = Objects
        /\ \A b, s : OnBranch(b, s)' <=> OnBranch(b, s)
    BY <1>1, SameCurrent DEF Head
  <2>10. Grows
    BY <1>1, <1>4, <2>5, <2>9 DEF Grows
  <2>11. ControlInv(c)'
    BY <1>0, <1>2, <1>4, <2>8 DEF ClientInv, ControlInv, ReadLabels, WalkLabels
  <2>12. WalkInv(c)' /\ ViewInv(c)' /\ HandOverInv(c)'
    BY <1>0, <1>1, <2>8 DEF ClientInv, WalkInv, ViewInv, HandOverInv, WalkLabels
  <2>13. PushInv(c)'
    <3>1. OnBranch(op[c].branch, op[c].new)'
      BY <1>2, <1>4, <2>9 DEF OnBranch
    <3> QED BY <1>0, <1>1, <1>4, <2>4, <2>5, <2>8, <3>1 DEF ClientInv, PushInv, CommitLabels
  <2>14. ChainInv'
    BY <1>1, <2>1, <2>3, <2>5 DEF Inv, BucketInv, ChainInv
  <2>15. CurrentInv'
    <3>1. ASSUME manifest # None PROVE GoodManifest(manifest)'
      <4>1. GoodManifest(manifest) /\ (manifest.ck # 0 => manifest.ck \in Slot)
        BY <1>0, <3>1, Ranges DEF TypeOK, Manifest, Inv, BucketInv, CurrentInv
      <4> QED BY <1>1, <2>5, <4>1 DEF GoodManifest
    <3> QED BY <1>1, <2>9, <3>1 DEF Inv, BucketInv, CurrentInv
  <2>16. RefsReadable' /\ AckedIsDurable'
    BY <1>1, <1>4, <2>9 DEF Inv, BucketInv, RefsReadable, AckedIsDurable
  <2>17. ASSUME NEW d \in Client, pc[d] \in {"ensure", "cas"} PROVE hist'[op[d].seq] = None
    BY <1>1, <2>17 DEF Inv, ClientInv, PushInv
  <2> QED BY <2>6, <2>7, <2>8, <2>10, <2>11, <2>12, <2>13, <2>14, <2>15, <2>16, <2>17, BucketStep DEF ClientInv
<1> QED BY <1>3, <1>4 DEF FoldPut, Goto

\* FoldCas keeps the invariant.
LEMMA FoldCasStep == ASSUME Inv, NEW c \in Client, FoldCas(c) PROVE Inv'
<1> DEFINE v == view[c]
<1>0. /\ pc \in [Client -> Label] /\ staged \in [Client -> SUBSET Snapshot] /\ TypeOK /\ ClientInv(c)
      /\ pc[c] = "foldCas" /\ At(c) = "foldCas" /\ Committed(c)
  BY DEF Inv, TypeOK, FoldCas, At, ReadLabels, WalkLabels, Committed, LandedLabels
<1>1. UNCHANGED <<log, ckpt, bodies, idxs, view, pending, staged, hist, lost, calls>>
  BY DEF FoldCas, sessionVars
<1>2. op[c].branch \in Branch /\ op[c].new \in Snapshot /\ OnBranch(op[c].branch, op[c].new)
  BY <1>0, CommittedIsOn
<1>3. CASE Acknowledge(c) /\ UNCHANGED manifest
  BY <1>0, <1>1, <1>2, <1>3, Acknowledges
<1>4. CASE /\ manifest = v.m /\ manifest' = [v.m EXCEPT !.ck = v.m.head]
           /\ CallRefresh(c, "done") /\ UNCHANGED <<op, acked, corrupt>>
  <2>1. /\ v # None /\ v.m \in Manifest /\ v.m.head \in Slot /\ v.m.head \in 0..MaxSeq /\ ckpt[v.m.head] # None
        /\ hist[v.m.head] # None
        /\ pending[c] \subseteq bodies \cap idxs /\ op[c].pend \subseteq bodies \cap idxs
    BY <1>0, Ranges DEF ClientInv, PushInv, ViewInv
  <2>2. /\ manifest' \in Manifest /\ manifest'.head = v.m.head /\ manifest'.ck = v.m.head
        /\ manifest # None /\ manifest' # None
    BY <1>4, <2>1, NoneAssumption DEF Manifest
  <2>3. Head(manifest)' = Head(manifest)
    BY <1>4, <2>2 DEF Head
  <2>4. /\ CurrentState' = CurrentState /\ Objects' = Objects
        /\ \A b, s : OnBranch(b, s)' <=> OnBranch(b, s)
    BY <1>1, <2>3, SameCurrent
  <2>5. Grows
    BY <1>1, <2>4 DEF Grows
  <2>6. /\ pc' \in [Client -> Label] /\ rd' \in [Client -> Reading] /\ pc'[c] = "getManifest"
        /\ \A d \in Client : d # c => pc'[d] = pc[d] /\ rd'[d] = rd[d]
        /\ ClientInv(c)'
    <3>1. \A b, s : b = op'[c].branch /\ s = op'[c].new => OnBranch(b, s)'
      BY <1>2, <1>4, <2>4
    <3> QED BY <1>0, <1>1, <1>2, <1>4, <2>1, <2>5, <3>1, RefreshingClient DEF RefreshReturns, LandedLabels
  <2>7. TypeOK'
    BY <1>0, <1>1, <1>4, <2>2, <2>6 DEF TypeOK
  <2>8. Others(c)
    BY <1>1, <1>4, <2>6 DEF Others, Local
  <2>9. ChainInv'
    BY <1>1 DEF Inv, BucketInv, ChainInv
  <2>10. CurrentInv'
    BY <1>1, <2>1, <2>2, <2>4 DEF Inv, BucketInv, CurrentInv, GoodManifest
  <2>11. RefsReadable' /\ AckedIsDurable'
    BY <1>1, <1>4, <2>4 DEF Inv, BucketInv, RefsReadable, AckedIsDurable
  <2>12. ASSUME NEW d \in Client, pc[d] \in {"ensure", "cas"} PROVE hist'[op[d].seq] = None
    BY <1>1, <2>12 DEF Inv, ClientInv, PushInv
  <2> QED BY <2>5, <2>6, <2>7, <2>8, <2>9, <2>10, <2>11, <2>12, BucketStep
<1> QED BY <1>3, <1>4 DEF FoldCas, TagMatches

\* Done keeps the invariant.
LEMMA DoneStep == ASSUME Inv, NEW c \in Client, Done(c) PROVE Inv'
<1>1. Committed(c) /\ staged \in [Client -> SUBSET Snapshot]
  BY DEF Done, Committed, LandedLabels, Inv, TypeOK
<1> QED BY <1>1, CommittedIsOn, Acknowledges DEF Done, bucketVars, sessionVars

-----------------------------------------------------------------------------
(* fetch, failures, new sessions *)

\* FetchRefs keeps the invariant.
LEMMA FetchRefsStep == ASSUME Inv, NEW c \in Client, FetchRefs(c) PROVE Inv'
<1> DEFINE todo == UNION {Ancestors[s] : s \in {ViewRefs(c)[b] : b \in Branch} \ {None}}
<1>0. /\ op \in [Client -> Op] /\ op[c] \in Op /\ pending \in [Client -> SUBSET Pack]
      /\ staged \in [Client -> SUBSET Snapshot] /\ lost \in 0..MaxLost /\ calls \in 0..MaxCalls /\ PushInv(c)
  BY DEF Inv, TypeOK, ClientInv
<1>1. /\ UNCHANGED <<manifest, log, ckpt, bodies, idxs, view, pending, staged, hist, acked, corrupt, lost, calls>>
      /\ op' = [op EXCEPT ![c].todo = todo, ![c].n = MaxRestarts] /\ CallRefresh(c, "read")
  BY DEF FetchRefs, bucketVars, sessionVars, historyVars
<1>2. todo \in SUBSET Snapshot /\ MaxRestarts \in Nat
  BY ViewIsIn, WalAssumption DEF Refs, Tip
<1> HIDE DEF todo
<1>3. op' \in [Client -> Op]
  BY <1>0, <1>1, <1>2 DEF Op
<1>4. op'[c].pend = op[c].pend /\ \A d \in Client : d # c => op'[d] = op[d]
  BY <1>0, <1>1 DEF Op
<1> QED BY <1>0, <1>1, <1>3, <1>4, Refreshes DEF RefreshReturns, LandedLabels, PushInv

\* A step of a read that makes no refresh.
LEMMA Reads ==
    ASSUME Inv, NEW c \in Client, pc[c] \in {"read", "reread"}, pc' = [pc EXCEPT ![c] = "read"],
           op' \in [Client -> Op], op'[c].pend = op[c].pend, \A d \in Client : d # c => op'[d] = op[d],
           UNCHANGED <<manifest, log, ckpt, bodies, idxs, view, rd, pending, staged, hist, acked, corrupt, lost, calls>>
    PROVE  Inv'
<1>0. TypeOK /\ ClientInv(c) /\ pc \in [Client -> Label]
  BY DEF Inv, TypeOK
<1>1. TypeOK'
  BY <1>0, Labels DEF TypeOK, FetchLabels
<1>2. Others(c)
  BY <1>0 DEF Others, Local
<1>3. pc'[c] = "read" /\ At(c)' = "read" /\ "read" \in Label \ CompactLabels
  BY <1>0, Labels DEF At, ReadLabels, WalkLabels, FetchLabels, CompactLabels
<1>4. ControlInv(c)'
  BY <1>0, <1>3 DEF ClientInv, ControlInv, ReadLabels, WalkLabels, CommitLabels, LandedLabels
<1>5. WalkInv(c)' /\ ViewInv(c)' /\ HandOverInv(c)'
  BY <1>0, <1>3 DEF ClientInv, WalkInv, WalkLabels, ViewInv, HandOverInv
<1>6. PushInv(c)'
  BY <1>0, <1>3 DEF ClientInv, PushInv, CommitLabels, LandedLabels
<1> QED BY <1>1, <1>2, <1>3, <1>4, <1>5, <1>6, QuietStep DEF ClientInv

\* ReadObject keeps the invariant.
LEMMA ReadObjectStep == ASSUME Inv, NEW c \in Client, ReadObject(c) PROVE Inv'
<1>0. /\ op \in [Client -> Op] /\ op[c] \in Op /\ pending \in [Client -> SUBSET Pack] /\ TypeOK
      /\ staged \in [Client -> SUBSET Snapshot] /\ lost \in 0..MaxLost /\ calls \in 0..MaxCalls /\ PushInv(c)
      /\ acked \in SUBSET (Branch \X Snapshot) /\ pc \in [Client -> Label] /\ pc[c] \in {"read", "reread"}
      /\ op[c].n \in Nat /\ op[c].todo \in SUBSET Snapshot
  BY DEF Inv, TypeOK, ClientInv, ReadObject, Op
<1>1. UNCHANGED <<manifest, log, ckpt, bodies, idxs, view, pending, staged, hist, acked, lost, calls>>
  BY DEF ReadObject, bucketVars, sessionVars
<1>2. ViewTag(c) \in Manifest \cup {None}
  BY <1>0, Ranges DEF ViewTag
<1>3. CASE \E res : Return(c, res)
  <2>1. PICK res : Return(c, res)
    BY <1>3
  <2> QED BY <1>0, <1>1, <2>1, Returns
<1>4. ASSUME NEW s \in op[c].todo, op' = [op EXCEPT ![c].todo = @ \ {s}, ![c].n = MaxRestarts],
             pc[c] = "read", UNCHANGED <<pc, rd, corrupt>>
      PROVE  Inv'
  <2>1. op[c].todo \ {s} \in SUBSET Snapshot /\ MaxRestarts \in Nat
    BY <1>0, WalAssumption
  <2>2. op' \in [Client -> Op] /\ op'[c].pend = op[c].pend /\ \A d \in Client : d # c => op'[d] = op[d]
    BY <1>0, <1>4, <2>1 DEF Op
  <2>3. pc' = [pc EXCEPT ![c] = "read"]
    BY <1>0, <1>4
  <2> QED BY <1>0, <1>1, <1>4, <2>2, <2>3, Reads
<1>5. CASE /\ op[c].n > 0 /\ op' = [op EXCEPT ![c].n = @ - 1, ![c].base = ViewTag(c)]
           /\ CallRefresh(c, "reread") /\ UNCHANGED corrupt
  <2>1. op[c].n - 1 \in Nat
    BY <1>0, <1>5
  <2>2. op' \in [Client -> Op] /\ op'[c].pend = op[c].pend /\ \A d \in Client : d # c => op'[d] = op[d]
    BY <1>0, <1>2, <1>5, <2>1 DEF Op
  <2> QED BY <1>0, <1>1, <1>5, <2>2, Refreshes DEF RefreshReturns, LandedLabels, PushInv
<1>6. CASE /\ op' = [op EXCEPT ![c].base = None] /\ pc' = [pc EXCEPT ![c] = "read"]
           /\ UNCHANGED <<rd, corrupt>>
  <2>1. op' \in [Client -> Op] /\ op'[c].pend = op[c].pend /\ \A d \in Client : d # c => op'[d] = op[d]
    BY <1>0, <1>6 DEF Op
  <2> QED BY <1>0, <1>1, <1>6, <2>1, Reads
<1> QED BY <1>3, <1>4, <1>5, <1>6 DEF ReadObject, LookUp, Restart, Goto

\* Fail keeps the invariant.
LEMMA FailStep == ASSUME Inv, NEW c \in Client, Fail(c) PROVE Inv'
<1>1. staged \in [Client -> SUBSET Snapshot] /\ op[c].send \in SUBSET Snapshot
  BY DEF Inv, TypeOK, Op
<1>2. staged' \in [Client -> SUBSET Snapshot] /\ \A d \in Client : d # c => staged'[d] = staged[d]
  BY <1>1 DEF Fail
<1> QED BY <1>2, Throws DEF Fail, bucketVars

\* Reopen keeps the invariant.
LEMMA ReopenStep == ASSUME Inv, NEW c \in Client, Reopen(c) PROVE Inv'
<1>0. TypeOK /\ ClientInv(c) /\ pc[c] = "idle"
  BY DEF Inv, Reopen
<1>1. /\ UNCHANGED <<manifest, log, ckpt, bodies, idxs, pc, rd, op, hist, acked, corrupt, lost, calls>>
      /\ view' = [view EXCEPT ![c] = None] /\ pending' = [pending EXCEPT ![c] = {}]
      /\ staged' = [staged EXCEPT ![c] = {}]
  BY DEF Reopen, bucketVars, historyVars
<1>2. TypeOK'
  BY <1>0, <1>1 DEF TypeOK
<1>3. Others(c)
  BY <1>0, <1>1 DEF Others, Local, TypeOK
<1>4. view'[c] = None /\ pending'[c] = {} /\ At(c) = "idle" /\ At(c)' = "idle"
  BY <1>0, <1>1 DEF TypeOK, At, ReadLabels, WalkLabels
<1>5. ControlInv(c)' /\ WalkInv(c)' /\ ViewInv(c)' /\ HandOverInv(c)'
  BY <1>0, <1>1, <1>4 DEF ClientInv, ControlInv, WalkInv, WalkLabels, ViewInv, HandOverInv
<1>6. PushInv(c)'
  BY <1>0, <1>1, <1>4 DEF ClientInv, PushInv, CommitLabels, LandedLabels
<1> QED BY <1>0, <1>1, <1>2, <1>3, <1>5, <1>6, QuietStep DEF ClientInv

-----------------------------------------------------------------------------
(* The theorems *)

\* The initial state satisfies the invariant.
LEMMA InitInv == Init => Inv
<1> SUFFICES ASSUME Init PROVE Inv
  OBVIOUS
<1>1. [refs |-> NoRefs, packs |-> {}] \in Checkpoint
  BY NoValues DEF Checkpoint
<1>2. TypeOK
  <2>1. 0 \in 0..MaxLost /\ 0 \in 0..MaxCalls
    BY WalAssumption
  <2> QED BY <1>1, <2>1, NoValues, Labels DEF Init, TypeOK
<1>3. hist[0] = [refs |-> NoRefs, packs |-> {}] /\ \A s \in 0..MaxSeq : s # 0 => hist[s] = None
  BY WalAssumption DEF Init
<1>4. CurrentState.refs = NoRefs /\ CurrentState.packs = {} /\ \A b \in Branch : NoRefs[b] = None
  <2>1. CurrentState = hist[0]
    BY DEF CurrentState, Head, Init
  <2> QED BY <1>3, <2>1 DEF NoRefs
<1>5. ChainInv
  BY <1>3, WalAssumption DEF ChainInv, Init, Slot
<1>6. CurrentInv
  BY <1>3, <1>4 DEF CurrentInv, Init
<1>7. RefsReadable /\ AckedIsDurable /\ SlotsInv
  BY <1>4 DEF RefsReadable, AckedIsDurable, SlotsInv, Init
<1>8. ASSUME NEW c \in Client PROVE ClientInv(c)
  <2>1. pc[c] = "idle" /\ rd[c] = NoReading /\ op[c] = NoOp /\ view[c] = None /\ pending[c] = {} /\ At(c) = "idle"
    BY DEF Init, At, ReadLabels, WalkLabels
  <2>2. ControlInv(c) /\ WalkInv(c) /\ ViewInv(c)
    BY <2>1, Labels DEF ControlInv, WalkInv, ViewInv, CommitLabels, LandedLabels, CompactLabels, ReadLabels, WalkLabels
  <2>3. HandOverInv(c) /\ PushInv(c)
    BY <2>1 DEF HandOverInv, PushInv, NoOp, CommitLabels, LandedLabels
  <2> QED BY <2>2, <2>3 DEF ClientInv
<1> QED BY <1>2, <1>5, <1>6, <1>7, <1>8 DEF Inv, BucketInv

\* So does a stuttering step.
LEMMA StutterInv == ASSUME Inv, UNCHANGED vars PROVE Inv'
<1>1. UNCHANGED <<manifest, log, ckpt, bodies, idxs, pc, view, rd, op, pending, staged, hist, acked, corrupt, lost, calls>>
  BY DEF vars, bucketVars, sessionVars, historyVars
<1>2. TypeOK'
  BY <1>1 DEF Inv, TypeOK
<1>3. CurrentState' = CurrentState /\ Objects' = Objects /\ \A b, s : OnBranch(b, s)' <=> OnBranch(b, s)
  BY <1>1, SameCurrent DEF Head
<1>4. ChainInv' /\ SlotsInv'
  BY <1>1 DEF Inv, BucketInv, ChainInv, SlotsInv
<1>5. CurrentInv' /\ RefsReadable' /\ AckedIsDurable'
  BY <1>1, <1>3 DEF Inv, BucketInv, CurrentInv, GoodManifest, RefsReadable, AckedIsDurable
<1>6. ASSUME NEW c \in Client PROVE ClientInv(c)'
  <2>1. At(c)' = At(c) /\ (Head(op[c].base))' = Head(op[c].base) /\ Entry(c)' = Entry(c)
    BY <1>1 DEF At, Head, Entry
  <2>2. ControlInv(c)' /\ WalkInv(c)' /\ ViewInv(c)'
    BY <1>1, <2>1 DEF Inv, ClientInv, ControlInv, WalkInv, GoodManifest, ViewInv
  <2>3. HandOverInv(c)'
    BY <1>1, <1>3, <2>1 DEF Inv, ClientInv, HandOverInv
  <2>4. OnBranch(op[c].branch, op[c].new)' <=> OnBranch(op[c].branch, op[c].new)
    BY <1>1, <1>3 DEF OnBranch
  <2>5. PushInv(c)'
    BY <1>1, <2>1, <2>4 DEF Inv, ClientInv, PushInv
  <2> QED BY <2>2, <2>3, <2>5 DEF ClientInv
<1> QED BY <1>2, <1>4, <1>5, <1>6 DEF Inv, BucketInv

\* Every step of every client keeps Inv.
LEMMA NextInv == Inv /\ [Next]_vars => Inv'
<1> SUFFICES ASSUME Inv, [Next]_vars PROVE Inv'
  OBVIOUS
<1>1. ASSUME NEW c \in Client, RefreshStep(c) PROVE Inv'
  BY <1>1, GetManifestStep, GetCheckpointStep, GetLogStep, GetIdxStep DEF RefreshStep
<1>2. ASSUME NEW c \in Client, PushStep(c) PROVE Inv'
  BY <1>2, ListedStep, ProbeStep, UploadStep, PutPackStep, PutIdxStep, UpdateRefStep, AttemptStep,
     ClaimStep, EnsureStep, CasStep, FoldPutStep, FoldCasStep, DoneStep DEF PushStep
<1>3. ASSUME NEW c \in Client, FetchStep(c) PROVE Inv'
  BY <1>3, FetchRefsStep, ReadObjectStep DEF FetchStep
<1>4. CASE UNCHANGED vars
  BY <1>4, StutterInv
<1>5. CASE Next
  BY <1>1, <1>2, <1>3, <1>5, BeginPushStep, BeginFetchStep, FailStep, ReopenStep DEF Next, Progress, Step
<1> QED BY <1>4, <1>5

\* The invariant holds in every reachable state.
LEMMA AlwaysInv == Spec => []Inv
<1> QED BY InitInv, NextInv, PTL DEF Spec

\* Whatever the clients do, every variable keeps its type.
THEOREM TypeCorrect == Spec => []TypeOK
<1>1. Inv => TypeOK
  BY DEF Inv
<1> QED BY <1>1, AlwaysInv, PTL

\* A completed refresh yields exactly the state its manifest names, whatever
\* was appended or folded while it walked the log (refresh_once).
THEOREM ViewsAreTrue == Spec => []ViewIsTruth
<1>1. Inv => ViewIsTruth
  BY DEF Inv, ClientInv, ViewInv, ViewIsTruth
<1> QED BY <1>1, AlwaysInv, PTL

\* Everything reachable from a published ref can be read, after any sequence of
\* racing, failing and retried pushes (put_pack, update_ref).
THEOREM PublishedRefsAreReadable == Spec => []RefsReadable
<1>1. Inv => RefsReadable
  BY DEF Inv, BucketInv
<1> QED BY <1>1, AlwaysInv, PTL

\* A push that update_ref reported done is never lost again.
THEOREM AcknowledgedPushesStay == Spec => []AckedIsDurable
<1>1. Inv => AckedIsDurable
  BY DEF Inv, BucketInv
<1> QED BY <1>1, AlwaysInv, PTL

-----------------------------------------------------------------------------
(* Steps of the manifest, and of the remote *)

\* A step that moves the manifest is a commit or a fold.
LEMMA StillManifest ==
    ASSUME NEW c \in Client, BeginPush(c) \/ BeginFetch(c) \/ Progress(c), ~Cas(c), ~FoldCas(c)
    PROVE  manifest' = manifest
<1>1. RefreshStep(c) => UNCHANGED manifest
  BY DEF RefreshStep, GetManifest, GetCheckpoint, GetLog, GetIdx, bucketVars
<1>2. FetchStep(c) \/ Fail(c) \/ Reopen(c) \/ BeginPush(c) \/ BeginFetch(c) => UNCHANGED manifest
  BY DEF FetchStep, FetchRefs, ReadObject, Fail, Reopen, BeginPush, BeginFetch, bucketVars
<1>3. PushStep(c) => UNCHANGED manifest
  BY DEF PushStep, Listed, Probe, Upload, PutPack, PutIdx, UpdateRef, Attempt, Claim, ClaimSlot,
         Ensure, EnsurePacksPresent, FoldPut, Done, bucketVars
<1> QED BY <1>1, <1>2, <1>3 DEF Progress, Step

\* The manifest only moves forward, so no tag recurs and no compare-and-swap
\* is fooled by one (put_if_tag in update_ref and maybe_fold_checkpoint).
THEOREM ManifestOnlyAdvances == Spec => ManifestAdvances
<1> DEFINE Advance == manifest' # manifest =>
               /\ manifest' # None
               /\ \/ Head(manifest') > Head(manifest)
                  \/ Head(manifest') = Head(manifest) /\ manifest'.ck > manifest.ck
<1>1. ASSUME Inv, [Next]_vars PROVE [Advance]_vars
  <2> SUFFICES ASSUME Next, manifest' # manifest
               PROVE  /\ manifest' # None
                      /\ \/ Head(manifest') > Head(manifest)
                         \/ Head(manifest') = Head(manifest) /\ manifest'.ck > manifest.ck
    BY <1>1
  <2>1. PICK c \in Client : Cas(c) \/ FoldCas(c)
    BY StillManifest DEF Next
  <2>2. TypeOK /\ PushInv(c) /\ (view[c] # None => view[c].m \in Manifest)
    BY <1>1, Ranges DEF Inv, ClientInv
  <2>3. CASE Cas(c)
    <3>1. pc[c] = "cas" /\ manifest = op[c].base /\ manifest' = NewManifest(c)
      BY <2>3 DEF Cas, TagMatches
    <3>2. Head(op[c].base) < op[c].seq /\ op[c].branch \in Branch /\ op[c].seq \in Slot
      BY <1>1, <2>2, <3>1 DEF PushInv, Inv, ClientInv, ControlInv, At, ReadLabels, WalkLabels, CommitLabels
    <3>3. manifest' \in Manifest /\ manifest'.head = op[c].seq
      BY <2>2, <3>1, <3>2, WalAssumption DEF NewManifest, Manifest, TypeOK
    <3>4. manifest' # None /\ Head(manifest') = op[c].seq
      BY <3>3, NoneAssumption DEF Head
    <3>5. Head(manifest) \in Int /\ op[c].seq \in Int
      BY <2>2, <3>1, <3>2, Ranges DEF Slot
    <3> QED BY <3>1, <3>2, <3>4, <3>5
  <2>4. CASE FoldCas(c)
    <3>1. pc[c] = "foldCas" /\ manifest = view[c].m /\ manifest' = [view[c].m EXCEPT !.ck = view[c].m.head]
      BY <2>4 DEF FoldCas, TagMatches
    <3>2. view[c].m \in Manifest /\ view[c].m.ck < view[c].m.head
      BY <2>2, <3>1 DEF PushInv
    <3>3. manifest' \in Manifest /\ manifest'.head = manifest.head /\ manifest'.ck = manifest.head
      BY <3>1, <3>2 DEF Manifest, Slot
    <3>4. manifest' # None /\ Head(manifest') = Head(manifest)
      BY <3>1, <3>2, <3>3, NoneAssumption DEF Head
    <3>5. manifest.ck \in Int /\ manifest.head \in Int
      BY <3>1, <3>2 DEF Manifest, Slot
    <3> QED BY <3>1, <3>2, <3>3, <3>4, <3>5
  <2> QED BY <2>1, <2>3, <2>4
<1> QED BY <1>1, AlwaysInv, PTL DEF Spec, ManifestAdvances

\* Only an acknowledgement adds to acked, and one pair at a time; only a
\* commit adds a state.
LEMMA OtherMoves ==
    ASSUME NEW c \in Client, BeginPush(c) \/ BeginFetch(c) \/ Progress(c)
    PROVE  /\ acked' = acked \/ acked' = acked \cup {<<op[c].branch, op[c].new>>}
           /\ ~Cas(c) => hist' = hist
           /\ Cas(c) => acked' = acked
<1> USE DEF bucketVars, historyVars
<1>0. Cas(c) => acked' = acked
  BY DEF Cas
<1>1. ASSUME NEW res, Throw(c, res) PROVE acked' = acked \/ acked' = acked \cup {<<op[c].branch, op[c].new>>}
  BY <1>1 DEF Throw, Acknowledge
<1>2. Gone(c) => acked' = acked \/ acked' = acked \cup {<<op[c].branch, op[c].new>>}
  BY <1>1 DEF Gone
<1>3. CASE RefreshStep(c)
  <2>1. hist' = hist
    BY <1>3 DEF RefreshStep, GetManifest, GetCheckpoint, GetLog, GetIdx
  <2>2. GetManifest(c) => acked' = acked
    BY DEF GetManifest
  <2>3. GetCheckpoint(c) => acked' = acked \/ Gone(c)
    BY DEF GetCheckpoint
  <2>4. GetLog(c) => acked' = acked \/ Gone(c) \/ Throw(c, "corrupt")
    BY DEF GetLog
  <2>5. GetIdx(c) => acked' = acked \/ Gone(c)
    BY DEF GetIdx
  <2> QED BY <1>0, <1>1, <1>2, <1>3, <2>1, <2>2, <2>3, <2>4, <2>5 DEF RefreshStep
<1>4. CASE Listed(c) \/ Attempt(c) \/ FoldPut(c) \/ FoldCas(c) \/ Done(c)
  <2>1. hist' = hist /\ (acked' = acked \/ Acknowledge(c))
    BY <1>4 DEF Listed, Attempt, FoldPut, FoldCas, Done
  <2>2. ~Cas(c)
    BY <1>4 DEF Cas, Listed, Attempt, FoldPut, FoldCas, Done
  <2> QED BY <2>1, <2>2 DEF Acknowledge
<1>5. CASE Probe(c) \/ Upload(c) \/ PutPack(c) \/ PutIdx(c) \/ UpdateRef(c) \/ Claim(c) \/ Ensure(c)
  BY <1>5 DEF Probe, Upload, PutPack, PutIdx, UpdateRef, Claim, ClaimSlot, Ensure, EnsurePacksPresent, Cas
<1>6. CASE Cas(c)
  BY <1>6 DEF Cas
<1>7. CASE FetchStep(c) \/ Reopen(c) \/ BeginPush(c) \/ BeginFetch(c)
  BY <1>7 DEF FetchStep, FetchRefs, ReadObject, Reopen, BeginPush, BeginFetch, Cas
<1>8. CASE Fail(c)
  BY <1>0, <1>1, <1>8 DEF Fail
<1> QED BY <1>3, <1>4, <1>5, <1>6, <1>7, <1>8 DEF Progress, Step, PushStep

\* A bucket remote implements a remote: with any number of clients, each step,
\* on whatever was read earlier, moves one branch forward, acknowledges what
\* is in, or cannot be seen (the Transport contract of update_ref).
THEOREM BucketIsARemote == Spec => ImplementsRemote
<1>1. Init => Remote!Init
  <2> SUFFICES ASSUME Init PROVE Remote!Init
    OBVIOUS
  <2>1. CurrentState = [refs |-> NoRefs, packs |-> {}]
    BY WalAssumption DEF Init, CurrentState, Head
  <2>2. CurrentState.refs = [b \in Branch |-> None] /\ UNION CurrentState.packs = {}
    BY <2>1 DEF NoRefs
  <2> QED BY <2>2 DEF Init, Remote!Init
<1>2. ASSUME Inv, Inv', [Next]_vars PROVE [Remote!Next]_(Remote!rVars)
  <2>1. CASE UNCHANGED vars
    BY <2>1 DEF vars, bucketVars, historyVars, Remote!rVars, CurrentState, Head
  <2>2. ASSUME NEW c \in Client, BeginPush(c) \/ BeginFetch(c) \/ Progress(c)
        PROVE  [Remote!Next]_(Remote!rVars)
    <3>1. /\ acked' = acked \/ acked' = acked \cup {<<op[c].branch, op[c].new>>}
          /\ ~Cas(c) => hist' = hist
          /\ Cas(c) => acked' = acked
      BY <2>2, OtherMoves
    <3>2. CASE hist' = hist /\ Head(manifest)' = Head(manifest)
      <4>1. CurrentState' = CurrentState
        BY <3>2, SameCurrent
      <4>2. CASE acked' = acked
        BY <4>1, <4>2 DEF Remote!rVars
      <4>3. CASE acked' = acked \cup {<<op[c].branch, op[c].new>>}
        <5> DEFINE b == op[c].branch
                   s == op[c].new
        <5>1. <<b, s>> \in acked' /\ TypeOK' /\ AckedIsDurable'
          BY <1>2, <4>3 DEF Inv, BucketInv
        <5>2. b \in Branch /\ s \in Snapshot
          BY <5>1 DEF TypeOK
        <5>3. CurrentState.refs[b] # None /\ s \in Ancestors[CurrentState.refs[b]]
          BY <4>1, <5>1 DEF AckedIsDurable
        <5>4. Remote!Acknowledge(b, s)
          BY <4>1, <4>3, <5>3 DEF Remote!Acknowledge
        <5> QED BY <5>2, <5>4 DEF Remote!Next
      <4> QED BY <3>1, <4>2, <4>3
    <3>3. CASE /\ Cas(c) /\ manifest = op[c].base /\ manifest' = NewManifest(c)
               /\ hist' = [hist EXCEPT ![op[c].seq] = Extend(hist[Entry(c).parent], Entry(c))]
      <4>1. /\ pc[c] = "cas" /\ At(c) = "cas" /\ ControlInv(c) /\ PushInv(c)
            /\ UNCHANGED <<log, ckpt, bodies, idxs, acked>>
        BY <1>2, <3>3 DEF Cas, Inv, ClientInv, At, ReadLabels, WalkLabels
      <4>2. op[c].branch \in Branch /\ op[c].new \in Snapshot
            /\ (op[c].old # None => op[c].old \in Ancestors[op[c].new])
        BY <4>1 DEF ControlInv, PushInv, CommitLabels
      <4>3. /\ CurrentState.refs[op[c].branch] = op[c].old
            /\ CurrentState'.refs = [CurrentState.refs EXCEPT ![op[c].branch] = op[c].new]
            /\ Objects' \subseteq Snapshot /\ Objects \cup Ancestors[op[c].new] \subseteq Objects'
        BY <1>2, <3>3, <4>1, CommitFacts
      <4>4. Remote!Push(op[c].branch, op[c].new)
        BY <4>1, <4>2, <4>3 DEF Remote!Push, Objects
      <4> QED BY <4>2, <4>4 DEF Remote!Next
    <3>4. CASE Cas(c) /\ UNCHANGED <<manifest, hist>>
      <4>1. Head(manifest)' = Head(manifest) /\ hist' = hist
        BY <3>4 DEF Head
      <4> QED BY <3>2, <4>1
    <3>5. CASE FoldCas(c)
      <4>1. hist' = hist
        BY <3>5 DEF FoldCas
      <4>2. Head(manifest)' = Head(manifest)
        <5>1. CASE manifest' = manifest
          BY <5>1 DEF Head
        <5>2. CASE manifest = view[c].m /\ manifest' = [view[c].m EXCEPT !.ck = view[c].m.head]
          <6>1. view[c].m \in Manifest
            BY <1>2, <3>5, Ranges DEF Inv, ClientInv, PushInv, FoldCas
          <6>2. manifest' \in Manifest /\ manifest'.head = manifest.head
            BY <5>2, <6>1 DEF Manifest, Slot
          <6> QED BY <5>2, <6>1, <6>2, NoneAssumption DEF Head
        <5> QED BY <3>5, <5>1, <5>2 DEF FoldCas, TagMatches
      <4> QED BY <3>2, <4>1, <4>2
    <3>6. CASE ~Cas(c) /\ ~FoldCas(c)
      <4>1. manifest' = manifest
        BY <2>2, <3>6, StillManifest
      <4>2. Head(manifest)' = Head(manifest) /\ hist' = hist
        BY <3>1, <3>6, <4>1 DEF Head
      <4> QED BY <3>2, <4>2
    <3>7. Cas(c) => \/ /\ manifest = op[c].base /\ manifest' = NewManifest(c)
                       /\ hist' = [hist EXCEPT ![op[c].seq] = Extend(hist[Entry(c).parent], Entry(c))]
                    \/ UNCHANGED <<manifest, hist>>
      BY DEF Cas, TagMatches
    <3> QED BY <3>3, <3>4, <3>5, <3>6, <3>7
  <2> QED BY <1>2, <2>1, <2>2 DEF Next
<1> QED BY <1>1, <1>2, AlwaysInv, PTL DEF Spec, ImplementsRemote, Remote!Spec
=====
