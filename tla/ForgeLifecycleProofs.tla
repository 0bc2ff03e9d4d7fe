------------------------ MODULE ForgeLifecycleProofs ------------------------
(***************************************************************************)
(* Proofs about ForgeLifecycle, for any number of threads, repositories,   *)
(* requests and outages: a live row has its directory, nothing works in a  *)
(* directory that a delete has moved, and a start leaves only live rows.   *)
(***************************************************************************)
EXTENDS ForgeLifecycle, TLAPS

\* The labels of a request, by what it holds there.
CreatePc == {"init", "build", "sync", "golive", "undo", "unrow"}
DeletePc == {"mark", "close", "drain", "rename", "reopen", "restore", "sync", "unrow", "empty"}
DefaultPc == {"look", "head", "row"}
PastDrain == {"rename", "sync", "unrow", "empty"}
SharedPc == {"check", "use", "reconciled"}
RegisteredPc == {"run", "cleangate", "clean", "gc", "prunegate", "reconcile", "reconciled", "prune"}
Pc == {"idle", "own", "share", "check", "use", "gate", "register"}
          \cup CreatePc \cup DeletePc \cup DefaultPc \cup RegisteredPc

RequestRecord ==
    [op : Request \cup {"none"}, at : Pc, id : 0..MaxIds, lock : {"none", "queued", "shared", "exclusive"},
     gate : BOOLEAN, reg : BOOLEAN, cancelled : BOOLEAN]

RowsTyped ==
    /\ repo \in [Id -> [state : RowState, branch : BranchName]]
    /\ place \in [Id -> Place] /\ durable \in [Id -> Place]
    /\ whole \in SUBSET Id /\ closed \in SUBSET Id
    /\ headRef \in [Id -> BranchName]
    /\ forge \in {"down", "creating", "deleting", "trash", "repos", "live", "up"}
    /\ lastId \in 0..MaxIds
    /\ \A i \in Id : repo[i].state # "none" => i <= lastId

\* What a request is and holds follows from where it is.
ControlInv(t) ==
    LET r == thread[t] IN
    /\ r.at = "idle" => r = NoRequest
    /\ r.at # "idle" => r.id \in 1..lastId
    /\ r.lock = "exclusive" <=> r.op # "create" /\ r.at \in DeletePc \cup DefaultPc
    /\ r.lock = "shared" <=> r.at \in SharedPc
    /\ r.reg <=> r.at \in RegisteredPc
    /\ r.op = "create" => r.at \in CreatePc
    /\ r.at \in CreatePc \ DeletePc => r.op = "create"
    /\ r.at \in CreatePc \cap DeletePc => r.op \in {"create", "delete"}
    /\ r.at \in DeletePc \ CreatePc => r.op = "delete"

Whole(i) == place[i] = "repos" /\ durable[i] = "repos" /\ i \in whole

\* What a request knows of its row and its directory.
KnowsInv(t) ==
    LET r == thread[t]  i == thread[t].id IN
    /\ r.op = "create" =>
          /\ State(i) = "creating"
          /\ r.at \in {"build", "sync", "golive"} => place[i] = "repos"
          /\ r.at \in {"sync", "golive"} => i \in whole
          /\ r.at = "golive" => durable[i] = "repos"
    /\ r.op = "delete" =>
          /\ r.at \in {"close", "drain", "rename", "reopen", "restore"} => Whole(i)
          /\ r.at \in {"close", "drain", "rename", "reopen", "restore", "sync", "unrow"} => State(i) = "deleting"
          /\ r.at = "empty" => State(i) = "none"
    /\ r.at \in {"use", "head", "row"} => State(i) = "live"
    /\ r.reg => place[i] = "repos" /\ i \in whole

\* Two requests on one repository: neither creates it, an owner is alone with
\* its lock, and past the drain of a delete nobody is registered.
PairInv(t, u) ==
    thread[t].id = thread[u].id /\ thread[t].at # "idle" =>
        /\ thread[t].op # "create"
        /\ thread[t].lock = "exclusive" => thread[u].lock \notin {"exclusive", "shared"}
        /\ thread[t].at \in PastDrain => ~thread[u].reg

\* What the steps of reconcile have put behind them.
BootInv ==
    /\ forge # "up" => \A t \in Thread : thread[t] = NoRequest
    /\ \A i \in Id :
          /\ forge \in {"deleting", "trash", "repos", "live"} => State(i) # "creating"
          /\ forge \in {"trash", "repos", "live"} => State(i) # "deleting"
          /\ forge \in {"repos", "live"} => ~(State(i) = "none" /\ place[i] = "trash")
          /\ forge = "live" => ~(State(i) = "none" /\ place[i] = "repos")

ThreadsInv ==
    /\ thread \in [Thread -> RequestRecord]
    /\ \A t \in Thread : ControlInv(t) /\ KnowsInv(t)
    /\ \A t, u \in Thread : t # u => PairInv(t, u)

LifeInv == RowsTyped /\ ThreadsInv /\ LiveHasDirectory /\ BootInv

-----------------------------------------------------------------------------
(* The frame of a step of one request                                        *)

\* The row and the directory of j stay as they are.
Untouched(j) ==
    /\ repo'[j].state = repo[j].state
    /\ place'[j] = place[j] /\ durable'[j] = durable[j]
    /\ j \in whole' <=> j \in whole

\* The initial record of a thread, and of a request that begins.
LEMMA NoRequestTyped ==
    NoRequest \in RequestRecord /\ NoRequest.lock = "none" /\ NoRequest.reg = FALSE
<1>1. 0 \in 0..MaxIds
  BY LifecycleAssumption
<1> QED BY <1>1 DEF NoRequest, RequestRecord, Pc

\* A step of thread t that touches at most repository i keeps the invariant if
\* it keeps what t knows, what the other requests on i know, and a live row whole.
LEMMA OneThread ==
    ASSUME LifeInv, NEW t \in Thread, NEW i \in Id, NEW r \in RequestRecord,
           forge = "up", forge' = "up", RowsTyped', lastId <= lastId',
           thread' = [thread EXCEPT ![t] = r],
           \A j \in Id \ {i} : Untouched(j),
           State(i)' = "live" => Whole(i)',
           ControlInv(t)', KnowsInv(t)',
           \A u \in Thread \ {t} : thread[u].id = i => KnowsInv(u)',
           \A u \in Thread \ {t} : PairInv(t, u)' /\ PairInv(u, t)'
    PROVE  LifeInv'
<1>1. thread' \in [Thread -> RequestRecord] /\ thread'[t] = r /\ \A u \in Thread \ {t} : thread'[u] = thread[u]
  BY DEF LifeInv, ThreadsInv
<1>2. ASSUME NEW u \in Thread \ {t} PROVE ControlInv(u)'
  BY <1>1, LifecycleAssumption DEF LifeInv, ThreadsInv, ControlInv, RowsTyped
<1>3. ASSUME NEW u \in Thread \ {t} PROVE KnowsInv(u)'
  <2>1. CASE thread[u].id = i
    BY <2>1
  <2>2. CASE thread[u].at = "idle"
    BY <2>2, <1>1 DEF LifeInv, ThreadsInv, ControlInv, KnowsInv, NoRequest
  <2>3. CASE thread[u].id # i /\ thread[u].at # "idle"
    <3>1. thread[u].id \in Id \ {i}
      BY <2>3, LifecycleAssumption DEF LifeInv, ThreadsInv, ControlInv, RowsTyped, Id
    <3>2. Untouched(thread[u].id)
      BY <3>1
    <3> QED BY <3>2, <1>1 DEF LifeInv, ThreadsInv, KnowsInv, Untouched, State, Whole
  <2> QED BY <2>1, <2>2, <2>3
<1>4. \A u, v \in Thread : u # v => PairInv(u, v)'
  BY <1>1 DEF LifeInv, ThreadsInv, PairInv
<1>5. LiveHasDirectory'
  BY DEF LifeInv, LiveHasDirectory, Untouched, State, Whole
<1> QED BY <1>1, <1>2, <1>3, <1>4, <1>5 DEF LifeInv, ThreadsInv, BootInv

\* The same when the request ends, and drops all it holds.
LEMMA RequestEnds ==
    ASSUME LifeInv, NEW t \in Thread, NEW i \in Id, EndRequest(t),
           forge = "up", forge' = "up", RowsTyped', lastId <= lastId',
           \A j \in Id \ {i} : Untouched(j),
           State(i)' = "live" => Whole(i)',
           \A u \in Thread \ {t} : thread[u].id = i => KnowsInv(u)'
    PROVE  LifeInv'
<1>1. thread'[t] = NoRequest /\ \A u \in Thread \ {t} : thread'[u] = thread[u]
  BY DEF LifeInv, ThreadsInv, EndRequest
<1>2. ControlInv(t)' /\ KnowsInv(t)'
  BY <1>1 DEF ControlInv, KnowsInv, NoRequest, CreatePc, DeletePc, DefaultPc, SharedPc, RegisteredPc
<1>3. ASSUME NEW u \in Thread \ {t} PROVE PairInv(t, u)' /\ PairInv(u, t)'
  BY <1>1 DEF LifeInv, ThreadsInv, ControlInv, PairInv, NoRequest, RowsTyped
<1> QED BY <1>2, <1>3, NoRequestTyped, OneThread DEF EndRequest

\* A request at work has a repository, and the server is up.
LEMMA AtWork ==
    ASSUME LifeInv, NEW t \in Thread, thread[t].at # "idle"
    PROVE  /\ forge = "up" /\ thread[t] \in RequestRecord /\ thread[t].id \in Id /\ thread[t].id <= lastId
           /\ ControlInv(t) /\ KnowsInv(t) /\ lastId <= lastId
<1>1. forge = "up"
  BY DEF LifeInv, BootInv, NoRequest
<1>2. thread[t] \in RequestRecord /\ ControlInv(t) /\ KnowsInv(t)
  BY DEF LifeInv, ThreadsInv
<1>3. thread[t].id \in Id /\ thread[t].id <= lastId /\ lastId <= lastId
  BY <1>2, LifecycleAssumption DEF ControlInv, LifeInv, RowsTyped, Id
<1> QED BY <1>1, <1>2, <1>3

RowsUnchanged == RowsTyped' /\ UNCHANGED <<repo, place, durable, whole, forge, lastId>>

\* The frame condition of most actions.
LEMMA NothingTouched ==
    ASSUME LifeInv, UNCHANGED <<repo, storage, closed, forge, counts>> PROVE RowsUnchanged
BY DEF LifeInv, RowsTyped, RowsUnchanged, storage, counts

\* Steps that leave the rows and the directories alone leave them typed.
LEMMA RowsFrame ==
    ASSUME LifeInv, RowsUnchanged
    PROVE  /\ RowsTyped' /\ \A j \in Id : Untouched(j)
           /\ \A j \in Id : State(j)' = State(j) /\ (State(j)' = "live" => Whole(j)')
           /\ \A u \in Thread : thread'[u] = thread[u] => KnowsInv(u)'
BY DEF LifeInv, RowsUnchanged, Untouched, LiveHasDirectory, State, Whole, ThreadsInv, KnowsInv

\* A request that moves on without touching rows or directories: a lock it
\* gains was free, a registration it gains is of a live repository, and past the
\* drain of its delete nobody is registered.
LEMMA QuietMove ==
    ASSUME LifeInv, NEW t \in Thread, NEW r \in RequestRecord, thread[t].at # "idle",
           RowsUnchanged, thread' = [thread EXCEPT ![t] = r],
           r.id = thread[t].id, r.op = thread[t].op, r.at # "idle",
           ControlInv(t)', KnowsInv(t)',
           r.lock = "exclusive" => thread[t].lock = "exclusive" \/ CanOwn(r.id),
           r.lock = "shared" => thread[t].lock = "shared" \/ CanShare(r.id),
           r.reg => thread[t].reg \/ State(r.id) = "live",
           r.at \in PastDrain =>
              \/ thread[t].at \in PastDrain
              \/ r.op = "create" \/ Registered(r.id) = {}
    PROVE  LifeInv'
<1>1. thread'[t] = r /\ \A u \in Thread \ {t} : thread'[u] = thread[u]
  BY DEF LifeInv, ThreadsInv
<1>2. ASSUME NEW u \in Thread \ {t}, thread[u].id = r.id PROVE thread[t].op # "create" /\ thread[u].op # "create"
  BY <1>2, AtWork DEF LifeInv, ThreadsInv, PairInv, ControlInv, NoRequest, Id
<1>3. ASSUME NEW u \in Thread \ {t} PROVE PairInv(t, u)'
  <2> SUFFICES ASSUME thread[u].id = r.id PROVE PairInv(t, u)'
    BY <1>1 DEF PairInv
  <2>1. PairInv(t, u) /\ thread[t].op # "create"
    BY <1>2 DEF LifeInv, ThreadsInv
  <2>2. r.lock = "exclusive" => thread[u].lock \notin {"exclusive", "shared"}
    BY <2>1 DEF PairInv, CanOwn, LockedBy, On
  <2>3. r.at \in PastDrain => ~thread[u].reg
    BY <2>1 DEF PairInv, Registered, On
  <2> QED BY <1>1, <2>1, <2>2, <2>3 DEF PairInv
<1>4. ASSUME NEW u \in Thread \ {t} PROVE PairInv(u, t)'
  <2> SUFFICES ASSUME thread[u].id = r.id PROVE PairInv(u, t)'
    BY <1>1 DEF PairInv
  <2>1. PairInv(u, t) /\ thread[u].op # "create" /\ ControlInv(u) /\ KnowsInv(u) /\ thread[u].at # "idle"
    BY <1>2, AtWork DEF LifeInv, ThreadsInv, ControlInv, NoRequest, Id
  <2>2. thread[u].lock = "exclusive" => r.lock \notin {"exclusive", "shared"}
    BY <2>1 DEF PairInv, CanOwn, CanShare, LockedBy, On
  <2>3. thread[u].at \in PastDrain => State(r.id) # "live"
    BY <2>1 DEF ControlInv, KnowsInv, CreatePc, DeletePc, PastDrain
  <2>4. thread[u].at \in PastDrain => ~r.reg
    BY <2>1, <2>3 DEF PairInv
  <2> QED BY <1>1, <2>1, <2>2, <2>4 DEF PairInv
<1>5. RowsTyped' /\ (\A j \in Id : Untouched(j)) /\ (State(r.id)' = "live" => Whole(r.id)')
  BY RowsFrame, AtWork
<1>6. \A u \in Thread \ {t} : KnowsInv(u)'
  BY <1>1, RowsFrame
<1> QED BY <1>3, <1>4, <1>5, <1>6, AtWork, OneThread DEF RowsUnchanged

\* A request that ends without touching rows or directories.
LEMMA QuietEnd ==
    ASSUME LifeInv, NEW t \in Thread, thread[t].at # "idle", RowsUnchanged, EndRequest(t)
    PROVE  LifeInv'
<1>1. \A u \in Thread \ {t} : thread'[u] = thread[u]
  BY DEF LifeInv, ThreadsInv, EndRequest
<1> QED BY <1>1, RowsFrame, AtWork, RequestEnds DEF RowsUnchanged

\* The same when only the label changes.
LEMMA QuietGoto ==
    ASSUME LifeInv, NEW t \in Thread, NEW pc \in Pc \ {"idle"}, thread[t].at # "idle",
           RowsUnchanged, ThreadTo(t, pc), thread[t].reg <=> pc \in RegisteredPc,
           ControlInv(t)', KnowsInv(t)',
           pc \in PastDrain =>
              \/ thread[t].at \in PastDrain
              \/ thread[t].op = "create" \/ Registered(thread[t].id) = {}
    PROVE  LifeInv'
<1> DEFINE r == [thread[t] EXCEPT !.at = pc]
<1>1. /\ r \in RequestRecord /\ thread' = [thread EXCEPT ![t] = r]
      /\ r.id = thread[t].id /\ r.op = thread[t].op /\ r.at = pc /\ r.lock = thread[t].lock
      /\ r.reg = thread[t].reg
  BY AtWork DEF ThreadTo, RequestRecord, LifeInv, ThreadsInv
<1> HIDE DEF r
<1> QED BY <1>1, QuietMove

-----------------------------------------------------------------------------
(* One lemma for each group of steps                                         *)

\* The locks, the second look at the row, and the read or write itself.
LEMMA LockStepKeeps ==
    ASSUME LifeInv, NEW t \in Thread, LockStep(t) \/ GateBusy(t)
    PROVE  LifeInv'
<1> USE DEF CreatePc, DeletePc, DefaultPc, SharedPc, RegisteredPc, PastDrain
<1>0. thread[t].at # "idle"
  BY DEF LockStep, Queue, Own, Share, CheckLive, TakeGateFirst, GateBusy, UseEnds, ThreadAt
<1>1. RowsUnchanged
  BY NothingTouched DEF LockStep, Queue, Own, Share, CheckLive, TakeGateFirst, GateBusy, UseEnds
<1>2. CASE Queue(t)
  <2> DEFINE r == [thread[t] EXCEPT !.lock = "queued"]
  <2>1. /\ r \in RequestRecord /\ thread' = [thread EXCEPT ![t] = r] /\ thread'[t] = r
        /\ r.id = thread[t].id /\ r.op = thread[t].op /\ r.at = "own" /\ r.lock = "queued" /\ r.reg = thread[t].reg
    BY <1>2, <1>0, AtWork DEF Queue, ThreadAt, RequestRecord, LifeInv, ThreadsInv, Pc
  <2> HIDE DEF r
  <2>2. ControlInv(t)' /\ KnowsInv(t)'
    BY <1>0, <1>1, <1>2, <2>1, AtWork DEF Queue, ThreadAt, ControlInv, KnowsInv, RowsUnchanged, State
  <2> QED BY <1>0, <1>1, <1>2, <2>1, <2>2, QuietMove, AtWork DEF Queue, ThreadAt, ControlInv
<1>3. CASE Own(t)
  <2> DEFINE r == [thread[t] EXCEPT !.lock = "exclusive",
                                    !.at = IF thread[t].op = "delete" THEN "mark" ELSE "look"]
  <2>1. /\ r \in RequestRecord /\ thread' = [thread EXCEPT ![t] = r] /\ thread'[t] = r
        /\ r.id = thread[t].id /\ r.op = thread[t].op /\ r.lock = "exclusive" /\ r.reg = thread[t].reg
        /\ r.at = IF thread[t].op = "delete" THEN "mark" ELSE "look"
    BY <1>3, <1>0, AtWork DEF Own, RequestRecord, LifeInv, ThreadsInv, Pc
  <2> HIDE DEF r
  <2>2. ControlInv(t)' /\ KnowsInv(t)'
    BY <1>0, <1>1, <1>3, <2>1, AtWork DEF Own, ThreadAt, ControlInv, KnowsInv, RowsUnchanged, State
  <2> QED BY <1>0, <1>1, <1>3, <2>1, <2>2, QuietMove, AtWork DEF Own, ThreadAt, ControlInv
<1>4. CASE Share(t)
  <2> DEFINE r == [thread[t] EXCEPT !.lock = "shared", !.at = "check"]
  <2>1. /\ r \in RequestRecord /\ thread' = [thread EXCEPT ![t] = r] /\ thread'[t] = r
        /\ r.id = thread[t].id /\ r.op = thread[t].op /\ r.at = "check" /\ r.lock = "shared" /\ r.reg = thread[t].reg
    BY <1>4, <1>0, AtWork DEF Share, RequestRecord, LifeInv, ThreadsInv, Pc
  <2> HIDE DEF r
  <2>2. ControlInv(t)' /\ KnowsInv(t)'
    BY <1>0, <1>1, <1>4, <2>1, AtWork DEF Share, ThreadAt, ControlInv, KnowsInv, RowsUnchanged, State
  <2> QED BY <1>0, <1>1, <1>4, <2>1, <2>2, QuietMove, AtWork DEF Share, ThreadAt, ControlInv
<1>5. CASE CheckLive(t) /\ State(thread[t].id) = "live"
  <2>1. ThreadTo(t, "use") /\ ThreadAt(t, "check") /\ thread'[t] = [thread[t] EXCEPT !.at = "use"]
    BY <1>5 DEF CheckLive, ThreadTo, LifeInv, ThreadsInv
  <2>2. ControlInv(t)' /\ KnowsInv(t)' /\ thread[t].reg = FALSE
    BY <1>0, <1>1, <1>5, <2>1, AtWork DEF ThreadAt, ControlInv, KnowsInv, RowsUnchanged, State, RequestRecord
  <2> QED BY <1>0, <1>1, <2>1, <2>2, QuietGoto DEF Pc
<1>6. CASE TakeGateFirst(t)
  <2> DEFINE r == [thread[t] EXCEPT !.gate = TRUE, !.at = "share"]
  <2>1. /\ r \in RequestRecord /\ thread' = [thread EXCEPT ![t] = r] /\ thread'[t] = r
        /\ r.id = thread[t].id /\ r.op = thread[t].op /\ r.at = "share" /\ r.lock = thread[t].lock /\ r.reg = thread[t].reg
    BY <1>6, <1>0, AtWork DEF TakeGateFirst, RequestRecord, LifeInv, ThreadsInv, Pc
  <2> HIDE DEF r
  <2>2. ControlInv(t)' /\ KnowsInv(t)'
    BY <1>0, <1>1, <1>6, <2>1, AtWork DEF TakeGateFirst, ThreadAt, ControlInv, KnowsInv, RowsUnchanged, State
  <2> QED BY <1>0, <1>1, <1>6, <2>1, <2>2, QuietMove, AtWork DEF TakeGateFirst, ThreadAt, ControlInv
<1>7. CASE EndRequest(t)
  BY <1>0, <1>1, <1>7, QuietEnd
<1> QED BY <1>2, <1>3, <1>4, <1>5, <1>6, <1>7 DEF LockStep, CheckLive, GateBusy, UseEnds

\* The creator of a repository is the only request on it.
LEMMA CreatorAlone ==
    ASSUME LifeInv, NEW t \in Thread, thread[t].op = "create"
    PROVE  /\ thread[t].at # "idle" /\ State(thread[t].id) = "creating"
           /\ \A u \in Thread \ {t} : thread[u].id # thread[t].id
<1>1. thread[t].at # "idle"
  BY DEF LifeInv, ThreadsInv, ControlInv, CreatePc
<1> QED BY <1>1 DEF LifeInv, ThreadsInv, PairInv, KnowsInv

\* A step of a create that changes at most its directory.
LEMMA CreateGoto ==
    ASSUME LifeInv, NEW t \in Thread, thread[t].op = "create", NEW i \in Id, thread[t].id = i,
           NEW pc \in CreatePc, ThreadTo(t, pc), RowsTyped', UNCHANGED <<repo, forge, lastId>>,
           \A j \in Id \ {i} : Untouched(j), ControlInv(t)', KnowsInv(t)'
    PROVE  LifeInv'
<1> DEFINE r == [thread[t] EXCEPT !.at = pc]
<1>1. /\ r \in RequestRecord /\ thread' = [thread EXCEPT ![t] = r] /\ thread'[t] = r
      /\ \A u \in Thread \ {t} : thread'[u] = thread[u]
      /\ r.id = thread[t].id
  BY CreatorAlone, AtWork DEF ThreadTo, RequestRecord, LifeInv, ThreadsInv, Pc, CreatePc
<1> HIDE DEF r
<1>2. \A u \in Thread \ {t} : PairInv(t, u)' /\ PairInv(u, t)'
  BY <1>1, CreatorAlone DEF PairInv
<1>3. State(i)' # "live"
  BY CreatorAlone DEF State
<1> QED BY <1>1, <1>2, <1>3, CreatorAlone, AtWork, OneThread

\* The last step of a create.
LEMMA CreateEnds ==
    ASSUME LifeInv, NEW t \in Thread, thread[t].op = "create", NEW i \in Id, thread[t].id = i,
           EndRequest(t), RowsTyped', UNCHANGED <<forge, lastId>>,
           \A j \in Id \ {i} : Untouched(j), State(i)' = "live" => Whole(i)'
    PROVE  LifeInv'
BY CreatorAlone, AtWork, RequestEnds

\* git init, the first commit, the fsync, the row; and the rollback.
LEMMA CreateStepKeeps ==
    ASSUME LifeInv, NEW t \in Thread, CreateStep(t)
    PROVE  LifeInv'
<1> USE DEF CreatePc, DeletePc, DefaultPc, SharedPc, RegisteredPc, PastDrain
<1>0. thread[t].op = "create"
  <2>1. ControlInv(t)
    BY DEF LifeInv, ThreadsInv
  <2> QED BY <2>1 DEF ControlInv, CreateStep, CreateInits, CreateBuilds, CreateSyncs, CreateGoesLive,
             CreateFails, CreateUndoes, ThreadAt
<1> PICK i \in Id : i = thread[t].id
  BY <1>0, AtWork, CreatorAlone
<1>1. /\ ControlInv(t) /\ KnowsInv(t) /\ forge = "up" /\ RowsTyped
      /\ State(i) = "creating" /\ thread[t].at # "idle" /\ thread[t] \in RequestRecord
  BY <1>0, AtWork, CreatorAlone DEF LifeInv
<1>2. ASSUME NEW pc, ThreadTo(t, pc) 
      PROVE  thread'[t].at = pc /\ thread'[t].id = i /\ thread'[t].op = "create"
             /\ thread'[t].lock = thread[t].lock /\ thread'[t].reg = thread[t].reg
  BY <1>0, <1>1, <1>2 DEF ThreadTo, LifeInv, ThreadsInv, RequestRecord
<1>3. CASE CreateInits(t)
  <2>1. RowsTyped' /\ place'[i] = "repos" /\ \A j \in Id \ {i} : Untouched(j)
    BY <1>1, <1>3 DEF CreateInits, RowsTyped, Untouched, Place, counts
  <2>2. ControlInv(t)' /\ KnowsInv(t)'
    BY <1>0, <1>1, <1>2, <1>3, <2>1 DEF CreateInits, ThreadAt, ControlInv, KnowsInv, State, counts
  <2> QED BY <1>0, <1>3, <2>1, <2>2, CreateGoto DEF CreateInits, counts
<1>4. CASE CreateBuilds(t)
  <2>1. RowsTyped' /\ i \in whole' /\ \A j \in Id \ {i} : Untouched(j)
    BY <1>1, <1>4 DEF CreateBuilds, RowsTyped, Untouched, counts
  <2>2. ControlInv(t)' /\ KnowsInv(t)'
    BY <1>0, <1>1, <1>2, <1>4, <2>1 DEF CreateBuilds, ThreadAt, ControlInv, KnowsInv, State, counts
  <2> QED BY <1>0, <1>4, <2>1, <2>2, CreateGoto DEF CreateBuilds, counts
<1>5. CASE CreateSyncs(t)
  <2>1. RowsTyped' /\ durable'[i] = "repos" /\ \A j \in Id \ {i} : Untouched(j)
    BY <1>1, <1>5 DEF CreateSyncs, RowsTyped, Untouched, Place, counts
  <2>2. ControlInv(t)' /\ KnowsInv(t)'
    BY <1>0, <1>1, <1>2, <1>5, <2>1 DEF CreateSyncs, ThreadAt, ControlInv, KnowsInv, State, counts
  <2> QED BY <1>0, <1>5, <2>1, <2>2, CreateGoto DEF CreateSyncs, counts
<1>6. CASE CreateGoesLive(t)
  <2>1. RowsTyped' /\ \A j \in Id \ {i} : Untouched(j)
    BY <1>1, <1>6 DEF CreateGoesLive, SetState, RowsTyped, RowState, Untouched, State, storage, counts
  <2>2. Whole(i)'
    BY <1>0, <1>1, <1>6 DEF CreateGoesLive, ThreadAt, KnowsInv, Whole, storage
  <2> QED BY <1>0, <1>6, <2>1, <2>2, CreateEnds DEF CreateGoesLive, counts
<1>7. CASE CreateFails(t)
  <2>1. RowsTyped' /\ \A j \in Id : Untouched(j)
    BY <1>1, <1>7 DEF CreateFails, RowsTyped, Untouched, storage, counts
  <2>2. ControlInv(t)' /\ KnowsInv(t)'
    BY <1>0, <1>1, <1>2, <1>7 DEF CreateFails, ControlInv, KnowsInv, State, storage, counts
  <2> QED BY <1>0, <1>7, <2>1, <2>2, CreateGoto DEF CreateFails, counts
<1>8. CASE CreateUndoes(t)
  <2>1. CASE ThreadTo(t, "unrow") /\ UNCHANGED repo /\ place' = [place EXCEPT ![i] = "none"] /\ whole' = whole \ {i}
    <3>1. RowsTyped' /\ \A j \in Id \ {i} : Untouched(j)
      BY <1>1, <1>8, <2>1 DEF CreateUndoes, RowsTyped, Untouched, Place, counts
    <3>2. ControlInv(t)' /\ KnowsInv(t)'
      BY <1>0, <1>1, <1>2, <1>8, <2>1 DEF CreateUndoes, ControlInv, KnowsInv, State, counts
    <3> QED BY <1>0, <1>8, <2>1, <3>1, <3>2, CreateGoto DEF CreateUndoes, counts
  <2>2. CASE EndRequest(t) /\ UNCHANGED <<repo, place>> /\ whole' = whole \ {i}
    <3>1. RowsTyped' /\ (\A j \in Id \ {i} : Untouched(j)) /\ State(i)' # "live"
      BY <1>1, <1>8, <2>2 DEF CreateUndoes, RowsTyped, Untouched, State, counts
    <3> QED BY <1>0, <1>8, <2>2, <3>1, CreateEnds DEF CreateUndoes, counts
  <2>3. CASE EndRequest(t) /\ (SetState(i, "none") \/ UNCHANGED repo) /\ UNCHANGED <<place, whole>>
    <3>1. RowsTyped' /\ (\A j \in Id \ {i} : Untouched(j)) /\ State(i)' # "live"
      BY <1>1, <1>8, <2>3 DEF CreateUndoes, SetState, RowsTyped, RowState, Untouched, State, counts
    <3> QED BY <1>0, <1>8, <2>3, <3>1, CreateEnds DEF CreateUndoes, counts
  <2> QED BY <1>8, <2>1, <2>2, <2>3 DEF CreateUndoes
<1> QED BY <1>3, <1>4, <1>5, <1>6, <1>7, <1>8 DEF CreateStep

\* The directory of i stays, or nobody is registered to use it.
NoneDisturbed(i) ==
    \/ place'[i] = place[i] /\ (i \in whole' <=> i \in whole)
    \/ Registered(i) = {}

\* The owner of a repository's lock may change the row, and the directory once
\* it is drained: the other requests on it know of neither.
LEMMA OwnerAlone ==
    ASSUME LifeInv, NEW t \in Thread, NEW i \in Id, thread[t].id = i, thread[t].lock = "exclusive",
           NoneDisturbed(i), NEW u \in Thread \ {t}, thread[u].id = i, thread'[u] = thread[u]
    PROVE  /\ KnowsInv(u)' /\ thread[u].op # "create" /\ thread[u].at \notin DeletePc
           /\ thread[u].lock \notin {"exclusive", "shared"}
<1> USE DEF CreatePc, DeletePc, DefaultPc, SharedPc, RegisteredPc, PastDrain
<1>1. thread[t].at # "idle" /\ thread[u].at # "idle"
  BY DEF LifeInv, ThreadsInv, ControlInv, NoRequest, Id
<1>2. PairInv(t, u) /\ PairInv(u, t) /\ ControlInv(u) /\ KnowsInv(u)
  BY DEF LifeInv, ThreadsInv
<1>3. thread[u].op # "create" /\ thread[u].lock \notin {"exclusive", "shared"}
  BY <1>1, <1>2 DEF PairInv
<1>4. thread[u].at \notin {"use", "head", "row"} \cup DeletePc
  BY <1>2, <1>3 DEF ControlInv
<1>5. thread[u].reg => place'[i] = "repos" /\ i \in whole'
  BY <1>2 DEF KnowsInv, NoneDisturbed, Registered, On
<1> QED BY <1>3, <1>4, <1>5 DEF KnowsInv

\* A step of a request that owns its repository.
LEMMA OwnerGoto ==
    ASSUME LifeInv, NEW t \in Thread, NEW i \in Id, thread[t].id = i, thread[t].lock = "exclusive",
           NEW pc \in DeletePc \cup DefaultPc, ThreadTo(t, pc), RowsTyped', UNCHANGED <<forge, lastId>>,
           \A j \in Id \ {i} : Untouched(j), State(i)' = "live" => Whole(i)', NoneDisturbed(i),
           ControlInv(t)', KnowsInv(t)',
           pc \in PastDrain => Registered(i) = {}
    PROVE  LifeInv'
<1> DEFINE r == [thread[t] EXCEPT !.at = pc]
<1>0. thread[t].at # "idle"
  BY DEF LifeInv, ThreadsInv, ControlInv, NoRequest, Id
<1>1. /\ r \in RequestRecord /\ thread' = [thread EXCEPT ![t] = r] /\ thread'[t] = r
      /\ \A u \in Thread \ {t} : thread'[u] = thread[u]
      /\ r.id = i /\ r.op = thread[t].op /\ r.at = pc /\ r.lock = "exclusive" /\ r.reg = thread[t].reg
  BY <1>0, AtWork DEF ThreadTo, RequestRecord, LifeInv, ThreadsInv, Pc, DeletePc, DefaultPc
<1> HIDE DEF r
<1>2. ASSUME NEW u \in Thread \ {t} PROVE PairInv(t, u)' /\ PairInv(u, t)'
  <2> SUFFICES ASSUME thread[u].id = i PROVE PairInv(t, u)' /\ PairInv(u, t)'
    BY <1>1 DEF PairInv
  <2>1. /\ thread[u].op # "create" /\ thread[u].at \notin DeletePc /\ thread[u].lock \notin {"exclusive", "shared"}
        /\ thread[t].op # "create"
    BY <1>0, <1>1, OwnerAlone DEF LifeInv, ThreadsInv, PairInv
  <2>2. pc \in PastDrain => ~thread[u].reg
    BY DEF Registered, On
  <2> QED BY <1>1, <2>1, <2>2 DEF PairInv, DeletePc, PastDrain
<1>3. \A u \in Thread \ {t} : thread[u].id = i => KnowsInv(u)'
  BY <1>1, OwnerAlone
<1>4. lastId <= lastId' /\ forge = "up" /\ forge' = "up"
  BY <1>0, AtWork
<1> QED BY <1>1, <1>2, <1>3, <1>4, OneThread

\* Its last step.
LEMMA OwnerEnds ==
    ASSUME LifeInv, NEW t \in Thread, NEW i \in Id, thread[t].id = i, thread[t].lock = "exclusive",
           EndRequest(t), RowsTyped', UNCHANGED <<forge, lastId>>,
           \A j \in Id \ {i} : Untouched(j), State(i)' = "live" => Whole(i)', NoneDisturbed(i)
    PROVE  LifeInv'
<1>1. thread[t].at # "idle"
  BY DEF LifeInv, ThreadsInv, ControlInv, NoRequest, Id
<1>2. \A u \in Thread \ {t} : thread'[u] = thread[u]
  BY DEF LifeInv, ThreadsInv, EndRequest
<1>3. \A u \in Thread \ {t} : thread[u].id = i => KnowsInv(u)'
  BY <1>2, OwnerAlone
<1>4. lastId <= lastId' /\ forge = "up" /\ forge' = "up"
  BY <1>1, AtWork
<1> QED BY <1>3, <1>4, RequestEnds

\* The registrations are cancelled; that changes nothing a request holds.
LEMMA DeleteClosesKeeps ==
    ASSUME LifeInv, NEW t \in Thread, DeleteCloses(t)
    PROVE  LifeInv'
<1> USE DEF CreatePc, DeletePc, DefaultPc, SharedPc, RegisteredPc, PastDrain
<1>0. thread[t].at = "close"
  BY DEF DeleteCloses, ThreadAt
<1>1. forge = "up" /\ thread[t].id \in Id /\ thread \in [Thread -> RequestRecord] /\ RowsTyped
  BY <1>0, AtWork DEF LifeInv, ThreadsInv
<1>2. RowsTyped' /\ UNCHANGED <<repo, place, durable, whole, forge, lastId>>
  BY <1>1 DEF DeleteCloses, RowsTyped, storage, counts
<1>3. ASSUME NEW u \in Thread
      PROVE  /\ thread'[u] \in RequestRecord
             /\ thread'[u].op = thread[u].op /\ thread'[u].id = thread[u].id
             /\ thread'[u].lock = thread[u].lock /\ thread'[u].reg = thread[u].reg
             /\ thread'[u].at = IF u = t THEN "drain" ELSE thread[u].at
             /\ thread[u].at = "idle" => thread'[u] = thread[u]
  <2>1. CASE u = t
    BY <1>0, <1>1, <2>1 DEF DeleteCloses, RequestRecord, Pc
  <2>2. CASE u # t /\ u \in Registered(thread[t].id)
    <3>1. thread[u].id = thread[t].id /\ thread[u].at # "idle"
      BY <1>1, <2>2 DEF LifeInv, ThreadsInv, ControlInv, NoRequest, Registered, On, Id
    <3> QED BY <1>1, <2>2, <3>1 DEF DeleteCloses, RequestRecord
  <2>3. CASE u # t /\ u \notin Registered(thread[t].id)
    BY <1>1, <2>3 DEF DeleteCloses
  <2> QED BY <2>1, <2>2, <2>3
<1>4. \A u \in Thread : ControlInv(u)'
  BY <1>0, <1>2, <1>3 DEF LifeInv, ThreadsInv, ControlInv
<1>5. \A u \in Thread : KnowsInv(u)'
  BY <1>0, <1>2, <1>3 DEF LifeInv, ThreadsInv, ControlInv, KnowsInv, State, Whole
<1>6. \A u, v \in Thread : u # v => PairInv(u, v)'
  BY <1>0, <1>3 DEF LifeInv, ThreadsInv, PairInv
<1>7. thread' \in [Thread -> RequestRecord]
  BY <1>3 DEF DeleteCloses
<1>8. LiveHasDirectory' /\ BootInv'
  BY <1>1, <1>2 DEF LifeInv, LiveHasDirectory, BootInv, State
<1> QED BY <1>2, <1>4, <1>5, <1>6, <1>7, <1>8 DEF LifeInv, ThreadsInv

\* The steps of a delete.
LEMMA DeleteStepKeeps ==
    ASSUME LifeInv, NEW t \in Thread, DeleteStep(t) \/ DeleteTimesOut(t)
    PROVE  LifeInv'
<1> USE DEF CreatePc, DeletePc, DefaultPc, SharedPc, RegisteredPc, PastDrain
<1>0. thread[t].op = "delete" /\ thread[t].at \in DeletePc
  <2>1. ControlInv(t)
    BY DEF LifeInv, ThreadsInv
  <2> QED BY <2>1 DEF ControlInv, DeleteStep, DeleteMarks, DeleteCloses, DeleteDrained, DeleteTimesOut, DeleteRenames,
             DeleteRenameFails, DeleteReopens, DeleteSyncs, DeleteUnrows, DeleteFails, DeleteEmpties, ThreadAt
<1> PICK i \in Id : i = thread[t].id
  BY <1>0, AtWork
<1>1. /\ ControlInv(t) /\ KnowsInv(t) /\ forge = "up" /\ RowsTyped /\ (State(i) = "live" => Whole(i))
      /\ thread[t] \in RequestRecord /\ thread[t].lock = "exclusive" /\ thread[t].at # "idle"
      /\ thread[t].op = "delete" /\ thread[t].id = i
  BY <1>0, AtWork DEF LifeInv, LiveHasDirectory, ControlInv, Whole
<1>2. ASSUME NEW pc, ThreadTo(t, pc)
      PROVE  thread'[t].at = pc /\ thread'[t].id = i /\ thread'[t].op = "delete"
             /\ thread'[t].lock = "exclusive" /\ thread'[t].reg = thread[t].reg
  BY <1>1, <1>2 DEF ThreadTo, LifeInv, ThreadsInv, RequestRecord
<1>3. thread[t].at \in PastDrain => Registered(i) = {}
  <2> SUFFICES ASSUME thread[t].at \in PastDrain, NEW u \in Thread, thread[u].id = i PROVE ~thread[u].reg
    BY DEF Registered, On
  <2> QED BY <1>1 DEF LifeInv, ThreadsInv, PairInv, ControlInv, PastDrain
<1>4. ASSUME EndRequest(t), UNCHANGED <<repo, storage, closed, forge, counts>> PROVE LifeInv'
  BY <1>1, <1>4, NothingTouched, QuietEnd
<1>5. CASE DeleteMarks(t) /\ State(i) = "live"
  <2>1. RowsTyped' /\ (\A j \in Id \ {i} : Untouched(j)) /\ (State(i)' = "deleting")
    <3>1. repo' = [repo EXCEPT ![i].state = "deleting"] /\ UNCHANGED <<storage, closed, forge, counts>>
      BY <1>1, <1>5 DEF DeleteMarks, SetState
    <3> QED BY <1>1, <1>5, <3>1 DEF RowsTyped, RowState, Untouched, State, storage, counts
  <2>2. ThreadTo(t, "close")
    BY <1>1, <1>5 DEF DeleteMarks, ThreadAt, ControlInv, KnowsInv, Whole
  <2>3. ControlInv(t)' /\ KnowsInv(t)'
    BY <1>1, <1>2, <1>5, <2>1, <2>2 DEF DeleteMarks, ThreadAt, SetState, ControlInv, KnowsInv, State, Whole, storage, counts
  <2>4. NoneDisturbed(i) /\ ("close" \in PastDrain => Registered(i) = {})
    BY <1>1, <1>3, <1>5 DEF DeleteMarks, NoneDisturbed, ThreadAt, PastDrain, storage
  <2> QED BY <1>1, <1>5, <2>1, <2>2, <2>3, <2>4, OwnerGoto DEF DeleteMarks, counts
<1>6. CASE DeleteDrained(t)
  <2>1. RowsTyped' /\ (\A j \in Id \ {i} : Untouched(j)) /\ (State(i)' = "live" => Whole(i)')
    BY <1>1, <1>6 DEF DeleteDrained, SetState, RowsTyped, RowState, Place, Untouched, State, Whole, KnowsInv, ThreadAt, storage, counts
  <2>2. ThreadTo(t, "rename")
    BY <1>1, <1>6 DEF DeleteDrained, ThreadAt, ControlInv, KnowsInv, Whole
  <2>3. ControlInv(t)' /\ KnowsInv(t)'
    BY <1>1, <1>2, <1>6, <2>1, <2>2 DEF DeleteDrained, ThreadAt, SetState, ControlInv, KnowsInv, State, Whole, storage, counts
  <2>4. NoneDisturbed(i) /\ ("rename" \in PastDrain => Registered(i) = {})
    BY <1>1, <1>3, <1>6 DEF DeleteDrained, NoneDisturbed, ThreadAt, PastDrain, storage
  <2> QED BY <1>1, <1>6, <2>1, <2>2, <2>3, <2>4, OwnerGoto DEF DeleteDrained, counts
<1>7. CASE DeleteTimesOut(t)
  <2>1. RowsTyped' /\ (\A j \in Id \ {i} : Untouched(j)) /\ (State(i)' = "live" => Whole(i)')
    BY <1>1, <1>7 DEF DeleteTimesOut, SetState, RowsTyped, RowState, Place, Untouched, State, Whole, KnowsInv, ThreadAt, storage, counts
  <2>2. ThreadTo(t, "reopen")
    BY <1>1, <1>7 DEF DeleteTimesOut, ThreadAt, ControlInv, KnowsInv, Whole
  <2>3. ControlInv(t)' /\ KnowsInv(t)'
    BY <1>1, <1>2, <1>7, <2>1, <2>2 DEF DeleteTimesOut, ThreadAt, SetState, ControlInv, KnowsInv, State, Whole, storage, counts
  <2>4. NoneDisturbed(i) /\ ("reopen" \in PastDrain => Registered(i) = {})
    BY <1>1, <1>3, <1>7 DEF DeleteTimesOut, NoneDisturbed, ThreadAt, PastDrain, storage
  <2> QED BY <1>1, <1>7, <2>1, <2>2, <2>3, <2>4, OwnerGoto DEF DeleteTimesOut, counts
<1>8. CASE DeleteRenames(t)
  <2>1. RowsTyped' /\ (\A j \in Id \ {i} : Untouched(j)) /\ State(i)' = "deleting"
    BY <1>1, <1>8 DEF DeleteRenames, SetState, RowsTyped, RowState, Place, Untouched, State, Whole, KnowsInv, ThreadAt, storage, counts
  <2>2. ThreadTo(t, "sync")
    BY <1>1, <1>8 DEF DeleteRenames, ThreadAt, ControlInv, KnowsInv, Whole
  <2>3. ControlInv(t)' /\ KnowsInv(t)'
    BY <1>1, <1>2, <1>8, <2>1, <2>2 DEF DeleteRenames, ThreadAt, SetState, ControlInv, KnowsInv, State, Whole, storage, counts
  <2>4. NoneDisturbed(i) /\ ("sync" \in PastDrain => Registered(i) = {})
    BY <1>1, <1>3, <1>8 DEF DeleteRenames, NoneDisturbed, ThreadAt, PastDrain, storage
  <2> QED BY <1>1, <1>8, <2>1, <2>2, <2>3, <2>4, OwnerGoto DEF DeleteRenames, counts
<1>9. CASE DeleteRenameFails(t)
  <2>1. RowsTyped' /\ (\A j \in Id \ {i} : Untouched(j)) /\ (State(i)' = "live" => Whole(i)')
    BY <1>1, <1>9 DEF DeleteRenameFails, SetState, RowsTyped, RowState, Place, Untouched, State, Whole, KnowsInv, ThreadAt, storage, counts
  <2>2. ThreadTo(t, "reopen")
    BY <1>1, <1>9 DEF DeleteRenameFails, ThreadAt, ControlInv, KnowsInv, Whole
  <2>3. ControlInv(t)' /\ KnowsInv(t)'
    BY <1>1, <1>2, <1>9, <2>1, <2>2 DEF DeleteRenameFails, ThreadAt, SetState, ControlInv, KnowsInv, State, Whole, storage, counts
  <2>4. NoneDisturbed(i) /\ ("reopen" \in PastDrain => Registered(i) = {})
    BY <1>1, <1>3, <1>9 DEF DeleteRenameFails, NoneDisturbed, ThreadAt, PastDrain, storage
  <2> QED BY <1>1, <1>9, <2>1, <2>2, <2>3, <2>4, OwnerGoto DEF DeleteRenameFails, counts
<1>10. CASE DeleteReopens(t) /\ ThreadAt(t, "reopen")
  <2>1. RowsTyped' /\ (\A j \in Id \ {i} : Untouched(j)) /\ State(i)' = "deleting"
    BY <1>1, <1>10 DEF DeleteReopens, SetState, RowsTyped, RowState, Place, Untouched, State, Whole, KnowsInv, ThreadAt, storage, counts
  <2>2. ThreadTo(t, "restore")
    BY <1>1, <1>10 DEF DeleteReopens, ThreadAt, ControlInv, KnowsInv, Whole
  <2>3. ControlInv(t)' /\ KnowsInv(t)'
    BY <1>1, <1>2, <1>10, <2>1, <2>2 DEF DeleteReopens, ThreadAt, SetState, ControlInv, KnowsInv, State, Whole, storage, counts
  <2>4. NoneDisturbed(i) /\ ("restore" \in PastDrain => Registered(i) = {})
    BY <1>1, <1>3, <1>10 DEF DeleteReopens, NoneDisturbed, ThreadAt, PastDrain, storage
  <2> QED BY <1>1, <1>10, <2>1, <2>2, <2>3, <2>4, OwnerGoto DEF DeleteReopens, counts
<1>11. CASE DeleteSyncs(t)
  <2>1. RowsTyped' /\ (\A j \in Id \ {i} : Untouched(j)) /\ State(i)' = "deleting"
    BY <1>1, <1>11 DEF DeleteSyncs, SetState, RowsTyped, RowState, Place, Untouched, State, Whole, KnowsInv, ThreadAt, storage, counts
  <2>2. ThreadTo(t, "unrow")
    BY <1>1, <1>11 DEF DeleteSyncs, ThreadAt, ControlInv, KnowsInv, Whole
  <2>3. ControlInv(t)' /\ KnowsInv(t)'
    BY <1>1, <1>2, <1>11, <2>1, <2>2 DEF DeleteSyncs, ThreadAt, SetState, ControlInv, KnowsInv, State, Whole, storage, counts
  <2>4. NoneDisturbed(i) /\ ("unrow" \in PastDrain => Registered(i) = {})
    BY <1>1, <1>3, <1>11 DEF DeleteSyncs, NoneDisturbed, ThreadAt, PastDrain, storage
  <2> QED BY <1>1, <1>11, <2>1, <2>2, <2>3, <2>4, OwnerGoto DEF DeleteSyncs, counts
<1>12. CASE DeleteUnrows(t)
  <2>1. RowsTyped' /\ (\A j \in Id \ {i} : Untouched(j)) /\ State(i)' = "none"
    BY <1>1, <1>12 DEF DeleteUnrows, SetState, RowsTyped, RowState, Place, Untouched, State, Whole, KnowsInv, ThreadAt, storage, counts
  <2>2. ThreadTo(t, "empty")
    BY <1>1, <1>12 DEF DeleteUnrows, ThreadAt, ControlInv, KnowsInv, Whole
  <2>3. ControlInv(t)' /\ KnowsInv(t)'
    BY <1>1, <1>2, <1>12, <2>1, <2>2 DEF DeleteUnrows, ThreadAt, SetState, ControlInv, KnowsInv, State, Whole, storage, counts
  <2>4. NoneDisturbed(i) /\ ("empty" \in PastDrain => Registered(i) = {})
    BY <1>1, <1>3, <1>12 DEF DeleteUnrows, NoneDisturbed, ThreadAt, PastDrain, storage
  <2> QED BY <1>1, <1>12, <2>1, <2>2, <2>3, <2>4, OwnerGoto DEF DeleteUnrows, counts
<1>13. CASE DeleteReopens(t) /\ ThreadAt(t, "restore")
  <2>1. RowsTyped' /\ (\A j \in Id \ {i} : Untouched(j)) /\ (State(i)' = "live" => Whole(i)') /\ EndRequest(t)
    BY <1>1, <1>13 DEF DeleteReopens, SetState, RowsTyped, RowState, Place, Untouched, State, Whole, KnowsInv, ThreadAt, storage, counts
  <2>2. NoneDisturbed(i)
    BY <1>1, <1>3, <1>13 DEF DeleteReopens, NoneDisturbed, ThreadAt, PastDrain, storage
  <2> QED BY <1>1, <1>13, <2>1, <2>2, OwnerEnds DEF DeleteReopens, counts
<1>14. CASE DeleteEmpties(t)
  <2>1. RowsTyped' /\ (\A j \in Id \ {i} : Untouched(j)) /\ (State(i)' = "live" => Whole(i)') /\ EndRequest(t)
    BY <1>1, <1>14 DEF DeleteEmpties, SetState, RowsTyped, RowState, Place, Untouched, State, Whole, KnowsInv, ThreadAt, storage, counts
  <2>2. NoneDisturbed(i)
    BY <1>1, <1>3, <1>14 DEF DeleteEmpties, NoneDisturbed, ThreadAt, PastDrain, storage
  <2> QED BY <1>1, <1>14, <2>1, <2>2, OwnerEnds DEF DeleteEmpties, counts
<1>15. CASE DeleteCloses(t)
  BY <1>15, DeleteClosesKeeps
<1>16. CASE (DeleteMarks(t) /\ State(i) # "live") \/ DeleteFails(t)
  BY <1>1, <1>4, <1>16 DEF DeleteMarks, DeleteFails, storage, counts
<1> QED BY <1>5, <1>6, <1>7, <1>8, <1>9, <1>10, <1>11, <1>12, <1>13, <1>14, <1>15, <1>16 DEF DeleteStep, DeleteReopens

\* The steps of set_default_branch.
LEMMA DefaultStepKeeps ==
    ASSUME LifeInv, NEW t \in Thread, DefaultStep(t)
    PROVE  LifeInv'
<1> USE DEF CreatePc, DeletePc, DefaultPc, SharedPc, RegisteredPc, PastDrain
<1>0. thread[t].at \in DefaultPc
  BY DEF DefaultStep, DefaultLooks, DefaultWritesHead, DefaultWritesRow, DefaultFails, ThreadAt
<1> PICK i \in Id : i = thread[t].id
  BY <1>0, AtWork
<1>1. /\ ControlInv(t) /\ KnowsInv(t) /\ forge = "up" /\ RowsTyped /\ (State(i) = "live" => Whole(i))
      /\ thread[t] \in RequestRecord /\ thread[t].lock = "exclusive" /\ thread[t].at # "idle"
      /\ thread[t].id = i
  BY <1>0, AtWork DEF LifeInv, LiveHasDirectory, ControlInv, Whole
<1>2. ASSUME NEW pc, ThreadTo(t, pc)
      PROVE  thread'[t].at = pc /\ thread'[t].id = i /\ thread'[t].op = thread[t].op
             /\ thread'[t].lock = "exclusive" /\ thread'[t].reg = thread[t].reg
  BY <1>1, <1>2 DEF ThreadTo, LifeInv, ThreadsInv, RequestRecord
<1>3. CASE DefaultLooks(t) /\ State(i) = "live"
  <2>1. RowsTyped' /\ (\A j \in Id : Untouched(j)) /\ (State(i)' = "live" => Whole(i)')
    BY <1>1, <1>3 DEF DefaultLooks, RowsTyped, Untouched, State, Whole, BranchName, storage, counts
  <2>2. ThreadTo(t, "head")
    BY <1>1, <1>3 DEF DefaultLooks
  <2>3. ControlInv(t)' /\ KnowsInv(t)'
    BY <1>1, <1>2, <1>3, <2>2 DEF DefaultLooks, ThreadAt, ControlInv, KnowsInv, State, storage, counts
  <2>4. NoneDisturbed(i) /\ "head" \notin PastDrain
    BY <1>3 DEF DefaultLooks, NoneDisturbed, PastDrain, storage
  <2> QED BY <1>1, <1>3, <2>1, <2>2, <2>3, <2>4, OwnerGoto DEF DefaultLooks, counts
<1>4. CASE DefaultWritesHead(t)
  <2>1. RowsTyped' /\ (\A j \in Id : Untouched(j)) /\ (State(i)' = "live" => Whole(i)')
    <3>1. \A j \in Id : (CHOOSE b \in BranchName : b # repo[j].branch) \in BranchName
      BY DEF BranchName
    <3> QED BY <1>1, <1>4, <3>1 DEF DefaultWritesHead, RowsTyped, Untouched, State, Whole, counts
  <2>2. ThreadTo(t, "row")
    BY <1>1, <1>4 DEF DefaultWritesHead
  <2>3. ControlInv(t)' /\ KnowsInv(t)'
    BY <1>1, <1>2, <1>4, <2>2 DEF DefaultWritesHead, ThreadAt, ControlInv, KnowsInv, State, storage, counts
  <2>4. NoneDisturbed(i) /\ "row" \notin PastDrain
    BY <1>4 DEF DefaultWritesHead, NoneDisturbed, PastDrain, storage
  <2> QED BY <1>1, <1>4, <2>1, <2>2, <2>3, <2>4, OwnerGoto DEF DefaultWritesHead, counts
<1>5. CASE DefaultWritesRow(t)
  <2>1. RowsTyped' /\ (\A j \in Id : Untouched(j)) /\ (State(i)' = "live" => Whole(i)')
    BY <1>1, <1>5 DEF DefaultWritesRow, RowsTyped, Untouched, State, Whole, storage, counts
  <2> QED BY <1>1, <1>5, <2>1, OwnerEnds DEF DefaultWritesRow, NoneDisturbed, storage, counts
<1>6. CASE (DefaultLooks(t) /\ State(i) # "live") \/ DefaultFails(t)
  BY <1>1, <1>6, NothingTouched, QuietEnd DEF DefaultLooks, DefaultFails
<1> QED BY <1>3, <1>4, <1>5, <1>6 DEF DefaultStep

\* The steps of a transport and of a maintenance pass.
LEMMA RunStepKeeps ==
    ASSUME LifeInv, NEW t \in Thread, RunStep(t) \/ MaintainBusy(t)
    PROVE  LifeInv'
<1> USE DEF CreatePc, DeletePc, DefaultPc, SharedPc, RegisteredPc, PastDrain
<1>0. thread[t].at \in RegisteredPc \cup {"register"}
  BY DEF RunStep, Register, TransportEnds, MaintainGates, MaintainBusy, MaintainCleans, MaintainRepacks,
         MaintainReconciles, ThreadAt
<1>1. /\ RowsUnchanged /\ thread[t].at # "idle" /\ thread[t] \in RequestRecord
      /\ ControlInv(t) /\ KnowsInv(t) /\ (State(thread[t].id) = "live" => Whole(thread[t].id))
  <2>1. UNCHANGED <<repo, storage, closed, forge, counts>>
    BY DEF RunStep, Register, TransportEnds, MaintainGates, MaintainBusy, MaintainCleans, MaintainRepacks,
           MaintainReconciles
  <2> QED BY <1>0, <2>1, NothingTouched, AtWork DEF LifeInv, LiveHasDirectory, Whole
<1>2. CASE EndRequest(t)
  BY <1>1, <1>2, QuietEnd
<1>3. CASE Register(t) /\ ~EndRequest(t)
  <2> DEFINE r == [thread[t] EXCEPT !.reg = TRUE,
                                    !.at = IF thread[t].op = "transport" THEN "run" ELSE "cleangate"]
  <2>1. /\ r \in RequestRecord /\ thread' = [thread EXCEPT ![t] = r] /\ thread'[t] = r
        /\ r.id = thread[t].id /\ r.op = thread[t].op /\ r.at = (IF thread[t].op = "transport" THEN "run" ELSE "cleangate") /\ r.lock = thread[t].lock /\ r.reg = TRUE
    BY <1>1, <1>3 DEF Register, ThreadTo, RequestRecord, LifeInv, ThreadsInv, Pc
  <2> HIDE DEF r
  <2>2. ControlInv(t)' /\ KnowsInv(t)'
    BY <1>1, <1>3, <2>1 DEF Register, ThreadAt, ControlInv, KnowsInv, RowsUnchanged, State, Whole
  <2> QED BY <1>1, <1>3, <2>1, <2>2, QuietMove DEF Register, ThreadAt, ControlInv
<1>4. CASE TransportEnds(t) /\ ~EndRequest(t)
  <2> DEFINE r == [thread[t] EXCEPT !.reg = FALSE, !.cancelled = FALSE, !.at = "gate"]
  <2>1. /\ r \in RequestRecord /\ thread' = [thread EXCEPT ![t] = r] /\ thread'[t] = r
        /\ r.id = thread[t].id /\ r.op = thread[t].op /\ r.at = "gate" /\ r.lock = thread[t].lock /\ r.reg = FALSE
    BY <1>1, <1>4 DEF TransportEnds, ThreadTo, RequestRecord, LifeInv, ThreadsInv, Pc
  <2> HIDE DEF r
  <2>2. ControlInv(t)' /\ KnowsInv(t)'
    BY <1>1, <1>4, <2>1 DEF TransportEnds, ThreadAt, ControlInv, KnowsInv, RowsUnchanged, State, Whole
  <2> QED BY <1>1, <1>4, <2>1, <2>2, QuietMove DEF TransportEnds, ThreadAt, ControlInv
<1>5. CASE MaintainGates(t) /\ ~EndRequest(t)
  <2> DEFINE r == [thread[t] EXCEPT !.gate = TRUE,
                                    !.at = IF thread[t].at = "cleangate" THEN "clean" ELSE "reconcile"]
  <2>1. /\ r \in RequestRecord /\ thread' = [thread EXCEPT ![t] = r] /\ thread'[t] = r
        /\ r.id = thread[t].id /\ r.op = thread[t].op /\ r.at = (IF thread[t].at = "cleangate" THEN "clean" ELSE "reconcile") /\ r.lock = thread[t].lock /\ r.reg = thread[t].reg
    BY <1>1, <1>5 DEF MaintainGates, ThreadTo, RequestRecord, LifeInv, ThreadsInv, Pc
  <2> HIDE DEF r
  <2>2. ControlInv(t)' /\ KnowsInv(t)'
    BY <1>1, <1>5, <2>1 DEF MaintainGates, ThreadAt, ControlInv, KnowsInv, RowsUnchanged, State, Whole
  <2> QED BY <1>1, <1>5, <2>1, <2>2, QuietMove DEF MaintainGates, ThreadAt, ControlInv
<1>6. CASE MaintainBusy(t) /\ ~EndRequest(t)
  <2> DEFINE r == [thread[t] EXCEPT !.at = "gc"]
  <2>1. /\ r \in RequestRecord /\ thread' = [thread EXCEPT ![t] = r] /\ thread'[t] = r
        /\ r.id = thread[t].id /\ r.op = thread[t].op /\ r.at = "gc" /\ r.lock = thread[t].lock /\ r.reg = thread[t].reg
    BY <1>1, <1>6 DEF MaintainBusy, ThreadTo, RequestRecord, LifeInv, ThreadsInv, Pc
  <2> HIDE DEF r
  <2>2. ControlInv(t)' /\ KnowsInv(t)'
    BY <1>1, <1>6, <2>1 DEF MaintainBusy, ThreadAt, ControlInv, KnowsInv, RowsUnchanged, State, Whole
  <2> QED BY <1>1, <1>6, <2>1, <2>2, QuietMove DEF MaintainBusy, ThreadAt, ControlInv
<1>7. CASE MaintainCleans(t)
  <2> DEFINE r == [thread[t] EXCEPT !.gate = FALSE, !.at = "gc"]
  <2>1. /\ r \in RequestRecord /\ thread' = [thread EXCEPT ![t] = r] /\ thread'[t] = r
        /\ r.id = thread[t].id /\ r.op = thread[t].op /\ r.at = "gc" /\ r.lock = thread[t].lock /\ r.reg = thread[t].reg
    BY <1>1, <1>7 DEF MaintainCleans, ThreadTo, RequestRecord, LifeInv, ThreadsInv, Pc
  <2> HIDE DEF r
  <2>2. ControlInv(t)' /\ KnowsInv(t)'
    BY <1>1, <1>7, <2>1 DEF MaintainCleans, ThreadAt, ControlInv, KnowsInv, RowsUnchanged, State, Whole
  <2> QED BY <1>1, <1>7, <2>1, <2>2, QuietMove DEF MaintainCleans, ThreadAt, ControlInv
<1>8. CASE MaintainRepacks(t) /\ ~EndRequest(t)
  <2> DEFINE r == [thread[t] EXCEPT !.at = "prunegate"]
  <2>1. /\ r \in RequestRecord /\ thread' = [thread EXCEPT ![t] = r] /\ thread'[t] = r
        /\ r.id = thread[t].id /\ r.op = thread[t].op /\ r.at = "prunegate" /\ r.lock = thread[t].lock /\ r.reg = thread[t].reg
    BY <1>1, <1>8 DEF MaintainRepacks, ThreadTo, RequestRecord, LifeInv, ThreadsInv, Pc
  <2> HIDE DEF r
  <2>2. ControlInv(t)' /\ KnowsInv(t)'
    BY <1>1, <1>8, <2>1 DEF MaintainRepacks, ThreadAt, ControlInv, KnowsInv, RowsUnchanged, State, Whole
  <2> QED BY <1>1, <1>8, <2>1, <2>2, QuietMove DEF MaintainRepacks, ThreadAt, ControlInv
<1>9. CASE MaintainReconciles(t) /\ ThreadAt(t, "reconcile") /\ ~EndRequest(t)
  <2> DEFINE r == [thread[t] EXCEPT !.lock = "shared", !.at = "reconciled"]
  <2>1. /\ r \in RequestRecord /\ thread' = [thread EXCEPT ![t] = r] /\ thread'[t] = r
        /\ r.id = thread[t].id /\ r.op = thread[t].op /\ r.at = "reconciled" /\ r.lock = "shared" /\ r.reg = thread[t].reg
    BY <1>1, <1>9 DEF MaintainReconciles, ThreadAt, ThreadTo, RequestRecord, LifeInv, ThreadsInv, Pc
  <2> HIDE DEF r
  <2>2. ControlInv(t)' /\ KnowsInv(t)'
    BY <1>1, <1>9, <2>1 DEF MaintainReconciles, ThreadAt, ControlInv, KnowsInv, RowsUnchanged, State, Whole
  <2> QED BY <1>1, <1>9, <2>1, <2>2, QuietMove DEF MaintainReconciles, ThreadAt, ControlInv
<1>10. CASE MaintainReconciles(t) /\ ThreadAt(t, "reconciled") /\ ~EndRequest(t)
  <2> DEFINE r == [thread[t] EXCEPT !.lock = "none", !.at = "prune"]
  <2>1. /\ r \in RequestRecord /\ thread' = [thread EXCEPT ![t] = r] /\ thread'[t] = r
        /\ r.id = thread[t].id /\ r.op = thread[t].op /\ r.at = "prune" /\ r.lock = "none" /\ r.reg = thread[t].reg
    BY <1>1, <1>10 DEF MaintainReconciles, ThreadAt, ThreadTo, RequestRecord, LifeInv, ThreadsInv, Pc
  <2> HIDE DEF r
  <2>2. ControlInv(t)' /\ KnowsInv(t)'
    BY <1>1, <1>10, <2>1 DEF MaintainReconciles, ThreadAt, ControlInv, KnowsInv, RowsUnchanged, State, Whole
  <2> QED BY <1>1, <1>10, <2>1, <2>2, QuietMove DEF MaintainReconciles, ThreadAt, ControlInv
<1> QED BY <1>2, <1>3, <1>4, <1>5, <1>6, <1>7, <1>8, <1>9, <1>10 DEF RunStep, MaintainReconciles, ThreadAt

\* A request arrives: at a live repository, or to create one with an id of its own.
LEMMA BeginKeeps ==
    ASSUME LifeInv, NEW t \in Thread, CreateInserts(t) \/ \E op \in Request, i \in Id : Arrive(t, op, i)
    PROVE  LifeInv'
<1> USE DEF CreatePc, DeletePc, DefaultPc, SharedPc, RegisteredPc, PastDrain
<1>1. forge = "up" /\ thread[t] = NoRequest /\ thread \in [Thread -> RequestRecord] /\ RowsTyped /\ MaxIds \in Nat
  BY LifecycleAssumption DEF CreateInserts, Arrive, BeginRequest, LifeInv, ThreadsInv
<1>2. \A u \in Thread \ {t} : thread'[u] = thread[u]
  BY <1>1 DEF CreateInserts, Arrive, BeginRequest
<1>3. CASE CreateInserts(t)
  <2> PICK i \in Id : i = lastId + 1
    BY <1>1, <1>3 DEF CreateInserts, RowsTyped, Id
  <2> PICK r : r = [NoRequest EXCEPT !.op = "create", !.at = "init", !.id = i]
    OBVIOUS
  <2>1. /\ r \in RequestRecord /\ thread' = [thread EXCEPT ![t] = r] /\ thread'[t] = r
        /\ r.id = i /\ r.op = "create" /\ r.at = "init" /\ r.lock = "none" /\ r.reg = FALSE
    <3>1. thread' = [thread EXCEPT ![t] = r]
      BY <1>3 DEF CreateInserts, BeginRequest
    <3>2. "create" \in Request /\ "init" \in Pc /\ i \in 0..MaxIds
      BY <1>1 DEF Request, Pc, Id
    <3> QED BY <1>1, <3>1, <3>2, NoRequestTyped DEF RequestRecord
  <2>2. /\ RowsTyped' /\ State(i)' = "creating" /\ (\A j \in Id \ {i} : Untouched(j))
        /\ lastId' = i /\ lastId <= lastId' /\ forge' = "up"
    <3>1. /\ repo' = [repo EXCEPT ![i].state = "creating"] /\ lastId' = i
          /\ UNCHANGED <<place, durable, whole, headRef, closed, forge>>
      BY <1>3 DEF CreateInserts, SetState, storage
    <3>2. \A j \in Id : repo'[j].state # "none" => j <= lastId'
      BY <1>1, <3>1 DEF RowsTyped, Id
    <3> QED BY <1>1, <3>1, <3>2 DEF RowsTyped, RowState, Untouched, State, Id
  <2>3. \A u \in Thread \ {t} : thread[u].id # i
    BY <1>1 DEF LifeInv, ThreadsInv, ControlInv, NoRequest, RowsTyped
  <2>4. ControlInv(t)' /\ KnowsInv(t)'
    BY <1>1, <2>1, <2>2 DEF ControlInv, KnowsInv, Id, RowsTyped
  <2>5. ASSUME NEW u \in Thread \ {t} PROVE PairInv(t, u)' /\ PairInv(u, t)'
    <3>1. thread'[t].id = i /\ thread'[u].id # i
      BY <1>2, <2>1, <2>3
    <3> QED BY <3>1 DEF PairInv
  <2> QED BY <1>1, <2>1, <2>2, <2>3, <2>4, <2>5, OneThread
<1>4. ASSUME NEW op \in Request, NEW i \in Id, Arrive(t, op, i) PROVE LifeInv'
  <2> PICK pc \in {"own", "share", "gate", "register"} : BeginRequest(t, op, i, pc)
    BY <1>4 DEF Arrive
  <2> PICK r : r = [NoRequest EXCEPT !.op = op, !.at = pc, !.id = i]
    OBVIOUS
  <2>1. /\ r \in RequestRecord /\ thread' = [thread EXCEPT ![t] = r] /\ thread'[t] = r
        /\ r.id = i /\ r.op = op /\ r.at = pc /\ r.lock = "none" /\ r.reg = FALSE
    <3>1. thread' = [thread EXCEPT ![t] = r]
      BY DEF BeginRequest
    <3>2. pc \in Pc /\ i \in 0..MaxIds
      BY <1>1 DEF Pc, Id
    <3> QED BY <1>1, <3>1, <3>2, NoRequestTyped DEF RequestRecord
  <2>2. /\ RowsUnchanged /\ State(i) = "live" /\ op # "create" /\ i \in 1..lastId
    BY <1>1, <1>4 DEF Arrive, RowsUnchanged, RowsTyped, State, storage, Id
  <2>3. ControlInv(t)' /\ KnowsInv(t)'
    BY <2>1, <2>2 DEF ControlInv, KnowsInv, RowsUnchanged
  <2>4. ASSUME NEW u \in Thread \ {t} PROVE PairInv(t, u)' /\ PairInv(u, t)'
    <3>1. ControlInv(u) /\ KnowsInv(u)
      BY DEF LifeInv, ThreadsInv
    <3>2. thread[u].id = i => thread[u].op # "create"
      BY <2>2, <3>1 DEF KnowsInv
    <3> QED BY <1>2, <2>1, <2>2, <3>2 DEF PairInv
  <2>5. /\ RowsTyped' /\ (\A j \in Id : Untouched(j)) /\ (State(i)' = "live" => Whole(i)')
        /\ \A u \in Thread \ {t} : KnowsInv(u)'
    BY <1>2, <2>2, RowsFrame
  <2>6. forge' = "up" /\ lastId <= lastId'
    BY <1>1, <2>2 DEF RowsUnchanged, RowsTyped
  <2> QED BY <1>1, <2>1, <2>3, <2>4, <2>5, <2>6, OneThread
<1> QED BY <1>3, <1>4

\* While the server is down or starting there are no requests.
LEMMA NoThreads ==
    ASSUME thread' = [t \in Thread |-> NoRequest]
    PROVE  ThreadsInv'
<1> USE DEF CreatePc, DeletePc, DefaultPc, SharedPc, RegisteredPc, PastDrain
<1>1. \A t \in Thread : thread'[t] = NoRequest
  OBVIOUS
<1>2. thread' \in [Thread -> RequestRecord]
  BY NoRequestTyped
<1>3. \A t \in Thread : ControlInv(t)' /\ KnowsInv(t)'
  BY <1>1 DEF ControlInv, KnowsInv, NoRequest
<1>4. \A t, u \in Thread : PairInv(t, u)'
  BY <1>1 DEF PairInv, NoRequest
<1> QED BY <1>2, <1>3, <1>4 DEF ThreadsInv

\* The order of reconcile's steps.
LEMMA PhaseOrder ==
    /\ DOMAIN PhaseNext = {"creating", "deleting", "trash", "repos", "live"}
    /\ PhaseNext["creating"] = "deleting" /\ PhaseNext["deleting"] = "trash"
    /\ PhaseNext["trash"] = "repos" /\ PhaseNext["repos"] = "live" /\ PhaseNext["live"] = "up"
<1>1. /\ Phase[1] = "creating" /\ Phase[2] = "deleting" /\ Phase[3] = "trash"
      /\ Phase[4] = "repos" /\ Phase[5] = "live" /\ Phase[6] = "up"
  BY DEF Phase
<1>2. \A k \in 1..5 : k = 1 \/ k = 2 \/ k = 3 \/ k = 4 \/ k = 5
  OBVIOUS
<1>3. (CHOOSE k \in 1..5 : Phase[k] = "creating") = 1
  BY <1>1, <1>2
<1>4. (CHOOSE k \in 1..5 : Phase[k] = "deleting") = 2
  BY <1>1, <1>2
<1>5. (CHOOSE k \in 1..5 : Phase[k] = "trash") = 3
  BY <1>1, <1>2
<1>6. (CHOOSE k \in 1..5 : Phase[k] = "repos") = 4
  BY <1>1, <1>2
<1>7. (CHOOSE k \in 1..5 : Phase[k] = "live") = 5
  BY <1>1, <1>2
<1> QED BY <1>1, <1>3, <1>4, <1>5, <1>6, <1>7 DEF PhaseNext

\* The server dies, alone or with the machine.
LEMMA OutageKeeps ==
    ASSUME LifeInv, Outage
    PROVE  LifeInv'
<1>1. ThreadsInv'
  BY NoThreads DEF Outage
<1>2. RowsTyped' /\ LiveHasDirectory'
  <2>1. CASE UNCHANGED storage
    BY <2>1 DEF Outage, LifeInv, RowsTyped, LiveHasDirectory, State, storage
  <2>2. CASE ~UNCHANGED storage
    <3> PICK R \in SUBSET Id : place' = [i \in Id |-> IF i \in R THEN durable[i] ELSE place[i]]
      BY <2>2 DEF Outage
    <3>1. UNCHANGED <<repo, durable, headRef, lastId>> /\ forge' = "down" /\ closed' = {}
      BY <2>2 DEF Outage
    <3>2. whole' = {i \in whole : durable[i] # "none"}
      BY <2>2 DEF Outage
    <3> QED BY <3>1, <3>2 DEF LifeInv, RowsTyped, LiveHasDirectory, State, Place
  <2> QED BY <2>1, <2>2
<1>3. BootInv'
  BY DEF Outage, BootInv
<1> QED BY <1>1, <1>2, <1>3 DEF LifeInv

\* Reconcile, step by step.
LEMMA BootKeeps ==
    ASSUME LifeInv, Boot \/ BootStep
    PROVE  LifeInv'
<1>1. forge # "up" /\ thread' = thread
  BY PhaseOrder DEF Boot, BootStep, BootPhase, BootCreating, BootDeleting, BootSweeps, BootRepairs
<1>2. \A t \in Thread : thread'[t] = NoRequest
  BY <1>1 DEF LifeInv, BootInv
<1>3. ThreadsInv'
  BY <1>1, <1>2, NoThreads DEF LifeInv, ThreadsInv
<1>4. RowsTyped /\ LiveHasDirectory /\ BootInv
  BY DEF LifeInv
<1>5. CASE Boot
  BY <1>2, <1>3, <1>4, <1>5 DEF Boot, LifeInv, RowsTyped, LiveHasDirectory, BootInv, State, storage, counts
<1>6. CASE BootPhase
  <2>1. UNCHANGED <<repo, place, durable, whole, headRef, closed, lastId>>
    BY <1>6 DEF BootPhase, storage, counts
  <2>2. /\ forge \in {"creating", "deleting", "trash", "repos", "live"}
        /\ forge' = PhaseNext[forge] /\ (BootTodo(forge) = {} \/ forge = "live")
    BY <1>6, PhaseOrder DEF BootPhase
  <2>3. RowsTyped' /\ LiveHasDirectory'
    BY <1>4, <2>1, <2>2, PhaseOrder DEF RowsTyped, LiveHasDirectory, State
  <2>4. BootInv'
    <3>1. CASE forge = "creating"
      BY <1>2, <1>4, <2>1, <2>2, <3>1, PhaseOrder DEF BootInv, BootTodo, State
    <3>2. CASE forge = "deleting"
      BY <1>2, <1>4, <2>1, <2>2, <3>2, PhaseOrder DEF BootInv, BootTodo, State
    <3>3. CASE forge = "trash"
      BY <1>2, <1>4, <2>1, <2>2, <3>3, PhaseOrder DEF BootInv, BootTodo, State
    <3>4. CASE forge = "repos"
      BY <1>2, <1>4, <2>1, <2>2, <3>4, PhaseOrder DEF BootInv, BootTodo, State
    <3>5. CASE forge = "live"
      BY <1>2, <1>4, <2>1, <2>2, <3>5, PhaseOrder DEF BootInv, State
    <3> QED BY <2>2, <3>1, <3>2, <3>3, <3>4, <3>5
  <2> QED BY <1>3, <2>3, <2>4 DEF LifeInv
<1>7. ASSUME NEW i \in Id, BootCreating(i) PROVE LifeInv'
  <2>1. State(i) = "creating" /\ forge = "creating" /\ UNCHANGED <<whole, headRef, closed, forge, lastId>>
    BY <1>7 DEF BootCreating, BootTodo, counts
  <2>2. CASE place[i] = "repos"
    <3>1. /\ place' = [place EXCEPT ![i] = "orphans"] /\ durable' = [durable EXCEPT ![i] = "orphans"]
          /\ UNCHANGED repo
      BY <1>7, <2>2 DEF BootCreating
    <3>2. RowsTyped' /\ LiveHasDirectory'
      BY <1>4, <2>1, <3>1 DEF RowsTyped, Place, LiveHasDirectory, State
    <3> QED BY <1>2, <1>3, <2>1, <3>2 DEF LifeInv, BootInv
  <2>3. CASE place[i] # "repos"
    <3>1. repo' = [repo EXCEPT ![i].state = "none"] /\ UNCHANGED <<place, durable>>
      BY <1>7, <2>3 DEF BootCreating, SetState
    <3>2. RowsTyped' /\ LiveHasDirectory'
      BY <1>4, <2>1, <3>1 DEF RowsTyped, RowState, LiveHasDirectory, State
    <3> QED BY <1>2, <1>3, <2>1, <3>2 DEF LifeInv, BootInv
  <2> QED BY <2>2, <2>3
<1>8. ASSUME NEW i \in Id, BootDeleting(i) PROVE LifeInv'
  <2>1. State(i) = "deleting" /\ forge = "deleting" /\ UNCHANGED <<whole, headRef, closed, forge, lastId>>
    BY <1>8 DEF BootDeleting, BootTodo, counts
  <2>2. CASE place[i] = "repos"
    <3>1. place' = [place EXCEPT ![i] = "trash"] /\ durable' = place' /\ UNCHANGED repo
      BY <1>8, <2>2 DEF BootDeleting
    <3>2. RowsTyped' /\ LiveHasDirectory'
      BY <1>4, <2>1, <3>1 DEF RowsTyped, Place, LiveHasDirectory, State
    <3>3. BootInv'
      BY <1>2, <1>4, <2>1, <3>1 DEF BootInv, State
    <3> QED BY <1>3, <3>2, <3>3 DEF LifeInv
  <2>3. CASE place[i] # "repos"
    <3>1. repo' = [repo EXCEPT ![i].state = "none"] /\ UNCHANGED <<place, durable>>
      BY <1>8, <2>3 DEF BootDeleting, SetState
    <3>2. RowsTyped' /\ LiveHasDirectory'
      BY <1>4, <2>1, <3>1 DEF RowsTyped, RowState, LiveHasDirectory, State
    <3>3. BootInv'
      BY <1>2, <1>4, <2>1, <3>1 DEF BootInv, RowsTyped, State
    <3> QED BY <1>3, <3>2, <3>3 DEF LifeInv
  <2> QED BY <2>2, <2>3
<1>9. ASSUME NEW i \in Id, BootSweeps(i) PROVE LifeInv'
  <2>1. State(i) = "none" /\ forge \in {"trash", "repos"} /\ UNCHANGED <<repo, whole, headRef, closed, forge, lastId>>
    BY <1>9 DEF BootSweeps, BootTodo, counts
  <2>2. /\ place' = [place EXCEPT ![i] = IF forge = "trash" THEN "none" ELSE "orphans"]
        /\ durable' = IF forge = "trash" THEN durable ELSE [durable EXCEPT ![i] = "orphans"]
    BY <1>9 DEF BootSweeps
  <2>3. RowsTyped'
    BY <1>4, <2>1, <2>2 DEF RowsTyped, Place
  <2>4. LiveHasDirectory'
    BY <1>4, <2>1, <2>2 DEF RowsTyped, LiveHasDirectory, State
  <2>5. BootInv'
    BY <1>2, <1>4, <2>1, <2>2 DEF RowsTyped, BootInv, State
  <2> QED BY <1>3, <2>3, <2>4, <2>5 DEF LifeInv
<1>10. ASSUME NEW i \in Id, BootRepairs(i) PROVE LifeInv'
  BY <1>2, <1>3, <1>4, <1>10 DEF BootRepairs, RowsTyped, LiveHasDirectory, BootInv, State, LifeInv, counts
<1> QED BY <1>5, <1>6, <1>7, <1>8, <1>9, <1>10 DEF BootStep

-----------------------------------------------------------------------------
(* The theorems                                                              *)

LEMMA InitInv == LifeInit => LifeInv
<1> SUFFICES ASSUME LifeInit PROVE LifeInv
  OBVIOUS
<1> USE DEF CreatePc, DeletePc, DefaultPc, SharedPc, RegisteredPc, PastDrain
<1>1. \A t \in Thread : thread[t] = NoRequest
  BY DEF LifeInit
<1>2. RowsTyped /\ LiveHasDirectory /\ BootInv
  BY <1>1, LifecycleAssumption DEF LifeInit, RowsTyped, RowState, BranchName, Place, LiveHasDirectory, BootInv, State
<1>3. thread \in [Thread -> RequestRecord]
  BY NoRequestTyped DEF LifeInit
<1>4. \A t \in Thread : ControlInv(t) /\ KnowsInv(t)
  BY <1>1 DEF ControlInv, KnowsInv, NoRequest
<1>5. \A t, u \in Thread : PairInv(t, u)
  BY <1>1 DEF PairInv, NoRequest
<1> QED BY <1>2, <1>3, <1>4, <1>5 DEF LifeInv, ThreadsInv

LEMMA NextInv == LifeInv /\ [LifeNext]_lifeVars => LifeInv'
<1> SUFFICES ASSUME LifeInv, [LifeNext]_lifeVars PROVE LifeInv'
  OBVIOUS
<1>1. CASE UNCHANGED lifeVars
  <2>1. RowsUnchanged /\ thread' = thread
    BY <1>1, NothingTouched DEF lifeVars
  <2>2. ThreadsInv' /\ LiveHasDirectory' /\ BootInv'
    BY <2>1 DEF RowsUnchanged, LifeInv, ThreadsInv, ControlInv, KnowsInv, PairInv, LiveHasDirectory, BootInv, State, Whole
  <2> QED BY <2>1, <2>2 DEF LifeInv, RowsUnchanged
<1>2. CASE LifeNext
  BY <1>2, LockStepKeeps, CreateStepKeeps, DeleteStepKeeps, DefaultStepKeeps, RunStepKeeps, BeginKeeps,
     OutageKeeps, BootKeeps DEF LifeNext, ThreadStep
<1> QED BY <1>1, <1>2

\* The invariant of every behaviour of the server.
THEOREM LifeInvariant == LifeSpec => []LifeInv
BY InitInv, NextInv, PTL DEF LifeSpec

\* The variables keep their types.
THEOREM LifeTypeCorrect == LifeSpec => []LifeTypeOK
<1>1. LifeInv => LifeTypeOK
  <2>1. \A k \in 1..6 : k = 1 \/ k = 2 \/ k = 3 \/ k = 4 \/ k = 5 \/ k = 6
    OBVIOUS
  <2>2. {"creating", "deleting", "trash", "repos", "live", "up"} \subseteq {Phase[k] : k \in 1..6}
    BY DEF Phase
  <2> QED BY <2>2 DEF LifeInv, RowsTyped, ThreadsInv, RequestRecord, LifeTypeOK
<1> QED BY <1>1, LifeInvariant, PTL

\* A live row has its directory, whole and on stable storage, whatever died or
\* failed in create, delete and reconcile (lifecycle.rs, registry.rs).
THEOREM LiveRowsHaveDirectories == LifeSpec => []LiveHasDirectory
<1>1. LifeInv => LiveHasDirectory
  BY DEF LifeInv
<1> QED BY <1>1, LifeInvariant, PTL

\* No request works in a directory that a delete has moved or a create has
\* not finished (the lock, the second look at the row, and the drain).
THEOREM NobodyUsesADeletedRepository == LifeSpec => []NoUseAfterDelete
<1>1. LifeInv => NoUseAfterDelete
  <2> SUFFICES ASSUME LifeInv, NEW t \in Thread, Inside(t)
               PROVE  place[thread[t].id] = "repos" /\ thread[t].id \in whole
    BY DEF NoUseAfterDelete
  <2>1. ControlInv(t) /\ KnowsInv(t) /\ thread[t].id \in Id
    BY AtWork DEF Inside
  <2>2. CASE thread[t].at \in {"use", "head"}
    BY <2>1, <2>2 DEF KnowsInv, LifeInv, LiveHasDirectory
  <2>3. CASE thread[t].at \notin {"use", "head"}
    BY <2>1, <2>3 DEF Inside, ControlInv, KnowsInv, RegisteredPc
  <2> QED BY <2>2, <2>3
<1> QED BY <1>1, LifeInvariant, PTL

\* When reconcile ends, every row is live and neither trash nor a directory
\* without a row is left (reconcile, before the listener is bound).
THEOREM ReconcileStartsClean == LifeSpec => StartsClean
<1>1. ASSUME LifeInv, LifeNext, forge # "up", forge' = "up"
      PROVE  \A i \in Id : /\ repo'[i].state \in {"none", "live"}
                           /\ place'[i] \in {"repos", "trash"} => place'[i] = "repos" /\ repo'[i].state = "live"
  <2>1. \A t \in Thread : thread[t] = NoRequest
    BY <1>1 DEF LifeInv, BootInv
  <2>2. BootPhase
    <3>1. \A t \in Thread : ~(\E op \in Request, i \in Id : Arrive(t, op, i)) /\ ~CreateInserts(t)
      BY <1>1 DEF Arrive, CreateInserts, BeginRequest
    <3>2. \A t \in Thread : ~ThreadStep(t) /\ ~DeleteTimesOut(t) /\ ~GateBusy(t) /\ ~MaintainBusy(t)
      BY <2>1 DEF NoRequest, ThreadAt, ThreadStep, DeleteTimesOut, GateBusy, MaintainBusy,
         CreateStep, CreateInits, CreateBuilds, CreateSyncs, CreateGoesLive, CreateFails, CreateUndoes,
         DeleteStep, DeleteMarks, DeleteCloses, DeleteDrained, DeleteRenames, DeleteRenameFails, DeleteReopens,
         DeleteSyncs, DeleteUnrows, DeleteFails, DeleteEmpties,
         DefaultStep, DefaultLooks, DefaultWritesHead, DefaultWritesRow, DefaultFails,
         RunStep, Register, TransportEnds, MaintainGates, MaintainCleans, MaintainRepacks, MaintainReconciles,
         LockStep, Queue, Own, Share, CheckLive, TakeGateFirst, UseEnds
    <3> QED BY <1>1, <3>1, <3>2 DEF LifeNext, Outage, Boot, BootStep, BootCreating, BootDeleting, BootSweeps, BootRepairs
  <2>3. forge = "live" /\ UNCHANGED <<repo, place>>
    BY <1>1, <2>2, PhaseOrder DEF BootPhase, storage
  <2> QED BY <1>1, <2>3 DEF LifeInv, BootInv, LiveHasDirectory, RowsTyped, RowState, State
<1>2. LifeInv /\ [LifeNext]_lifeVars
        => [forge # "up" /\ forge' = "up"
              => \A i \in Id : /\ repo'[i].state \in {"none", "live"}
                               /\ place'[i] \in {"repos", "trash"} => place'[i] = "repos" /\ repo'[i].state = "live"]_lifeVars
  BY <1>1
<1> QED BY <1>2, LifeInvariant, PTL DEF LifeSpec, StartsClean
=============================================================================
