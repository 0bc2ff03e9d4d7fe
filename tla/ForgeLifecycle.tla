--------------------------- MODULE ForgeLifecycle ---------------------------
(***************************************************************************)
(* The repositories of one forge server as rows of SQLite and directories  *)
(* of the data directory: created, read, written, pushed to, maintained,   *)
(* deleted, and reconciled when the server starts.                         *)
(* crates/forge/src/{lifecycle,registry,maintenance,cgi,repos}.rs.         *)
(*                                                                         *)
(* A request runs on a thread of its own.  It holds at most a repository's *)
(* write gate, its reader-writer lock and a registration; what it holds is *)
(* part of its state, so the locks and the registry need none.             *)
(* Git calls, renames and SQLite statements are steps, each of which may   *)
(* fail.  The server may die at any step, also with the machine: then a    *)
(* directory is where it was, or where the last fsync left it.             *)
(***************************************************************************)
EXTENDS Integers, FiniteSets

CONSTANTS
    Thread,       \* request threads
    MaxIds,       \* bound: repositories ever created
    MaxRequests,  \* bound: requests begun
    MaxOutages    \* bound: deaths of the server, failed starts included

ASSUME LifecycleAssumption ==
    {MaxIds, MaxRequests, MaxOutages} \subseteq Nat

VARIABLES
    repo,      \* the rows, by id: the state, "none" without a row, and the default branch
    place,     \* where <id>.git is: "none", "repos", "trash" or "orphans"
    durable,   \* where it is on stable storage
    whole,     \* ids whose directory holds all that was put into it
    headRef,   \* the branch HEAD of each directory names
    closed,    \* ids whose slot in the registry is closed
    thread,    \* what each thread is doing, and holds
    forge,     \* the server: "down", "up", or the step of reconcile it is in
    lastId,    \* the last id given to a row
    begun,     \* requests begun
    outages    \* deaths so far

storage == <<place, durable, whole, headRef>>
counts == <<lastId, begun, outages>>
lifeVars == <<repo, storage, closed, thread, forge, counts>>

Id == 1..MaxIds
BranchName == {"main", "dev"}
RowState == {"none", "creating", "live", "deleting"}
Place == {"none", "repos", "trash", "orphans"}
Request == {"create", "delete", "default", "read", "write", "transport", "maintain"}
Phase == <<"creating", "deleting", "trash", "repos", "live", "up">>

NoRequest == [op |-> "none", at |-> "idle", id |-> 0, lock |-> "none", gate |-> FALSE,
              reg |-> FALSE, cancelled |-> FALSE]

LifeInit ==
    /\ repo = [i \in Id |-> [state |-> "none", branch |-> "main"]]
    /\ place = [i \in Id |-> "none"] /\ durable = place
    /\ whole = {}
    /\ headRef = [i \in Id |-> "main"]
    /\ closed = {}
    /\ thread = [t \in Thread |-> NoRequest]
    /\ forge = "up"
    /\ lastId = 0 /\ begun = 0 /\ outages = 0

-----------------------------------------------------------------------------
(* The locks and the registry                                              *)

On(i) == {t \in Thread : thread[t].id = i}
Registered(i) == {t \in On(i) : thread[t].reg}
GateTaken(i) == \E t \in On(i) : thread[t].gate
LockedBy(i, mode) == {t \in On(i) : thread[t].lock = mode}

\* std's RwLock prefers writers: one that waits keeps readers out.
CanShare(i) == LockedBy(i, "exclusive") \cup LockedBy(i, "queued") = {}
CanOwn(i) == LockedBy(i, "exclusive") \cup LockedBy(i, "shared") = {}

State(i) == repo[i].state
SetState(i, s) == repo' = [repo EXCEPT ![i].state = s]
ThreadAt(t, pc) == thread[t].at = pc
ThreadTo(t, pc) == thread' = [thread EXCEPT ![t].at = pc]

\* Every guard is dropped on the way out.
EndRequest(t) == thread' = [thread EXCEPT ![t] = NoRequest]

BeginRequest(t, op, i, pc) ==
    /\ forge = "up" /\ thread[t] = NoRequest /\ begun < MaxRequests
    /\ begun' = begun + 1
    /\ thread' = [thread EXCEPT ![t] = [NoRequest EXCEPT !.op = op, !.at = pc, !.id = i]]

\* A request finds its repository live before it takes any lock.
Arrive(t, op, i) ==
    /\ op # "create" /\ State(i) = "live"
    /\ BeginRequest(t, op, i, CASE op \in {"delete", "default"} -> "own"
                         [] op = "read" -> "share"
                         [] op = "write" -> "gate"
                         [] OTHER -> "register")
    /\ UNCHANGED <<repo, storage, closed, forge, lastId, outages>>

\* lock.write(): queue, then own.
Queue(t) ==
    /\ ThreadAt(t, "own") /\ thread[t].lock = "none"
    /\ thread' = [thread EXCEPT ![t].lock = "queued"]
    /\ UNCHANGED <<repo, storage, closed, forge, counts>>

Own(t) ==
    /\ ThreadAt(t, "own") /\ thread[t].lock = "queued" /\ CanOwn(thread[t].id)
    /\ thread' = [thread EXCEPT ![t].lock = "exclusive",
                                ![t].at = IF thread[t].op = "delete" THEN "mark" ELSE "look"]
    /\ UNCHANGED <<repo, storage, closed, forge, counts>>

\* with_read and with_write_row: the lock, then the row is read again under it.
Share(t) ==
    /\ ThreadAt(t, "share") /\ CanShare(thread[t].id)
    /\ thread' = [thread EXCEPT ![t].lock = "shared", ![t].at = "check"]
    /\ UNCHANGED <<repo, storage, closed, forge, counts>>

\* A mutant: the row is not read again under the lock.
TrustFirstLook(t) ==
    /\ ThreadAt(t, "check")
    /\ ThreadTo(t, "use")
    /\ UNCHANGED <<repo, storage, closed, forge, counts>>

CheckLive(t) ==
    /\ ThreadAt(t, "check")
    /\ IF State(thread[t].id) = "live" THEN ThreadTo(t, "use") ELSE EndRequest(t)
    /\ UNCHANGED <<repo, storage, closed, forge, counts>>

\* The gate of a server-made write: timed, busy when it stays taken.
TakeGateFirst(t) ==
    /\ ThreadAt(t, "gate") /\ ~GateTaken(thread[t].id)
    /\ thread' = [thread EXCEPT ![t].gate = TRUE, ![t].at = "share"]
    /\ UNCHANGED <<repo, storage, closed, forge, counts>>

GateBusy(t) ==
    /\ ThreadAt(t, "gate") /\ GateTaken(thread[t].id)
    /\ EndRequest(t)
    /\ UNCHANGED <<repo, storage, closed, forge, counts>>

\* The read or the write itself, or an error of the row lookup.
UseEnds(t) ==
    /\ thread[t].at \in {"check", "use"}
    /\ EndRequest(t)
    /\ UNCHANGED <<repo, storage, closed, forge, counts>>

-----------------------------------------------------------------------------
(* create                                                                  *)

\* insert_creating: ids are never used twice, and the name is taken while it has a row.
CreateInserts(t) ==
    LET i == lastId + 1 IN
    /\ i <= MaxIds /\ \A j \in Id : State(j) = "none"
    /\ BeginRequest(t, "create", i, "init")
    /\ SetState(i, "creating")
    /\ lastId' = i
    /\ UNCHANGED <<storage, closed, forge, outages>>

\* git init, the first commit, fsync_tree; and the row goes live last.
CreateInits(t) ==
    /\ ThreadAt(t, "init")
    /\ place' = [place EXCEPT ![thread[t].id] = "repos"]
    /\ ThreadTo(t, "build")
    /\ UNCHANGED <<repo, durable, whole, headRef, closed, forge, counts>>

CreateBuilds(t) ==
    /\ ThreadAt(t, "build")
    /\ whole' = whole \cup {thread[t].id}
    /\ ThreadTo(t, "sync")
    /\ UNCHANGED <<repo, place, durable, headRef, closed, forge, counts>>

\* A mutant: the directory is not synced before the row goes live.
CreateHurries(t) ==
    /\ ThreadAt(t, "sync") /\ thread[t].op = "create"
    /\ ThreadTo(t, "golive")
    /\ UNCHANGED <<repo, storage, closed, forge, counts>>

CreateSyncs(t) ==
    /\ ThreadAt(t, "sync") /\ thread[t].op = "create"
    /\ durable' = [durable EXCEPT ![thread[t].id] = "repos"]
    /\ ThreadTo(t, "golive")
    /\ UNCHANGED <<repo, place, whole, headRef, closed, forge, counts>>

CreateGoesLive(t) ==
    /\ ThreadAt(t, "golive")
    /\ SetState(thread[t].id, "live")
    /\ EndRequest(t)
    /\ UNCHANGED <<storage, closed, forge, counts>>

CreateFails(t) ==
    /\ thread[t].op = "create" /\ thread[t].at \in {"init", "build", "sync", "golive"}
    /\ ThreadTo(t, "undo")
    /\ UNCHANGED <<repo, storage, closed, forge, counts>>

\* The rollback: the directory, and only then the row; what fails is left to reconcile.
CreateUndoes(t) ==
    LET i == thread[t].id IN
    /\ UNCHANGED <<durable, headRef, closed, forge, counts>>
    /\ \/ /\ ThreadAt(t, "undo")
          /\ place' = [place EXCEPT ![i] = "none"] /\ whole' = whole \ {i}
          /\ ThreadTo(t, "unrow")
          /\ UNCHANGED repo
       \/ /\ ThreadAt(t, "undo") /\ EndRequest(t) /\ whole' = whole \ {i} /\ UNCHANGED <<repo, place>>
       \/ /\ ThreadAt(t, "unrow") /\ thread[t].op = "create"
          /\ SetState(i, "none") \/ UNCHANGED repo
          /\ EndRequest(t)
          /\ UNCHANGED <<place, whole>>

-----------------------------------------------------------------------------
(* delete, with the lock owned                                             *)

DeleteMarks(t) ==
    LET i == thread[t].id IN
    /\ ThreadAt(t, "mark")
    /\ IF State(i) = "live" THEN SetState(i, "deleting") /\ ThreadTo(t, "close")
       ELSE EndRequest(t) /\ UNCHANGED repo
    /\ UNCHANGED <<storage, closed, forge, counts>>

\* The slot is closed and every registration cancelled, under the registry's lock.
DeleteCloses(t) ==
    LET i == thread[t].id IN
    /\ ThreadAt(t, "close")
    /\ closed' = closed \cup {i}
    /\ thread' = [u \in Thread |->
                    IF u = t THEN [thread[u] EXCEPT !.at = "drain"]
                    ELSE IF u \in Registered(i) THEN [thread[u] EXCEPT !.cancelled = TRUE]
                    ELSE thread[u]]
    /\ UNCHANGED <<repo, storage, forge, counts>>

DeleteDrained(t) ==
    /\ ThreadAt(t, "drain") /\ Registered(thread[t].id) = {}
    /\ ThreadTo(t, "rename")
    /\ UNCHANGED <<repo, storage, closed, forge, counts>>

DeleteTimesOut(t) ==
    /\ ThreadAt(t, "drain") /\ Registered(thread[t].id) # {}
    /\ ThreadTo(t, "reopen")
    /\ UNCHANGED <<repo, storage, closed, forge, counts>>

DeleteRenames(t) ==
    LET i == thread[t].id IN
    /\ ThreadAt(t, "rename")
    /\ IF place[i] = "repos" THEN place' = [place EXCEPT ![i] = "trash"] /\ ThreadTo(t, "sync")
       ELSE UNCHANGED place /\ ThreadTo(t, "reopen")
    /\ UNCHANGED <<repo, durable, whole, headRef, closed, forge, counts>>

DeleteRenameFails(t) ==
    /\ ThreadAt(t, "rename")
    /\ ThreadTo(t, "reopen")
    /\ UNCHANGED <<repo, storage, closed, forge, counts>>

\* The slot is opened again, then the row put back, best effort.
DeleteReopens(t) ==
    LET i == thread[t].id IN
    /\ UNCHANGED <<storage, forge, counts>>
    /\ \/ ThreadAt(t, "reopen") /\ closed' = closed \ {i} /\ ThreadTo(t, "restore") /\ UNCHANGED repo
       \/ /\ ThreadAt(t, "restore")
          /\ SetState(i, "live") \/ UNCHANGED repo
          /\ EndRequest(t)
          /\ UNCHANGED closed

DeleteSyncs(t) ==
    /\ ThreadAt(t, "sync") /\ thread[t].op = "delete"
    /\ durable' = [durable EXCEPT ![thread[t].id] = "trash"]
    /\ ThreadTo(t, "unrow")
    /\ UNCHANGED <<repo, place, whole, headRef, closed, forge, counts>>

DeleteUnrows(t) ==
    /\ ThreadAt(t, "unrow") /\ thread[t].op = "delete"
    /\ SetState(thread[t].id, "none")
    /\ ThreadTo(t, "empty")
    /\ UNCHANGED <<storage, closed, forge, counts>>

\* An error of SQLite or of fsync: the row stays as it is, the slot too.
DeleteFails(t) ==
    /\ thread[t].op = "delete" /\ thread[t].at \in {"mark", "sync", "unrow"}
    /\ EndRequest(t)
    /\ UNCHANGED <<repo, storage, closed, forge, counts>>

\* The trash is removed, best effort, and the slot, the lock and the gate are forgotten.
DeleteEmpties(t) ==
    LET i == thread[t].id IN
    /\ ThreadAt(t, "empty")
    /\ place' \in {place, [place EXCEPT ![i] = "none"]}
    /\ closed' = closed \ {i}
    /\ EndRequest(t)
    /\ UNCHANGED <<repo, durable, whole, headRef, forge, counts>>

-----------------------------------------------------------------------------
(* set_default_branch, with the lock owned: HEAD first, then the row       *)

DefaultLooks(t) ==
    LET i == thread[t].id IN
    /\ ThreadAt(t, "look")
    /\ IF State(i) = "live" THEN ThreadTo(t, "head") ELSE EndRequest(t)
    /\ UNCHANGED <<repo, storage, closed, forge, counts>>

DefaultWritesHead(t) ==
    LET i == thread[t].id IN
    /\ ThreadAt(t, "head")
    /\ headRef' = [headRef EXCEPT ![i] = CHOOSE b \in BranchName : b # repo[i].branch]
    /\ ThreadTo(t, "row")
    /\ UNCHANGED <<repo, place, durable, whole, closed, forge, counts>>

DefaultWritesRow(t) ==
    LET i == thread[t].id IN
    /\ ThreadAt(t, "row")
    /\ repo' = IF State(i) = "live" THEN [repo EXCEPT ![i].branch = headRef[i]] ELSE repo
    /\ EndRequest(t)
    /\ UNCHANGED <<storage, closed, forge, counts>>

DefaultFails(t) ==
    /\ thread[t].at \in {"look", "head", "row"}
    /\ EndRequest(t)
    /\ UNCHANGED <<repo, storage, closed, forge, counts>>

-----------------------------------------------------------------------------
(* Transports and maintenance passes: registered, no lock held             *)

Register(t) ==
    LET i == thread[t].id IN
    /\ ThreadAt(t, "register")
    /\ IF i \in closed \/ State(i) # "live" THEN EndRequest(t)
       ELSE thread' = [thread EXCEPT ![t].reg = TRUE,
                           ![t].at = IF thread[t].op = "transport" THEN "run" ELSE "cleangate"]
    /\ UNCHANGED <<repo, storage, closed, forge, counts>>

\* The child ends by itself, or is killed when it is cancelled or its time is up.
\* A push that ended well is unregistered before its sync, a gated write.
TransportEnds(t) ==
    /\ ThreadAt(t, "run")
    /\ \/ EndRequest(t)
       \/ thread' = [thread EXCEPT ![t].reg = FALSE, ![t].cancelled = FALSE, ![t].at = "gate"]
    /\ UNCHANGED <<repo, storage, closed, forge, counts>>

\* A mutant: the wait for the gate does not notice that it is cancelled.
GateStubbornly(t) ==
    /\ thread[t].at \in {"cleangate", "prunegate"} /\ ~GateTaken(thread[t].id)
    /\ thread' = [thread EXCEPT ![t].gate = TRUE,
                      ![t].at = IF thread[t].at = "cleangate" THEN "clean" ELSE "reconcile"]
    /\ UNCHANGED <<repo, storage, closed, forge, counts>>

\* in_gate: gives up when cancelled, else waits for the gate.
MaintainGates(t) ==
    /\ thread[t].at \in {"cleangate", "prunegate"}
    /\ IF thread[t].cancelled THEN EndRequest(t)
       ELSE /\ ~GateTaken(thread[t].id)
            /\ thread' = [thread EXCEPT ![t].gate = TRUE,
                              ![t].at = IF thread[t].at = "cleangate" THEN "clean" ELSE "reconcile"]
    /\ UNCHANGED <<repo, storage, closed, forge, counts>>

\* The wait ran out: the cleanup is skipped, the second stage too.
MaintainBusy(t) ==
    /\ thread[t].at \in {"cleangate", "prunegate"} /\ GateTaken(thread[t].id)
    /\ IF ThreadAt(t, "cleangate") THEN ThreadTo(t, "gc") ELSE EndRequest(t)
    /\ UNCHANGED <<repo, storage, closed, forge, counts>>

\* try_exclusive and with_only: the leftovers are renamed, or wait for the next
\* pass; then the gate is let go.
MaintainCleans(t) ==
    /\ ThreadAt(t, "clean")
    /\ thread' = [thread EXCEPT ![t].gate = FALSE, ![t].at = "gc"]
    /\ UNCHANGED <<repo, storage, closed, forge, counts>>

\* gc without pruning, killed when cancelled; stage 2 only if it ended well.
MaintainRepacks(t) ==
    /\ ThreadAt(t, "gc")
    /\ ThreadTo(t, "prunegate") \/ EndRequest(t)
    /\ UNCHANGED <<repo, storage, closed, forge, counts>>

\* try_shared never waits: reconcile_repo, then the prune without the lock.
MaintainReconciles(t) ==
    LET i == thread[t].id IN
    /\ UNCHANGED <<repo, storage, closed, forge, counts>>
    /\ \/ /\ ThreadAt(t, "reconcile")
          /\ IF ~thread[t].cancelled /\ CanShare(i)
             THEN thread' = [thread EXCEPT ![t].lock = "shared", ![t].at = "reconciled"]
             ELSE EndRequest(t)
       \/ /\ ThreadAt(t, "reconciled")
          /\ \/ thread' = [thread EXCEPT ![t].lock = "none", ![t].at = "prune"]
             \/ EndRequest(t)
       \/ ThreadAt(t, "prune") /\ EndRequest(t)

-----------------------------------------------------------------------------
(* The server dies; reconcile, before the listener is bound                *)

\* Only the process dies, or the machine with it.
Outage ==
    /\ forge # "down" /\ outages < MaxOutages
    /\ outages' = outages + 1
    /\ forge' = "down"
    /\ closed' = {} /\ thread' = [t \in Thread |-> NoRequest]
    /\ \/ UNCHANGED storage
       \/ /\ place' \in {[i \in Id |-> IF i \in R THEN durable[i] ELSE place[i]] : R \in SUBSET Id}
          /\ whole' = {i \in whole : durable[i] # "none"}
          /\ UNCHANGED <<durable, headRef>>
    /\ UNCHANGED <<repo, lastId, begun>>

Boot ==
    /\ forge = "down"
    /\ forge' = "creating"
    /\ UNCHANGED <<repo, storage, closed, thread, counts>>

\* A mutant: the trash of a delete that was cut short is not looked for.
TodoWithoutTrash(phase) ==
    CASE phase \in {"creating", "deleting"} -> {i \in Id : State(i) = phase}
      [] phase = "repos" -> {i \in Id : State(i) = "none" /\ place[i] = phase}
      [] phase = "live" -> {i \in Id : State(i) = "live" /\ place[i] = "repos" /\ headRef[i] # repo[i].branch}
      [] OTHER -> {}

\* What each step of reconcile has left to do.
BootTodo(phase) ==
    CASE phase \in {"creating", "deleting"} -> {i \in Id : State(i) = phase}
      [] phase \in {"trash", "repos"} -> {i \in Id : State(i) = "none" /\ place[i] = phase}
      [] phase = "live" -> {i \in Id : State(i) = "live" /\ place[i] = "repos" /\ headRef[i] # repo[i].branch}
      [] OTHER -> {}

PhaseNext == [phase \in {"creating", "deleting", "trash", "repos", "live"} |->
    Phase[1 + CHOOSE k \in 1..5 : Phase[k] = phase]]

BootPhase ==
    /\ forge \in DOMAIN PhaseNext
    /\ BootTodo(forge) = {} \/ forge = "live"   \* a HEAD that cannot be written is reported
    /\ forge' = PhaseNext[forge]
    /\ UNCHANGED <<repo, storage, closed, thread, counts>>

\* 1. creating: the directory goes to orphans/, durably, then the row goes.
BootCreating(i) ==
    /\ forge = "creating" /\ i \in BootTodo(forge)
    /\ IF place[i] = "repos"
       THEN /\ place' = [place EXCEPT ![i] = "orphans"]
            /\ durable' = [durable EXCEPT ![i] = "orphans"]
            /\ UNCHANGED repo
       ELSE SetState(i, "none") /\ UNCHANGED <<place, durable>>
    /\ UNCHANGED <<whole, headRef, closed, thread, forge, counts>>

\* 2. deleting: resumed at the rename, fsynced, the row, the trash.
BootDeleting(i) ==
    /\ forge = "deleting" /\ i \in BootTodo(forge)
    /\ \/ /\ place[i] = "repos"
          /\ place' = [place EXCEPT ![i] = "trash"]
          /\ durable' = place'
          /\ UNCHANGED repo
       \/ /\ place[i] # "repos"
          /\ SetState(i, "none")
          /\ UNCHANGED <<place, durable>>
    /\ UNCHANGED <<whole, headRef, closed, thread, forge, counts>>

\* 3. and 4.: trash without a row is removed, a directory without one is kept aside.
BootSweeps(i) ==
    /\ forge \in {"trash", "repos"} /\ i \in BootTodo(forge)
    /\ place' = [place EXCEPT ![i] = IF forge = "trash" THEN "none" ELSE "orphans"]
    /\ durable' = IF forge = "trash" THEN durable ELSE [durable EXCEPT ![i] = "orphans"]
    /\ UNCHANGED <<repo, whole, headRef, closed, thread, forge, counts>>

\* 5. live: HEAD follows the row.
BootRepairs(i) ==
    /\ forge = "live" /\ i \in BootTodo(forge)
    /\ headRef' = [headRef EXCEPT ![i] = repo[i].branch]
    /\ UNCHANGED <<repo, place, durable, whole, closed, thread, forge, counts>>

-----------------------------------------------------------------------------
CreateStep(t) ==
    CreateInits(t) \/ CreateBuilds(t) \/ CreateSyncs(t) \/ CreateGoesLive(t) \/ CreateFails(t) \/ CreateUndoes(t)

DeleteStep(t) ==
    \/ DeleteMarks(t) \/ DeleteCloses(t) \/ DeleteDrained(t) \/ DeleteRenames(t) \/ DeleteRenameFails(t)
    \/ DeleteReopens(t) \/ DeleteSyncs(t) \/ DeleteUnrows(t) \/ DeleteFails(t) \/ DeleteEmpties(t)

DefaultStep(t) == DefaultLooks(t) \/ DefaultWritesHead(t) \/ DefaultWritesRow(t) \/ DefaultFails(t)

RunStep(t) ==
    \/ Register(t) \/ TransportEnds(t) \/ MaintainGates(t) \/ MaintainCleans(t)
    \/ MaintainRepacks(t) \/ MaintainReconciles(t)

LockStep(t) == Queue(t) \/ Own(t) \/ Share(t) \/ CheckLive(t) \/ TakeGateFirst(t) \/ UseEnds(t)

\* What a thread does without any of its timeouts.
ThreadStep(t) == CreateStep(t) \/ DeleteStep(t) \/ DefaultStep(t) \/ RunStep(t) \/ LockStep(t)

BootStep ==
    \/ BootPhase
    \/ \E i \in Id : BootCreating(i) \/ BootDeleting(i) \/ BootSweeps(i) \/ BootRepairs(i)

LifeNext ==
    \/ \E t \in Thread :
          \/ CreateInserts(t) \/ \E op \in Request, i \in Id : Arrive(t, op, i)
          \/ ThreadStep(t) \/ DeleteTimesOut(t) \/ GateBusy(t) \/ MaintainBusy(t)
    \/ Outage \/ Boot \/ BootStep

LifeSpec == LifeInit /\ [][LifeNext]_lifeVars

-----------------------------------------------------------------------------
(* Properties                                                              *)

\* The type invariant.
LifeTypeOK ==
    /\ repo \in [Id -> [state : RowState, branch : BranchName]]
    /\ {place, durable} \subseteq [Id -> Place]
    /\ {whole, closed} \subseteq SUBSET Id
    /\ headRef \in [Id -> BranchName]
    /\ \A t \in Thread :
          /\ thread[t].op \in Request \cup {"none"} /\ thread[t].id \in 0..MaxIds
          /\ thread[t].lock \in {"none", "queued", "shared", "exclusive"}
          /\ {thread[t].gate, thread[t].reg, thread[t].cancelled} \subseteq BOOLEAN
    /\ forge \in {"down"} \cup {Phase[k] : k \in 1..6}

\* A repository that any request can find has its directory, complete, whatever
\* died or failed: a row says "live" only for what a power cut cannot take.
LiveHasDirectory ==
    \A i \in Id : State(i) = "live" => place[i] = "repos" /\ durable[i] = "repos" /\ i \in whole

\* The places where a thread has git look into the directory.
Inside(t) ==
    thread[t].at \in {"use", "head", "run", "clean", "gc", "reconciled", "prune"}

\* No read, write, transport or maintenance pass ever sees the directory of its
\* repository move away under it, and none works on another one's.
NoUseAfterDelete ==
    \A t \in Thread : Inside(t) => place[thread[t].id] = "repos" /\ thread[t].id \in whole

\* Whatever a crash left, reconcile leaves only rows that are live, and neither
\* trash nor a directory without a row.
StartsClean ==
    [][forge # "up" /\ forge' = "up"
          => \A i \in Id : /\ repo'[i].state \in {"none", "live"}
                           /\ place'[i] \in {"repos", "trash"} => place'[i] = "repos" /\ repo'[i].state = "live"]_lifeVars

\* The lock order of gate, repository lock and registration: while requests are
\* served, one of them can go on without any timeout.  No request has a loop, so
\* all of them end.
NoRequestDeadlock ==
    (\E t \in Thread : thread[t] # NoRequest) => ENABLED \E t \in Thread : ThreadStep(t)
=============================================================================
