------------------------------ MODULE RepoLock ------------------------------
(***************************************************************************)
(* The single-writer repository lock, crates/repo/src/lock.rs: an          *)
(* exclusively created file `.sc/lock` that records its holder's PID, a    *)
(* stale-lock probe (`holder_is_dead`) and a removal on Drop.              *)
(*                                                                         *)
(* Every file-system call is one step, because acquire() is a sequence of  *)
(* separate calls (create_new, write, read, kill(pid, 0), remove_file) and *)
(* other processes run between any two of them.  The PID write goes to the *)
(* file that create_new opened, so the model keeps, with the file, the     *)
(* process that created it: writing to a file that has since been removed  *)
(* changes nothing that a later reader can see.                            *)
(***************************************************************************)
EXTENDS Naturals, FiniteSets

CONSTANTS
    Process,     \* PIDs of the `sc` processes; a PID is never reused
    NoPid,       \* the lock file is empty: its creator has not written its PID
    Absent,      \* there is no lock file
    MaxCrashes   \* bound on SIGKILLs

ASSUME ConstantsAssumption ==
    /\ NoPid \notin Process
    /\ MaxCrashes \in Nat

VARIABLES
    file,    \* Absent, or the lock file: who created it, which PID it names
    at,      \* where each process is in acquire / its critical section
    attempt, \* the loop counter of acquire (0 or 1)
    crashes  \* number of processes killed so far

lockVars == <<file, at, attempt, crashes>>

LockFile == [creator : Process, pid : Process \cup {NoPid}]

ASSUME AbsentAssumption == Absent \notin LockFile

PcLabel == {"idle", "create", "writePid", "read", "unlink", "held", "dead"}

LockTypeOK ==
    /\ file \in LockFile \cup {Absent}
    /\ at \in [Process -> PcLabel]
    /\ attempt \in [Process -> 0..1]
    /\ crashes \in 0..MaxCrashes

LockInit ==
    /\ file = Absent
    /\ at = [p \in Process |-> "idle"]
    /\ attempt = [p \in Process |-> 0]
    /\ crashes = 0

LockTo(p, label) == at' = [at EXCEPT ![p] = label]

-----------------------------------------------------------------------------
(* RepoLock::acquire *)

\* A process calls acquire: the loop starts with attempt = 0.
BeginAcquire(p) ==
    /\ at[p] = "idle"
    /\ LockTo(p, "create")
    /\ attempt' = [attempt EXCEPT ![p] = 0]
    /\ UNCHANGED <<file, crashes>>

\* A mutant: the file is opened without create_new.
CreateAnyway(p) ==
    /\ at[p] = "create"
    /\ file' = [creator |-> p, pid |-> NoPid]
    /\ LockTo(p, "writePid")
    /\ UNCHANGED <<attempt, crashes>>

\* A mutant: the holder is probed on every attempt, not only on the first.
ProbeAlways(p) ==
    /\ at[p] = "create"
    /\ \/ /\ file = Absent
          /\ file' = [creator |-> p, pid |-> NoPid]
          /\ LockTo(p, "writePid")
       \/ /\ file # Absent
          /\ LockTo(p, "read")
          /\ UNCHANGED file
    /\ UNCHANGED <<attempt, crashes>>

\* OpenOptions::create_new: succeeds exactly when the file does not exist.
\* AlreadyExists on the second attempt is Error::Locked; on the first it
\* goes on to probe the holder.
CreateNew(p) ==
    /\ at[p] = "create"
    /\ \/ /\ file = Absent
          /\ file' = [creator |-> p, pid |-> NoPid]
          /\ LockTo(p, "writePid")
       \/ /\ file # Absent
          /\ LockTo(p, IF attempt[p] = 0 THEN "read" ELSE "idle")
          /\ UNCHANGED file
    /\ UNCHANGED <<attempt, crashes>>

\* writeln!(f, pid), best effort: on an error the lock is held all the same.
WritePid(p) ==
    /\ at[p] = "writePid"
    /\ \/ file' = IF file # Absent /\ file.creator = p
                    THEN [file EXCEPT !.pid = p] ELSE file
       \/ UNCHANGED file
    /\ LockTo(p, "held")
    /\ UNCHANGED <<attempt, crashes>>

\* A mutant: the probe treats a dead holder like a live one.
NeverStale(f) == FALSE

\* holder_is_dead: only a file that can be read, holds a PID and names a
\* process that is not running is stale.
HolderIsDead(f) ==
    f # Absent /\ f.pid \in Process /\ at[f.pid] = "dead"

\* ProbeHolder: the read and the kill(pid, 0) are one step (a dead process stays
\* dead, so splitting them allows nothing more).
ProbeHolder(p) ==
    /\ at[p] = "read"
    /\ LockTo(p, IF HolderIsDead(file) THEN "unlink" ELSE "idle")
    /\ UNCHANGED <<file, attempt, crashes>>

\* remove_file(&path) by name: it removes whatever file has that name now.
\* NotFound counts as success; both go round the loop once more.
BreakStale(p) ==
    /\ at[p] = "unlink"
    /\ file' = Absent
    /\ attempt' = [attempt EXCEPT ![p] = @ + 1]
    /\ LockTo(p, "create")
    /\ UNCHANGED crashes

-----------------------------------------------------------------------------
\* Drop: remove the lock file by name, ignoring errors.
DropLock(p) ==
    /\ at[p] = "held"
    /\ file' = Absent
    /\ LockTo(p, "idle")
    /\ UNCHANGED <<attempt, crashes>>

\* SIGKILL at any point: the Drop never runs and the file stays.
KillProcess(p) ==
    /\ crashes < MaxCrashes
    /\ at[p] # "dead"
    /\ LockTo(p, "dead")
    /\ crashes' = crashes + 1
    /\ UNCHANGED <<file, attempt>>

LockNext ==
    \E p \in Process :
        \/ BeginAcquire(p) \/ CreateNew(p) \/ WritePid(p) \/ ProbeHolder(p)
        \/ BreakStale(p) \/ DropLock(p) \/ KillProcess(p)

LockSpec == LockInit /\ [][LockNext]_lockVars

\* Users go on running commands: a process that is alive keeps making its next
\* step, and an idle one calls acquire again.
Work(p) ==
    \/ BeginAcquire(p) \/ CreateNew(p) \/ WritePid(p) \/ ProbeHolder(p) \/ BreakStale(p) \/ DropLock(p)

FairLockSpec == LockSpec /\ \A p \in Process : WF_lockVars(Work(p))

-----------------------------------------------------------------------------
(* Properties *)

\* A process inside its critical section: create_new succeeded for it and its
\* Drop has not run.
InCritical(p) == at[p] \in {"writePid", "held"}

\* "Single-writer repo lock" (lock.rs:1): two live processes never hold the
\* lock at once.
MutualExclusion ==
    \A p, q \in Process : InCritical(p) /\ InCritical(q) => p = q

\* The lock excludes until somebody is killed: only the breaking of a stale lock
\* can let two processes in (acquire, Drop).
ExclusiveUntilCrash == crashes = 0 => MutualExclusion

Alive == {p \in Process : at[p] # "dead"}

NamesTheDead == file # Absent /\ file.pid \notin Alive \cup {NoPid}

\* A lock file that names a process that was killed is removed in the end, as
\* long as somebody is left to run a command (holder_is_dead, acquire).
StaleLockIsBroken == (NamesTheDead /\ Alive # {}) ~> ~NamesTheDead
=============================================================================
