----------------------------- MODULE Workspaces -----------------------------
(***************************************************************************)
(* A durable agent session: `sc ws fork / run / refresh / harvest /        *)
(* abandon`.  crates/repo/src/{ws,ws_refresh,workspace}.rs, and the roots  *)
(* gc takes from the session.                                              *)
(*                                                                         *)
(* One sc command at a time holds the repository lock (wsOp); a kill ends  *)
(* it between any two of its durable steps.  A `sc ws run` holds the lock  *)
(* only to plan: the command it spawns edits a checkout while others run,  *)
(* and lives on when its sc is killed.                                     *)
(*                                                                         *)
(* A file's content is who wrote it and when.  A merge is three-way, path  *)
(* by path; sparse views and protected paths are left out.  The landing    *)
(* branch is the one checked out, and its owner only commits on it.        *)
(***************************************************************************)
EXTENDS Integers, Sequences, FiniteSets

CONSTANTS
    Ws,            \* the workspaces a fork makes: numbers, harvested in this order
    Path,          \* the files
    MaxHostEdits,  \* bound: commits of the owner
    MaxEdits,      \* bound: edits of each workspace; no fork after the first, no run after the last
    MaxChanges,    \* bound: the two together
    MaxCommits,    \* bound: snapshots made
    MaxKills       \* bound: kills

ASSUME WorkspaceAssumption ==
    /\ Ws \subseteq Nat \ {0}
    /\ {MaxHostEdits, MaxEdits, MaxChanges, MaxCommits, MaxKills} \subseteq Nat
    /\ MaxCommits > 0

VARIABLES
    commits,    \* the snapshots made: files, and ancestors with itself
    present,    \* the snapshots in the store
    landing,    \* the tip of the landing branch
    spare,      \* the branches <label>-<i>, <label>-<i>-2, ... with their tips
    session,    \* session.toml
    checkout,   \* .sc/ws/<i>
    running,    \* the files running-<i>: the pids they name
    agent,      \* the `sc ws run` of each workspace: sc and its child
    wsOp        \* the sc command that holds the lock, and its locals

\* History, for the properties and the bounds.
VARIABLES
    mine,       \* what the commands last wrote to each file of a workspace
    edits,      \* edits of each workspace so far
    hostEdits,  \* commits of the owner so far
    kills,      \* kills so far
    torn        \* workspaces ever hit by a kill that the code has no answer to, see Kill

wsVars == <<commits, present, landing, spare, session, checkout, running, agent, wsOp, mine,
            edits, hostEdits, kills, torn>>

Host == 0
Gone == [by |-> Host, n |-> -1]
FileContent == [by : Ws \cup {Host}, n : 0..(MaxHostEdits + MaxEdits)] \cup {Gone}
NoDir == [p \in {} |-> Gone]
CommitId == 1..MaxCommits
NoSession == [base |-> 0, target |-> 0, pairs |-> [w \in {} |-> <<0, 0>>], live |-> {}]
NoOp == [kind |-> "none", at |-> "idle", todo |-> {}, id |-> 0, to |-> 0,
         pairs |-> NoSession.pairs, left |-> {}, resumed |-> FALSE, done |-> FALSE]
ChangesLeft == hostEdits + Cardinality({we \in Ws \X (1..MaxEdits) : we[2] <= edits[we[1]]}) < MaxChanges
NoAgent == [sc |-> FALSE, child |-> FALSE]

SessionOpen == session # NoSession
Unfinished == session.target # 0
FilesOf(c) == commits[c].files
Anc(c) == commits[c].anc

WsInit ==
    /\ commits = <<[files |-> [p \in Path |-> [by |-> Host, n |-> 0]], anc |-> {1}]>>
    /\ present = {1} /\ landing = 1 /\ spare = {}
    /\ session = NoSession
    /\ checkout = [w \in Ws |-> NoDir]
    /\ running = [w \in Ws |-> {}]
    /\ agent = [w \in Ws |-> NoAgent]
    /\ wsOp = NoOp
    /\ mine = [w \in Ws |-> NoDir]
    /\ edits = [w \in Ws |-> 0] /\ hostEdits = 0 /\ kills = 0 /\ torn = {}

-----------------------------------------------------------------------------
(* Snapshots, and the three-way merge of their files                       *)

Snap(files, anc) == [files |-> files, anc |-> anc \cup {Len(commits) + 1}]
NewId == Len(commits) + 1

MakeSnap(files, anc) ==
    /\ Len(commits) < MaxCommits
    /\ commits' = Append(commits, Snap(files, anc))
    /\ present' = present \cup {NewId}

Conflicts(base, ours, theirs) ==
    {p \in Path : theirs[p] # base[p] /\ ours[p] # base[p] /\ ours[p] # theirs[p]}

\* A mutant: the sides are swapped.
MergedSwapped(base, ours, theirs) ==
    [p \in Path |-> IF theirs[p] = base[p] THEN theirs[p] ELSE ours[p]]

Merged(base, ours, theirs) ==
    [p \in Path |-> IF theirs[p] = base[p] THEN ours[p] ELSE theirs[p]]

Lowest(S) == CHOOSE w \in S : \A v \in S : w <= v

\* Start on a command, go on to its next step, end it.
WsBegin(kind, at, todo) ==
    /\ wsOp = NoOp
    /\ wsOp' = [NoOp EXCEPT !.kind = kind, !.at = at, !.todo = todo]
WsGoto(at) == wsOp' = [wsOp EXCEPT !.at = at]
WsAt(kind, at) == wsOp.kind = kind /\ wsOp.at = at

\* ensure_idle: a marker counts until every pid in it is dead; then it goes.
PidDead(w, pid) == IF pid = "sc" THEN ~agent[w].sc ELSE ~agent[w].child
\* A mutant: ensure_idle is forgotten.
NeverBusy(w) == TRUE

WsIdle(w) == \A pid \in running[w] : PidDead(w, pid)
Unmarked(S) == running' = [w \in Ws |-> IF w \in S THEN {} ELSE running[w]]

\* The session's directory goes, manifest, checkouts and markers.
RemoveSession == session' = NoSession /\ checkout' = [w \in Ws |-> NoDir] /\ Unmarked(Ws)

runFrame == <<running, agent>>
storeFrame == <<commits, present, landing, spare>>
wsHist == <<mine, edits, hostEdits, kills, torn>>

-----------------------------------------------------------------------------
(* The owner, and gc                                                       *)

HostCommits(p) ==
    /\ wsOp = NoOp /\ hostEdits < MaxHostEdits /\ ChangesLeft
    /\ hostEdits' = hostEdits + 1
    /\ MakeSnap([FilesOf(landing) EXCEPT ![p] = [by |-> Host, n |-> hostEdits + 1]], Anc(landing))
    /\ landing' = NewId
    /\ UNCHANGED <<spare, session, checkout, running, agent, wsOp, mine, edits, kills, torn>>

\* A mutant: the roots of an unfinished refresh are forgotten.
BaseIsEnough == IF SessionOpen THEN {session.base} ELSE {}

\* gc::roots, as far as sessions go: an open one keeps its base, and an
\* unfinished refresh its target and the pairs it recorded.
SessionRoots ==
    IF ~SessionOpen THEN {}
    ELSE {session.base, session.target} \cup UNION {{session.pairs[w][1], session.pairs[w][2]} : w \in DOMAIN session.pairs}

GcKeeps == {landing} \cup {s.id : s \in spare} \cup SessionRoots

\* The grace window has passed for every snapshot, and the log has been trimmed.
WsGc ==
    /\ wsOp = NoOp
    /\ present' = present \cap UNION {Anc(c) : c \in GcKeeps \ {0}}
    /\ UNCHANGED <<commits, landing, spare, session, checkout, runFrame, wsOp, wsHist>>

-----------------------------------------------------------------------------
(* ws_fork                                                                 *)

\* Residue without a manifest is cleared, then each checkout is laid out, and
\* the manifest is written last: until then nobody looks at them.
Laid(S) == [w \in Ws |-> IF w \in S THEN FilesOf(landing) ELSE NoDir]

Fork ==
    /\ wsOp = NoOp /\ ~SessionOpen /\ (\A w \in Ws : edits[w] = 0)
    /\ checkout' = Laid(Ws) /\ Unmarked(Ws)
    /\ session' = [NoSession EXCEPT !.base = landing, !.live = Ws]
    /\ mine' = [w \in Ws |-> NoDir]
    /\ UNCHANGED <<storeFrame, agent, wsOp, edits, hostEdits, kills, torn>>

ForkKilled ==
    /\ wsOp = NoOp /\ ~SessionOpen /\ (\A w \in Ws : edits[w] = 0)
    /\ \E S \in SUBSET Ws : checkout' = Laid(S)
    /\ Unmarked(Ws)
    /\ UNCHANGED <<session, agent, wsOp, torn>>

-----------------------------------------------------------------------------
(* ws_run_plan and WsRunPlan::run                                          *)

\* A mutant: a run is planned although a refresh is unfinished.
RunPlanAnyway(w) ==
    /\ wsOp = NoOp /\ SessionOpen /\ w \in session.live /\ WsIdle(w)
    /\ agent[w] = NoAgent /\ edits[w] < MaxEdits /\ ChangesLeft
    /\ running' = [running EXCEPT ![w] = {"sc"}]
    /\ agent' = [agent EXCEPT ![w].sc = TRUE]
    /\ UNCHANGED <<storeFrame, session, checkout, wsOp, wsHist>>

RunPlan(w) ==
    /\ wsOp = NoOp /\ SessionOpen /\ ~Unfinished /\ w \in session.live /\ WsIdle(w)
    /\ agent[w] = NoAgent /\ edits[w] < MaxEdits /\ ChangesLeft
    /\ running' = [running EXCEPT ![w] = {"sc"}]
    /\ agent' = [agent EXCEPT ![w].sc = TRUE]
    /\ UNCHANGED <<storeFrame, session, checkout, wsOp, wsHist>>

RunSpawns(w) ==
    /\ agent[w].sc /\ ~agent[w].child /\ running[w] = {"sc"}
    /\ agent' = [agent EXCEPT ![w].child = TRUE]
    /\ UNCHANGED <<storeFrame, session, checkout, running, wsOp, wsHist>>

RunRecords(w) ==
    /\ agent[w].sc /\ agent[w].child
    /\ running' = [running EXCEPT ![w] = {"sc", "child"}]
    /\ UNCHANGED <<storeFrame, session, checkout, agent, wsOp, wsHist>>

\* The command writes a file of its workspace, or ends.
AgentEdits(w, p) ==
    LET c == [by |-> w, n |-> edits[w] + 1] IN
    /\ agent[w].child /\ checkout[w] # NoDir /\ edits[w] < MaxEdits /\ ChangesLeft
    /\ edits' = [edits EXCEPT ![w] = @ + 1]
    /\ checkout' = [checkout EXCEPT ![w][p] = c]
    /\ mine' = [mine EXCEPT ![w] = [q \in DOMAIN @ \cup {p} |-> IF q = p THEN c ELSE @[q]]]
    /\ UNCHANGED <<storeFrame, session, runFrame, wsOp, hostEdits, kills, torn>>

ChildExits(w) ==
    /\ agent[w].child
    /\ agent' = [agent EXCEPT ![w].child = FALSE]
    /\ UNCHANGED <<storeFrame, session, checkout, running, wsOp, wsHist>>

\* The plan is dropped: when the child has ended, or without one.
RunDrops(w) ==
    /\ agent[w].sc /\ ~agent[w].child
    /\ agent' = [agent EXCEPT ![w].sc = FALSE]
    /\ running' = [running EXCEPT ![w] = {}]
    /\ UNCHANGED <<storeFrame, session, checkout, wsOp, wsHist>>

-----------------------------------------------------------------------------
(* ws_harvest                                                              *)

\* A mutant: a harvest begins although a refresh is unfinished.
HarvestAnyway ==
    /\ SessionOpen
    /\ \A w \in session.live : WsIdle(w) /\ checkout[w] # NoDir
    /\ WsBegin("harvest", "read", session.live) /\ Unmarked(session.live)
    /\ UNCHANGED <<storeFrame, session, checkout, agent, wsHist>>

HarvestBegins ==
    /\ SessionOpen /\ ~Unfinished
    /\ \A w \in session.live : WsIdle(w) /\ checkout[w] # NoDir
    /\ WsBegin("harvest", "read", session.live) /\ Unmarked(session.live)
    /\ UNCHANGED <<storeFrame, session, checkout, agent, wsHist>>

Changed(w) == checkout[w] # FilesOf(session.base)

\* A changed checkout is committed on the base, and a branch put on it.  A commit
\* made again within the second is the same commit.
HarvestCommits ==
    LET w == Lowest(wsOp.todo)
        anc == Anc(session.base)
    IN
    /\ WsAt("harvest", "read") /\ wsOp.todo # {} /\ Changed(w)
    /\ \E id \in {NewId} \cup {c \in present : FilesOf(c) = checkout[w] /\ Anc(c) = anc \cup {c}} :
          /\ IF id = NewId THEN MakeSnap(checkout[w], anc) ELSE UNCHANGED <<commits, present>>
          /\ spare' = spare \cup {[ws |-> w, id |-> id]}
          /\ wsOp' = [wsOp EXCEPT !.at = "merge", !.id = id]
    /\ UNCHANGED <<landing, session, checkout, runFrame, wsHist>>

\* The scanner rejects it: the workspace stays live.
HarvestRejects ==
    /\ WsAt("harvest", "read") /\ wsOp.todo # {} /\ Changed(Lowest(wsOp.todo))
    /\ wsOp' = [wsOp EXCEPT !.todo = @ \ {Lowest(@)}]
    /\ UNCHANGED <<storeFrame, session, checkout, runFrame, wsHist>>

\* Nothing changed: nothing to land.
HarvestSkips ==
    /\ WsAt("harvest", "read") /\ wsOp.todo # {} /\ ~Changed(Lowest(wsOp.todo))
    /\ WsGoto("resolve")
    /\ UNCHANGED <<storeFrame, session, checkout, runFrame, wsHist>>

\* The probe, then the merge: nothing to do, a fast-forward, a merge commit; or
\* a conflict, which keeps the branch.
HarvestMerges ==
    LET c == wsOp.id
        base == FilesOf(session.base)
        ours == FilesOf(landing)
    IN
    /\ WsAt("harvest", "merge")
    /\ \/ /\ c \in Anc(landing)
          /\ WsGoto("unbranch") /\ UNCHANGED <<commits, present, landing>>
       \/ /\ c \notin Anc(landing) /\ landing \in Anc(c)
          /\ landing' = c
          /\ WsGoto("unbranch") /\ UNCHANGED <<commits, present>>
       \/ /\ c \notin Anc(landing) /\ landing \notin Anc(c)
          /\ Conflicts(base, ours, FilesOf(c)) = {}
          /\ MakeSnap(Merged(base, ours, FilesOf(c)), Anc(landing) \cup Anc(c))
          /\ landing' = NewId
          /\ WsGoto("unbranch")
       \/ /\ c \notin Anc(landing) /\ landing \notin Anc(c)
          /\ Conflicts(base, ours, FilesOf(c)) # {}
          /\ WsGoto("resolve") /\ UNCHANGED <<commits, present, landing>>
    /\ UNCHANGED <<spare, session, checkout, runFrame, wsHist>>

\* The merge, or the probe, is refused: the branch goes, the workspace stays live.
HarvestFails ==
    /\ WsAt("harvest", "merge")
    /\ spare' = spare \ {[ws |-> Lowest(wsOp.todo), id |-> wsOp.id]}
    /\ wsOp' = NoOp
    /\ UNCHANGED <<commits, present, landing, session, checkout, runFrame, wsHist>>

HarvestUnbranches ==
    /\ WsAt("harvest", "unbranch")
    /\ spare' = spare \ {[ws |-> Lowest(wsOp.todo), id |-> wsOp.id]}
    /\ WsGoto("resolve")
    /\ UNCHANGED <<commits, present, landing, session, checkout, runFrame, wsHist>>

\* resolve_and_teardown: the manifest first, then the directory.
HarvestResolves ==
    LET w == Lowest(wsOp.todo) IN
    /\ WsAt("harvest", "resolve")
    /\ session' = [session EXCEPT !.live = @ \ {w}]
    /\ WsGoto("teardown")
    /\ UNCHANGED <<storeFrame, checkout, runFrame, wsHist>>

HarvestTearsDown ==
    LET w == Lowest(wsOp.todo) IN
    /\ WsAt("harvest", "teardown")
    /\ checkout' = [checkout EXCEPT ![w] = NoDir]
    /\ wsOp' = [wsOp EXCEPT !.at = "read", !.todo = @ \ {w}]
    /\ UNCHANGED <<storeFrame, session, runFrame, wsHist>>

HarvestEnds ==
    /\ WsAt("harvest", "read") /\ wsOp.todo = {}
    /\ IF session.live = {} THEN RemoveSession ELSE UNCHANGED <<session, checkout, running>>
    /\ wsOp' = NoOp
    /\ UNCHANGED <<storeFrame, agent, wsHist>>

-----------------------------------------------------------------------------
(* ws_abandon: one workspace or all                                        *)

CanAbandon(S) ==
    /\ wsOp = NoOp /\ SessionOpen
    /\ S # {} /\ S \subseteq session.live /\ \A w \in S : WsIdle(w)
    /\ S = session.live \/ Cardinality(S) = 1

\* What a removal has come to when it is cut short: one directory after another,
\* file by file.
HalfRemoved(S) ==
    {[w \in Ws |-> IF w \in D \/ (v = w /\ P = Path) THEN NoDir
                  ELSE IF v = w THEN [p \in DOMAIN checkout[w] |-> IF p \in P THEN Gone ELSE checkout[w][p]]
                  ELSE checkout[w]] :
        D \in SUBSET S, v \in S, P \in SUBSET Path}

\* One workspace: its directory and then the manifest.  With nothing live left, or
\* all of them: the directory of the session, the manifest somewhere in between.
Abandon(S) ==
    /\ CanAbandon(S)
    /\ IF S = session.live THEN RemoveSession
       ELSE /\ checkout' = [w \in Ws |-> IF w \in S THEN NoDir ELSE checkout[w]]
            /\ session' = [session EXCEPT !.live = @ \ S]
            /\ Unmarked(S)
    /\ UNCHANGED <<storeFrame, agent, wsOp, wsHist>>

AbandonKilled(S) ==
    /\ CanAbandon(S)
    /\ checkout' \in HalfRemoved(S)
    /\ session' \in {session} \cup IF S = session.live THEN {NoSession} ELSE {}
    /\ torn' = torn \cup S
    /\ Unmarked(S)
    /\ UNCHANGED <<agent, wsOp>>

-----------------------------------------------------------------------------
(* ws_refresh                                                              *)

\* refresh_onto the landing branch: each checkout is committed on the old base
\* and that commit replayed onto the new one.
RefreshOnto == [NoOp EXCEPT !.kind = "refresh", !.at = "commit", !.todo = session.live, !.to = landing]

RefreshBegins ==
    /\ SessionOpen /\ ~Unfinished /\ session.base # landing
    /\ \A w \in session.live : WsIdle(w) /\ checkout[w] # NoDir
    /\ wsOp = NoOp
    /\ wsOp' = RefreshOnto
    /\ Unmarked(session.live)
    /\ UNCHANGED <<storeFrame, session, checkout, agent, wsHist>>

Paired(w, cand, result) ==
    wsOp' = [wsOp EXCEPT !.at = "commit", !.todo = @ \ {w},
                         !.pairs = [v \in DOMAIN @ \cup {w} |-> IF v = w THEN <<cand, result>> ELSE @[v]]]

RefreshCommits ==
    LET w == Lowest(wsOp.todo) IN
    /\ WsAt("refresh", "commit") /\ wsOp.todo # {}
    /\ IF Changed(w)
       THEN /\ MakeSnap(checkout[w], Anc(session.base))
            /\ wsOp' = [wsOp EXCEPT !.at = "replay", !.id = NewId]
       ELSE Paired(w, session.base, wsOp.to) /\ UNCHANGED <<commits, present>>
    /\ UNCHANGED <<landing, spare, session, checkout, runFrame, wsHist>>

RefreshReplays ==
    LET w == Lowest(wsOp.todo)
        base == FilesOf(session.base)
        result == Merged(base, FilesOf(wsOp.to), FilesOf(wsOp.id))
    IN
    /\ WsAt("refresh", "replay")
    /\ Conflicts(base, FilesOf(wsOp.to), FilesOf(wsOp.id)) = {}
    /\ IF result = FilesOf(wsOp.to)
       THEN Paired(w, wsOp.id, wsOp.to) /\ UNCHANGED <<commits, present>>
       ELSE Paired(w, wsOp.id, NewId) /\ MakeSnap(result, Anc(wsOp.to))
    /\ UNCHANGED <<landing, spare, session, checkout, runFrame, wsHist>>

\* A conflict, the scanner, a file in the way: refused before anything is written.
RefreshRefuses ==
    /\ wsOp.kind = "refresh" /\ wsOp.at \in {"commit", "replay"}
    /\ wsOp' = NoOp
    /\ UNCHANGED <<storeFrame, session, checkout, runFrame, wsHist>>

\* resume_refresh takes the pairs the unfinished refresh recorded.
ResumeBegins ==
    /\ SessionOpen /\ Unfinished
    /\ \A w \in session.live : WsIdle(w) /\ checkout[w] # NoDir
    /\ wsOp = NoOp
    /\ wsOp' = [NoOp EXCEPT !.kind = "refresh", !.at = "commit", !.to = session.target, !.resumed = TRUE,
                            !.pairs = [w \in session.live |-> session.pairs[w]]]
    /\ Unmarked(session.live)
    /\ UNCHANGED <<storeFrame, session, checkout, agent, wsHist>>

Cand(w) == FilesOf(wsOp.pairs[w][1])
Result(w) == FilesOf(wsOp.pairs[w][2])

\* check_prior: the file is still what the refresh read, or already what it writes.
Unedited(w, p) == checkout[w][p] \in {Cand(w)[p], Result(w)[p]}

\* Every workspace is planned; then the marker is written, durably.
RefreshMarks ==
    LET planned == {wp \in (DOMAIN wsOp.pairs) \X Path :
                        /\ Cand(wp[1])[wp[2]] # Result(wp[1])[wp[2]]
                        /\ checkout[wp[1]][wp[2]] # Result(wp[1])[wp[2]]}
    IN
    /\ WsAt("refresh", "commit") /\ wsOp.todo = {}
    /\ \A wp \in planned : Unedited(wp[1], wp[2])
    /\ session' = IF wsOp.resumed THEN session
                  ELSE [session EXCEPT !.target = wsOp.to, !.pairs = wsOp.pairs]
    /\ wsOp' = [wsOp EXCEPT !.at = "apply", !.left = planned]
    /\ UNCHANGED <<storeFrame, checkout, runFrame, wsHist>>

\* apply_plan: each file is checked once more and replaced; an edited one stops
\* the refresh, and takes a fresh marker back if nothing was written.
RefreshWrites ==
    /\ WsAt("refresh", "apply")
    /\ \E wp \in wsOp.left :
          /\ wp[1] = Lowest({v[1] : v \in wsOp.left})
          /\ \/ /\ Unedited(wp[1], wp[2])
                /\ checkout' = [checkout EXCEPT ![wp[1]][wp[2]] = Result(wp[1])[wp[2]]]
                /\ wsOp' = [wsOp EXCEPT !.left = @ \ {wp}, !.done = TRUE]
                /\ UNCHANGED session
             \/ /\ ~Unedited(wp[1], wp[2])
                /\ session' = IF wsOp.done \/ wsOp.resumed THEN session
                              ELSE [session EXCEPT !.target = 0, !.pairs = NoSession.pairs]
                /\ wsOp' = NoOp
                /\ UNCHANGED checkout
    /\ UNCHANGED <<storeFrame, runFrame, wsHist>>

\* The new base last.  A resumed refresh goes on with one onto the landing branch.
RefreshEnds ==
    /\ WsAt("refresh", "apply") /\ wsOp.left = {}
    /\ session' = [session EXCEPT !.base = wsOp.to, !.target = 0, !.pairs = NoSession.pairs]
    /\ wsOp' = IF wsOp.resumed /\ wsOp.to # landing THEN RefreshOnto ELSE NoOp
    /\ UNCHANGED <<storeFrame, checkout, runFrame, wsHist>>

-----------------------------------------------------------------------------
(* Kills: of the command that holds the lock, or of the sc of a run.  Two  *)
(* leave what nothing later can tell from a user's work (torn): a checkout *)
(* half removed under a manifest that still calls it live, and a command   *)
(* that runs on with its pid not yet recorded.                             *)

Kill ==
    /\ kills < MaxKills
    /\ kills' = kills + 1
    /\ \/ ForkKilled
       \/ \E S \in SUBSET Ws : AbandonKilled(S)
       \/ wsOp # NoOp /\ wsOp' = NoOp /\ UNCHANGED <<session, checkout, running, agent, torn>>
       \/ \E w \in Ws :
             /\ agent[w].sc
             /\ agent' = [agent EXCEPT ![w].sc = FALSE]
             /\ torn' = IF agent[w].child /\ "child" \notin running[w] THEN torn \cup {w} ELSE torn
             /\ UNCHANGED <<session, checkout, running, wsOp>>
    /\ UNCHANGED <<storeFrame, mine, edits, hostEdits>>

-----------------------------------------------------------------------------
Run(w) == RunPlan(w) \/ RunSpawns(w) \/ RunRecords(w) \/ ChildExits(w) \/ RunDrops(w) \/ \E p \in Path : AgentEdits(w, p)
Harvest ==
    \/ HarvestBegins \/ HarvestCommits \/ HarvestRejects \/ HarvestSkips \/ HarvestMerges \/ HarvestFails
    \/ HarvestUnbranches \/ HarvestResolves \/ HarvestTearsDown \/ HarvestEnds
Refresh ==
    \/ RefreshBegins \/ RefreshCommits \/ RefreshReplays \/ RefreshRefuses \/ ResumeBegins
    \/ RefreshMarks \/ RefreshWrites \/ RefreshEnds

WsNext ==
    \/ Fork \/ Harvest \/ Refresh \/ WsGc \/ Kill
    \/ \E p \in Path : HostCommits(p)
    \/ \E S \in SUBSET Ws : Abandon(S)
    \/ \E w \in Ws : Run(w)

WsSpec == WsInit /\ [][WsNext]_wsVars

-----------------------------------------------------------------------------
(* Properties                                                              *)

\* The type invariant.
WsTypeOK ==
    /\ Len(commits) <= MaxCommits
    /\ \A c \in DOMAIN commits : FilesOf(c) \in [Path -> FileContent] /\ Anc(c) \subseteq DOMAIN commits
    /\ present \subseteq DOMAIN commits /\ landing \in DOMAIN commits
    /\ \A s \in spare : s.ws \in Ws /\ s.id \in DOMAIN commits
    /\ session.live \subseteq Ws /\ {session.base, session.target} \subseteq 0..Len(commits)
    /\ DOMAIN session.pairs \subseteq Ws
    /\ \A w \in Ws :
          /\ checkout[w] \in [Path -> FileContent] \cup {NoDir}
          /\ running[w] \subseteq {"sc", "child"}
    /\ torn \subseteq Ws

\* What the commands to come will read: the branches, and for the harvest and the
\* resume of each live workspace its base and the two ends of its replay.
WillRead ==
    {landing} \cup {s.id : s \in spare}
    \cup (IF session.live = {} THEN {} ELSE {session.base})
    \cup (IF Unfinished THEN {session.pairs[w][k] : w \in session.live, k \in {1, 2}} ELSE {})

\* gc never takes a snapshot that a branch, the session or an unfinished refresh needs.
SessionReadable == WillRead \subseteq present

\* A commit of a workspace differs from the base it was made on only in what that
\* workspace's commands wrote: neither the files of a refresh that was cut short nor
\* the holes of a removal are taken for edits.
HarvestOnlyEdits ==
    \A s \in {b \in spare : b.ws \notin torn} :
        LET c == commits[s.id]
            base == FilesOf(CHOOSE b \in c.anc \ {s.id} : \A a \in c.anc \ {s.id} : a \in Anc(b))
        IN  \A p \in Path : c.files[p] # base[p] => c.files[p].by = s.ws

\* What the commands of a live workspace wrote is in its checkout or in the landing
\* branch's history, whatever is refreshed, refused, harvested or killed.
EditsStay ==
    SessionOpen => \A w \in session.live \ torn : \A p \in DOMAIN mine[w] :
        \/ checkout[w] # NoDir /\ checkout[w][p] = mine[w][p]
        \/ \E c \in Anc(landing) : FilesOf(c)[p] = mine[w][p]

\* A workspace a harvest is done with has each of its edits on a branch: the landing
\* branch, or the one a conflict leaves behind.
HarvestKeepsEdits ==
    [][\A w \in session.live \ (session'.live \cup torn) :
          wsOp.kind = "harvest" =>
             \A p \in DOMAIN mine[w] :
                \E t \in {landing} \cup {s.id : s \in spare} :
                   \E c \in Anc(t) : FilesOf(c)[p] = mine[w][p]]_wsVars

\* A refresh that was cut short can be finished: no file is anything but what the
\* refresh read or what it writes.
ResumeNeverStuck ==
    SessionOpen /\ Unfinished => \A w \in session.live \ torn, p \in Path :
        checkout[w] # NoDir /\ checkout[w][p] \in {FilesOf(session.pairs[w][k])[p] : k \in {1, 2}}
=============================================================================
