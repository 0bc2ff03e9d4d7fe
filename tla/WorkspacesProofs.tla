-------------------------- MODULE WorkspacesProofs --------------------------
(***************************************************************************)
(* Proofs about Workspaces, for any number of workspaces, files, edits,    *)
(* commits and kills: gc leaves what a session will read, a refresh that   *)
(* was cut short can be finished, a harvest takes nothing but a            *)
(* workspace's own edits, and none of those is lost.                       *)
(***************************************************************************)
EXTENDS Workspaces, SequenceTheorems, NaturalsInduction, WellFoundedInduction, TLAPS

Files == [Path -> FileContent]
Pairs == UNION {[S -> Nat \X Nat] : S \in SUBSET Ws}
Ids == DOMAIN commits

SessionType == [base : Nat, target : Nat, pairs : Pairs, live : SUBSET Ws]

OpType ==
    [kind : {"none", "harvest", "refresh"},
     at : {"idle", "read", "merge", "unbranch", "resolve", "teardown", "commit", "replay", "apply"},
     todo : SUBSET Ws, id : Nat, to : Nat, pairs : Pairs, left : SUBSET (Ws \X Path),
     resumed : BOOLEAN, done : BOOLEAN]

Typed ==
    /\ commits \in Seq([files : Files, anc : SUBSET Nat]) /\ Len(commits) \in 1..MaxCommits
    /\ present \in SUBSET Ids /\ landing \in Nat
    /\ spare \in SUBSET [ws : Ws, id : Nat]
    /\ session \in SessionType
    /\ checkout \in [Ws -> Files \cup {NoDir}]
    /\ running \in [Ws -> SUBSET {"sc", "child"}]
    /\ agent \in [Ws -> [sc : BOOLEAN, child : BOOLEAN]]
    /\ wsOp \in OpType
    /\ mine \in [Ws -> UNION {[P -> FileContent] : P \in SUBSET Path}]
    /\ edits \in [Ws -> 0..MaxEdits] /\ hostEdits \in 0..MaxHostEdits
    /\ torn \in SUBSET Ws

\* An id is above its ancestors' ids, and ancestors' ancestors are ancestors.
HistoryInv ==
    \A c \in Ids : c \in Anc(c) /\ Anc(c) \subseteq 1..c /\ \A a \in Anc(c) : Anc(a) \subseteq Anc(c)

StoreInv ==
    /\ HistoryInv
    /\ landing \in present
    /\ \A s \in spare : s.id \in present

\* What a refresh recorded: a commit, and what replaying it onto the target gives.
PairOK(pair, to) ==
    /\ pair[1] \in present /\ pair[2] \in present
    /\ FilesOf(pair[2]) = Merged(FilesOf(session.base), FilesOf(to), FilesOf(pair[1]))

SessionInv ==
    /\ SessionOpen => session.base \in present /\ session.base \in Anc(landing)
    /\ Unfinished =>
          /\ session.target \in present /\ session.target \in Anc(landing)
          /\ session.live \subseteq DOMAIN session.pairs
          /\ \A w \in DOMAIN session.pairs : PairOK(session.pairs[w], session.target)

\* The files differ from the session's base in the workspace's own edits only.
Own(w, files) == \A p \in Path : files[p] # FilesOf(session.base)[p] => files[p].by = w

InHistory(p, content, tip) == \E c \in Anc(tip) : FilesOf(c)[p] = content

\* A live workspace: its checkout is laid out; it holds the base and its own edits,
\* or, while a refresh is unfinished, what that read and what it writes.
LiveInv ==
    \A w \in session.live \ torn :
        /\ checkout[w] \in Files
        /\ ~Unfinished => Own(w, checkout[w])
        /\ Unfinished =>
              LET cand == FilesOf(session.pairs[w][1])
                  result == FilesOf(session.pairs[w][2])
              IN  Own(w, cand) /\ \A p \in Path : checkout[w][p] \in {cand[p], result[p]}
        /\ \A p \in DOMAIN mine[w] :
              checkout[w][p] = mine[w][p] \/ InHistory(p, mine[w][p], landing)

\* The pids of what runs are in the marker; only live workspaces have a run, and
\* none while a command holds the lock or a refresh is unfinished.
AgentInv ==
    \A w \in Ws :
        /\ agent[w].sc => "sc" \in running[w] /\ w \in session.live
        /\ agent[w].child /\ w \notin torn =>
              w \in session.live /\ (agent[w].sc \/ "child" \in running[w])
        /\ w \in session.live /\ (wsOp # NoOp \/ Unfinished) =>
              ~agent[w].sc /\ (w \notin torn => ~agent[w].child)

\* A branch of a harvest: a commit on a base, with the workspace's edits.
OwnCommit(s) ==
    \E b \in Ids :
        /\ s.id \notin Anc(b) /\ Anc(s.id) = Anc(b) \cup {s.id}
        /\ \A p \in Path : FilesOf(s.id)[p] # FilesOf(b)[p] => FilesOf(s.id)[p].by = s.ws

SpareInv == \A s \in spare : s.ws \notin torn => OwnCommit(s)

\* Each edit of the workspace is on a branch.
Saved(w) ==
    \A p \in DOMAIN mine[w] : \E t \in {landing} \cup {s.id : s \in spare} : InHistory(p, mine[w][p], t)

\* The workspace a harvest is at, and how far it is with it.
HarvestInv ==
    LET w == Lowest(wsOp.todo) IN
    wsOp.kind = "harvest" =>
        /\ SessionOpen /\ ~Unfinished
        /\ wsOp.at \in {"read", "merge", "unbranch", "resolve", "teardown"}
        /\ wsOp.at # "read" => wsOp.todo # {}
        /\ wsOp.todo \subseteq session.live \cup IF wsOp.at = "teardown" THEN {w} ELSE {}
        /\ wsOp.at = "teardown" => w \notin session.live
        /\ wsOp.at \in {"merge", "unbranch"} =>
              /\ wsOp.id \in present
              /\ w \notin torn => checkout[w] = FilesOf(wsOp.id)
        /\ wsOp.at = "merge" => [ws |-> w, id |-> wsOp.id] \in spare
        /\ wsOp.at = "unbranch" => wsOp.id \in Anc(landing)
        /\ wsOp.at = "resolve" /\ w \notin torn => Saved(w)

\* The workspaces a refresh has been through, and what it is to write to them.
RefreshInv ==
    wsOp.kind = "refresh" =>
        /\ SessionOpen
        /\ wsOp.at \in {"commit", "replay", "apply"}
        /\ wsOp.to \in present /\ wsOp.to \in Anc(landing)
        /\ wsOp.todo \subseteq session.live /\ DOMAIN wsOp.pairs = session.live \ wsOp.todo
        /\ \A w \in DOMAIN wsOp.pairs :
              /\ PairOK(wsOp.pairs[w], wsOp.to)
              /\ w \notin torn => Own(w, FilesOf(wsOp.pairs[w][1]))
        /\ wsOp.at = "replay" =>
              /\ wsOp.todo # {} /\ wsOp.id \in present /\ ~wsOp.resumed
              /\ Lowest(wsOp.todo) \notin torn => checkout[Lowest(wsOp.todo)] = FilesOf(wsOp.id)
        /\ Unfinished <=> wsOp.at = "apply" \/ wsOp.resumed
        /\ Unfinished =>
              /\ session.target = wsOp.to /\ wsOp.todo = {}
              /\ \A w \in session.live : session.pairs[w] = wsOp.pairs[w]
        /\ wsOp.at # "apply" => ~wsOp.done
        /\ ~wsOp.resumed /\ ~wsOp.done =>
              \A w \in DOMAIN wsOp.pairs \ torn : checkout[w] = FilesOf(wsOp.pairs[w][1])
        /\ wsOp.at = "apply" =>
              \A w \in DOMAIN wsOp.pairs \ torn, p \in Path :
                  <<w, p>> \notin wsOp.left => checkout[w][p] = Result(w)[p]

\* Nobody removes a checkout while a command holds the lock.
OpInv ==
    /\ wsOp.kind = "none" <=> wsOp = NoOp
    /\ wsOp # NoOp => \A w \in session.live : checkout[w] \in Files
    /\ wsOp.left \subseteq (DOMAIN wsOp.pairs) \X Path

WsInv ==
    /\ Typed /\ StoreInv /\ SessionInv /\ LiveInv /\ AgentInv /\ SpareInv
    /\ HarvestInv /\ RefreshInv /\ OpInv

-----------------------------------------------------------------------------
(* The least workspace, and the store                                      *)

\* A harvest and a refresh take the least workspace that is left: there is one.
LEMMA LowestIn ==
    ASSUME NEW S \in SUBSET Nat, S # {}
    PROVE  Lowest(S) \in S
<1> DEFINE R == {ss \in Nat \X Nat : ss[1] < ss[2]}
<1>1. IsWellFoundedOn(R, Nat)
  BY NatLessThanWellFounded DEF OpToRel
<1>2. \E x \in S : \A y \in S : <<y, x>> \notin R
  <2> HIDE DEF R
  <2> QED BY <1>1, WFMin
<1>3. PICK x \in S : \A y \in S : <<y, x>> \notin R
  BY <1>2
<1>4. ASSUME NEW y \in S PROVE x <= y
  <2>1. y \in Nat /\ x \in Nat /\ <<y, x>> \notin R
    BY <1>3
  <2>2. ~ (y < x)
    BY <2>1
  <2> QED BY <2>1, <2>2
<1> QED BY <1>4 DEF Lowest

\* The snapshots made so far stay as they are.
Grows == \A c \in Ids : c \in DOMAIN commits' /\ commits'[c] = commits[c]

\* Whatever was an ancestor of the landing branch still is.
HistoryStays == Anc(landing) \subseteq commits'[landing'].anc

CommitType == [files : Files, anc : SUBSET Nat]

\* The ids of the snapshots are those up to the last one.
LEMMA IdsAre ==
    ASSUME Typed
    PROVE  /\ Ids = 1..Len(commits) /\ Len(commits) \in Nat /\ NewId \in Nat /\ NewId \notin Ids
           /\ \A c \in Ids : FilesOf(c) \in Files /\ Anc(c) \in SUBSET Nat
<1>1. commits \in Seq(CommitType)
  BY DEF Typed, CommitType
<1>2. Len(commits) \in Nat /\ commits \in [1..Len(commits) -> CommitType]
  <2> HIDE DEF CommitType
  <2> QED BY <1>1, LenProperties
<1> QED BY <1>2 DEF Ids, NewId, FilesOf, Anc, CommitType

\* A new snapshot: the store grows by it, and the history stays a history.
LEMMA MadeSnap ==
    ASSUME Typed, HistoryInv, NEW files \in Files, NEW anc \in SUBSET Ids,
           \A a \in anc : Anc(a) \subseteq anc, MakeSnap(files, anc)
    PROVE  /\ commits' \in Seq([files : Files, anc : SUBSET Nat])
           /\ Len(commits)' \in 1..MaxCommits
           /\ Grows /\ NewId \in DOMAIN commits'
           /\ commits'[NewId] = [files |-> files, anc |-> anc \cup {NewId}]
           /\ HistoryInv' /\ present' \in SUBSET Ids'
           /\ present \subseteq present' /\ NewId \in present'
<1> DEFINE new == [files |-> files, anc |-> anc \cup {NewId}]
           n == Len(commits)
<1>1. commits \in Seq(CommitType) /\ n \in Nat /\ NewId = n + 1 /\ Ids = 1..n
  BY IdsAre DEF Typed, CommitType, NewId
<1>2. new \in CommitType
  BY <1>1 DEF CommitType, Ids
<1>3. commits' = Append(commits, new) /\ n < MaxCommits /\ present' = present \cup {NewId}
  BY DEF MakeSnap, Snap, NewId
<1>4. /\ commits' \in Seq(CommitType) /\ Len(commits') = n + 1
      /\ \A i \in 1..n : commits'[i] = commits[i]
      /\ commits'[n + 1] = new
  <2> HIDE DEF new, CommitType
  <2> QED BY <1>1, <1>2, <1>3, AppendProperties
<1>5. DOMAIN commits' = 1..(n + 1)
  <2> HIDE DEF new, CommitType
  <2> QED BY <1>1, <1>4, LenProperties
<1>6. MaxCommits \in Nat
  BY WorkspaceAssumption
<1>7. Grows /\ NewId \in DOMAIN commits' /\ commits'[NewId] = new
  BY <1>1, <1>4, <1>5 DEF Grows
<1>8. HistoryInv'
  <2> SUFFICES ASSUME NEW c \in DOMAIN commits'
               PROVE  /\ c \in commits'[c].anc /\ commits'[c].anc \subseteq 1..c
                      /\ \A a \in commits'[c].anc : commits'[a].anc \subseteq commits'[c].anc
    BY DEF HistoryInv, Anc, Ids
  <2>1. CASE c \in Ids
    <3>1. commits'[c].anc = Anc(c) /\ c \in Anc(c) /\ Anc(c) \subseteq 1..c
          /\ \A a \in Anc(c) : Anc(a) \subseteq Anc(c)
      BY <2>1, <1>7 DEF Grows, HistoryInv, Anc
    <3>2. \A a \in Anc(c) : a \in Ids /\ commits'[a].anc = Anc(a)
      BY <2>1, <3>1, <1>1, <1>7 DEF Grows, Anc
    <3> QED BY <3>1, <3>2
  <2>2. CASE c \notin Ids
    <3>1. c = NewId
      BY <2>2, <1>1, <1>5
    <3>2. commits'[c].anc = anc \cup {NewId}
      BY <3>1, <1>7
    <3>3. \A a \in anc : commits'[a].anc = Anc(a)
      BY <1>7 DEF Grows, Anc
    <3>4. anc \cup {NewId} \subseteq 1..c
      <4>1. anc \subseteq 1..n /\ c = n + 1 /\ n \in Nat
        BY <3>1, <1>1
      <4>2. \A a \in anc : a \in 1..c
        BY <4>1
      <4>3. NewId \in 1..c
        BY <4>1, <3>1
      <4> QED BY <4>2, <4>3
    <3>5. ASSUME NEW a \in commits'[c].anc PROVE commits'[a].anc \subseteq commits'[c].anc
      <4>1. CASE a = NewId
        BY <4>1, <3>1
      <4>2. CASE a \in anc
        BY <4>2, <3>3, <3>2
      <4> QED BY <4>1, <4>2, <3>2
    <3> QED BY <3>1, <3>2, <3>4, <3>5
  <2> QED BY <2>1, <2>2
<1>9. Len(commits)' \in 1..MaxCommits
  BY <1>1, <1>3, <1>4, <1>6
<1>10. present' \in SUBSET Ids' /\ present \subseteq present' /\ NewId \in present'
  BY <1>1, <1>3, <1>5 DEF Typed, Ids
<1> QED BY <1>4, <1>7, <1>8, <1>9, <1>10 DEF CommitType

\* A step that leaves the session and the checkouts alone, while the store grows.
LEMMA LiveSame ==
    ASSUME WsInv, Grows, HistoryStays, UNCHANGED <<session, checkout, mine>>, torn \subseteq torn'
    PROVE  LiveInv'
<1>1. \A c \in Ids : FilesOf(c)' = FilesOf(c) /\ Anc(c)' = Anc(c)
  BY DEF Grows, FilesOf, Anc
<1>2. \A c \in present : c \in Ids
  BY DEF WsInv, Typed
<1>3. landing \in Ids /\ Anc(landing) \subseteq Ids
  BY IdsAre, <1>2 DEF WsInv, StoreInv, HistoryInv
<1>4. Unfinished' = Unfinished
  BY DEF Unfinished
<1> SUFFICES ASSUME NEW w \in (session.live \ torn)'
             PROVE  /\ (checkout[w] \in Files)'
                    /\ (~Unfinished => Own(w, checkout[w]))'
                    /\ (Unfinished =>
                          LET cand == FilesOf(session.pairs[w][1])
                              result == FilesOf(session.pairs[w][2])
                          IN  Own(w, cand) /\ \A p \in Path : checkout[w][p] \in {cand[p], result[p]})'
                    /\ (\A p \in DOMAIN mine[w] :
                           checkout[w][p] = mine[w][p] \/ InHistory(p, mine[w][p], landing))'
  BY DEF LiveInv
<1>5. w \in session.live \ torn /\ SessionOpen
  BY DEF SessionOpen, NoSession
<1>6. session.base \in Ids /\ FilesOf(session.base)' = FilesOf(session.base)
  BY <1>5, <1>1, <1>2 DEF WsInv, SessionInv, FilesOf
<1>7. (checkout[w] \in Files)' /\ (~Unfinished => Own(w, checkout[w]))'
  BY <1>5, <1>6, <1>4 DEF WsInv, LiveInv, Own
<1>8. ASSUME Unfinished'
      PROVE  (LET cand == FilesOf(session.pairs[w][1])
                  result == FilesOf(session.pairs[w][2])
              IN  Own(w, cand) /\ \A p \in Path : checkout[w][p] \in {cand[p], result[p]})'
  <2>1. PICK pair : pair = session.pairs[w]
    OBVIOUS
  <2>2. pair[1] \in Ids /\ pair[2] \in Ids
    BY <1>5, <1>8, <1>2, <1>4, <2>1 DEF WsInv, SessionInv, PairOK
  <2>3. FilesOf(pair[1])' = FilesOf(pair[1]) /\ FilesOf(pair[2])' = FilesOf(pair[2])
    BY <2>2, <1>1
  <2>4. Own(w, FilesOf(pair[1])) /\ \A p \in Path : checkout[w][p] \in {FilesOf(pair[1])[p], FilesOf(pair[2])[p]}
    BY <1>5, <1>8, <1>4, <2>1 DEF WsInv, LiveInv
  <2> QED BY <2>1, <2>3, <2>4, <1>6 DEF Own
<1>9. ASSUME NEW p \in DOMAIN mine[w], InHistory(p, mine[w][p], landing)
      PROVE  InHistory(p, mine[w][p], landing)'
  <2>1. PICK c \in Anc(landing) : FilesOf(c)[p] = mine[w][p]
    BY <1>9 DEF InHistory
  <2>2. c \in Anc(landing)' /\ FilesOf(c)' = FilesOf(c)
    BY <1>1, <1>3 DEF HistoryStays, Anc
  <2> QED BY <2>1, <2>2 DEF InHistory
<1>10. \A p \in DOMAIN mine[w] : checkout[w][p] = mine[w][p] \/ InHistory(p, mine[w][p], landing)
  BY <1>5 DEF WsInv, LiveInv
<1>11. (\A p \in DOMAIN mine[w] : checkout[w][p] = mine[w][p] \/ InHistory(p, mine[w][p], landing))'
  BY <1>9, <1>10
<1> QED BY <1>7, <1>8, <1>11

\* What a refresh recorded is true of a store that has grown.
LEMMA PairSame ==
    ASSUME WsInv, Grows, session'.base = session.base, session.base \in Ids,
           NEW to \in Ids, NEW pair, PairOK(pair, to), pair[1] \in present', pair[2] \in present'
    PROVE  PairOK(pair, to)'
<1>1. \A c \in Ids : FilesOf(c)' = FilesOf(c)
  BY DEF Grows, FilesOf
<1>2. pair[1] \in Ids /\ pair[2] \in Ids
  BY DEF WsInv, Typed, PairOK
<1>3. FilesOf(session.base)' = FilesOf(session.base)
  BY <1>1 DEF FilesOf
<1>4. FilesOf(pair[1])' = FilesOf(pair[1]) /\ FilesOf(pair[2])' = FilesOf(pair[2]) /\ FilesOf(to)' = FilesOf(to)
  BY <1>1, <1>2
<1> QED BY <1>3, <1>4 DEF PairOK, Merged

LEMMA SessionSame ==
    ASSUME WsInv, Grows, HistoryStays, UNCHANGED session,
           SessionOpen => session.base \in present',
           Unfinished => session.target \in present',
           \A w \in DOMAIN session.pairs :
               Unfinished => session.pairs[w][1] \in present' /\ session.pairs[w][2] \in present'
    PROVE  SessionInv'
<1>1. SessionOpen' = SessionOpen /\ Unfinished' = Unfinished
  BY DEF SessionOpen, Unfinished
<1>2. SessionOpen' => (session.base \in present)' /\ (session.base \in Anc(landing))'
  BY <1>1 DEF WsInv, SessionInv, HistoryStays, Anc
<1>3. ASSUME Unfinished'
      PROVE  /\ (session.target \in present)' /\ (session.target \in Anc(landing))'
             /\ (session.live \subseteq DOMAIN session.pairs)'
  BY <1>3, <1>1 DEF WsInv, SessionInv, HistoryStays, Anc
<1>4. ASSUME Unfinished', NEW w \in DOMAIN session.pairs
      PROVE  PairOK(session.pairs[w], session.target)'
  <2>1. PairOK(session.pairs[w], session.target) /\ session.target \in Ids /\ session.base \in Ids
    BY <1>4, <1>1 DEF WsInv, SessionInv, SessionOpen, Unfinished, NoSession, Typed
  <2>2. PICK pair : pair = session.pairs[w]
    OBVIOUS
  <2>3. PICK to : to = session.target
    OBVIOUS
  <2>4. PairOK(pair, to)'
    BY <2>1, <2>2, <2>3, <1>1, <1>4, PairSame
  <2> QED BY <2>2, <2>3, <2>4
<1> QED BY <1>2, <1>3, <1>4 DEF SessionInv

\* A branch of a harvest stays what it is, and so do all if none is put.
LEMMA CommitSame ==
    ASSUME WsInv, Grows, torn \subseteq torn', NEW s \in spare, s.ws \notin torn'
    PROVE  OwnCommit(s)'
<1>1. \A c \in Ids : FilesOf(c)' = FilesOf(c) /\ Anc(c)' = Anc(c) /\ c \in Ids'
  BY DEF Grows, FilesOf, Anc, Ids
<1>2. s.id \in Ids /\ s.ws \notin torn
  BY DEF WsInv, StoreInv, Typed
<1>3. PICK b \in Ids :
          /\ s.id \notin Anc(b) /\ Anc(s.id) = Anc(b) \cup {s.id}
          /\ \A p \in Path : FilesOf(s.id)[p] # FilesOf(b)[p] => FilesOf(s.id)[p].by = s.ws
  BY <1>2 DEF WsInv, SpareInv, OwnCommit
<1> QED BY <1>1, <1>2, <1>3 DEF OwnCommit

LEMMA SpareSame ==
    ASSUME WsInv, Grows, spare' \subseteq spare, torn \subseteq torn'
    PROVE  SpareInv'
BY CommitSame DEF SpareInv

\* A step that leaves the runs and their markers, the live workspaces and the command
\* that holds the lock alone.
LEMMA AgentSame ==
    ASSUME WsInv, UNCHANGED <<agent, running>>, session'.live = session.live,
           torn \subseteq torn', (wsOp # NoOp \/ Unfinished)' => wsOp # NoOp \/ Unfinished
    PROVE  AgentInv'
BY DEF WsInv, AgentInv

\* No command holds the lock.
LEMMA LockFree ==
    ASSUME wsOp' = NoOp
    PROVE  HarvestInv' /\ RefreshInv' /\ OpInv'
BY DEF HarvestInv, RefreshInv, OpInv, NoOp

-----------------------------------------------------------------------------
(* `sc ws run` and the command it spawned                                  *)

\* A step of a run that touches no file.
LEMMA Quiet ==
    ASSUME WsInv, UNCHANGED <<commits, present, landing, spare, session, checkout, wsOp, mine>>,
           torn \subseteq torn'
    PROVE  StoreInv' /\ SessionInv' /\ LiveInv' /\ SpareInv' /\ HarvestInv' /\ RefreshInv' /\ OpInv'
<1>1. Grows /\ HistoryStays /\ present \subseteq present'
  BY DEF Grows, HistoryStays, Anc, Ids
<1>2. StoreInv'
  BY DEF WsInv, StoreInv, HistoryInv, Ids, Anc
<1>3. HarvestInv'
  BY DEF WsInv, HarvestInv, Saved, InHistory, FilesOf, Anc, SessionOpen, Unfinished
<1>4. RefreshInv'
  <2> SUFFICES ASSUME wsOp.kind = "refresh" PROVE RefreshInv'
    BY DEF RefreshInv
  <2>1. (/\ SessionOpen
         /\ wsOp.at \in {"commit", "replay", "apply"}
         /\ wsOp.to \in present /\ wsOp.to \in Anc(landing)
         /\ wsOp.todo \subseteq session.live /\ DOMAIN wsOp.pairs = session.live \ wsOp.todo)'
    BY DEF WsInv, RefreshInv, SessionOpen, Anc
  <2>2. (\A w \in DOMAIN wsOp.pairs :
              /\ PairOK(wsOp.pairs[w], wsOp.to)
              /\ w \notin torn => Own(w, FilesOf(wsOp.pairs[w][1])))'
    BY DEF WsInv, RefreshInv, PairOK, Own, FilesOf, Merged
  <2>3. (wsOp.at = "replay" =>
              /\ wsOp.todo # {} /\ wsOp.id \in present /\ ~wsOp.resumed
              /\ Lowest(wsOp.todo) \notin torn => checkout[Lowest(wsOp.todo)] = FilesOf(wsOp.id))'
    BY DEF WsInv, RefreshInv, FilesOf
  <2>4. (/\ Unfinished <=> wsOp.at = "apply" \/ wsOp.resumed
         /\ Unfinished =>
              /\ session.target = wsOp.to /\ wsOp.todo = {}
              /\ \A w \in session.live : session.pairs[w] = wsOp.pairs[w])'
    BY DEF WsInv, RefreshInv, Unfinished
  <2>5. (wsOp.at # "apply" => ~wsOp.done)' /\ (~wsOp.resumed /\ ~wsOp.done =>
              \A w \in DOMAIN wsOp.pairs \ torn : checkout[w] = FilesOf(wsOp.pairs[w][1]))'
    BY DEF WsInv, RefreshInv, FilesOf
  <2>6. (wsOp.at = "apply" =>
              \A w \in DOMAIN wsOp.pairs \ torn, p \in Path :
                  <<w, p>> \notin wsOp.left => checkout[w][p] = Result(w)[p])'
    BY DEF WsInv, RefreshInv, FilesOf, Result
  <2> QED BY <2>1, <2>2, <2>3, <2>4, <2>5, <2>6 DEF RefreshInv
<1>5. OpInv'
  BY DEF WsInv, OpInv
<1>6. SessionInv' /\ LiveInv'
  <2>1. LiveInv'
    BY <1>1, LiveSame
  <2>2. SessionInv'
    BY <1>1, SessionSame DEF WsInv, SessionInv, PairOK
  <2> QED BY <2>1, <2>2
<1>7. SpareInv'
  BY <1>1, SpareSame
<1> QED BY <1>2, <1>3, <1>4, <1>5, <1>6, <1>7

LEMMA RunPlanHolds ==
    ASSUME WsInv, NEW w \in Ws, RunPlan(w)
    PROVE  WsInv'
<1> USE DEF RunPlan, storeFrame, wsHist
<1>1. Typed'
  BY DEF WsInv, Typed, Ids
<1>2. AgentInv'
  <2>1. ~Unfinished' /\ wsOp' = NoOp
    BY DEF Unfinished
  <2> SUFFICES ASSUME NEW v \in Ws
               PROVE  /\ (agent[v].sc => "sc" \in running[v] /\ v \in session.live)'
                      /\ (agent[v].child /\ v \notin torn =>
                            v \in session.live /\ (agent[v].sc \/ "child" \in running[v]))'
    BY <2>1 DEF AgentInv
  <2>2. agent \in [Ws -> [sc : BOOLEAN, child : BOOLEAN]] /\ running \in [Ws -> SUBSET {"sc", "child"}]
    BY DEF WsInv, Typed
  <2>3. CASE v = w
    BY <2>2, <2>3 DEF NoAgent
  <2>4. CASE v # w
    BY <2>2, <2>4 DEF WsInv, AgentInv
  <2> QED BY <2>3, <2>4
<1> QED BY <1>1, <1>2, Quiet DEF WsInv

LEMMA RunSpawnsHolds ==
    ASSUME WsInv, NEW w \in Ws, RunSpawns(w)
    PROVE  WsInv'
<1> USE DEF RunSpawns, storeFrame, wsHist
<1>1. Typed'
  BY DEF WsInv, Typed, Ids
<1>2. AgentInv'
  <2>1. agent \in [Ws -> [sc : BOOLEAN, child : BOOLEAN]] /\ Unfinished' = Unfinished
    BY DEF WsInv, Typed, Unfinished
  <2>2. agent' = [agent EXCEPT ![w].child = TRUE] /\ agent[w].sc
    OBVIOUS
  <2>3. agent'[w].sc /\ \A v \in Ws : v # w => agent'[v] = agent[v]
    BY <2>1, <2>2
  <2>4. w \in session.live /\ "sc" \in running[w] /\ wsOp = NoOp /\ ~Unfinished
    BY DEF WsInv, AgentInv
  <2> QED BY <2>1, <2>3, <2>4 DEF WsInv, AgentInv
<1> QED BY <1>1, <1>2, Quiet DEF WsInv

LEMMA RunRecordsHolds ==
    ASSUME WsInv, NEW w \in Ws, RunRecords(w)
    PROVE  WsInv'
<1> USE DEF RunRecords, storeFrame, wsHist
<1>1. Typed'
  BY DEF WsInv, Typed, Ids
<1>2. AgentInv'
  <2>1. running' = [running EXCEPT ![w] = {"sc", "child"}] /\ running \in [Ws -> SUBSET {"sc", "child"}]
    BY DEF WsInv, Typed
  <2>2. running'[w] = {"sc", "child"} /\ (\A v \in Ws : v # w => running'[v] = running[v]) /\ Unfinished' = Unfinished
    BY <2>1 DEF Unfinished
  <2> QED BY <2>2 DEF WsInv, AgentInv
<1> QED BY <1>1, <1>2, Quiet DEF WsInv

LEMMA ChildExitsHolds ==
    ASSUME WsInv, NEW w \in Ws, ChildExits(w)
    PROVE  WsInv'
<1> USE DEF ChildExits, storeFrame, wsHist
<1>1. Typed'
  BY DEF WsInv, Typed, Ids
<1>2. AgentInv'
  <2>1. agent' = [agent EXCEPT ![w].child = FALSE] /\ agent \in [Ws -> [sc : BOOLEAN, child : BOOLEAN]]
    BY DEF WsInv, Typed
  <2>2. agent'[w].sc = agent[w].sc /\ ~agent'[w].child /\ (\A v \in Ws : v # w => agent'[v] = agent[v])
        /\ Unfinished' = Unfinished
    BY <2>1 DEF Unfinished
  <2> QED BY <2>2 DEF WsInv, AgentInv
<1> QED BY <1>1, <1>2, Quiet DEF WsInv

LEMMA RunDropsHolds ==
    ASSUME WsInv, NEW w \in Ws, RunDrops(w)
    PROVE  WsInv'
<1> USE DEF RunDrops, storeFrame, wsHist
<1>1. Typed'
  BY DEF WsInv, Typed, Ids
<1>2. AgentInv'
  <2>1. agent' = [agent EXCEPT ![w].sc = FALSE] /\ agent \in [Ws -> [sc : BOOLEAN, child : BOOLEAN]]
        /\ running' = [running EXCEPT ![w] = {}] /\ running \in [Ws -> SUBSET {"sc", "child"}]
    BY DEF WsInv, Typed
  <2>2. ~agent'[w].sc /\ ~agent'[w].child /\ Unfinished' = Unfinished
        /\ \A v \in Ws : v # w => agent'[v] = agent[v] /\ running'[v] = running[v]
    BY <2>1 DEF Unfinished
  <2> QED BY <2>2 DEF WsInv, AgentInv
<1> QED BY <1>1, <1>2, Quiet DEF WsInv

\* The sc of a run is killed: if its child's pid is not in the marker yet, nobody will
\* know that it runs on.
LEMMA RunKilledHolds ==
    ASSUME WsInv, NEW w \in Ws, agent[w].sc,
           agent' = [agent EXCEPT ![w].sc = FALSE],
           torn' = IF agent[w].child /\ "child" \notin running[w] THEN torn \cup {w} ELSE torn,
           UNCHANGED <<storeFrame, session, checkout, running, wsOp, mine, edits, hostEdits>>
    PROVE  WsInv'
<1> USE DEF storeFrame
<1>1. Typed'
  <2>1. torn' \in SUBSET Ws
    BY DEF WsInv, Typed
  <2> QED BY <2>1 DEF WsInv, Typed, Ids
<1>2. AgentInv'
  <2>1. agent \in [Ws -> [sc : BOOLEAN, child : BOOLEAN]]
    BY DEF WsInv, Typed
  <2>2. ~agent'[w].sc /\ agent'[w].child = agent[w].child /\ Unfinished' = Unfinished
        /\ \A v \in Ws : v # w => agent'[v] = agent[v]
    BY <2>1 DEF Unfinished
  <2>3. agent[w].child /\ w \notin torn' => "child" \in running[w]
    OBVIOUS
  <2> QED BY <2>2, <2>3 DEF WsInv, AgentInv
<1> QED BY <1>1, <1>2, Quiet DEF WsInv

\* A command's edit goes to the checkout and to what the session owes it.  While a
\* command of sc holds the lock, or a refresh is unfinished, only those edit of which
\* nothing is promised.
LEMMA AgentEditsHolds ==
    ASSUME WsInv, NEW w \in Ws, NEW p \in Path, AgentEdits(w, p)
    PROVE  WsInv'
<1> USE DEF storeFrame, runFrame
<1> DEFINE c == [by |-> w, n |-> edits[w] + 1]
<1>1. /\ agent[w].child /\ checkout[w] # NoDir /\ edits[w] < MaxEdits
      /\ edits' = [edits EXCEPT ![w] = @ + 1]
      /\ checkout' = [checkout EXCEPT ![w][p] = c]
      /\ mine' = [mine EXCEPT ![w] = [q \in DOMAIN @ \cup {p} |-> IF q = p THEN c ELSE @[q]]]
      /\ UNCHANGED <<storeFrame, session, runFrame, wsOp, hostEdits, kills, torn>>
  BY DEF AgentEdits
<1>2. /\ checkout \in [Ws -> Files \cup {NoDir}] /\ edits \in [Ws -> 0..MaxEdits]
      /\ mine \in [Ws -> UNION {[P -> FileContent] : P \in SUBSET Path}]
      /\ MaxEdits \in Nat /\ MaxHostEdits \in Nat
  BY WorkspaceAssumption DEF WsInv, Typed
<1>3. c \in FileContent /\ c.by = w
  BY <1>1, <1>2 DEF FileContent
<1>4. PICK e : e = c
  OBVIOUS
<1> HIDE DEF c
<1>5. checkout[w] \in Files
  BY <1>1, <1>2
<1>6. checkout'[w] = [checkout[w] EXCEPT ![p] = e] /\ \A v \in Ws : v # w => checkout'[v] = checkout[v]
  BY <1>1, <1>2, <1>4
<1>7. checkout'[w] \in Files
  BY <1>3, <1>4, <1>5, <1>6 DEF Files
<1>8. checkout' \in [Ws -> Files \cup {NoDir}]
  BY <1>1, <1>2, <1>6, <1>7
<1>9. PICK P \in SUBSET Path : mine[w] \in [P -> FileContent]
  BY <1>2
<1>10. mine'[w] = [q \in P \cup {p} |-> IF q = p THEN e ELSE mine[w][q]]
       /\ \A v \in Ws : v # w => mine'[v] = mine[v]
  BY <1>1, <1>2, <1>4, <1>9
<1>11. mine'[w] \in [P \cup {p} -> FileContent]
  BY <1>3, <1>4, <1>9, <1>10
<1>12. mine' \in [Ws -> UNION {[Q -> FileContent] : Q \in SUBSET Path}]
  <2>1. mine'[w] \in UNION {[Q -> FileContent] : Q \in SUBSET Path}
    BY <1>11
  <2>2. \A v \in Ws : mine'[v] \in UNION {[Q -> FileContent] : Q \in SUBSET Path}
    BY <2>1, <1>2, <1>10
  <2> QED BY <1>1, <1>2, <2>2
<1>13. edits' \in [Ws -> 0..MaxEdits]
  BY <1>1, <1>2
<1>14. Typed'
  BY <1>1, <1>8, <1>12, <1>13 DEF WsInv, Typed, Ids
<1>0. UNCHANGED <<commits, present, landing, spare, session, wsOp, torn>>
  BY <1>1
<1>15. w \notin torn => w \in session.live /\ wsOp = NoOp /\ ~Unfinished
  BY <1>1 DEF WsInv, AgentInv
<1>16. AgentInv' /\ StoreInv' /\ SpareInv'
  <2>1. Unfinished' = Unfinished
    BY <1>1 DEF Unfinished
  <2>2. AgentInv'
    BY <1>1, <2>1 DEF WsInv, AgentInv
  <2>3. StoreInv'
    BY <1>1 DEF WsInv, StoreInv, HistoryInv, Ids, Anc
  <2>4. SpareInv'
    BY <1>1, SpareSame DEF Grows, Ids
  <2> QED BY <2>2, <2>3, <2>4
<1>17. SessionInv'
  BY <1>0 DEF WsInv, SessionInv, SessionOpen, Unfinished, PairOK, Merged, FilesOf, Anc
<1>18. LiveInv'
  <2>1. \A d : FilesOf(d)' = FilesOf(d)
    BY <1>0 DEF FilesOf
  <2> SUFFICES ASSUME NEW v \in session.live \ torn
               PROVE  /\ checkout'[v] \in Files
                      /\ ~Unfinished => Own(v, checkout'[v])
                      /\ Unfinished =>
                            LET cand == FilesOf(session.pairs[v][1])
                                result == FilesOf(session.pairs[v][2])
                            IN  Own(v, cand) /\ \A q \in Path : checkout'[v][q] \in {cand[q], result[q]}
                      /\ \A q \in DOMAIN mine'[v] :
                            checkout'[v][q] = mine'[v][q] \/ InHistory(q, mine'[v][q], landing)
    BY <1>0, <2>1 DEF LiveInv, Own, InHistory, Unfinished, Anc, FilesOf
  <2>2. v \in Ws
    BY DEF WsInv, Typed, SessionType
  <2>3. CASE v # w
    BY <2>2, <2>3, <1>6, <1>10 DEF WsInv, LiveInv
  <2>4. CASE v = w
    <3>1. ~Unfinished /\ Own(w, checkout[w])
      BY <2>4, <1>15 DEF WsInv, LiveInv
    <3>2. Own(w, checkout'[w])
      <4>1. \A q \in Path : checkout'[w][q] = IF q = p THEN e ELSE checkout[w][q]
        BY <1>5, <1>6 DEF Files
      <4> QED BY <4>1, <3>1, <1>3, <1>4 DEF Own
    <3>3. ASSUME NEW q \in DOMAIN mine'[w]
          PROVE  checkout'[w][q] = mine'[w][q] \/ InHistory(q, mine'[w][q], landing)
      <4>1. q \in P \cup {p} /\ P \subseteq Path /\ DOMAIN mine[w] = P
        BY <3>3, <1>9, <1>10
      <4>2. checkout'[w][q] = IF q = p THEN e ELSE checkout[w][q]
        BY <4>1, <1>5, <1>6 DEF Files
      <4>3. mine'[w][q] = IF q = p THEN e ELSE mine[w][q]
        BY <4>1, <1>10
      <4>4. q # p => checkout[w][q] = mine[w][q] \/ InHistory(q, mine[w][q], landing)
        BY <4>1, <2>4 DEF WsInv, LiveInv
      <4> QED BY <4>2, <4>3, <4>4
    <3>4. checkout'[v] \in Files /\ Own(v, checkout'[v]) /\ ~Unfinished
      BY <2>4, <3>1, <3>2, <1>7
    <3>5. \A q \in DOMAIN mine'[v] :
              checkout'[v][q] = mine'[v][q] \/ InHistory(q, mine'[v][q], landing)
      BY <2>4, <3>3
    <3> QED BY <3>4, <3>5
  <2> QED BY <2>3, <2>4
<1>19. HarvestInv' /\ RefreshInv' /\ OpInv'
  <2>1. CASE w \notin torn
    BY <2>1, <1>15, <1>0, LockFree
  <2>2. CASE w \in torn
    <3>1. \A v \in session.live \ torn : checkout'[v] = checkout[v] /\ mine'[v] = mine[v]
      BY <2>2, <1>6, <1>10 DEF WsInv, Typed, SessionType
    <3>2. OpInv'
      <4>1. \A v \in session.live : checkout[v] \in Files => checkout'[v] \in Files
        BY <1>6, <1>7 DEF WsInv, Typed, SessionType
      <4> QED BY <4>1, <1>0 DEF WsInv, OpInv
    <3>3. HarvestInv'
      <4> SUFFICES ASSUME wsOp.kind = "harvest" PROVE HarvestInv'
        BY <1>0 DEF HarvestInv
      <4>1. PICK l : l = Lowest(wsOp.todo)
        OBVIOUS
      <4>2. wsOp.at # "read" => wsOp.todo # {}
        BY DEF WsInv, HarvestInv
      <4>3. wsOp.todo \in SUBSET Nat
        BY WorkspaceAssumption DEF WsInv, Typed, OpType
      <4>4. wsOp.at \in {"merge", "unbranch", "resolve"} => l \in session.live
        BY <4>1, <4>2, <4>3, LowestIn DEF WsInv, HarvestInv
      <4>5. wsOp.at \in {"merge", "unbranch"} => (l \notin torn => checkout'[l] = FilesOf(wsOp.id))
        BY <4>1, <4>4, <3>1 DEF WsInv, HarvestInv
      <4>6. wsOp.at = "resolve" /\ l \notin torn => Saved(l)'
        <5> SUFFICES ASSUME wsOp.at = "resolve", l \notin torn PROVE Saved(l)'
          OBVIOUS
        <5>1. Saved(l) /\ mine'[l] = mine[l]
          BY <4>1, <4>4, <3>1 DEF WsInv, HarvestInv
        <5> QED BY <5>1, <1>0 DEF Saved, InHistory, FilesOf, Anc
      <4>7. Lowest(wsOp.todo)' = l /\ wsOp' = wsOp /\ torn' = torn /\ FilesOf(wsOp.id)' = FilesOf(wsOp.id)
            /\ Anc(landing)' = Anc(landing) /\ SessionOpen' = SessionOpen /\ Unfinished' = Unfinished
        BY <4>1, <1>0 DEF FilesOf, Anc, SessionOpen, Unfinished
      <4>8. /\ SessionOpen /\ ~Unfinished
            /\ wsOp.at \in {"read", "merge", "unbranch", "resolve", "teardown"}
            /\ wsOp.todo \subseteq session.live \cup IF wsOp.at = "teardown" THEN {l} ELSE {}
            /\ wsOp.at = "teardown" => l \notin session.live
            /\ wsOp.at \in {"merge", "unbranch"} => wsOp.id \in present
            /\ wsOp.at = "merge" => [ws |-> l, id |-> wsOp.id] \in spare
            /\ wsOp.at = "unbranch" => wsOp.id \in Anc(landing)
        BY <4>1 DEF WsInv, HarvestInv
      <4> HIDE <1>0
      <4>9. present' = present /\ spare' = spare /\ session' = session
        BY <1>0
      <4> QED BY <4>2, <4>5, <4>6, <4>7, <4>8, <4>9 DEF HarvestInv
    <3>4. RefreshInv'
      <4> SUFFICES ASSUME wsOp.kind = "refresh" PROVE RefreshInv'
        BY <1>0 DEF RefreshInv
      <4>1. (/\ SessionOpen
             /\ wsOp.at \in {"commit", "replay", "apply"}
             /\ wsOp.to \in present /\ wsOp.to \in Anc(landing)
             /\ wsOp.todo \subseteq session.live /\ DOMAIN wsOp.pairs = session.live \ wsOp.todo)'
        BY <1>0 DEF WsInv, RefreshInv, SessionOpen, Anc
      <4>2. (\A v \in DOMAIN wsOp.pairs :
                  /\ PairOK(wsOp.pairs[v], wsOp.to)
                  /\ v \notin torn => Own(v, FilesOf(wsOp.pairs[v][1])))'
        BY <1>0 DEF WsInv, RefreshInv, PairOK, Own, FilesOf, Merged
      <4>3. (wsOp.at = "replay" =>
                  /\ wsOp.todo # {} /\ wsOp.id \in present /\ ~wsOp.resumed
                  /\ Lowest(wsOp.todo) \notin torn => checkout[Lowest(wsOp.todo)] = FilesOf(wsOp.id))'
        <5>1. wsOp.todo \in SUBSET Nat
          BY WorkspaceAssumption DEF WsInv, Typed, OpType
        <5>2. PICK l : l = Lowest(wsOp.todo)
          OBVIOUS
        <5>3. wsOp.at = "replay" => l \in session.live
          BY <5>1, <5>2, LowestIn DEF WsInv, RefreshInv
        <5>4. wsOp.at = "replay" /\ l \notin torn => checkout'[l] = FilesOf(wsOp.id)
          BY <5>2, <5>3, <3>1 DEF WsInv, RefreshInv
        <5>5. Lowest(wsOp.todo)' = l /\ wsOp' = wsOp /\ torn' = torn /\ FilesOf(wsOp.id)' = FilesOf(wsOp.id)
          BY <5>2, <1>0 DEF FilesOf
        <5>6. wsOp.at = "replay" => wsOp.todo # {} /\ (wsOp.id \in present)' /\ ~wsOp.resumed
          BY <1>0 DEF WsInv, RefreshInv
        <5> QED BY <5>4, <5>5, <5>6
      <4>4. (/\ Unfinished <=> wsOp.at = "apply" \/ wsOp.resumed
             /\ Unfinished =>
                  /\ session.target = wsOp.to /\ wsOp.todo = {}
                  /\ \A v \in session.live : session.pairs[v] = wsOp.pairs[v])'
        BY <1>0 DEF WsInv, RefreshInv, Unfinished
      <4>5. (wsOp.at # "apply" => ~wsOp.done)' /\ (~wsOp.resumed /\ ~wsOp.done =>
                  \A v \in DOMAIN wsOp.pairs \ torn : checkout[v] = FilesOf(wsOp.pairs[v][1]))'
        BY <1>0, <3>1 DEF WsInv, RefreshInv, FilesOf
      <4>6. (wsOp.at = "apply" =>
                  \A v \in DOMAIN wsOp.pairs \ torn, q \in Path :
                      <<v, q>> \notin wsOp.left => checkout[v][q] = Result(v)[q])'
        BY <1>0, <3>1 DEF WsInv, RefreshInv, FilesOf, Result
      <4> QED BY <4>1, <4>2, <4>3, <4>4, <4>5, <4>6 DEF RefreshInv
    <3> QED BY <3>2, <3>3, <3>4
  <2> QED BY <2>1, <2>2
<1> QED BY <1>14, <1>16, <1>17, <1>18, <1>19 DEF WsInv

-----------------------------------------------------------------------------
(* The owner, gc, and what begins and ends a session                       *)

LEMMA NoOpTyped == NoOp \in OpType /\ NoSession \in SessionType
<1>1. [w \in {} |-> <<0, 0>>] \in [{} -> Nat \X Nat]
  OBVIOUS
<1>2. {} \in SUBSET Ws
  OBVIOUS
<1>3. NoSession.pairs \in Pairs
  BY <1>1, <1>2 DEF Pairs, NoSession
<1> QED BY <1>3 DEF NoOp, OpType, NoSession, SessionType

LEMMA HostCommitsHolds ==
    ASSUME WsInv, NEW p \in Path, HostCommits(p)
    PROVE  WsInv'
<1> DEFINE c == [by |-> Host, n |-> hostEdits + 1]
           files == [FilesOf(landing) EXCEPT ![p] = c]
<1>1. /\ wsOp = NoOp /\ hostEdits < MaxHostEdits /\ hostEdits' = hostEdits + 1
      /\ MakeSnap(files, Anc(landing)) /\ landing' = NewId
      /\ UNCHANGED <<spare, session, checkout, running, agent, wsOp, mine, edits, kills, torn>>
  BY DEF HostCommits
<1>2. /\ hostEdits \in 0..MaxHostEdits /\ MaxHostEdits \in Nat /\ MaxEdits \in Nat
      /\ present \subseteq Ids /\ landing \in present
  BY WorkspaceAssumption DEF WsInv, Typed, StoreInv
<1>3. c \in FileContent
  BY <1>1, <1>2 DEF FileContent
<1>4. PICK e \in FileContent : e = c
  BY <1>3
<1>5. FilesOf(landing) \in Files
  BY <1>2, IdsAre DEF WsInv
<1>6. files \in Files
  BY <1>4, <1>5 DEF Files
<1>7. Anc(landing) \in SUBSET Ids /\ \A a \in Anc(landing) : Anc(a) \subseteq Anc(landing)
  BY <1>2, IdsAre DEF WsInv, StoreInv, HistoryInv
<1> HIDE DEF c, files
<1>8. /\ commits' \in Seq([files : Files, anc : SUBSET Nat]) /\ Len(commits)' \in 1..MaxCommits
      /\ Grows /\ NewId \in DOMAIN commits'
      /\ commits'[NewId] = [files |-> files, anc |-> Anc(landing) \cup {NewId}]
      /\ HistoryInv' /\ present' \in SUBSET Ids' /\ present \subseteq present' /\ NewId \in present'
  BY <1>1, <1>6, <1>7, MadeSnap DEF WsInv, StoreInv
<1>9. Typed'
  <2>1. hostEdits' \in 0..MaxHostEdits /\ landing' \in Nat
    BY <1>1, <1>2, IdsAre DEF WsInv
  <2> QED BY <1>1, <1>8, <2>1 DEF WsInv, Typed
<1>10. HistoryStays
  BY <1>1, <1>8 DEF HistoryStays
<1>11. StoreInv'
  BY <1>1, <1>8 DEF WsInv, StoreInv
<1>12. SessionInv'
  BY <1>1, <1>8, <1>10, SessionSame DEF WsInv, SessionInv, PairOK
<1>13. LiveInv' /\ SpareInv'
  BY <1>1, <1>8, <1>10, LiveSame, SpareSame
<1>14. AgentInv'
  BY <1>1, AgentSame DEF Unfinished
<1> QED BY <1>1, <1>9, <1>11, <1>12, <1>13, <1>14, LockFree DEF WsInv

\* gc: what the landing branch, the branches of harvests, the session's base and an
\* unfinished refresh need has a root.
LEMMA WsGcHolds ==
    ASSUME WsInv, WsGc
    PROVE  WsInv'
<1>1. /\ wsOp = NoOp
      /\ present' = present \cap UNION {Anc(c) : c \in GcKeeps \ {0}}
      /\ UNCHANGED <<commits, landing, spare, session, checkout, running, agent, wsOp, mine, edits, hostEdits,
                     kills, torn>>
  BY DEF WsGc, runFrame, wsHist
<1>2. present \subseteq Ids /\ 0 \notin Ids
  BY IdsAre DEF WsInv, Typed
<1>3. ASSUME NEW c \in GcKeeps, c \in present PROVE c \in present'
  <2>1. c \in Anc(c) /\ c # 0
    BY <1>2, <1>3 DEF WsInv, StoreInv, HistoryInv
  <2> QED BY <2>1, <1>1, <1>3
<1>4. Typed'
  BY <1>1 DEF WsInv, Typed, Ids
<1>5. Grows /\ HistoryStays
  BY <1>1 DEF Grows, HistoryStays, Ids, Anc
<1>6. StoreInv'
  <2>1. HistoryInv'
    BY <1>1 DEF WsInv, StoreInv, HistoryInv, Ids, Anc
  <2>2. landing \in present'
    BY <1>3 DEF WsInv, StoreInv, GcKeeps
  <2>3. \A s \in spare : s.id \in present'
    BY <1>3 DEF WsInv, StoreInv, GcKeeps
  <2> QED BY <2>1, <2>2, <2>3, <1>1 DEF StoreInv
<1>7. SessionInv'
  <2>1. SessionOpen => session.base \in present'
    BY <1>3 DEF WsInv, SessionInv, GcKeeps, SessionRoots
  <2>2. Unfinished => SessionOpen
    BY DEF Unfinished, SessionOpen, NoSession
  <2>3. Unfinished => session.target \in present'
    BY <2>2, <1>3 DEF WsInv, SessionInv, GcKeeps, SessionRoots
  <2>4. ASSUME NEW w \in DOMAIN session.pairs, Unfinished
        PROVE  session.pairs[w][1] \in present' /\ session.pairs[w][2] \in present'
    <3>1. session.pairs[w][1] \in present /\ session.pairs[w][2] \in present
      BY <2>4 DEF WsInv, SessionInv, PairOK
    <3>2. {session.pairs[w][1], session.pairs[w][2]} \subseteq GcKeeps
      BY <2>2, <2>4 DEF GcKeeps, SessionRoots
    <3> QED BY <3>1, <3>2, <1>3
  <2> QED BY <2>1, <2>3, <2>4, <1>1, <1>5, SessionSame
<1>8. LiveInv' /\ SpareInv'
  BY <1>1, <1>5, LiveSame, SpareSame
<1>9. AgentInv'
  BY <1>1, AgentSame DEF Unfinished
<1> QED BY <1>1, <1>4, <1>6, <1>7, <1>8, <1>9, LockFree DEF WsInv

\* Without a session nothing is live, and no command runs of which anything is promised.
LEMMA NobodyRuns ==
    ASSUME WsInv, ~SessionOpen, NEW w \in Ws
    PROVE  ~agent[w].sc /\ (w \notin torn => ~agent[w].child)
BY DEF WsInv, AgentInv, SessionOpen, NoSession

LEMMA FilesTyped ==
    ASSUME WsInv, NEW S \in SUBSET Ws
    PROVE  Laid(S) \in [Ws -> Files \cup {NoDir}]
<1>1. FilesOf(landing) \in Files
  BY IdsAre DEF WsInv, Typed, StoreInv
<1> QED BY <1>1 DEF Laid

LEMMA StoreUntouched ==
    ASSUME WsInv, UNCHANGED storeFrame
    PROVE  StoreInv' /\ Grows /\ HistoryStays
BY DEF storeFrame, WsInv, StoreInv, HistoryInv, Grows, HistoryStays, Ids, Anc

LEMMA ForkHolds ==
    ASSUME WsInv, Fork
    PROVE  WsInv'
<1>1. /\ wsOp = NoOp /\ ~SessionOpen
      /\ checkout' = Laid(Ws) /\ running' = [w \in Ws |-> {}]
      /\ session' = [NoSession EXCEPT !.base = landing, !.live = Ws]
      /\ mine' = [w \in Ws |-> NoDir]
      /\ UNCHANGED <<commits, present, landing, spare, agent, wsOp, edits, hostEdits, kills, torn>>
  BY DEF Fork, Unmarked, storeFrame
<1>2. /\ session'.base = landing /\ session'.live = Ws /\ session'.target = 0
      /\ session' \in SessionType
  <2>1. landing \in Nat /\ Ws \in SUBSET Ws
    BY DEF WsInv, Typed
  <2> QED BY <2>1, <1>1, NoOpTyped DEF NoSession, SessionType
<1>3. /\ StoreInv' /\ Grows /\ HistoryStays /\ landing \in present
      /\ landing \in Anc(landing) /\ FilesOf(landing) \in Files
  BY <1>1, StoreUntouched, IdsAre DEF storeFrame, WsInv, Typed, StoreInv, HistoryInv
<1>4. checkout' \in [Ws -> Files \cup {NoDir}] /\ \A w \in Ws : checkout'[w] = FilesOf(landing)
  BY <1>1, FilesTyped DEF Laid
<1>5. mine' \in [Ws -> UNION {[P -> FileContent] : P \in SUBSET Path}] /\ \A w \in Ws : DOMAIN mine'[w] = {}
  <2>1. NoDir \in [{} -> FileContent] /\ {} \in SUBSET Path /\ DOMAIN NoDir = {}
    BY DEF NoDir
  <2> QED BY <2>1, <1>1
<1>6. Typed'
  BY <1>1, <1>2, <1>4, <1>5 DEF WsInv, Typed, Ids
<1>7. ~Unfinished'
  BY <1>2 DEF Unfinished
<1>8. SessionInv'
  BY <1>1, <1>2, <1>3, <1>7 DEF SessionInv, Anc
<1>9. LiveInv'
  <2> SUFFICES ASSUME NEW w \in Ws
               PROVE  (checkout[w] \in Files)' /\ Own(w, checkout[w])' /\ DOMAIN mine'[w] = {}
    BY <1>2, <1>7 DEF LiveInv
  <2>1. FilesOf(session.base)' = FilesOf(landing)
    BY <1>1, <1>2 DEF FilesOf
  <2> QED BY <2>1, <1>3, <1>4, <1>5 DEF Own
<1>10. SpareInv'
  BY <1>1, <1>3, SpareSame
<1>11. AgentInv'
  BY <1>1, <1>7, NobodyRuns DEF AgentInv
<1> QED BY <1>1, <1>3, <1>6, <1>8, <1>9, <1>10, <1>11, LockFree DEF WsInv

\* Without a session there is nothing to promise.
LEMMA NoSessionHolds ==
    ASSUME WsInv, session' = NoSession, UNCHANGED <<storeFrame, mine, edits, hostEdits, agent>>,
           wsOp' = NoOp, checkout' \in [Ws -> Files \cup {NoDir}], torn' \in SUBSET Ws, torn \subseteq torn',
           running' \in [Ws -> SUBSET {"sc", "child"}],
           \A w \in Ws : ~agent[w].sc /\ (w \notin torn' => ~agent[w].child)
    PROVE  WsInv'
<1>1. StoreInv' /\ Grows /\ HistoryStays
  BY StoreUntouched
<1>2. Typed'
  BY NoOpTyped DEF storeFrame, WsInv, Typed, Ids
<1>3. ~SessionOpen' /\ ~Unfinished' /\ session'.live = {}
  BY DEF SessionOpen, Unfinished, NoSession
<1>4. SessionInv' /\ LiveInv' /\ AgentInv'
  BY <1>3 DEF SessionInv, LiveInv, AgentInv
<1>5. SpareInv'
  BY <1>1, SpareSame DEF storeFrame
<1> QED BY <1>1, <1>2, <1>4, <1>5, LockFree DEF WsInv

LEMMA ForkKilledHolds ==
    ASSUME WsInv, ForkKilled, UNCHANGED <<storeFrame, mine, edits, hostEdits>>
    PROVE  WsInv'
<1>1. /\ wsOp' = NoOp /\ ~SessionOpen /\ session' = NoSession
      /\ running' = [w \in Ws |-> {}] /\ UNCHANGED <<agent, torn>>
      /\ \E S \in SUBSET Ws : checkout' = Laid(S)
  BY DEF ForkKilled, Unmarked, SessionOpen
<1>2. checkout' \in [Ws -> Files \cup {NoDir}] /\ torn' \in SUBSET Ws
  BY <1>1, FilesTyped DEF WsInv, Typed
<1>3. \A w \in Ws : ~agent[w].sc /\ (w \notin torn' => ~agent[w].child)
  BY <1>1, NobodyRuns
<1>4. running' \in [Ws -> SUBSET {"sc", "child"}]
  BY <1>1
<1> QED BY <1>1, <1>2, <1>3, <1>4, NoSessionHolds

\* A step that may take workspaces off the session, or files of those.
LEMMA LiveShrinks ==
    ASSUME WsInv, UNCHANGED <<commits, present, landing, mine>>, NEW L \in SUBSET session.live,
           session' = [session EXCEPT !.live = L], torn \subseteq torn',
           \A w \in L \ torn' : checkout'[w] = checkout[w]
    PROVE  SessionInv' /\ LiveInv' /\ session' \in SessionType /\ Unfinished' = Unfinished
           /\ (SessionOpen => SessionOpen') /\ session'.live = L
<1>1. session \in SessionType /\ L \in SUBSET Ws
  BY DEF WsInv, Typed, SessionType
<1>2. /\ session' \in SessionType /\ session'.live = L /\ session'.base = session.base
      /\ session'.target = session.target /\ session'.pairs = session.pairs
  BY <1>1 DEF SessionType
<1>3. Unfinished' = Unfinished
  BY <1>2 DEF Unfinished
<1>4. SessionOpen' => SessionOpen
  <2> SUFFICES ASSUME session = NoSession PROVE session' = NoSession
    BY DEF SessionOpen
  <2>1. L = {}
    BY DEF NoSession
  <2> QED BY <2>1, <1>1 DEF NoSession
<1>5. SessionOpen => session.base # 0
  BY IdsAre DEF WsInv, Typed, SessionInv
<1>6. SessionOpen => SessionOpen'
  BY <1>2, <1>5 DEF SessionOpen, NoSession
<1>7. SessionInv'
  <2>1. SessionOpen' => (session.base \in present)' /\ (session.base \in Anc(landing))'
    BY <1>2, <1>4 DEF WsInv, SessionInv, Anc
  <2>2. Unfinished' =>
           /\ (session.target \in present)' /\ (session.target \in Anc(landing))'
           /\ (session.live \subseteq DOMAIN session.pairs)'
    BY <1>2, <1>3 DEF WsInv, SessionInv, Anc
  <2>3. Unfinished' => (\A w \in DOMAIN session.pairs : PairOK(session.pairs[w], session.target))'
    BY <1>2, <1>3 DEF WsInv, SessionInv, PairOK, Merged, FilesOf
  <2> QED BY <2>1, <2>2, <2>3 DEF SessionInv
<1>8. LiveInv'
  <2> SUFFICES ASSUME NEW w \in L \ torn'
               PROVE  /\ (checkout[w] \in Files)'
                      /\ (~Unfinished => Own(w, checkout[w]))'
                      /\ (Unfinished =>
                            LET cand == FilesOf(session.pairs[w][1])
                                result == FilesOf(session.pairs[w][2])
                            IN  Own(w, cand) /\ \A p \in Path : checkout[w][p] \in {cand[p], result[p]})'
                      /\ (\A p \in DOMAIN mine[w] :
                             checkout[w][p] = mine[w][p] \/ InHistory(p, mine[w][p], landing))'
    BY <1>2 DEF LiveInv
  <2>1. w \in session.live \ torn /\ checkout'[w] = checkout[w]
    OBVIOUS
  <2>2. (checkout[w] \in Files)' /\ (~Unfinished => Own(w, checkout[w]))'
    BY <2>1, <1>2, <1>3 DEF WsInv, LiveInv, Own, FilesOf
  <2>3. (Unfinished =>
            LET cand == FilesOf(session.pairs[w][1])
                result == FilesOf(session.pairs[w][2])
            IN  Own(w, cand) /\ \A p \in Path : checkout[w][p] \in {cand[p], result[p]})'
    BY <2>1, <1>2, <1>3 DEF WsInv, LiveInv, Own, FilesOf
  <2>4. (\A p \in DOMAIN mine[w] : checkout[w][p] = mine[w][p] \/ InHistory(p, mine[w][p], landing))'
    BY <2>1 DEF WsInv, LiveInv, InHistory, FilesOf, Anc
  <2> QED BY <2>2, <2>3, <2>4
<1> QED BY <1>2, <1>3, <1>6, <1>7, <1>8

\* ensure_idle finds every command of which something is promised.
LEMMA IdleMeans ==
    ASSUME WsInv, NEW w \in Ws, WsIdle(w)
    PROVE  ~agent[w].sc /\ (w \notin torn => ~agent[w].child)
BY DEF WsInv, AgentInv, WsIdle, PidDead

\* A step after which fewer workspaces are live, and markers are gone of idle ones.
LEMMA AgentShrinks ==
    ASSUME WsInv, UNCHANGED agent, NEW S, Unmarked(S), torn \subseteq torn',
           Unfinished' => Unfinished, session'.live \subseteq session.live,
           \A w \in S \cup (session.live \ session'.live) : w \in Ws => WsIdle(w) \/ w \notin session.live,
           wsOp' = NoOp \/ wsOp # NoOp \/ session.live \subseteq S
    PROVE  AgentInv' /\ running' \in [Ws -> SUBSET {"sc", "child"}]
<1>1. running' = [w \in Ws |-> IF w \in S THEN {} ELSE running[w]]
      /\ running \in [Ws -> SUBSET {"sc", "child"}]
  BY DEF Unmarked, WsInv, Typed
<1>2. ASSUME NEW w \in Ws, w \in S \/ w \notin session'.live
      PROVE  ~agent[w].sc /\ (w \notin torn' => ~agent[w].child)
  <2>1. CASE w \notin session.live
    BY <2>1 DEF WsInv, AgentInv
  <2>2. CASE w \in session.live
    BY <2>2, <1>2, IdleMeans
  <2> QED BY <2>1, <2>2
<1>3. ASSUME NEW w \in Ws
      PROVE  /\ (agent[w].sc => "sc" \in running[w] /\ w \in session.live)'
             /\ (agent[w].child /\ w \notin torn =>
                    w \in session.live /\ (agent[w].sc \/ "child" \in running[w]))'
             /\ (w \in session.live /\ (wsOp # NoOp \/ Unfinished) =>
                    ~agent[w].sc /\ (w \notin torn => ~agent[w].child))'
  <2>1. CASE w \in S \/ w \notin session'.live
    BY <2>1, <1>2
  <2>2. CASE w \notin S /\ w \in session'.live
    BY <2>2, <1>1 DEF WsInv, AgentInv
  <2> QED BY <2>1, <2>2
<1> QED BY <1>1, <1>3 DEF AgentInv

LEMMA AbandonHolds ==
    ASSUME WsInv, NEW S \in SUBSET Ws, Abandon(S)
    PROVE  WsInv'
<1>1. /\ wsOp = NoOp /\ SessionOpen /\ S \subseteq session.live /\ \A w \in S : WsIdle(w)
      /\ UNCHANGED <<commits, present, landing, spare, agent, wsOp, mine, edits, hostEdits, kills, torn>>
      /\ UNCHANGED storeFrame
  BY DEF Abandon, CanAbandon, storeFrame, wsHist
<1>2. CASE S = session.live
  <2>1. /\ session' = NoSession /\ checkout' = [w \in Ws |-> NoDir]
        /\ running' = [w \in Ws |-> IF w \in Ws THEN {} ELSE running[w]]
    BY <1>2 DEF Abandon, RemoveSession, Unmarked
  <2>2. ASSUME NEW w \in Ws PROVE ~agent[w].sc /\ (w \notin torn' => ~agent[w].child)
    <3>1. CASE w \in S
      BY <3>1, <1>1, IdleMeans
    <3>2. CASE w \notin S
      BY <3>2, <1>1, <1>2 DEF WsInv, AgentInv
    <3> QED BY <3>1, <3>2
  <2>3. running' \in [Ws -> SUBSET {"sc", "child"}] /\ checkout' \in [Ws -> Files \cup {NoDir}]
        /\ torn' \in SUBSET Ws
    BY <2>1, <1>1 DEF WsInv, Typed
  <2> QED BY <2>1, <2>2, <2>3, <1>1, NoSessionHolds
<1>3. CASE S # session.live
  <2>1. /\ checkout' = [w \in Ws |-> IF w \in S THEN NoDir ELSE checkout[w]]
        /\ session' = [session EXCEPT !.live = session.live \ S]
        /\ Unmarked(S)
    BY <1>3 DEF Abandon
  <2>2. session.live \ S \in SUBSET session.live /\ session.live \subseteq Ws
    BY DEF WsInv, Typed, SessionType
  <2>3. \A w \in (session.live \ S) \ torn' : checkout'[w] = checkout[w]
    BY <2>1, <2>2
  <2>4. SessionInv' /\ LiveInv' /\ session' \in SessionType /\ Unfinished' = Unfinished
        /\ session'.live = session.live \ S
    BY <2>1, <2>2, <2>3, <1>1, LiveShrinks
  <2>5. AgentInv' /\ running' \in [Ws -> SUBSET {"sc", "child"}]
    <3>1. \A w \in S \cup (session.live \ session'.live) : w \in Ws => WsIdle(w) \/ w \notin session.live
      BY <2>4, <1>1
    <3> QED BY <3>1, <2>1, <2>4, <1>1, AgentShrinks
  <2>6. checkout' \in [Ws -> Files \cup {NoDir}]
    BY <2>1 DEF WsInv, Typed
  <2>7. Typed'
    BY <2>4, <2>5, <2>6, <1>1 DEF WsInv, Typed, Ids
  <2>8. StoreInv' /\ SpareInv'
    BY <1>1, StoreUntouched, SpareSame
  <2> QED BY <2>4, <2>5, <2>7, <2>8, <1>1, LockFree DEF WsInv
<1> QED BY <1>2, <1>3

LEMMA HalfRemovedTyped ==
    ASSUME WsInv, NEW S \in SUBSET Ws, NEW f \in HalfRemoved(S)
    PROVE  f \in [Ws -> Files \cup {NoDir}] /\ \A w \in Ws \ S : f[w] = checkout[w]
<1>1. PICK D \in SUBSET S, v \in S, P \in SUBSET Path :
          f = [w \in Ws |-> IF w \in D \/ (v = w /\ P = Path) THEN NoDir
                            ELSE IF v = w THEN [p \in DOMAIN checkout[w] |-> IF p \in P THEN Gone ELSE checkout[w][p]]
                            ELSE checkout[w]]
  BY DEF HalfRemoved
<1>2. Gone \in FileContent
  BY DEF FileContent
<1>3. PICK gone : gone = Gone
  OBVIOUS
<1>4. ASSUME NEW w \in Ws
      PROVE  [p \in DOMAIN checkout[w] |-> IF p \in P THEN gone ELSE checkout[w][p]] \in Files \cup {NoDir}
  <2>1. CASE checkout[w] \in Files
    BY <2>1, <1>2, <1>3 DEF Files
  <2>2. CASE checkout[w] = NoDir
    <3>1. DOMAIN checkout[w] = {}
      BY <2>2 DEF NoDir
    <3>2. [p \in DOMAIN checkout[w] |-> IF p \in P THEN gone ELSE checkout[w][p]] = NoDir
      BY <3>1 DEF NoDir
    <3> QED BY <3>2
  <2> QED BY <2>1, <2>2 DEF WsInv, Typed
<1>5. ASSUME NEW w \in Ws PROVE f[w] \in Files \cup {NoDir}
  <2>1. checkout[w] \in Files \cup {NoDir}
    BY DEF WsInv, Typed
  <2>2. \/ f[w] = NoDir
        \/ f[w] = [p \in DOMAIN checkout[w] |-> IF p \in P THEN gone ELSE checkout[w][p]]
        \/ f[w] = checkout[w]
    BY <1>1, <1>3
  <2> QED BY <2>1, <2>2, <1>4
<1>6. \A w \in Ws \ S : f[w] = checkout[w]
  BY <1>1
<1>7. f = [w \in Ws |-> f[w]]
  BY <1>1
<1> QED BY <1>5, <1>6, <1>7

LEMMA AbandonKilledHolds ==
    ASSUME WsInv, NEW S \in SUBSET Ws, AbandonKilled(S), UNCHANGED <<storeFrame, mine, edits, hostEdits>>
    PROVE  WsInv'
<1>1. /\ wsOp = NoOp /\ wsOp' = NoOp /\ SessionOpen /\ S \subseteq session.live /\ \A w \in S : WsIdle(w)
      /\ checkout' \in HalfRemoved(S) /\ torn' = torn \cup S /\ Unmarked(S)
      /\ session' = session \/ (S = session.live /\ session' = NoSession)
      /\ UNCHANGED <<commits, present, landing, spare, agent, mine, edits, hostEdits>>
  <2>1. session' = session \/ (S = session.live /\ session' = NoSession)
    <3>1. session' \in {session} \cup IF S = session.live THEN {NoSession} ELSE {}
      BY DEF AbandonKilled
    <3> QED BY <3>1
  <2>2. checkout' \in HalfRemoved(S) /\ torn' = torn \cup S /\ Unmarked(S) /\ CanAbandon(S)
        /\ UNCHANGED <<agent, wsOp>>
    BY DEF AbandonKilled
  <2> QED BY <2>1, <2>2 DEF CanAbandon, storeFrame
<1>2. checkout' \in [Ws -> Files \cup {NoDir}] /\ (\A w \in Ws \ S : checkout'[w] = checkout[w])
      /\ torn' \in SUBSET Ws
  BY <1>1, HalfRemovedTyped DEF WsInv, Typed
<1>3. CASE session' = NoSession
  <2>1. ASSUME NEW w \in Ws PROVE ~agent[w].sc /\ (w \notin torn' => ~agent[w].child)
    <3>1. CASE w \in S
      BY <3>1, <1>1, IdleMeans
    <3>2. CASE w \notin S
      BY <3>2, <1>1, <1>3 DEF WsInv, AgentInv, SessionOpen
    <3> QED BY <3>1, <3>2
  <2>2. running' \in [Ws -> SUBSET {"sc", "child"}]
    BY <1>1 DEF Unmarked, WsInv, Typed
  <2> QED BY <2>1, <2>2, <1>1, <1>2, <1>3, NoSessionHolds
<1>4. CASE session' = session
  <2>1. session.live \in SUBSET session.live /\ session.live \subseteq Ws
        /\ session' = [session EXCEPT !.live = session.live]
    BY <1>4 DEF WsInv, Typed, SessionType
  <2>2. \A w \in session.live \ torn' : checkout'[w] = checkout[w]
    BY <1>1, <1>2, <2>1
  <2>3. SessionInv' /\ LiveInv' /\ session' \in SessionType /\ Unfinished' = Unfinished
        /\ session'.live = session.live
    BY <2>1, <2>2, <1>1, LiveShrinks
  <2>4. AgentInv' /\ running' \in [Ws -> SUBSET {"sc", "child"}]
    <3>1. \A w \in S \cup (session.live \ session'.live) : w \in Ws => WsIdle(w) \/ w \notin session.live
      BY <2>3, <1>1
    <3> QED BY <3>1, <2>3, <1>1, AgentShrinks
  <2>5. Typed'
    BY <2>3, <2>4, <1>1, <1>2, NoOpTyped DEF WsInv, Typed, Ids
  <2>6. StoreInv' /\ SpareInv'
    BY <1>1, StoreUntouched, SpareSame
  <2> QED BY <2>3, <2>4, <2>5, <2>6, <1>1, LockFree DEF WsInv
<1> QED BY <1>1, <1>3, <1>4

\* A step by which a command lets go of the lock, and nothing else.
LEMMA LetGo ==
    ASSUME WsInv, wsOp' = NoOp, torn' = torn,
           UNCHANGED <<storeFrame, session, checkout, running, agent, mine, edits, hostEdits>>
    PROVE  WsInv'
<1>1. StoreInv' /\ Grows /\ HistoryStays
  BY StoreUntouched
<1>2. Typed'
  BY NoOpTyped DEF storeFrame, WsInv, Typed, Ids
<1>3. SessionInv'
  BY <1>1, SessionSame DEF storeFrame, WsInv, SessionInv, PairOK
<1>4. LiveInv' /\ SpareInv'
  BY <1>1, LiveSame, SpareSame DEF storeFrame
<1>5. AgentInv'
  BY AgentSame DEF Unfinished
<1> QED BY <1>1, <1>2, <1>3, <1>4, <1>5, LockFree DEF WsInv

LEMMA KillHolds ==
    ASSUME WsInv, Kill
    PROVE  WsInv'
<1>1. UNCHANGED <<storeFrame, mine, edits, hostEdits>>
  BY DEF Kill
<1>2. CASE ForkKilled
  BY <1>1, <1>2, ForkKilledHolds
<1>3. CASE \E S \in SUBSET Ws : AbandonKilled(S)
  BY <1>1, <1>3, AbandonKilledHolds
<1>4. CASE wsOp' = NoOp /\ UNCHANGED <<session, checkout, running, agent, torn>>
  BY <1>1, <1>4, LetGo
<1>5. CASE \E w \in Ws :
             /\ agent[w].sc
             /\ agent' = [agent EXCEPT ![w].sc = FALSE]
             /\ torn' = IF agent[w].child /\ "child" \notin running[w] THEN torn \cup {w} ELSE torn
             /\ UNCHANGED <<session, checkout, running, wsOp>>
  BY <1>1, <1>5, RunKilledHolds
<1> QED BY <1>2, <1>3, <1>4, <1>5 DEF Kill

-----------------------------------------------------------------------------
(* Harvest                                                                 *)

LEMMA HarvestBeginsHolds ==
    ASSUME WsInv, HarvestBegins
    PROVE  WsInv'
<1>1. /\ SessionOpen /\ ~Unfinished /\ \A w \in session.live : WsIdle(w) /\ checkout[w] # NoDir
      /\ wsOp' = [NoOp EXCEPT !.kind = "harvest", !.at = "read", !.todo = session.live]
      /\ Unmarked(session.live) /\ UNCHANGED storeFrame
      /\ UNCHANGED <<commits, present, landing, spare, session, checkout, agent, mine, edits, hostEdits, torn>>
  BY DEF HarvestBegins, WsBegin, storeFrame, wsHist
<1>2. session.live \subseteq Ws
  BY DEF WsInv, Typed, SessionType
<1>3. /\ wsOp'.kind = "harvest" /\ wsOp'.at = "read" /\ wsOp'.todo = session.live
      /\ wsOp'.left = {} /\ wsOp' # NoOp
  BY <1>1 DEF NoOp
<1>4. wsOp' \in OpType
  BY <1>1, <1>2, NoOpTyped DEF NoOp, OpType
<1>5. StoreInv' /\ Grows /\ HistoryStays
  BY <1>1, StoreUntouched
<1>6. SessionInv' /\ LiveInv' /\ SpareInv'
  <2>1. SessionInv'
    BY <1>1, <1>5, SessionSame DEF WsInv, SessionInv, PairOK
  <2> QED BY <2>1, <1>1, <1>5, LiveSame, SpareSame
<1>7. AgentInv' /\ running' \in [Ws -> SUBSET {"sc", "child"}]
  BY <1>1, AgentShrinks DEF Unfinished
<1>8. Typed'
  BY <1>1, <1>4, <1>7 DEF WsInv, Typed, Ids
<1>9. HarvestInv' /\ RefreshInv'
  BY <1>1, <1>3 DEF HarvestInv, RefreshInv, SessionOpen, Unfinished
<1>10. OpInv'
  <2>1. \A w \in session.live : checkout[w] \in Files
    BY <1>1, <1>2 DEF WsInv, Typed
  <2> QED BY <2>1, <1>1, <1>3 DEF OpInv
<1> QED BY <1>5, <1>6, <1>7, <1>8, <1>9, <1>10 DEF WsInv

\* The workspace the harvest is at.
LEMMA HarvestIsAt ==
    ASSUME WsInv, wsOp.kind = "harvest", wsOp.todo # {}
    PROVE  /\ Lowest(wsOp.todo) \in wsOp.todo /\ Lowest(wsOp.todo) \in Ws
           /\ wsOp.at # "teardown" => Lowest(wsOp.todo) \in session.live
           /\ \A w \in wsOp.todo : w # Lowest(wsOp.todo) => w \in session.live
<1>1. wsOp.todo \in SUBSET Ws /\ wsOp.todo \in SUBSET Nat
  BY WorkspaceAssumption DEF WsInv, Typed, OpType
<1>2. Lowest(wsOp.todo) \in wsOp.todo
  BY <1>1, LowestIn
<1> QED BY <1>1, <1>2 DEF WsInv, HarvestInv

\* What a step of a harvest leaves alone.
LEMMA HarvestGoes ==
    ASSUME WsInv, wsOp.kind = "harvest", wsOp' \in OpType, wsOp'.kind = "harvest",
           wsOp'.left = wsOp.left, wsOp'.pairs = wsOp.pairs,
           UNCHANGED <<session, checkout, running, agent, mine, edits, hostEdits, torn>>,
           commits' \in Seq([files : Files, anc : SUBSET Nat]), Len(commits)' \in 1..MaxCommits,
           present' \in SUBSET Ids', spare' \in SUBSET [ws : Ws, id : Nat], landing' \in Nat,
           Grows, HistoryStays, present \subseteq present', StoreInv', SpareInv', HarvestInv'
    PROVE  WsInv'
<1>1. Typed'
  BY DEF WsInv, Typed
<1>2. SessionInv'
  BY SessionSame DEF WsInv, SessionInv, PairOK
<1>3. LiveInv'
  BY LiveSame
<1>4. wsOp # NoOp /\ wsOp' # NoOp
  BY DEF NoOp
<1>5. AgentInv' /\ OpInv' /\ RefreshInv'
  <2>1. AgentInv'
    BY <1>4, AgentSame
  <2>2. OpInv'
    BY <1>4 DEF WsInv, OpInv
  <2> QED BY <2>1, <2>2 DEF RefreshInv
<1> QED BY <1>1, <1>2, <1>3, <1>5 DEF WsInv

\* The store as it is.
LEMMA StoreKept ==
    ASSUME WsInv, UNCHANGED <<commits, present>>
    PROVE  /\ commits' \in Seq([files : Files, anc : SUBSET Nat]) /\ Len(commits)' \in 1..MaxCommits
           /\ present' \in SUBSET Ids' /\ Grows /\ present \subseteq present' /\ HistoryInv'
BY DEF WsInv, Typed, StoreInv, HistoryInv, Ids, Grows, Anc

LEMMA HarvestRejectsHolds ==
    ASSUME WsInv, HarvestRejects
    PROVE  WsInv'
<1>1. /\ wsOp.kind = "harvest" /\ wsOp.at = "read" /\ wsOp.todo # {}
      /\ wsOp' = [wsOp EXCEPT !.todo = wsOp.todo \ {Lowest(wsOp.todo)}]
      /\ UNCHANGED storeFrame
      /\ UNCHANGED <<commits, present, landing, spare, session, checkout, running, agent, mine, edits, hostEdits, torn>>
  BY DEF HarvestRejects, WsAt, storeFrame, runFrame, wsHist
<1>2. wsOp \in OpType
  BY DEF WsInv, Typed
<1>3. PICK T : T = wsOp.todo \ {Lowest(wsOp.todo)}
  OBVIOUS
<1>4. /\ wsOp' \in OpType /\ wsOp'.kind = "harvest" /\ wsOp'.at = "read" /\ wsOp'.todo = T
      /\ wsOp'.left = wsOp.left /\ wsOp'.pairs = wsOp.pairs
  <2>1. T \in SUBSET Ws
    BY <1>2, <1>3 DEF OpType
  <2> QED BY <2>1, <1>1, <1>2, <1>3 DEF OpType
<1>5. HarvestInv'
  BY <1>1, <1>3, <1>4 DEF WsInv, HarvestInv, SessionOpen, Unfinished
<1>6. StoreInv' /\ HistoryStays /\ SpareInv'
  BY <1>1, StoreUntouched, SpareSame
<1>7. spare' \in SUBSET [ws : Ws, id : Nat] /\ landing' \in Nat
  BY <1>1 DEF WsInv, Typed
<1> QED BY <1>1, <1>4, <1>5, <1>6, <1>7, StoreKept, HarvestGoes

\* A workspace without changes has its edits in the history already.
LEMMA HarvestSkipsHolds ==
    ASSUME WsInv, HarvestSkips
    PROVE  WsInv'
<1>1. /\ wsOp.kind = "harvest" /\ wsOp.at = "read" /\ wsOp.todo # {} /\ ~Changed(Lowest(wsOp.todo))
      /\ wsOp' = [wsOp EXCEPT !.at = "resolve"]
      /\ UNCHANGED storeFrame
      /\ UNCHANGED <<commits, present, landing, spare, session, checkout, running, agent, mine, edits, hostEdits, torn>>
  BY DEF HarvestSkips, WsAt, WsGoto, storeFrame, runFrame, wsHist
<1>2. wsOp \in OpType
  BY DEF WsInv, Typed
<1>3. /\ wsOp' \in OpType /\ wsOp'.kind = "harvest" /\ wsOp'.at = "resolve" /\ wsOp'.todo = wsOp.todo
      /\ wsOp'.left = wsOp.left /\ wsOp'.pairs = wsOp.pairs
  BY <1>1, <1>2 DEF OpType
<1>4. PICK w : w = Lowest(wsOp.todo)
  OBVIOUS
<1>5. w \in session.live /\ wsOp.todo \subseteq session.live /\ SessionOpen /\ ~Unfinished
  BY <1>1, <1>4, HarvestIsAt DEF WsInv, HarvestInv
<1>6. w \notin torn => Saved(w)
  <2> SUFFICES ASSUME w \notin torn, NEW p \in DOMAIN mine[w]
               PROVE  InHistory(p, mine[w][p], landing)
    BY DEF Saved
  <2>1. checkout[w] = FilesOf(session.base) /\ session.base \in Anc(landing)
    BY <1>1, <1>4, <1>5 DEF Changed, WsInv, SessionInv
  <2>2. checkout[w][p] = mine[w][p] \/ InHistory(p, mine[w][p], landing)
    BY <1>5 DEF WsInv, LiveInv
  <2> QED BY <2>1, <2>2 DEF InHistory
<1>7. HarvestInv'
  <2>1. Lowest(wsOp.todo)' = w /\ Saved(w)' = Saved(w)
    BY <1>1, <1>3, <1>4 DEF Saved, InHistory, Anc, FilesOf
  <2>2. SessionOpen' /\ ~Unfinished'
    BY <1>1, <1>5 DEF SessionOpen, Unfinished
  <2> QED BY <2>1, <2>2, <1>1, <1>3, <1>5, <1>6 DEF HarvestInv
<1>8. StoreInv' /\ HistoryStays /\ SpareInv'
  BY <1>1, StoreUntouched, SpareSame
<1>9. spare' \in SUBSET [ws : Ws, id : Nat] /\ landing' \in Nat
  BY <1>1 DEF WsInv, Typed
<1> QED BY <1>1, <1>3, <1>7, <1>8, <1>9, StoreKept, HarvestGoes

LEMMA HarvestFailsHolds ==
    ASSUME WsInv, HarvestFails
    PROVE  WsInv'
<1>1. /\ wsOp' = NoOp /\ spare' \subseteq spare
      /\ UNCHANGED <<commits, present, landing, session, checkout, running, agent, mine, edits, hostEdits, torn>>
  BY DEF HarvestFails, runFrame, wsHist
<1>2. Typed'
  BY <1>1, NoOpTyped DEF WsInv, Typed, Ids
<1>3. Grows /\ HistoryStays /\ StoreInv'
  BY <1>1 DEF WsInv, Grows, HistoryStays, StoreInv, HistoryInv, Ids, Anc
<1>4. SessionInv'
  BY <1>1, <1>3, SessionSame DEF WsInv, SessionInv, PairOK
<1>5. LiveInv' /\ SpareInv' /\ AgentInv'
  BY <1>1, <1>3, LiveSame, SpareSame, AgentSame DEF Unfinished
<1> QED BY <1>1, <1>2, <1>3, <1>4, <1>5, LockFree DEF WsInv

LEMMA HarvestUnbranchesHolds ==
    ASSUME WsInv, HarvestUnbranches
    PROVE  WsInv'
<1>1. /\ wsOp.kind = "harvest" /\ wsOp.at = "unbranch"
      /\ wsOp' = [wsOp EXCEPT !.at = "resolve"] /\ spare' \subseteq spare
      /\ UNCHANGED <<commits, present, landing, session, checkout, running, agent, mine, edits, hostEdits, torn>>
  BY DEF HarvestUnbranches, WsAt, WsGoto, runFrame, wsHist
<1>2. wsOp \in OpType
  BY DEF WsInv, Typed
<1>3. /\ wsOp' \in OpType /\ wsOp'.kind = "harvest" /\ wsOp'.at = "resolve" /\ wsOp'.todo = wsOp.todo
      /\ wsOp'.left = wsOp.left /\ wsOp'.pairs = wsOp.pairs
  BY <1>1, <1>2 DEF OpType
<1>4. PICK w : w = Lowest(wsOp.todo)
  OBVIOUS
<1>5. wsOp.todo # {} /\ w \in session.live /\ wsOp.todo \subseteq session.live /\ SessionOpen /\ ~Unfinished
      /\ wsOp.id \in Anc(landing) /\ (w \notin torn => checkout[w] = FilesOf(wsOp.id))
  BY <1>1, <1>4, HarvestIsAt DEF WsInv, HarvestInv
<1>6. w \notin torn => Saved(w)'
  <2> SUFFICES ASSUME w \notin torn, NEW p \in DOMAIN mine[w]
               PROVE  InHistory(p, mine[w][p], landing)
    BY <1>1 DEF Saved, InHistory, Anc, FilesOf
  <2>1. checkout[w][p] = mine[w][p] \/ InHistory(p, mine[w][p], landing)
    BY <1>5 DEF WsInv, LiveInv
  <2> QED BY <2>1, <1>5 DEF InHistory
<1>7. HarvestInv'
  <2>1. Lowest(wsOp.todo)' = w
    BY <1>3, <1>4
  <2>2. SessionOpen' /\ ~Unfinished'
    BY <1>1, <1>5 DEF SessionOpen, Unfinished
  <2> QED BY <2>1, <2>2, <1>1, <1>3, <1>5, <1>6 DEF HarvestInv
<1>8. Grows /\ HistoryStays /\ StoreInv'
  BY <1>1 DEF WsInv, Grows, HistoryStays, StoreInv, HistoryInv, Ids, Anc
<1>9. SpareInv'
  BY <1>1, <1>8, SpareSame
<1>10. spare' \in SUBSET [ws : Ws, id : Nat] /\ landing' \in Nat
  BY <1>1 DEF WsInv, Typed
<1> QED BY <1>1, <1>3, <1>7, <1>8, <1>9, <1>10, StoreKept, HarvestGoes

\* What the harvest commits differs from the base in the workspace's own edits only: no
\* refresh is unfinished.
LEMMA HarvestCommitsHolds ==
    ASSUME WsInv, HarvestCommits
    PROVE  WsInv'
<1>1. PICK w : w = Lowest(wsOp.todo)
  OBVIOUS
<1>2. PICK anc : anc = Anc(session.base)
  OBVIOUS
<1>3. /\ wsOp.kind = "harvest" /\ wsOp.at = "read" /\ wsOp.todo # {} /\ Changed(w)
      /\ UNCHANGED <<landing, session, checkout, running, agent, mine, edits, hostEdits, torn>>
  BY <1>1 DEF HarvestCommits, WsAt, runFrame, wsHist
<1>4. PICK id \in {NewId} \cup {c \in present : FilesOf(c) = checkout[w] /\ Anc(c) = anc \cup {c}} :
          /\ IF id = NewId THEN MakeSnap(checkout[w], anc) ELSE UNCHANGED <<commits, present>>
          /\ spare' = spare \cup {[ws |-> w, id |-> id]}
          /\ wsOp' = [wsOp EXCEPT !.at = "merge", !.id = id]
  BY <1>1, <1>2 DEF HarvestCommits
<1>5. w \in Ws /\ w \in session.live /\ wsOp.todo \subseteq session.live /\ SessionOpen /\ ~Unfinished
  BY <1>1, <1>3, HarvestIsAt DEF WsInv, HarvestInv
<1>6. checkout[w] \in Files /\ checkout[w] # FilesOf(session.base)
  <2>1. wsOp # NoOp
    BY <1>3 DEF NoOp
  <2> QED BY <2>1, <1>3, <1>5 DEF WsInv, OpInv, Changed
<1>7. present \subseteq Ids /\ session.base \in Ids /\ Ids \subseteq Nat /\ NewId \notin Ids /\ NewId \in Nat
  BY <1>5, IdsAre DEF WsInv, SessionInv, Typed
<1>8. anc \in SUBSET Ids /\ (\A a \in anc : Anc(a) \subseteq anc) /\ session.base \in anc
      /\ \A a \in anc : a <= session.base
  <2>1. Anc(session.base) \subseteq 1..session.base /\ session.base \in Anc(session.base)
        /\ \A a \in Anc(session.base) : Anc(a) \subseteq Anc(session.base)
    BY <1>7 DEF WsInv, StoreInv, HistoryInv
  <2>2. 1..session.base \subseteq Ids
    BY <1>7, IdsAre DEF WsInv
  <2> QED BY <2>1, <2>2, <1>2
<1>9. /\ commits' \in Seq([files : Files, anc : SUBSET Nat]) /\ Len(commits)' \in 1..MaxCommits
      /\ present' \in SUBSET Ids' /\ Grows /\ present \subseteq present' /\ HistoryInv'
      /\ id \in present' /\ commits'[id].files = checkout[w] /\ commits'[id].anc = anc \cup {id}
      /\ id \notin anc /\ id \in Nat
  <2>1. CASE id = NewId
    <3>1. MakeSnap(checkout[w], anc)
      BY <2>1, <1>4
    <3>2. PICK new : new = [files |-> checkout[w], anc |-> anc \cup {NewId}]
      OBVIOUS
    <3>3. /\ commits' \in Seq([files : Files, anc : SUBSET Nat]) /\ Len(commits)' \in 1..MaxCommits
          /\ present' \in SUBSET Ids' /\ Grows /\ present \subseteq present' /\ HistoryInv'
          /\ NewId \in present' /\ commits'[NewId] = new
      BY <3>1, <3>2, <1>6, <1>8, MadeSnap DEF WsInv, StoreInv
    <3>4. new.files = checkout[w] /\ new.anc = anc \cup {NewId}
      BY <3>2
    <3>5. NewId \notin anc /\ NewId \in Nat
      BY <1>7, <1>8
    <3> QED BY <2>1, <3>3, <3>4, <3>5
  <2>2. CASE id # NewId
    <3>1. id \in present /\ FilesOf(id) = checkout[w] /\ Anc(id) = anc \cup {id} /\ UNCHANGED <<commits, present>>
      BY <2>2, <1>4
    <3>2. id \notin anc
      <4> SUFFICES ASSUME id \in anc PROVE FALSE
        OBVIOUS
      <4>1. Anc(id) = anc /\ session.base \in Anc(id)
        BY <3>1, <1>8
      <4>2. Anc(id) \subseteq 1..id /\ id \in Nat
        BY <3>1, <1>7 DEF WsInv, StoreInv, HistoryInv
      <4>3. session.base \in 1..id /\ id <= session.base /\ session.base \in Nat
        BY <4>1, <4>2, <1>7, <1>8
      <4>4. id = session.base
        <5>0. PICK b : b = session.base
          OBVIOUS
        <5>1. b \in 1..id /\ id <= b /\ b \in Nat /\ id \in Nat
          BY <5>0, <4>2, <4>3
        <5>2. b = id
          BY <5>1
        <5> QED BY <5>0, <5>2
      <4> QED BY <4>4, <3>1, <1>6
    <3> QED BY <3>1, <3>2, <1>7, StoreKept DEF FilesOf, Anc
  <2> QED BY <2>1, <2>2
<1>10. wsOp \in OpType
  BY DEF WsInv, Typed
<1>11. /\ wsOp' \in OpType /\ wsOp'.kind = "harvest" /\ wsOp'.at = "merge" /\ wsOp'.todo = wsOp.todo
       /\ wsOp'.id = id /\ wsOp'.left = wsOp.left /\ wsOp'.pairs = wsOp.pairs
  BY <1>3, <1>4, <1>9, <1>10 DEF OpType
<1>12. HarvestInv'
  <2>1. Lowest(wsOp.todo)' = w /\ FilesOf(wsOp.id)' = checkout[w]
    BY <1>1, <1>9, <1>11 DEF FilesOf
  <2>2. SessionOpen' /\ ~Unfinished'
    BY <1>3, <1>5 DEF SessionOpen, Unfinished
  <2>3. [ws |-> w, id |-> id] \in spare'
    BY <1>4
  <2> QED BY <2>1, <2>2, <2>3, <1>3, <1>5, <1>9, <1>11 DEF HarvestInv
<1>13. HistoryStays
  <2>1. landing \in Ids
    BY <1>7 DEF WsInv, StoreInv
  <2> QED BY <2>1, <1>3, <1>9 DEF HistoryStays, Grows, Anc
<1>14. StoreInv'
  BY <1>3, <1>4, <1>9 DEF WsInv, StoreInv
<1>15. SpareInv'
  <2> SUFFICES ASSUME NEW s \in spare', s.ws \notin torn PROVE OwnCommit(s)'
    BY <1>3 DEF SpareInv
  <2>1. CASE s \in spare
    BY <2>1, <1>3, <1>9, CommitSame
  <2>2. CASE s = [ws |-> w, id |-> id]
    <3>1. s.ws = w /\ s.id = id
      BY <2>2
    <3>2. Own(w, checkout[w])
      BY <3>1, <1>5 DEF WsInv, LiveInv
    <3>3. commits'[session.base] = commits[session.base] /\ session.base \in Ids'
      BY <1>7, <1>9 DEF Grows, Ids
    <3>4. PICK b : b = session.base
      OBVIOUS
    <3>5. /\ b \in Ids' /\ s.id \notin commits'[b].anc /\ commits'[s.id].anc = commits'[b].anc \cup {s.id}
          /\ \A p \in Path : commits'[s.id].files[p] # commits'[b].files[p] => commits'[s.id].files[p].by = s.ws
      BY <3>1, <3>2, <3>3, <3>4, <1>2, <1>9 DEF Own, FilesOf, Anc
    <3> QED BY <3>5 DEF OwnCommit, FilesOf, Anc
  <2> QED BY <2>1, <2>2, <1>4
<1>16. spare' \in SUBSET [ws : Ws, id : Nat] /\ landing' \in Nat
  BY <1>3, <1>4, <1>5, <1>9 DEF WsInv, Typed
<1> QED BY <1>3, <1>9, <1>11, <1>12, <1>13, <1>14, <1>15, <1>16, HarvestGoes

LEMMA MergedTyped ==
    ASSUME NEW base \in Files, NEW ours \in Files, NEW theirs \in Files
    PROVE  Merged(base, ours, theirs) \in Files
BY DEF Merged, Files

\* After the merge the commit is in the landing branch's history, or its branch stays.
LEMMA HarvestMergesHolds ==
    ASSUME WsInv, HarvestMerges
    PROVE  WsInv'
<1>1. PICK c : c = wsOp.id
  OBVIOUS
<1>2. PICK w : w = Lowest(wsOp.todo)
  OBVIOUS
<1>3. /\ wsOp.kind = "harvest" /\ wsOp.at = "merge"
      /\ UNCHANGED <<spare, session, checkout, running, agent, mine, edits, hostEdits, torn>>
  BY DEF HarvestMerges, WsAt, runFrame, wsHist
<1>4. PICK files : files = Merged(FilesOf(session.base), FilesOf(landing), FilesOf(c))
  OBVIOUS
<1>5. \/ /\ c \in Anc(landing)
         /\ wsOp' = [wsOp EXCEPT !.at = "unbranch"] /\ UNCHANGED <<commits, present, landing>>
      \/ /\ landing \in Anc(c) /\ landing' = c
         /\ wsOp' = [wsOp EXCEPT !.at = "unbranch"] /\ UNCHANGED <<commits, present>>
      \/ /\ MakeSnap(files, Anc(landing) \cup Anc(c)) /\ landing' = NewId
         /\ wsOp' = [wsOp EXCEPT !.at = "unbranch"]
      \/ wsOp' = [wsOp EXCEPT !.at = "resolve"] /\ UNCHANGED <<commits, present, landing>>
  BY <1>1, <1>4 DEF HarvestMerges, WsGoto
<1>6. wsOp \in OpType /\ wsOp.todo # {} /\ SessionOpen /\ ~Unfinished
  BY <1>3 DEF WsInv, Typed, HarvestInv
<1>7. /\ w \in session.live /\ wsOp.todo \subseteq session.live /\ c \in present
      /\ (w \notin torn => checkout[w] = FilesOf(c)) /\ [ws |-> w, id |-> c] \in spare
  BY <1>1, <1>2, <1>3, <1>6, HarvestIsAt DEF WsInv, HarvestInv
<1>8. present \subseteq Ids /\ landing \in present /\ Ids \subseteq Nat
  BY IdsAre DEF WsInv, Typed, StoreInv
<1>9. \A d \in Ids : d \in Anc(d) /\ Anc(d) \subseteq Ids /\ (\A a \in Anc(d) : Anc(a) \subseteq Anc(d)) /\ FilesOf(d) \in Files
  <2>1. \A d \in Ids : d \in Anc(d) /\ Anc(d) \subseteq 1..d /\ \A a \in Anc(d) : Anc(a) \subseteq Anc(d)
    BY DEF WsInv, StoreInv, HistoryInv
  <2>2. \A d \in Ids : 1..d \subseteq Ids /\ FilesOf(d) \in Files
    BY IdsAre DEF WsInv
  <2> QED BY <2>1, <2>2
<1>10. PICK at \in {"unbranch", "resolve"} : wsOp' = [wsOp EXCEPT !.at = at]
  BY <1>5
<1>11. /\ wsOp' \in OpType /\ wsOp'.kind = "harvest" /\ wsOp'.at = at /\ wsOp'.todo = wsOp.todo
       /\ wsOp'.id = c /\ wsOp'.left = wsOp.left /\ wsOp'.pairs = wsOp.pairs
  BY <1>1, <1>3, <1>6, <1>10 DEF OpType
<1>12. /\ commits' \in Seq([files : Files, anc : SUBSET Nat]) /\ Len(commits)' \in 1..MaxCommits
       /\ present' \in SUBSET Ids' /\ Grows /\ present \subseteq present' /\ HistoryInv'
       /\ landing' \in present' /\ HistoryStays /\ landing' \in Nat
       /\ (at = "unbranch" => c \in commits'[landing'].anc)
       /\ (at = "resolve" => UNCHANGED <<commits, landing>>)
  <2>1. CASE UNCHANGED <<commits, present, landing>> /\ (at = "unbranch" => c \in Anc(landing))
    BY <2>1, <1>8, StoreKept DEF HistoryStays, Anc
  <2>2. CASE landing \in Anc(c) /\ landing' = c /\ at = "unbranch" /\ UNCHANGED <<commits, present>>
    BY <2>2, <1>7, <1>8, <1>9, StoreKept DEF HistoryStays, Anc
  <2>3. CASE MakeSnap(files, Anc(landing) \cup Anc(c)) /\ landing' = NewId /\ at = "unbranch"
    <3>1. session.base \in Ids
      BY <1>6, <1>8 DEF WsInv, SessionInv
    <3>2. files \in Files
      BY <3>1, <1>4, <1>7, <1>8, <1>9, MergedTyped
    <3>3. PICK anc : anc = Anc(landing) \cup Anc(c)
      OBVIOUS
    <3>4. anc \in SUBSET Ids /\ (\A a \in anc : Anc(a) \subseteq anc) /\ c \in anc
      BY <3>3, <1>7, <1>8, <1>9
    <3>5. MakeSnap(files, anc)
      BY <2>3, <3>3
    <3>6. /\ commits' \in Seq([files : Files, anc : SUBSET Nat]) /\ Len(commits)' \in 1..MaxCommits
          /\ present' \in SUBSET Ids' /\ Grows /\ present \subseteq present' /\ HistoryInv'
          /\ NewId \in present' /\ commits'[NewId] = [files |-> files, anc |-> anc \cup {NewId}]
      BY <3>2, <3>4, <3>5, MadeSnap DEF WsInv, StoreInv
    <3>7. NewId \in Nat
      BY IdsAre DEF WsInv
    <3> QED BY <2>3, <3>3, <3>4, <3>6, <3>7 DEF HistoryStays
  <2>4. at = "unbranch" <=> wsOp' = [wsOp EXCEPT !.at = "unbranch"]
    BY <1>11, <1>6, <1>10 DEF OpType
  <2>5. at = "resolve" <=> wsOp' = [wsOp EXCEPT !.at = "resolve"]
    BY <1>11, <1>6, <1>10 DEF OpType
  <2> QED BY <2>1, <2>2, <2>3, <2>4, <2>5, <1>5
<1>13. at = "resolve" /\ w \notin torn => Saved(w)'
  <2> SUFFICES ASSUME at = "resolve", w \notin torn, NEW p \in DOMAIN mine[w]
               PROVE  \E t \in {landing} \cup {s.id : s \in spare} : InHistory(p, mine[w][p], t)
    BY <1>3, <1>12 DEF Saved, InHistory, Anc, FilesOf
  <2>1. checkout[w][p] = mine[w][p] \/ InHistory(p, mine[w][p], landing)
    BY <1>7 DEF WsInv, LiveInv
  <2>2. c \in {s.id : s \in spare} /\ c \in Anc(c) /\ checkout[w] = FilesOf(c)
    BY <1>7, <1>8, <1>9
  <2> QED BY <2>1, <2>2 DEF InHistory
<1>14. HarvestInv'
  <2>1. Lowest(wsOp.todo)' = w /\ FilesOf(wsOp.id)' = FilesOf(c)
    <3>1. commits'[c] = commits[c]
      BY <1>7, <1>8, <1>12 DEF Grows
    <3> QED BY <3>1, <1>2, <1>11 DEF FilesOf
  <2>2. SessionOpen' /\ ~Unfinished'
    BY <1>3, <1>6 DEF SessionOpen, Unfinished
  <2>3. at = "unbranch" => c \in Anc(landing)'
    BY <1>12 DEF Anc
  <2> QED BY <2>1, <2>2, <2>3, <1>3, <1>6, <1>7, <1>10, <1>11, <1>12, <1>13 DEF HarvestInv
<1>15. StoreInv'
  BY <1>3, <1>12 DEF WsInv, StoreInv
<1>16. SpareInv'
  BY <1>3, <1>12, SpareSame
<1>17. spare' \in SUBSET [ws : Ws, id : Nat]
  BY <1>3 DEF WsInv, Typed
<1> QED BY <1>3, <1>11, <1>12, <1>14, <1>15, <1>16, <1>17, HarvestGoes

LEMMA HarvestResolvesHolds ==
    ASSUME WsInv, HarvestResolves
    PROVE  WsInv'
<1>1. PICK w : w = Lowest(wsOp.todo)
  OBVIOUS
<1>2. /\ wsOp.kind = "harvest" /\ wsOp.at = "resolve"
      /\ session' = [session EXCEPT !.live = session.live \ {w}]
      /\ wsOp' = [wsOp EXCEPT !.at = "teardown"]
      /\ UNCHANGED storeFrame
      /\ UNCHANGED <<commits, present, landing, spare, checkout, running, agent, mine, edits, hostEdits, torn>>
  BY <1>1 DEF HarvestResolves, WsAt, WsGoto, storeFrame, runFrame, wsHist
<1>3. wsOp \in OpType
  BY DEF WsInv, Typed
<1>4. /\ wsOp' \in OpType /\ wsOp'.kind = "harvest" /\ wsOp'.at = "teardown" /\ wsOp'.todo = wsOp.todo
      /\ wsOp'.left = wsOp.left /\ wsOp'.pairs = wsOp.pairs
  BY <1>2, <1>3 DEF OpType
<1>5. wsOp.todo # {} /\ w \in session.live /\ wsOp.todo \subseteq session.live /\ SessionOpen /\ ~Unfinished
  BY <1>1, <1>2, HarvestIsAt DEF WsInv, HarvestInv
<1>6. SessionInv' /\ LiveInv' /\ session' \in SessionType /\ Unfinished' = Unfinished
      /\ (SessionOpen => SessionOpen') /\ session'.live = session.live \ {w}
  <2>1. session.live \ {w} \in SUBSET session.live
    OBVIOUS
  <2> QED BY <2>1, <1>2, LiveShrinks
<1>7. Typed'
  BY <1>2, <1>4, <1>6 DEF WsInv, Typed, Ids
<1>8. HarvestInv'
  <2>1. Lowest(wsOp.todo)' = w
    BY <1>1, <1>4
  <2>2. wsOp.todo \subseteq session'.live \cup {w} /\ w \notin session'.live
    BY <1>5, <1>6
  <2> QED BY <2>1, <2>2, <1>4, <1>5, <1>6 DEF HarvestInv
<1>9. wsOp # NoOp
  BY <1>2 DEF NoOp
<1>10. AgentInv'
  <2>1. ~agent[w].sc /\ (w \notin torn => ~agent[w].child)
    BY <1>5, <1>9 DEF WsInv, AgentInv, Typed, SessionType
  <2> QED BY <2>1, <1>2, <1>6, <1>9 DEF WsInv, AgentInv
<1>11. RefreshInv' /\ OpInv'
  BY <1>2, <1>4, <1>6, <1>9 DEF RefreshInv, OpInv, WsInv, NoOp
<1>12. StoreInv' /\ SpareInv'
  BY <1>2, StoreUntouched, SpareSame
<1> QED BY <1>6, <1>7, <1>8, <1>10, <1>11, <1>12 DEF WsInv

LEMMA HarvestTearsDownHolds ==
    ASSUME WsInv, HarvestTearsDown
    PROVE  WsInv'
<1>1. PICK w : w = Lowest(wsOp.todo)
  OBVIOUS
<1>2. PICK T : T = wsOp.todo \ {w}
  OBVIOUS
<1>3. /\ wsOp.kind = "harvest" /\ wsOp.at = "teardown"
      /\ checkout' = [checkout EXCEPT ![w] = NoDir]
      /\ wsOp' = [wsOp EXCEPT !.at = "read", !.todo = T]
      /\ UNCHANGED storeFrame
      /\ UNCHANGED <<commits, present, landing, spare, session, running, agent, mine, edits, hostEdits, torn>>
  BY <1>1, <1>2 DEF HarvestTearsDown, WsAt, storeFrame, runFrame, wsHist
<1>4. wsOp \in OpType /\ session \in SessionType
  BY DEF WsInv, Typed
<1>5. /\ wsOp' \in OpType /\ wsOp'.kind = "harvest" /\ wsOp'.at = "read" /\ wsOp'.todo = T
      /\ wsOp'.left = wsOp.left /\ wsOp'.pairs = wsOp.pairs
  <2>1. T \in SUBSET Ws
    BY <1>2, <1>4 DEF OpType
  <2> QED BY <2>1, <1>3, <1>4 DEF OpType
<1>6. wsOp.todo # {} /\ w \notin session.live /\ T \subseteq session.live /\ SessionOpen /\ ~Unfinished
      /\ w \in Ws
  BY <1>1, <1>2, <1>3, HarvestIsAt DEF WsInv, HarvestInv
<1>7. checkout' \in [Ws -> Files \cup {NoDir}] /\ \A v \in Ws : v # w => checkout'[v] = checkout[v]
  BY <1>3, <1>6 DEF WsInv, Typed
<1>8. SessionInv' /\ LiveInv'
  <2>1. session.live \in SUBSET session.live /\ session' = [session EXCEPT !.live = session.live]
    BY <1>3, <1>4 DEF SessionType
  <2>2. \A v \in session.live \ torn' : checkout'[v] = checkout[v]
    BY <1>4, <1>6, <1>7 DEF SessionType
  <2> QED BY <2>1, <2>2, <1>3, LiveShrinks
<1>9. Typed'
  BY <1>3, <1>5, <1>7 DEF WsInv, Typed, Ids
<1>10. HarvestInv'
  <2>1. SessionOpen' /\ ~Unfinished'
    BY <1>3, <1>6 DEF SessionOpen, Unfinished
  <2> QED BY <2>1, <1>3, <1>5, <1>6 DEF HarvestInv
<1>11. wsOp # NoOp /\ wsOp' # NoOp
  <2>1. wsOp.kind = "harvest" /\ wsOp'.kind = "harvest" /\ NoOp.kind = "none"
    BY <1>3, <1>5 DEF NoOp
  <2> QED BY <2>1
<1>12. AgentInv'
  <2>1. UNCHANGED <<agent, running>> /\ session'.live = session.live /\ torn \subseteq torn'
    BY <1>3
  <2> QED BY <2>1, <1>11, AgentSame
<1>13. RefreshInv' /\ OpInv'
  <2>1. \A v \in session.live : checkout'[v] \in Files
    BY <1>4, <1>6, <1>7, <1>11 DEF WsInv, OpInv, SessionType
  <2> QED BY <2>1, <1>3, <1>5, <1>11 DEF RefreshInv, OpInv, WsInv
<1>14. StoreInv' /\ SpareInv'
  BY <1>3, StoreUntouched, SpareSame
<1> QED BY <1>8, <1>9, <1>10, <1>12, <1>13, <1>14 DEF WsInv

LEMMA HarvestEndsHolds ==
    ASSUME WsInv, HarvestEnds
    PROVE  WsInv'
<1>1. /\ wsOp' = NoOp
      /\ UNCHANGED <<commits, present, landing, spare, agent, mine, edits, hostEdits, torn>>
      /\ UNCHANGED storeFrame
  BY DEF HarvestEnds, storeFrame, wsHist
<1>2. CASE session.live = {}
  <2>1. /\ session' = NoSession /\ checkout' = [w \in Ws |-> NoDir]
        /\ running' = [w \in Ws |-> IF w \in Ws THEN {} ELSE running[w]]
    BY <1>2 DEF HarvestEnds, RemoveSession, Unmarked
  <2>2. \A w \in Ws : ~agent[w].sc /\ (w \notin torn' => ~agent[w].child)
    BY <1>1, <1>2 DEF WsInv, AgentInv
  <2>3. running' \in [Ws -> SUBSET {"sc", "child"}] /\ checkout' \in [Ws -> Files \cup {NoDir}]
        /\ torn' \in SUBSET Ws
    BY <2>1, <1>1 DEF WsInv, Typed
  <2> QED BY <2>1, <2>2, <2>3, <1>1, NoSessionHolds
<1>3. CASE session.live # {}
  BY <1>1, <1>3, LetGo DEF HarvestEnds
<1> QED BY <1>2, <1>3

-----------------------------------------------------------------------------
(* Refresh                                                                 *)

\* A refresh onto the landing branch has been through no workspace yet.
LEMMA OntoHolds ==
    ASSUME WsInv, wsOp' = RefreshOnto, UNCHANGED <<commits, present, landing, checkout>>,
           session'.live = session.live, SessionOpen', ~Unfinished',
           \A w \in session.live : checkout[w] \in Files
    PROVE  wsOp' \in OpType /\ wsOp' # NoOp /\ RefreshInv' /\ HarvestInv' /\ OpInv'
<1>1. session.live \in SUBSET Ws /\ landing \in Nat /\ landing \in present /\ landing \in Anc(landing)
  BY DEF WsInv, Typed, SessionType, StoreInv, HistoryInv
<1>2. PICK r : r = RefreshOnto
  OBVIOUS
<1>3. /\ r.kind = "refresh" /\ r.at = "commit" /\ r.todo = session.live /\ r.to = landing
      /\ r.left = {} /\ r.pairs = NoSession.pairs /\ r.resumed = FALSE /\ r.done = FALSE
  BY <1>2 DEF RefreshOnto, NoOp
<1>4. r \in OpType
  BY <1>1, <1>2, NoOpTyped DEF RefreshOnto, OpType, NoOp
<1>5. wsOp' = r /\ r # NoOp /\ DOMAIN r.pairs = {}
  <2>1. NoOp.kind = "none" /\ DOMAIN NoSession.pairs = {}
    BY DEF NoOp, NoSession
  <2> QED BY <2>1, <1>2, <1>3
<1>6. landing' \in present' /\ landing' \in Anc(landing)' /\ session'.live = session.live
  BY <1>1 DEF Anc
<1>7. RefreshInv'
  BY <1>3, <1>5, <1>6, <1>1 DEF RefreshInv
<1>8. OpInv'
  BY <1>3, <1>5 DEF OpInv
<1> QED BY <1>3, <1>4, <1>5, <1>7, <1>8 DEF HarvestInv

LEMMA RefreshBeginsHolds ==
    ASSUME WsInv, RefreshBegins
    PROVE  WsInv'
<1>1. /\ SessionOpen /\ ~Unfinished /\ \A w \in session.live : WsIdle(w) /\ checkout[w] # NoDir
      /\ wsOp' = RefreshOnto /\ Unmarked(session.live) /\ UNCHANGED storeFrame
      /\ UNCHANGED <<commits, present, landing, spare, session, checkout, agent, mine, edits, hostEdits, torn>>
  BY DEF RefreshBegins, storeFrame, wsHist
<1>2. SessionOpen' /\ ~Unfinished'
  BY <1>1 DEF SessionOpen, Unfinished
<1>3. wsOp' \in OpType /\ wsOp' # NoOp /\ RefreshInv' /\ HarvestInv' /\ OpInv'
  <2>1. \A w \in session.live : checkout[w] \in Files
    BY <1>1 DEF WsInv, Typed, SessionType
  <2> QED BY <2>1, <1>1, <1>2, OntoHolds
<1>4. StoreInv' /\ Grows /\ HistoryStays
  BY <1>1, StoreUntouched
<1>5. SessionInv' /\ LiveInv' /\ SpareInv'
  <2>1. SessionInv'
    BY <1>1, <1>4, SessionSame DEF WsInv, SessionInv, PairOK
  <2> QED BY <2>1, <1>1, <1>4, LiveSame, SpareSame
<1>6. AgentInv' /\ running' \in [Ws -> SUBSET {"sc", "child"}]
  BY <1>1, AgentShrinks DEF Unfinished
<1>7. Typed'
  BY <1>1, <1>3, <1>6 DEF WsInv, Typed, Ids
<1> QED BY <1>3, <1>4, <1>5, <1>6, <1>7 DEF WsInv

\* The refresh that was cut short recorded a pair for each live workspace.
LEMMA ResumeBeginsHolds ==
    ASSUME WsInv, ResumeBegins
    PROVE  WsInv'
<1>1. PICK pairs : pairs = [w \in session.live |-> session.pairs[w]]
  OBVIOUS
<1>2. /\ SessionOpen /\ Unfinished /\ \A w \in session.live : WsIdle(w) /\ checkout[w] # NoDir
      /\ wsOp' = [NoOp EXCEPT !.kind = "refresh", !.at = "commit", !.to = session.target, !.resumed = TRUE,
                              !.pairs = pairs]
      /\ Unmarked(session.live) /\ UNCHANGED storeFrame
      /\ UNCHANGED <<commits, present, landing, spare, session, checkout, agent, mine, edits, hostEdits, torn>>
  BY <1>1 DEF ResumeBegins, storeFrame, wsHist
<1>3. session \in SessionType /\ session.live \in SUBSET Ws /\ session.live \subseteq DOMAIN session.pairs
  BY <1>2 DEF WsInv, Typed, SessionType, SessionInv
<1>4. pairs \in Pairs /\ DOMAIN pairs = session.live /\ \A w \in session.live : pairs[w] = session.pairs[w]
  <2>1. PICK S \in SUBSET Ws : session.pairs \in [S -> Nat \X Nat]
    BY <1>3 DEF SessionType, Pairs
  <2>2. session.live \subseteq S
    BY <2>1, <1>3
  <2>3. pairs \in [session.live -> Nat \X Nat]
    BY <2>1, <2>2, <1>1
  <2> QED BY <2>3, <1>1, <1>3 DEF Pairs
<1>5. PICK r : r = [NoOp EXCEPT !.kind = "refresh", !.at = "commit", !.to = session.target, !.resumed = TRUE,
                                !.pairs = pairs]
  OBVIOUS
<1>6. /\ r.kind = "refresh" /\ r.at = "commit" /\ r.todo = {} /\ r.to = session.target
      /\ r.left = {} /\ r.pairs = pairs /\ r.resumed = TRUE /\ r.done = FALSE
  BY <1>5 DEF NoOp
<1>7. r \in OpType
  <2>1. session.target \in Nat
    BY <1>3 DEF SessionType
  <2> QED BY <2>1, <1>4, <1>5, NoOpTyped DEF OpType, NoOp
<1>8. wsOp' = r /\ r # NoOp
  <2>1. NoOp.kind = "none"
    BY DEF NoOp
  <2> QED BY <2>1, <1>2, <1>5, <1>6
<1>9. StoreInv' /\ Grows /\ HistoryStays
  BY <1>2, StoreUntouched
<1>10. SessionInv' /\ LiveInv' /\ SpareInv'
  <2>1. SessionInv'
    BY <1>2, <1>9, SessionSame DEF WsInv, SessionInv, PairOK
  <2> QED BY <2>1, <1>2, <1>9, LiveSame, SpareSame
<1>11. AgentInv' /\ running' \in [Ws -> SUBSET {"sc", "child"}]
  <2>1. Unfinished' => Unfinished
    BY <1>2
  <2>2. \A w \in session.live \cup (session.live \ session'.live) : w \in Ws => WsIdle(w) \/ w \notin session.live
    BY <1>2
  <2> QED BY <2>1, <2>2, <1>2, AgentShrinks
<1>12. Typed'
  BY <1>2, <1>7, <1>8, <1>11 DEF WsInv, Typed, Ids
<1>13. ASSUME NEW w \in session.live
       PROVE  PairOK(pairs[w], session.target)' /\ (w \notin torn => Own(w, FilesOf(pairs[w][1])))'
  <2>1. PICK pair : pair = session.pairs[w]
    OBVIOUS
  <2>2. PairOK(pair, session.target) /\ (w \notin torn => Own(w, FilesOf(pair[1])))
    BY <2>1, <1>2, <1>3 DEF WsInv, SessionInv, LiveInv
  <2>3. PairOK(pair, session.target)' /\ (w \notin torn => Own(w, FilesOf(pair[1])))'
    BY <2>2, <1>2 DEF PairOK, Merged, FilesOf, Own
  <2>4. pairs[w] = pair
    BY <2>1, <1>4
  <2> QED BY <2>3, <2>4
<1>14. RefreshInv'
  <2>1. SessionOpen' /\ Unfinished' /\ (session.target \in Anc(landing))' /\ session'.target \in present'
    BY <1>2 DEF WsInv, SessionInv, SessionOpen, Unfinished, Anc
  <2>2. \A w \in DOMAIN pairs : PairOK(pairs[w], r.to)' /\ (w \notin torn => Own(w, FilesOf(pairs[w][1])))'
    <3>1. r.to = session.target /\ UNCHANGED session
      BY <1>2, <1>6
    <3> QED BY <3>1, <1>4, <1>13 DEF PairOK, Merged, FilesOf
  <2>3. UNCHANGED session
    BY <1>2
  <2> QED BY <2>1, <2>2, <2>3, <1>4, <1>6, <1>8 DEF RefreshInv, PairOK, Own
<1>15. HarvestInv' /\ OpInv'
  <2>1. \A w \in session.live : checkout[w] \in Files
    BY <1>2, <1>3 DEF WsInv, Typed
  <2>2. UNCHANGED <<session, checkout>>
    BY <1>2
  <2> QED BY <2>1, <2>2, <1>6, <1>8 DEF OpInv, HarvestInv
<1> QED BY <1>9, <1>10, <1>11, <1>12, <1>14, <1>15 DEF WsInv

\* What planning a workspace leaves alone.
LEMMA RefreshGoes ==
    ASSUME WsInv, wsOp.kind = "refresh", wsOp' \in OpType, wsOp'.kind = "refresh",
           wsOp'.left = wsOp.left, DOMAIN wsOp.pairs \subseteq DOMAIN wsOp'.pairs,
           UNCHANGED <<landing, spare, session, checkout, running, agent, mine, edits, hostEdits, torn>>,
           commits' \in Seq([files : Files, anc : SUBSET Nat]), Len(commits)' \in 1..MaxCommits,
           present' \in SUBSET Ids', Grows, present \subseteq present', HistoryInv', RefreshInv'
    PROVE  WsInv'
<1>1. HistoryStays
  BY DEF HistoryStays, Grows, Anc, WsInv, Typed, StoreInv
<1>2. Typed'
  BY DEF WsInv, Typed
<1>3. StoreInv'
  BY DEF WsInv, StoreInv
<1>4. SessionInv'
  BY <1>1, SessionSame DEF WsInv, SessionInv, PairOK
<1>5. LiveInv' /\ SpareInv'
  BY <1>1, LiveSame, SpareSame
<1>6. wsOp # NoOp /\ wsOp' # NoOp
  BY DEF NoOp
<1>7. AgentInv'
  BY <1>6, AgentSame
<1>8. OpInv' /\ HarvestInv'
  BY <1>6 DEF WsInv, OpInv, HarvestInv
<1> QED BY <1>2, <1>3, <1>4, <1>5, <1>7, <1>8 DEF WsInv

\* The workspace a refresh is at, while it plans.
LEMMA RefreshIsAt ==
    ASSUME WsInv, wsOp.kind = "refresh", wsOp.todo # {}
    PROVE  /\ Lowest(wsOp.todo) \in wsOp.todo /\ Lowest(wsOp.todo) \in session.live
           /\ Lowest(wsOp.todo) \in Ws /\ checkout[Lowest(wsOp.todo)] \in Files
           /\ SessionOpen /\ ~Unfinished /\ ~wsOp.resumed
           /\ session.base \in Ids /\ wsOp.to \in Ids /\ present \subseteq Ids
<1>1. wsOp.todo \in SUBSET Ws /\ wsOp.todo \in SUBSET Nat /\ wsOp.todo \subseteq session.live
  BY WorkspaceAssumption DEF WsInv, Typed, OpType, RefreshInv
<1>2. Lowest(wsOp.todo) \in wsOp.todo
  BY <1>1, LowestIn
<1>3. wsOp # NoOp
  BY DEF NoOp
<1>4. checkout[Lowest(wsOp.todo)] \in Files
  BY <1>1, <1>2, <1>3 DEF WsInv, OpInv
<1>5. SessionOpen /\ ~Unfinished /\ ~wsOp.resumed /\ wsOp.to \in present
  BY DEF WsInv, RefreshInv
<1> QED BY <1>1, <1>2, <1>4, <1>5 DEF WsInv, SessionInv, Typed

\* What was planned stays so while the store grows.
LEMMA PairKept ==
    ASSUME WsInv, wsOp.kind = "refresh", ~Unfinished, NEW v \in DOMAIN wsOp.pairs,
           NEW pair, pair = wsOp.pairs[v], NEW to, to = wsOp.to,
           Grows, present \subseteq present', UNCHANGED <<session, checkout>>
    PROVE  /\ PairOK(pair, to)'
           /\ v \notin torn => Own(v, FilesOf(pair[1]))'
           /\ ~wsOp.done /\ v \notin torn => checkout[v] = FilesOf(pair[1])'
<1>1. /\ session.base \in Ids /\ to \in Ids /\ present \subseteq Ids
      /\ PairOK(pair, to) /\ (v \notin torn => Own(v, FilesOf(pair[1])))
      /\ ~wsOp.done /\ v \notin torn => checkout[v] = FilesOf(pair[1])
  BY DEF WsInv, RefreshInv, SessionInv, Typed
<1>2. pair[1] \in Ids /\ pair[1] \in present' /\ pair[2] \in present'
  BY <1>1 DEF PairOK
<1>3. PairOK(pair, to)'
  BY <1>1, <1>2, PairSame
<1>4. FilesOf(pair[1])' = FilesOf(pair[1]) /\ FilesOf(session.base)' = FilesOf(session.base)
  BY <1>1, <1>2 DEF Grows, FilesOf
<1> QED BY <1>1, <1>3, <1>4 DEF Own

\* A workspace is planned: the pair of its commit and of what replaying that gives.
LEMMA PairedHolds ==
    ASSUME WsInv, wsOp.kind = "refresh", wsOp.todo # {},
           NEW w, w = Lowest(wsOp.todo), NEW cand \in present', NEW result \in present',
           Paired(w, cand, result), UNCHANGED <<landing, session, checkout, torn>>,
           Grows, present \subseteq present', present' \in SUBSET Ids', Ids' \in SUBSET Nat,
           PairOK(<<cand, result>>, wsOp.to)',
           w \notin torn => Own(w, FilesOf(cand))' /\ checkout[w] = FilesOf(cand)'
    PROVE  /\ wsOp' \in OpType /\ wsOp'.kind = "refresh" /\ wsOp'.left = wsOp.left
           /\ DOMAIN wsOp.pairs \subseteq DOMAIN wsOp'.pairs /\ RefreshInv'
<1>1. PICK T : T = wsOp.todo \ {w}
  OBVIOUS
<1>2. PICK pairs : pairs = [v \in DOMAIN wsOp.pairs \cup {w} |-> IF v = w THEN <<cand, result>> ELSE wsOp.pairs[v]]
  OBVIOUS
<1>3. wsOp' = [wsOp EXCEPT !.at = "commit", !.todo = T, !.pairs = pairs]
  BY <1>1, <1>2 DEF Paired
<1>4. wsOp \in OpType /\ wsOp.todo \in SUBSET Ws /\ wsOp.pairs \in Pairs
  BY DEF WsInv, Typed, OpType
<1>5. /\ w \in wsOp.todo /\ w \in session.live /\ w \in Ws
      /\ SessionOpen /\ ~Unfinished /\ ~wsOp.resumed
      /\ session.base \in Ids /\ wsOp.to \in Ids /\ present \subseteq Ids
  BY RefreshIsAt
<1>6. cand \in Nat /\ result \in Nat
  OBVIOUS
<1>7. pairs \in Pairs
  <2>1. PICK S \in SUBSET Ws : wsOp.pairs \in [S -> Nat \X Nat]
    BY <1>4 DEF Pairs
  <2>2. PICK pair \in Nat \X Nat : pair = <<cand, result>>
    BY <1>6
  <2>3. pairs = [v \in S \cup {w} |-> IF v = w THEN pair ELSE wsOp.pairs[v]]
    BY <2>1, <2>2, <1>2
  <2>4. pairs \in [S \cup {w} -> Nat \X Nat] /\ S \cup {w} \in SUBSET Ws
    BY <2>1, <2>3, <1>5
  <2> QED BY <2>4 DEF Pairs
<1>8. /\ wsOp' \in OpType /\ wsOp'.kind = "refresh" /\ wsOp'.at = "commit" /\ wsOp'.todo = T
      /\ wsOp'.left = wsOp.left /\ wsOp'.pairs = pairs /\ wsOp'.to = wsOp.to
      /\ wsOp'.resumed = wsOp.resumed /\ wsOp'.done = wsOp.done
  <2>1. T \in SUBSET Ws
    BY <1>1, <1>4
  <2> QED BY <2>1, <1>3, <1>4, <1>7 DEF OpType
<1>9. /\ DOMAIN pairs = DOMAIN wsOp.pairs \cup {w} /\ pairs[w] = <<cand, result>>
      /\ \A v \in DOMAIN wsOp.pairs : v # w => pairs[v] = wsOp.pairs[v]
  BY <1>2
<1>10. w \notin DOMAIN wsOp.pairs /\ DOMAIN wsOp.pairs = session.live \ wsOp.todo /\ wsOp.todo \subseteq session.live
  BY <1>5 DEF WsInv, RefreshInv
<1>11. ASSUME NEW v \in DOMAIN wsOp.pairs
       PROVE  /\ PairOK(wsOp.pairs[v], wsOp.to)' /\ pairs[v] = wsOp.pairs[v]
              /\ v \notin torn => Own(v, FilesOf(pairs[v][1]))'
              /\ ~wsOp.done /\ v \notin torn => checkout[v] = FilesOf(pairs[v][1])'
  <2>1. PICK pair : pair = wsOp.pairs[v]
    OBVIOUS
  <2>2. PICK to : to = wsOp.to
    OBVIOUS
  <2>3. /\ PairOK(pair, to)' /\ (v \notin torn => Own(v, FilesOf(pair[1]))')
        /\ ~wsOp.done /\ v \notin torn => checkout[v] = FilesOf(pair[1])'
    BY <2>1, <2>2, <1>5, PairKept
  <2>4. pairs[v] = pair
    BY <2>1, <1>9, <1>10
  <2> QED BY <2>1, <2>2, <2>3, <2>4, <1>8
<1>12. PICK new : new = <<cand, result>>
  OBVIOUS
<1>13. PairOK(new, wsOp.to)' /\ (w \notin torn => Own(w, FilesOf(new[1]))' /\ checkout[w] = FilesOf(new[1])')
  BY <1>12
<1>14. \A v \in DOMAIN pairs :
          /\ PairOK(pairs[v], wsOp.to)' /\ (v \notin torn => Own(v, FilesOf(pairs[v][1]))')
          /\ ~wsOp.done /\ v \notin torn => checkout[v] = FilesOf(pairs[v][1])'
  BY <1>8, <1>9, <1>10, <1>11, <1>12, <1>13
<1>15. RefreshInv'
  <2>1. SessionOpen' /\ ~Unfinished' /\ wsOp.to \in present' /\ wsOp.to \in Anc(landing)'
    <3>1. wsOp.to \in present /\ wsOp.to \in Anc(landing) /\ landing \in Ids
      BY <1>5 DEF WsInv, RefreshInv, StoreInv
    <3> QED BY <3>1, <1>5 DEF SessionOpen, Unfinished, Grows, Anc
  <2>2. T \subseteq session.live /\ DOMAIN pairs = session.live \ T
    BY <1>1, <1>5, <1>9, <1>10
  <2>3. wsOp'.at = "commit" /\ ~wsOp'.resumed /\ ~wsOp'.done
    <3>1. ~wsOp.done
      BY <1>5 DEF WsInv, RefreshInv
    <3> QED BY <3>1, <1>5, <1>8
  <2>4. \A v \in DOMAIN pairs \ torn : ~wsOp.done => checkout[v] = FilesOf(pairs[v][1])'
    BY <1>14
  <2> QED BY <2>1, <2>2, <2>3, <2>4, <1>8, <1>14 DEF RefreshInv
<1> QED BY <1>8, <1>9, <1>15

LEMMA RefreshCommitsHolds ==
    ASSUME WsInv, RefreshCommits
    PROVE  WsInv'
<1>1. PICK w : w = Lowest(wsOp.todo)
  OBVIOUS
<1>2. /\ wsOp.kind = "refresh" /\ wsOp.at = "commit" /\ wsOp.todo # {}
      /\ UNCHANGED <<landing, spare, session, checkout, running, agent, mine, edits, hostEdits, torn>>
  BY DEF RefreshCommits, WsAt, runFrame, wsHist
<1>3. /\ w \in wsOp.todo /\ w \in session.live /\ w \in Ws /\ checkout[w] \in Files
      /\ SessionOpen /\ ~Unfinished /\ ~wsOp.resumed
      /\ session.base \in Ids /\ wsOp.to \in Ids /\ present \subseteq Ids
  BY <1>1, <1>2, RefreshIsAt
<1>4. CASE Changed(w)
  <2>1. PICK files : files = checkout[w]
    OBVIOUS
  <2>2. PICK anc : anc = Anc(session.base)
    OBVIOUS
  <2>3. PICK id : id = NewId
    OBVIOUS
  <2>4. MakeSnap(files, anc) /\ wsOp' = [wsOp EXCEPT !.at = "replay", !.id = id]
    BY <1>1, <1>4, <2>1, <2>2, <2>3 DEF RefreshCommits
  <2>5. anc \in SUBSET Ids /\ \A a \in anc : Anc(a) \subseteq anc
    <3>1. Anc(session.base) \subseteq 1..session.base /\ \A a \in Anc(session.base) : Anc(a) \subseteq Anc(session.base)
      BY <1>3 DEF WsInv, StoreInv, HistoryInv
    <3>2. 1..session.base \subseteq Ids
      BY <1>3, IdsAre DEF WsInv
    <3> QED BY <3>1, <3>2, <2>2
  <2>6. PICK new : new = [files |-> files, anc |-> anc \cup {NewId}]
    OBVIOUS
  <2>7. /\ commits' \in Seq([files : Files, anc : SUBSET Nat]) /\ Len(commits)' \in 1..MaxCommits
        /\ present' \in SUBSET Ids' /\ Grows /\ present \subseteq present' /\ HistoryInv'
        /\ id \in present' /\ commits'[id] = new
    BY <1>3, <2>1, <2>3, <2>4, <2>5, <2>6, MadeSnap DEF WsInv, StoreInv
  <2>8. new.files = files /\ id \in Nat
    BY <2>3, <2>6, IdsAre DEF WsInv
  <2>9. wsOp \in OpType
    BY DEF WsInv, Typed
  <2>10. /\ wsOp' \in OpType /\ wsOp'.kind = "refresh" /\ wsOp'.at = "replay" /\ wsOp'.todo = wsOp.todo
         /\ wsOp'.id = id /\ wsOp'.to = wsOp.to /\ wsOp'.pairs = wsOp.pairs /\ wsOp'.left = wsOp.left
         /\ wsOp'.resumed = wsOp.resumed /\ wsOp'.done = wsOp.done
    BY <1>2, <2>4, <2>8, <2>9 DEF OpType
  <2>11. ASSUME NEW v \in DOMAIN wsOp.pairs
         PROVE  /\ PairOK(wsOp.pairs[v], wsOp.to)'
                /\ v \notin torn => Own(v, FilesOf(wsOp.pairs[v][1]))'
                /\ ~wsOp.done /\ v \notin torn => checkout[v] = FilesOf(wsOp.pairs[v][1])'
    <3>1. PICK pair : pair = wsOp.pairs[v]
      OBVIOUS
    <3>2. PICK to : to = wsOp.to
      OBVIOUS
    <3>3. /\ PairOK(pair, to)' /\ (v \notin torn => Own(v, FilesOf(pair[1]))')
          /\ ~wsOp.done /\ v \notin torn => checkout[v] = FilesOf(pair[1])'
      BY <3>1, <3>2, <1>2, <1>3, <2>7, PairKept
    <3> QED BY <3>1, <3>2, <3>3, <2>10
  <2>12. RefreshInv'
    <3>1. SessionOpen' /\ ~Unfinished' /\ wsOp.to \in present' /\ wsOp.to \in Anc(landing)'
      <4>1. wsOp.to \in present /\ wsOp.to \in Anc(landing) /\ landing \in Ids
        BY <1>2, <1>3 DEF WsInv, RefreshInv, StoreInv
      <4> QED BY <4>1, <1>2, <1>3, <2>7 DEF SessionOpen, Unfinished, Grows, Anc
    <3>2. wsOp.todo \subseteq session.live /\ DOMAIN wsOp.pairs = session.live \ wsOp.todo
      BY <1>2 DEF WsInv, RefreshInv
    <3>3. Lowest(wsOp.todo)' = w /\ checkout[w] = FilesOf(id)'
      BY <1>1, <2>1, <2>7, <2>8, <2>10 DEF FilesOf
    <3>4. FilesOf(wsOp.id)' = FilesOf(id)'
      BY <2>10 DEF FilesOf
    <3>5. ~wsOp.done
      BY <1>2 DEF WsInv, RefreshInv
    <3> QED BY <3>1, <3>2, <3>3, <3>4, <3>5, <1>2, <1>3, <2>7, <2>10, <2>11 DEF RefreshInv
  <2> QED BY <1>2, <2>7, <2>10, <2>12, RefreshGoes
<1>5. CASE ~Changed(w)
  <2>1. Paired(w, session.base, wsOp.to) /\ UNCHANGED <<commits, present>>
    BY <1>1, <1>5 DEF RefreshCommits
  <2>2. /\ commits' \in Seq([files : Files, anc : SUBSET Nat]) /\ Len(commits)' \in 1..MaxCommits
        /\ present' \in SUBSET Ids' /\ Grows /\ present \subseteq present' /\ HistoryInv'
    BY <2>1, StoreKept
  <2>3. session.base \in present /\ wsOp.to \in present
    BY <1>2, <1>3 DEF WsInv, SessionInv, RefreshInv
  <2>4. FilesOf(session.base) \in Files /\ FilesOf(wsOp.to) \in Files
    BY <1>3, IdsAre DEF WsInv
  <2>5. PICK base, to : base = session.base /\ to = wsOp.to
    OBVIOUS
  <2>6. PairOK(<<base, to>>, to)
    <3>1. Merged(FilesOf(base), FilesOf(to), FilesOf(base)) = FilesOf(to)
      BY <2>4, <2>5 DEF Merged, Files
    <3> QED BY <3>1, <2>3, <2>5 DEF PairOK
  <2>7. PairOK(<<base, to>>, to)'
    BY <2>1, <2>6, <1>2 DEF PairOK, Merged, FilesOf
  <2>8. w \notin torn => Own(w, FilesOf(base))' /\ checkout[w] = FilesOf(base)'
    BY <2>1, <2>5, <1>2, <1>5 DEF Own, FilesOf, Changed
  <2>9. PairOK(<<base, to>>, wsOp.to)'
    <3>1. wsOp'.to = wsOp.to
      BY <2>1 DEF Paired, WsInv, Typed, OpType
    <3>2. PICK pair : pair = <<base, to>>
      OBVIOUS
    <3>3. PairOK(pair, to)'
      BY <3>2, <2>7
    <3>4. PairOK(pair, wsOp.to)'
      BY <3>1, <3>3, <2>5
    <3> QED BY <3>2, <3>4
  <2>10. Ids' \in SUBSET Nat
    BY <2>1, IdsAre DEF Ids, WsInv
  <2>11. Paired(w, base, to) /\ base \in present' /\ to \in present'
    BY <2>1, <2>2, <2>3, <2>5
  <2>12. /\ wsOp' \in OpType /\ wsOp'.kind = "refresh" /\ wsOp'.left = wsOp.left
         /\ DOMAIN wsOp.pairs \subseteq DOMAIN wsOp'.pairs /\ RefreshInv'
    BY <1>1, <1>2, <2>2, <2>8, <2>9, <2>10, <2>11, PairedHolds
  <2> QED BY <1>2, <2>2, <2>12, RefreshGoes
<1> QED BY <1>4, <1>5

LEMMA RefreshReplaysHolds ==
    ASSUME WsInv, RefreshReplays
    PROVE  WsInv'
<1>1. PICK w, id, to, base : w = Lowest(wsOp.todo) /\ id = wsOp.id /\ to = wsOp.to /\ base = session.base
  OBVIOUS
<1>2. PICK files : files = Merged(FilesOf(base), FilesOf(to), FilesOf(id))
  OBVIOUS
<1>3. /\ wsOp.kind = "refresh" /\ wsOp.at = "replay"
      /\ IF files = FilesOf(to) THEN Paired(w, id, to) /\ UNCHANGED <<commits, present>>
         ELSE Paired(w, id, NewId) /\ MakeSnap(files, Anc(to))
      /\ UNCHANGED <<landing, spare, session, checkout, running, agent, mine, edits, hostEdits, torn>>
  BY <1>1, <1>2 DEF RefreshReplays, WsAt, runFrame, wsHist
<1>4. wsOp.todo # {} /\ id \in present /\ (w \notin torn => checkout[w] = FilesOf(id))
  BY <1>1, <1>3 DEF WsInv, RefreshInv
<1>5. /\ w \in session.live /\ ~Unfinished
      /\ base \in Ids /\ to \in Ids /\ id \in Ids /\ present \subseteq Ids /\ to \in present
  <2>1. to \in present
    BY <1>1, <1>3 DEF WsInv, RefreshInv
  <2> QED BY <2>1, <1>1, <1>3, <1>4, RefreshIsAt
<1>6. FilesOf(base) \in Files /\ FilesOf(to) \in Files /\ FilesOf(id) \in Files /\ files \in Files
  <2>1. FilesOf(base) \in Files /\ FilesOf(to) \in Files /\ FilesOf(id) \in Files
    BY <1>5, IdsAre DEF WsInv
  <2> QED BY <2>1, <1>2, MergedTyped
<1>7. PICK result : /\ Paired(w, id, result) /\ result = IF files = FilesOf(to) THEN to ELSE NewId
  BY <1>3
<1>8. /\ commits' \in Seq([files : Files, anc : SUBSET Nat]) /\ Len(commits)' \in 1..MaxCommits
      /\ present' \in SUBSET Ids' /\ Grows /\ present \subseteq present' /\ HistoryInv'
      /\ result \in present' /\ commits'[result].files = files
  <2>1. CASE files = FilesOf(to)
    <3>1. result = to /\ UNCHANGED <<commits, present>>
      BY <2>1, <1>3, <1>7
    <3> QED BY <3>1, <2>1, <1>5, StoreKept DEF FilesOf
  <2>2. CASE files # FilesOf(to)
    <3>1. PICK anc : anc = Anc(to)
      OBVIOUS
    <3>2. MakeSnap(files, anc) /\ result = NewId
      BY <2>2, <3>1, <1>3, <1>7
    <3>3. anc \in SUBSET Ids /\ \A a \in anc : Anc(a) \subseteq anc
      <4>1. Anc(to) \subseteq 1..to /\ \A a \in Anc(to) : Anc(a) \subseteq Anc(to)
        BY <1>5 DEF WsInv, StoreInv, HistoryInv
      <4>2. 1..to \subseteq Ids
        BY <1>5, IdsAre DEF WsInv
      <4> QED BY <4>1, <4>2, <3>1
    <3>4. PICK new : new = [files |-> files, anc |-> anc \cup {NewId}]
      OBVIOUS
    <3>5. /\ commits' \in Seq([files : Files, anc : SUBSET Nat]) /\ Len(commits)' \in 1..MaxCommits
          /\ present' \in SUBSET Ids' /\ Grows /\ present \subseteq present' /\ HistoryInv'
          /\ NewId \in present' /\ commits'[NewId] = new
      BY <3>2, <3>3, <3>4, <1>6, MadeSnap DEF WsInv, StoreInv
    <3>6. new.files = files
      BY <3>4
    <3> QED BY <3>2, <3>5, <3>6
  <2> QED BY <2>1, <2>2
<1>9. \A c \in {base, to, id} : FilesOf(c)' = FilesOf(c)
  BY <1>5, <1>8 DEF Grows, FilesOf
<1>10. PICK pair : pair = <<id, result>>
  OBVIOUS
<1>11. PairOK(pair, to)'
  <2>1. FilesOf(result)' = files
    BY <1>8 DEF FilesOf
  <2>2. pair[1] = id /\ pair[2] = result
    BY <1>10
  <2>3. pair[1] \in present' /\ pair[2] \in present'
    BY <2>2, <1>4, <1>8
  <2>4. FilesOf(pair[2])' = Merged(FilesOf(session.base)', FilesOf(to)', FilesOf(pair[1])')
    <3>1. FilesOf(session.base)' = FilesOf(base)
      BY <1>1, <1>3, <1>9 DEF FilesOf
    <3>2. FilesOf(pair[1])' = FilesOf(id) /\ FilesOf(to)' = FilesOf(to) /\ FilesOf(pair[2])' = files
      BY <2>1, <2>2, <1>9
    <3> QED BY <3>1, <3>2, <1>2
  <2> QED BY <2>3, <2>4 DEF PairOK, Merged
<1>12. PairOK(<<id, result>>, wsOp.to)'
  <2>1. wsOp'.to = to
    BY <1>1, <1>7 DEF Paired, WsInv, Typed, OpType
  <2>2. PairOK(pair, wsOp.to)'
    BY <2>1, <1>11
  <2> QED BY <2>2, <1>10
<1>13. w \notin torn => Own(w, FilesOf(id))' /\ checkout[w] = FilesOf(id)'
  <2> SUFFICES ASSUME w \notin torn PROVE Own(w, FilesOf(id))' /\ checkout[w] = FilesOf(id)'
    OBVIOUS
  <2>1. Own(w, checkout[w]) /\ checkout[w] = FilesOf(id)
    BY <1>4, <1>5 DEF WsInv, LiveInv
  <2>2. FilesOf(session.base)' = FilesOf(session.base) /\ FilesOf(id)' = FilesOf(id)
    BY <1>1, <1>3, <1>9 DEF FilesOf
  <2> QED BY <2>1, <2>2 DEF Own
<1>14. Ids' \in SUBSET Nat
  <2>1. Ids' = 1..Len(commits')
    BY <1>8, LenProperties DEF Ids
  <2> QED BY <2>1
<1>15. UNCHANGED <<landing, session, checkout, torn>> /\ id \in present'
  BY <1>3, <1>4, <1>8
<1>16. /\ wsOp' \in OpType /\ wsOp'.kind = "refresh" /\ wsOp'.left = wsOp.left
       /\ DOMAIN wsOp.pairs \subseteq DOMAIN wsOp'.pairs /\ RefreshInv'
  BY <1>1, <1>3, <1>4, <1>7, <1>8, <1>12, <1>13, <1>14, <1>15, PairedHolds
<1> QED BY <1>3, <1>8, <1>16, RefreshGoes

LEMMA RefreshRefusesHolds ==
    ASSUME WsInv, RefreshRefuses
    PROVE  WsInv'
BY LetGo DEF RefreshRefuses, runFrame, wsHist

\* What the refresh has planned: each workspace's files are what it read or what it writes.
LEMMA PlansKnow ==
    ASSUME WsInv, wsOp.kind = "refresh", wsOp.todo = {}, NEW w \in session.live,
           NEW pair, pair = wsOp.pairs[w]
    PROVE  /\ w \in DOMAIN wsOp.pairs /\ PairOK(pair, wsOp.to)
           /\ pair[1] \in Ids /\ pair[2] \in Ids
           /\ checkout[w] \in Files
           /\ w \notin torn => /\ Own(w, FilesOf(pair[1]))
                               /\ \A p \in Path : checkout[w][p] \in {FilesOf(pair[1])[p], FilesOf(pair[2])[p]}
<1>1. /\ w \in DOMAIN wsOp.pairs /\ PairOK(pair, wsOp.to)
      /\ (w \notin torn => Own(w, FilesOf(pair[1])))
  BY DEF WsInv, RefreshInv
<1>2. pair[1] \in Ids /\ pair[2] \in Ids
  BY <1>1 DEF PairOK, WsInv, Typed
<1>3. checkout[w] \in Files
  <2>1. wsOp # NoOp
    BY DEF NoOp
  <2> QED BY <2>1 DEF WsInv, OpInv
<1>4. ASSUME w \notin torn, NEW p \in Path
      PROVE  checkout[w][p] \in {FilesOf(pair[1])[p], FilesOf(pair[2])[p]}
  <2>1. CASE Unfinished
    <3>1. session.pairs[w] = pair
      BY <2>1 DEF WsInv, RefreshInv
    <3> QED BY <3>1, <2>1, <1>4 DEF WsInv, LiveInv
  <2>2. CASE ~Unfinished
    <3>1. wsOp.at # "apply" /\ ~wsOp.resumed /\ ~wsOp.done
      BY <2>2 DEF WsInv, RefreshInv
    <3>2. checkout[w] = FilesOf(pair[1])
      BY <3>1, <1>1, <1>4 DEF WsInv, RefreshInv
    <3> QED BY <3>2
  <2> QED BY <2>1, <2>2
<1> QED BY <1>1, <1>2, <1>3, <1>4

\* The marker goes down when everything is planned; what need not be written is already there.
LEMMA RefreshMarksHolds ==
    ASSUME WsInv, RefreshMarks
    PROVE  WsInv'
<1>1. PICK planned : planned = {wp \in (DOMAIN wsOp.pairs) \X Path :
                                   /\ Cand(wp[1])[wp[2]] # Result(wp[1])[wp[2]]
                                   /\ checkout[wp[1]][wp[2]] # Result(wp[1])[wp[2]]}
  OBVIOUS
<1>2. /\ wsOp.kind = "refresh" /\ wsOp.at = "commit" /\ wsOp.todo = {}
      /\ session' = IF wsOp.resumed THEN session
                    ELSE [session EXCEPT !.target = wsOp.to, !.pairs = wsOp.pairs]
      /\ wsOp' = [wsOp EXCEPT !.at = "apply", !.left = planned]
      /\ UNCHANGED storeFrame
      /\ UNCHANGED <<commits, present, landing, spare, checkout, running, agent, mine, edits, hostEdits, torn>>
  BY <1>1 DEF RefreshMarks, WsAt, storeFrame, runFrame, wsHist
<1>3. wsOp \in OpType /\ session \in SessionType
  BY DEF WsInv, Typed
<1>4. SessionOpen /\ (Unfinished <=> wsOp.resumed) /\ DOMAIN wsOp.pairs = session.live
      /\ wsOp.to \in present /\ wsOp.to \in Anc(landing) /\ ~wsOp.done
      /\ session.base \in present /\ session.base \in Anc(landing)
  BY <1>2 DEF WsInv, RefreshInv, SessionInv
<1>5. /\ session' \in SessionType /\ session'.base = session.base /\ session'.live = session.live
      /\ session'.target = wsOp.to /\ session.live \subseteq DOMAIN session'.pairs
      /\ \A w \in session.live : session'.pairs[w] = wsOp.pairs[w]
  <2>1. CASE wsOp.resumed
    BY <2>1, <1>2, <1>3, <1>4 DEF WsInv, RefreshInv, SessionInv
  <2>2. CASE ~wsOp.resumed
    <3>1. session' = [session EXCEPT !.target = wsOp.to, !.pairs = wsOp.pairs]
      BY <2>2, <1>2
    <3>2. wsOp.to \in Nat /\ wsOp.pairs \in Pairs
      BY <1>3 DEF OpType
    <3>3. /\ session' \in SessionType /\ session'.base = session.base /\ session'.live = session.live
          /\ session'.target = wsOp.to /\ session'.pairs = wsOp.pairs
      BY <3>1, <3>2, <1>3 DEF SessionType
    <3> QED BY <3>3, <1>4
  <2> QED BY <2>1, <2>2
<1>6. planned \in SUBSET (Ws \X Path) /\ planned \subseteq (DOMAIN wsOp.pairs) \X Path
  <2>1. session.live \subseteq Ws
    BY <1>3 DEF SessionType
  <2> QED BY <2>1, <1>1, <1>4
<1>7. /\ wsOp' \in OpType /\ wsOp'.kind = "refresh" /\ wsOp'.at = "apply" /\ wsOp'.todo = {}
      /\ wsOp'.left = planned /\ wsOp'.pairs = wsOp.pairs /\ wsOp'.to = wsOp.to
      /\ wsOp'.resumed = wsOp.resumed /\ wsOp'.done = wsOp.done
  BY <1>2, <1>3, <1>6 DEF OpType
<1>8. SessionOpen' /\ Unfinished'
  <2>1. wsOp.to # 0
    BY <1>4, IdsAre DEF WsInv, Typed
  <2> QED BY <2>1, <1>5 DEF SessionOpen, Unfinished, NoSession
<1>9. \A c : FilesOf(c)' = FilesOf(c) /\ Anc(c)' = Anc(c)
  BY <1>2 DEF FilesOf, Anc
<1>10. ASSUME NEW pair, NEW to, PairOK(pair, to) PROVE PairOK(pair, to)'
  BY <1>2, <1>5, <1>10 DEF PairOK, Merged, FilesOf
<1>11. SessionInv'
  <2>1. (session.base \in present)' /\ (session.base \in Anc(landing))'
        /\ (session.target \in present)' /\ (session.target \in Anc(landing))'
    BY <1>2, <1>4, <1>5, <1>9 DEF Anc
  <2>2. ASSUME NEW w \in DOMAIN session'.pairs PROVE PairOK(session.pairs[w], session.target)'
    <3>1. PICK pair, to : pair = session'.pairs[w] /\ to = session'.target
      OBVIOUS
    <3>2. PairOK(pair, to)
      <4>1. CASE wsOp.resumed
        BY <4>1, <3>1, <1>2, <1>4 DEF WsInv, SessionInv
      <4>2. CASE ~wsOp.resumed
        <5>1. session'.pairs = wsOp.pairs
          BY <4>2, <1>2, <1>3 DEF SessionType
        <5> QED BY <5>1, <3>1, <1>2, <1>5 DEF WsInv, RefreshInv
      <4> QED BY <4>1, <4>2
    <3>3. PairOK(pair, to)'
      BY <3>2, <1>10
    <3> QED BY <3>1, <3>3
  <2> QED BY <2>1, <2>2, <1>5 DEF SessionInv
<1>12. LiveInv'
  <2> SUFFICES ASSUME NEW w \in session.live \ torn
               PROVE  /\ (checkout[w] \in Files)'
                      /\ (LET cand == FilesOf(session.pairs[w][1])
                              result == FilesOf(session.pairs[w][2])
                          IN  Own(w, cand) /\ \A p \in Path : checkout[w][p] \in {cand[p], result[p]})'
                      /\ (\A p \in DOMAIN mine[w] :
                             checkout[w][p] = mine[w][p] \/ InHistory(p, mine[w][p], landing))'
    BY <1>2, <1>5, <1>8 DEF LiveInv
  <2>1. PICK pair : pair = wsOp.pairs[w]
    OBVIOUS
  <2>2. /\ checkout[w] \in Files /\ Own(w, FilesOf(pair[1]))
        /\ \A p \in Path : checkout[w][p] \in {FilesOf(pair[1])[p], FilesOf(pair[2])[p]}
    BY <2>1, <1>2, PlansKnow
  <2>3. session'.pairs[w] = pair /\ UNCHANGED <<commits, checkout, mine, landing>>
    BY <2>1, <1>2, <1>5
  <2>4. (LET cand == FilesOf(session.pairs[w][1])
             result == FilesOf(session.pairs[w][2])
         IN  Own(w, cand) /\ \A p \in Path : checkout[w][p] \in {cand[p], result[p]})'
    BY <2>2, <2>3, <1>5 DEF Own, FilesOf
  <2>5. (\A p \in DOMAIN mine[w] : checkout[w][p] = mine[w][p] \/ InHistory(p, mine[w][p], landing))'
    BY <2>3 DEF WsInv, LiveInv, InHistory, FilesOf, Anc
  <2> QED BY <2>2, <2>3, <2>4, <2>5
<1>13. RefreshInv'
  <2>1. SessionOpen' /\ (wsOp.to \in present)' /\ (wsOp.to \in Anc(landing))'
    BY <1>2, <1>4, <1>7, <1>8, <1>9 DEF Anc
  <2>2. ASSUME NEW w \in session.live
        PROVE  PairOK(wsOp.pairs[w], wsOp.to)' /\ (w \notin torn => Own(w, FilesOf(wsOp.pairs[w][1])))'
    <3>1. PICK pair, to : pair = wsOp.pairs[w] /\ to = wsOp.to
      OBVIOUS
    <3>2. PairOK(pair, to) /\ (w \notin torn => Own(w, FilesOf(pair[1])))
      BY <3>1, <1>2, PlansKnow
    <3>3. PairOK(pair, to)'
      BY <3>2, <1>10
    <3>4. (w \notin torn => Own(w, FilesOf(pair[1])))'
      BY <3>2, <1>2, <1>5 DEF Own, FilesOf
    <3>5. wsOp'.pairs[w] = pair /\ wsOp'.to = to
      BY <3>1, <1>7
    <3> QED BY <3>3, <3>4, <3>5
  <2>3. ASSUME ~wsOp.resumed, NEW w \in session.live \ torn
        PROVE  (checkout[w] = FilesOf(wsOp.pairs[w][1]))'
    <3>1. checkout[w] = FilesOf(wsOp.pairs[w][1])
      BY <2>3, <1>2, <1>4 DEF WsInv, RefreshInv
    <3> QED BY <3>1, <1>2, <1>7 DEF FilesOf
  <2>4. ASSUME NEW w \in session.live \ torn, NEW p \in Path, <<w, p>> \notin planned
        PROVE  (checkout[w][p] = Result(w)[p])'
    <3>1. PICK pair : pair = wsOp.pairs[w]
      OBVIOUS
    <3>2. checkout[w][p] \in {FilesOf(pair[1])[p], FilesOf(pair[2])[p]}
      BY <3>1, <1>2, PlansKnow
    <3>3. FilesOf(pair[1])[p] = FilesOf(pair[2])[p] \/ checkout[w][p] = FilesOf(pair[2])[p]
      <4>1. <<w, p>> \in (DOMAIN wsOp.pairs) \X Path
        BY <1>4
      <4>2. ~ (Cand(w)[p] # Result(w)[p] /\ checkout[w][p] # Result(w)[p])
        BY <4>1, <2>4, <1>1
      <4> QED BY <4>2, <3>1 DEF Cand, Result
    <3>4. checkout[w][p] = FilesOf(pair[2])[p]
      BY <3>2, <3>3
    <3>5. wsOp'.pairs[w] = pair /\ UNCHANGED <<commits, checkout>>
      BY <3>1, <1>2, <1>7
    <3> QED BY <3>4, <3>5 DEF Result, FilesOf
  <2>5. UNCHANGED torn /\ DOMAIN wsOp'.pairs = session.live
    BY <1>2, <1>4, <1>7
  <2> QED BY <2>1, <2>2, <2>3, <2>4, <2>5, <1>5, <1>7, <1>8 DEF RefreshInv
<1>14. wsOp # NoOp /\ wsOp' # NoOp
  <2>1. wsOp.kind = "refresh" /\ wsOp'.kind = "refresh" /\ NoOp.kind = "none"
    BY <1>2, <1>7 DEF NoOp
  <2> QED BY <2>1
<1>15. UNCHANGED <<agent, running, checkout, torn>>
  BY <1>2
<1>16. AgentInv'
  BY <1>5, <1>14, <1>15, AgentSame
<1>17. OpInv' /\ HarvestInv'
  <2>1. \A w \in session.live : checkout[w] \in Files
    BY <1>14 DEF WsInv, OpInv
  <2> QED BY <2>1, <1>5, <1>6, <1>7, <1>14, <1>15 DEF OpInv, HarvestInv
<1>18. Typed'
  BY <1>2, <1>5, <1>7 DEF WsInv, Typed, Ids
<1>19. StoreInv' /\ SpareInv'
  BY <1>2, StoreUntouched, SpareSame
<1> QED BY <1>11, <1>12, <1>13, <1>16, <1>17, <1>18, <1>19 DEF WsInv

\* One file is replaced: it was what the refresh read, and what was an edit is kept.
LEMMA RefreshReplacesHolds ==
    ASSUME WsInv, WsAt("refresh", "apply"), NEW wp \in wsOp.left, Unedited(wp[1], wp[2]),
           checkout' = [checkout EXCEPT ![wp[1]][wp[2]] = Result(wp[1])[wp[2]]],
           wsOp' = [wsOp EXCEPT !.left = @ \ {wp}, !.done = TRUE],
           UNCHANGED <<session, storeFrame, runFrame, wsHist>>
    PROVE  WsInv'
<1>1. /\ wsOp.kind = "refresh" /\ wsOp.at = "apply" /\ UNCHANGED storeFrame
      /\ UNCHANGED <<commits, present, landing, spare, session, running, agent, mine, edits, hostEdits, torn>>
  BY DEF WsAt, storeFrame, runFrame, wsHist
<1>2. wsOp \in OpType /\ session \in SessionType
  BY DEF WsInv, Typed
<1>3. Unfinished /\ wsOp.todo = {} /\ DOMAIN wsOp.pairs = session.live
  BY <1>1 DEF WsInv, RefreshInv
<1>4. PICK w \in session.live, p \in Path : wp = <<w, p>>
  BY <1>3 DEF WsInv, OpInv
<1>5. w \in Ws /\ session.live \subseteq Ws
  BY <1>2 DEF SessionType
<1>6. PICK pair : pair = wsOp.pairs[w]
  OBVIOUS
<1>7. PICK cand, result : cand = FilesOf(pair[1]) /\ result = FilesOf(pair[2])
  OBVIOUS
<1>8. /\ cand \in Files /\ result \in Files /\ checkout[w] \in Files /\ PairOK(pair, wsOp.to)
      /\ w \notin torn => Own(w, cand) /\ \A q \in Path : checkout[w][q] \in {cand[q], result[q]}
  BY <1>1, <1>3, <1>6, <1>7, PlansKnow, IdsAre DEF WsInv
<1>9. checkout' = [checkout EXCEPT ![w][p] = result[p]] /\ checkout \in [Ws -> Files \cup {NoDir}]
  BY <1>4, <1>6, <1>7 DEF Result, WsInv, Typed
<1>10. /\ checkout' \in [Ws -> Files \cup {NoDir}] /\ checkout'[w] \in Files
       /\ checkout'[w][p] = result[p] /\ \A q \in Path : q # p => checkout'[w][q] = checkout[w][q]
       /\ \A v \in Ws : v # w => checkout'[v] = checkout[v]
  <2>1. PICK files : files = [checkout[w] EXCEPT ![p] = result[p]]
    OBVIOUS
  <2>2. files \in Files /\ files[p] = result[p] /\ \A q \in Path : q # p => files[q] = checkout[w][q]
    BY <2>1, <1>8 DEF Files
  <2>3. checkout' = [checkout EXCEPT ![w] = files]
    BY <2>1, <1>9
  <2> QED BY <2>2, <2>3, <1>5, <1>9
<1>11. PICK left : left = wsOp.left \ {wp}
  OBVIOUS
<1>12. /\ wsOp' \in OpType /\ wsOp'.kind = "refresh" /\ wsOp'.at = "apply" /\ wsOp'.todo = {}
       /\ wsOp'.left = left /\ wsOp'.pairs = wsOp.pairs /\ wsOp'.to = wsOp.to
       /\ wsOp'.resumed = wsOp.resumed /\ wsOp'.done = TRUE
  <2>1. wsOp' = [wsOp EXCEPT !.left = left, !.done = TRUE]
    BY <1>11
  <2>2. left \in SUBSET (Ws \X Path)
    BY <1>2, <1>11 DEF OpType
  <2> QED BY <2>1, <2>2, <1>1, <1>2, <1>3 DEF OpType
<1>13. UNCHANGED <<commits, present, landing, session, mine, torn>> /\ UNCHANGED <<agent, running, torn>>
  BY <1>1
<1>14. StoreInv' /\ Grows /\ HistoryStays
  BY <1>1, StoreUntouched
<1>15. SessionInv' /\ SpareInv'
  <2>1. SessionInv'
    BY <1>13, <1>14, SessionSame DEF WsInv, SessionInv, PairOK
  <2> QED BY <2>1, <1>1, <1>14, SpareSame
<1>16. LiveInv'
  <2>1. ASSUME NEW v \in session.live \ torn
        PROVE  LET c == FilesOf(session.pairs[v][1])
                   r == FilesOf(session.pairs[v][2])
               IN  /\ checkout'[v] \in Files
                   /\ Own(v, c) /\ \A q \in Path : checkout'[v][q] \in {c[q], r[q]}
                   /\ \A q \in DOMAIN mine[v] :
                         checkout'[v][q] = mine[v][q] \/ InHistory(q, mine[v][q], landing)
    <3>1. CASE v # w
      BY <3>1, <2>1, <1>3, <1>5, <1>10 DEF WsInv, LiveInv
    <3>2. CASE v = w
      <4>1. session.pairs[v] = pair
        BY <3>2, <1>1, <1>3, <1>4, <1>6 DEF WsInv, RefreshInv
      <4>2. FilesOf(session.pairs[v][1]) = cand /\ FilesOf(session.pairs[v][2]) = result
        BY <4>1, <1>7
      <4>3. Own(v, cand) /\ \A q \in Path : checkout'[v][q] \in {cand[q], result[q]}
        BY <3>2, <2>1, <1>8, <1>10
      <4>4. ASSUME NEW q \in DOMAIN mine[v]
            PROVE  checkout'[v][q] = mine[v][q] \/ InHistory(q, mine[v][q], landing)
        <5>1. q \in Path
          BY <2>1, <1>5 DEF WsInv, Typed
        <5>2. checkout[v][q] = mine[v][q] \/ InHistory(q, mine[v][q], landing)
          BY <2>1 DEF WsInv, LiveInv
        <5>3. CASE q # p
          BY <5>1, <5>2, <5>3, <3>2, <1>10
        <5>4. CASE q = p /\ checkout[v][q] = mine[v][q]
          <6>1. checkout'[v][q] = result[q] /\ mine[v][q] \in {cand[q], result[q]}
            BY <5>1, <5>4, <3>2, <2>1, <1>8, <1>10
          <6>2. CASE cand[q] = FilesOf(session.base)[q]
            <7>1. session.base \in Anc(landing)
              BY <1>1 DEF WsInv, RefreshInv, SessionInv
            <7> QED BY <6>1, <6>2, <7>1 DEF InHistory
          <6>3. CASE cand[q] # FilesOf(session.base)[q]
            <7>1. result[q] = cand[q]
              BY <6>3, <5>1, <1>7, <1>8 DEF PairOK, Merged
            <7> QED BY <6>1, <7>1
          <6> QED BY <6>2, <6>3
        <5> QED BY <5>2, <5>3, <5>4
      <4> QED BY <3>2, <4>2, <4>3, <4>4, <1>10
    <3> QED BY <3>1, <3>2
  <2> SUFFICES ASSUME NEW v \in session.live \ torn
               PROVE  /\ (checkout[v] \in Files)'
                      /\ (LET c == FilesOf(session.pairs[v][1])
                              r == FilesOf(session.pairs[v][2])
                          IN  Own(v, c) /\ \A q \in Path : checkout[v][q] \in {c[q], r[q]})'
                      /\ (\A q \in DOMAIN mine[v] :
                             checkout[v][q] = mine[v][q] \/ InHistory(q, mine[v][q], landing))'
    BY <1>3, <1>13 DEF LiveInv, Unfinished
  <2>2. (LET c == FilesOf(session.pairs[v][1])
             r == FilesOf(session.pairs[v][2])
         IN  Own(v, c) /\ \A q \in Path : checkout[v][q] \in {c[q], r[q]})'
    <3>1. PICK known : known = session.pairs[v]
      OBVIOUS
    <3>2. /\ Own(v, FilesOf(known[1]))
          /\ \A q \in Path : checkout'[v][q] \in {FilesOf(known[1])[q], FilesOf(known[2])[q]}
      BY <2>1, <3>1
    <3>3. UNCHANGED <<commits, session>>
      BY <1>1
    <3>4. Own(v, FilesOf(known[1]))' /\ \A c : FilesOf(c)' = FilesOf(c)
      BY <3>2, <3>3 DEF Own, FilesOf
    <3>5. \A q \in Path : checkout'[v][q] \in {FilesOf(known[1])'[q], FilesOf(known[2])'[q]}
      BY <3>2, <3>4
    <3>6. session'.pairs[v] = known
      BY <3>1, <3>3
    <3> QED BY <3>4, <3>5, <3>6
  <2>3. (\A q \in DOMAIN mine[v] : checkout[v][q] = mine[v][q] \/ InHistory(q, mine[v][q], landing))'
    BY <2>1, <1>13 DEF InHistory, FilesOf, Anc
  <2> QED BY <2>1, <2>2, <2>3
<1>17. RefreshInv'
  <2>1. SessionOpen' /\ Unfinished' /\ (wsOp.to \in present)' /\ (wsOp.to \in Anc(landing))'
    BY <1>1, <1>3, <1>12, <1>13 DEF WsInv, RefreshInv, SessionOpen, Unfinished, Anc
  <2>2. ASSUME NEW v \in session.live
        PROVE  PairOK(wsOp.pairs[v], wsOp.to)' /\ (v \notin torn => Own(v, FilesOf(wsOp.pairs[v][1])))'
    <3>1. PICK known, to : known = wsOp.pairs[v] /\ to = wsOp.to
      OBVIOUS
    <3>2. PairOK(known, to) /\ (v \notin torn => Own(v, FilesOf(known[1])))
      BY <3>1, <1>1, <1>3 DEF WsInv, RefreshInv
    <3>3. UNCHANGED <<commits, present, session, torn>>
      BY <1>1
    <3>4. PairOK(known, to)' /\ (v \notin torn => Own(v, FilesOf(known[1])))'
      BY <3>2, <3>3 DEF PairOK, Own, Merged, FilesOf
    <3>5. wsOp'.pairs[v] = known /\ wsOp'.to = to
      BY <3>1, <1>12
    <3> QED BY <3>4, <3>5
  <2>3. ASSUME NEW v \in session.live \ torn, NEW q \in Path, <<v, q>> \notin left
        PROVE  (checkout[v][q] = Result(v)[q])'
    <3>1. Result(v)' = Result(v)
      BY <1>12, <1>13 DEF Result, FilesOf
    <3>2. CASE v = w /\ q = p
      BY <3>1, <3>2, <1>6, <1>7, <1>10 DEF Result
    <3>3. CASE ~ (v = w /\ q = p)
      <4>1. <<v, q>> \notin wsOp.left
        BY <3>3, <2>3, <1>4, <1>11
      <4>2. checkout[v][q] = Result(v)[q]
        BY <4>1, <1>1, <1>3 DEF WsInv, RefreshInv
      <4>3. checkout'[v][q] = checkout[v][q]
        BY <3>3, <1>5, <1>10
      <4> QED BY <4>2, <4>3, <3>1
    <3> QED BY <3>2, <3>3
  <2>4. /\ session'.target = wsOp.to /\ session'.live = session.live
        /\ \A v \in session.live : session'.pairs[v] = wsOp.pairs[v]
    BY <1>1, <1>3, <1>13 DEF WsInv, RefreshInv
  <2> QED BY <2>1, <2>2, <2>3, <2>4, <1>3, <1>12, <1>13 DEF RefreshInv
<1>18. wsOp # NoOp /\ wsOp' # NoOp
  <2>1. wsOp.kind = "refresh" /\ wsOp'.kind = "refresh" /\ NoOp.kind = "none"
    BY <1>1, <1>12 DEF NoOp
  <2> QED BY <2>1
<1>19. AgentInv'
  BY <1>13, <1>18, AgentSame
<1>20. OpInv' /\ HarvestInv'
  <2>1. \A v \in session.live : checkout'[v] \in Files
    BY <1>5, <1>10, <1>18 DEF WsInv, OpInv
  <2>2. left \subseteq (DOMAIN wsOp.pairs) \X Path
    BY <1>11 DEF WsInv, OpInv
  <2> QED BY <2>1, <2>2, <1>12, <1>13, <1>18 DEF OpInv, HarvestInv
<1>21. Typed'
  BY <1>1, <1>10, <1>12 DEF WsInv, Typed, Ids
<1> QED BY <1>14, <1>15, <1>16, <1>17, <1>19, <1>20, <1>21 DEF WsInv

\* The marker goes back.
LEMMA MarkerGone ==
    ASSUME NEW s \in SessionType, NEW none, none \in Pairs, NEW r, r = [s EXCEPT !.target = 0, !.pairs = none]
    PROVE  r \in SessionType /\ r.base = s.base /\ r.live = s.live /\ r.target = 0
BY DEF SessionType

\* The refresh is off; a fresh marker goes back, nothing having been written.
LEMMA RefreshStopsHolds ==
    ASSUME WsInv, WsAt("refresh", "apply"), wsOp' = NoOp,
           session' = IF wsOp.done \/ wsOp.resumed THEN session
                      ELSE [session EXCEPT !.target = 0, !.pairs = NoSession.pairs],
           UNCHANGED <<checkout, storeFrame, runFrame, wsHist>>
    PROVE  WsInv'
<1>1. /\ wsOp.kind = "refresh" /\ wsOp.at = "apply" /\ UNCHANGED storeFrame
      /\ UNCHANGED <<commits, present, landing, spare, checkout, running, agent, mine, edits, hostEdits, torn>>
  BY DEF WsAt, storeFrame, runFrame, wsHist
<1>2. CASE wsOp.done \/ wsOp.resumed
  BY <1>1, <1>2, LetGo
<1>3. CASE ~wsOp.done /\ ~wsOp.resumed
  <2>1. session' = [session EXCEPT !.target = 0, !.pairs = NoSession.pairs]
    BY <1>3
  <2>2. /\ session' \in SessionType /\ session'.base = session.base /\ session'.live = session.live
        /\ session'.target = 0
    <3>1. session \in SessionType
      BY DEF WsInv, Typed
    <3>2. NoSession.pairs \in Pairs
      BY NoOpTyped DEF SessionType
    <3>3. PICK s, none, r : s = session /\ none = NoSession.pairs /\ r = session'
      OBVIOUS
    <3>4. s \in SessionType /\ none \in Pairs /\ r = [s EXCEPT !.target = 0, !.pairs = none]
      BY <2>1, <3>1, <3>2, <3>3
    <3>5. r \in SessionType /\ r.base = s.base /\ r.live = s.live /\ r.target = 0
      BY <3>4, MarkerGone
    <3> QED BY <3>3, <3>5
  <2>3. ~Unfinished' /\ wsOp.todo = {} /\ SessionOpen
    BY <1>1, <2>2 DEF Unfinished, WsInv, RefreshInv
  <2>4. SessionInv'
    BY <2>2, <2>3, <1>1 DEF WsInv, SessionInv, Anc
  <2>5. LiveInv'
    <3> SUFFICES ASSUME NEW w \in session.live \ torn
                 PROVE  /\ (checkout[w] \in Files)' /\ Own(w, checkout[w])'
                        /\ (\A p \in DOMAIN mine[w] :
                               checkout[w][p] = mine[w][p] \/ InHistory(p, mine[w][p], landing))'
      BY <2>2, <2>3, <1>1 DEF LiveInv
    <3>1. PICK pair : pair = wsOp.pairs[w]
      OBVIOUS
    <3>2. w \in DOMAIN wsOp.pairs /\ Own(w, FilesOf(pair[1])) /\ checkout[w] \in Files
      BY <3>1, <1>1, <2>3, PlansKnow
    <3>3. checkout[w] = FilesOf(pair[1])
      BY <3>1, <3>2, <1>1, <1>3 DEF WsInv, RefreshInv
    <3>4. Own(w, checkout[w])'
      BY <3>2, <3>3, <2>2, <1>1 DEF Own, FilesOf
    <3>5. (\A p \in DOMAIN mine[w] : checkout[w][p] = mine[w][p] \/ InHistory(p, mine[w][p], landing))'
      BY <1>1 DEF WsInv, LiveInv, InHistory, FilesOf, Anc
    <3> QED BY <3>2, <3>4, <3>5, <1>1
  <2>6. Typed'
    BY <1>1, <2>2, NoOpTyped DEF WsInv, Typed, Ids
  <2>7. UNCHANGED <<agent, running>> /\ torn' = torn /\ wsOp # NoOp
    BY <1>1 DEF NoOp
  <2>8. AgentInv'
    BY <2>2, <2>7, AgentSame
  <2>9. StoreInv' /\ SpareInv'
    BY <1>1, StoreUntouched, SpareSame
  <2> QED BY <2>4, <2>5, <2>6, <2>8, <2>9, LockFree DEF WsInv
<1> QED BY <1>2, <1>3

LEMMA RefreshWritesHolds ==
    ASSUME WsInv, RefreshWrites
    PROVE  WsInv'
<1>1. WsAt("refresh", "apply") /\ UNCHANGED <<storeFrame, runFrame, wsHist>>
  BY DEF RefreshWrites
<1>2. PICK wp \in wsOp.left :
          \/ /\ Unedited(wp[1], wp[2])
             /\ checkout' = [checkout EXCEPT ![wp[1]][wp[2]] = Result(wp[1])[wp[2]]]
             /\ wsOp' = [wsOp EXCEPT !.left = @ \ {wp}, !.done = TRUE]
             /\ UNCHANGED session
          \/ /\ session' = IF wsOp.done \/ wsOp.resumed THEN session
                           ELSE [session EXCEPT !.target = 0, !.pairs = NoSession.pairs]
             /\ wsOp' = NoOp
             /\ UNCHANGED checkout
  BY DEF RefreshWrites
<1>3. CASE /\ Unedited(wp[1], wp[2])
           /\ checkout' = [checkout EXCEPT ![wp[1]][wp[2]] = Result(wp[1])[wp[2]]]
           /\ wsOp' = [wsOp EXCEPT !.left = @ \ {wp}, !.done = TRUE]
           /\ UNCHANGED session
  BY <1>1, <1>3, RefreshReplacesHolds
<1>4. CASE /\ session' = IF wsOp.done \/ wsOp.resumed THEN session
                         ELSE [session EXCEPT !.target = 0, !.pairs = NoSession.pairs]
           /\ wsOp' = NoOp
           /\ UNCHANGED checkout
  BY <1>1, <1>4, RefreshStopsHolds
<1> QED BY <1>2, <1>3, <1>4

\* With every file written, a workspace differs from the new base in its own edits only.
LEMMA RefreshEndsHolds ==
    ASSUME WsInv, RefreshEnds
    PROVE  WsInv'
<1>1. /\ wsOp.kind = "refresh" /\ wsOp.at = "apply" /\ wsOp.left = {}
      /\ session' = [session EXCEPT !.base = wsOp.to, !.target = 0, !.pairs = NoSession.pairs]
      /\ wsOp' = IF wsOp.resumed /\ wsOp.to # landing THEN RefreshOnto ELSE NoOp
      /\ UNCHANGED storeFrame
      /\ UNCHANGED <<commits, present, landing, spare, checkout, running, agent, mine, edits, hostEdits, torn>>
  BY DEF RefreshEnds, WsAt, storeFrame, runFrame, wsHist
<1>2. wsOp.to \in present /\ wsOp.to \in Anc(landing) /\ wsOp.to \in Nat /\ wsOp.to # 0 /\ wsOp.todo = {}
  BY <1>1, IdsAre DEF WsInv, Typed, RefreshInv
<1>3. /\ session' \in SessionType /\ session'.base = wsOp.to /\ session'.live = session.live
      /\ session'.target = 0
  BY <1>1, <1>2, NoOpTyped DEF WsInv, Typed, SessionType
<1>4. SessionOpen' /\ ~Unfinished'
  BY <1>2, <1>3 DEF SessionOpen, Unfinished, NoSession
<1>5. SessionInv'
  BY <1>1, <1>2, <1>3, <1>4 DEF SessionInv, Anc
<1>6. LiveInv'
  <2> SUFFICES ASSUME NEW w \in session.live \ torn
               PROVE  /\ (checkout[w] \in Files)' /\ Own(w, checkout[w])'
                      /\ (\A p \in DOMAIN mine[w] :
                             checkout[w][p] = mine[w][p] \/ InHistory(p, mine[w][p], landing))'
    BY <1>1, <1>3, <1>4 DEF LiveInv
  <2>1. PICK pair, to : pair = wsOp.pairs[w] /\ to = wsOp.to
    OBVIOUS
  <2>2. w \in DOMAIN wsOp.pairs /\ Own(w, FilesOf(pair[1])) /\ checkout[w] \in Files /\ PairOK(pair, to)
    BY <2>1, <1>1, <1>2, PlansKnow
  <2>3. \A p \in Path : checkout[w][p] = FilesOf(pair[2])[p]
    BY <2>1, <2>2, <1>1 DEF WsInv, RefreshInv, Result
  <2>4. ASSUME NEW p \in Path, checkout[w][p] # FilesOf(to)[p] PROVE checkout[w][p].by = w
    <3>1. checkout[w][p] = FilesOf(pair[1])[p] /\ FilesOf(pair[1])[p] # FilesOf(session.base)[p]
      BY <2>2, <2>3, <2>4 DEF PairOK, Merged
    <3> QED BY <3>1, <2>2 DEF Own
  <2>5. Own(w, checkout[w])'
    BY <2>1, <2>4, <1>1, <1>3 DEF Own, FilesOf
  <2>6. (\A p \in DOMAIN mine[w] : checkout[w][p] = mine[w][p] \/ InHistory(p, mine[w][p], landing))'
    BY <1>1 DEF WsInv, LiveInv, InHistory, FilesOf, Anc
  <2> QED BY <2>2, <2>5, <2>6, <1>1
<1>7. StoreInv' /\ SpareInv'
  BY <1>1, StoreUntouched, SpareSame
<1>8. wsOp # NoOp /\ UNCHANGED <<agent, running>> /\ torn' = torn /\ UNCHANGED <<commits, present, landing, checkout>>
  BY <1>1 DEF NoOp
<1>9. AgentInv'
  BY <1>3, <1>8, AgentSame
<1>10. wsOp' \in OpType /\ RefreshInv' /\ HarvestInv' /\ OpInv'
  <2>1. CASE wsOp' = NoOp
    BY <2>1, NoOpTyped, LockFree
  <2>2. CASE wsOp' = RefreshOnto
    <3>1. \A w \in session.live : checkout[w] \in Files
      BY <1>8 DEF WsInv, OpInv
    <3> QED BY <2>2, <3>1, <1>3, <1>4, <1>8, OntoHolds
  <2> QED BY <2>1, <2>2, <1>1
<1>11. Typed'
  BY <1>1, <1>3, <1>10 DEF WsInv, Typed, Ids
<1> QED BY <1>5, <1>6, <1>7, <1>9, <1>10, <1>11 DEF WsInv

-----------------------------------------------------------------------------
(* The invariant                                                           *)

LEMMA InitHolds ==
    ASSUME WsInit
    PROVE  WsInv
<1>1. PICK first : first = [files |-> [p \in Path |-> [by |-> Host, n |-> 0]], anc |-> {1}]
  OBVIOUS
<1>2. commits = <<first>> /\ first.anc = {1} /\ first.files = [p \in Path |-> [by |-> Host, n |-> 0]]
  BY <1>1 DEF WsInit
<1>3. MaxCommits \in Nat /\ MaxCommits > 0 /\ MaxEdits \in Nat /\ MaxHostEdits \in Nat
  BY WorkspaceAssumption
<1>4. first \in CommitType
  <2>1. PICK c \in FileContent : c = [by |-> Host, n |-> 0]
    <3>1. 0 \in 0..(MaxHostEdits + MaxEdits)
      BY <1>3
    <3> QED BY <3>1 DEF FileContent
  <2>2. first.files \in Files
    BY <2>1, <1>2 DEF Files
  <2> QED BY <2>2, <1>1, <1>2 DEF CommitType
<1>5. commits \in Seq(CommitType) /\ Len(commits) = 1 /\ Ids = {1} /\ Anc(1) = {1}
  <2> HIDE DEF CommitType
  <2>1. commits \in Seq(CommitType) /\ Len(commits) = 1 /\ DOMAIN commits = {1} /\ commits[1] = first
    BY <1>2, <1>4
  <2> QED BY <2>1, <1>2 DEF Ids, Anc
<1>6. NoDir \in UNION {[P -> FileContent] : P \in SUBSET Path}
  <2>1. NoDir \in [{} -> FileContent] /\ {} \in SUBSET Path
    BY DEF NoDir
  <2> QED BY <2>1
<1>7. /\ present = {1} /\ landing = 1 /\ spare = {} /\ session = NoSession /\ wsOp = NoOp
      /\ checkout = [w \in Ws |-> NoDir] /\ running = [w \in Ws |-> {}]
      /\ agent = [w \in Ws |-> NoAgent] /\ mine = [w \in Ws |-> NoDir]
      /\ edits = [w \in Ws |-> 0] /\ hostEdits = 0 /\ torn = {}
  BY DEF WsInit
<1>8. Typed
  <2>1. commits \in Seq([files : Files, anc : SUBSET Nat]) /\ Len(commits) \in 1..MaxCommits
    BY <1>3, <1>5 DEF CommitType
  <2>2. session \in SessionType /\ wsOp \in OpType
    BY <1>7, NoOpTyped
  <2>3. /\ present \in SUBSET Ids /\ landing \in Nat
        /\ spare \in SUBSET [ws : Ws, id : Nat]
    BY <1>5, <1>7
  <2>4. /\ checkout \in [Ws -> Files \cup {NoDir}] /\ running \in [Ws -> SUBSET {"sc", "child"}]
        /\ agent \in [Ws -> [sc : BOOLEAN, child : BOOLEAN]]
        /\ mine \in [Ws -> UNION {[P -> FileContent] : P \in SUBSET Path}]
    BY <1>6, <1>7 DEF NoAgent
  <2>5. edits \in [Ws -> 0..MaxEdits] /\ hostEdits \in 0..MaxHostEdits /\ torn \in SUBSET Ws
    BY <1>3, <1>7
  <2> QED BY <2>1, <2>2, <2>3, <2>4, <2>5 DEF Typed
<1>9. StoreInv
  BY <1>5, <1>7 DEF StoreInv, HistoryInv
<1>10. ~SessionOpen /\ ~Unfinished /\ session.live = {}
  BY <1>7 DEF SessionOpen, Unfinished, NoSession
<1>11. SessionInv /\ LiveInv
  BY <1>10 DEF SessionInv, LiveInv
<1>12. AgentInv /\ SpareInv
  BY <1>7, <1>10 DEF AgentInv, SpareInv, NoAgent
<1>13. HarvestInv /\ RefreshInv /\ OpInv
  <2>1. wsOp.kind = "none" /\ wsOp.left = {}
    BY <1>7 DEF NoOp
  <2> QED BY <2>1, <1>7 DEF HarvestInv, RefreshInv, OpInv
<1> QED BY <1>8, <1>9, <1>11, <1>12, <1>13 DEF WsInv

LEMMA StutterHolds ==
    ASSUME WsInv, UNCHANGED wsVars
    PROVE  WsInv'
<1>1. UNCHANGED <<commits, present, landing, spare, session, checkout, wsOp, mine>> /\ torn \subseteq torn'
      /\ UNCHANGED <<running, agent, edits, hostEdits, torn>>
  BY DEF wsVars
<1>2. Typed'
  BY <1>1 DEF WsInv, Typed, Ids
<1>3. AgentInv'
  BY <1>1, AgentSame DEF Unfinished
<1> QED BY <1>1, <1>2, <1>3, Quiet DEF WsInv

LEMMA NextHolds ==
    ASSUME WsInv, [WsNext]_wsVars
    PROVE  WsInv'
<1>1. CASE Fork
  BY <1>1, ForkHolds
<1>2. CASE Harvest
  BY <1>2, HarvestBeginsHolds, HarvestCommitsHolds, HarvestRejectsHolds, HarvestSkipsHolds,
     HarvestMergesHolds, HarvestFailsHolds, HarvestUnbranchesHolds, HarvestResolvesHolds,
     HarvestTearsDownHolds, HarvestEndsHolds
     DEF Harvest
<1>3. CASE Refresh
  BY <1>3, RefreshBeginsHolds, RefreshCommitsHolds, RefreshReplaysHolds, RefreshRefusesHolds,
     ResumeBeginsHolds, RefreshMarksHolds, RefreshWritesHolds, RefreshEndsHolds
     DEF Refresh
<1>4. CASE WsGc
  BY <1>4, WsGcHolds
<1>5. CASE Kill
  BY <1>5, KillHolds
<1>6. CASE \E p \in Path : HostCommits(p)
  BY <1>6, HostCommitsHolds
<1>7. CASE \E S \in SUBSET Ws : Abandon(S)
  BY <1>7, AbandonHolds
<1>8. ASSUME NEW w \in Ws, Run(w) PROVE WsInv'
  BY <1>8, RunPlanHolds, RunSpawnsHolds, RunRecordsHolds, ChildExitsHolds, RunDropsHolds, AgentEditsHolds
     DEF Run
<1>9. CASE UNCHANGED wsVars
  BY <1>9, StutterHolds
<1> QED BY <1>1, <1>2, <1>3, <1>4, <1>5, <1>6, <1>7, <1>8, <1>9 DEF WsNext

LEMMA Invariant == WsSpec => []WsInv
<1> QED BY InitHolds, NextHolds, PTL DEF WsSpec

-----------------------------------------------------------------------------
(* What the runs check, for every value of the constants                   *)

\* The type invariant of the workspaces.
THEOREM WorkspacesTypeCorrect == WsSpec => []WsTypeOK
<1>1. ASSUME WsInv PROVE WsTypeOK
  <2>1. Ids = 1..Len(commits) /\ Len(commits) \in Nat /\ (\A c \in Ids : FilesOf(c) \in Files)
        /\ MaxCommits \in Nat /\ Len(commits) <= MaxCommits
    BY <1>1, IdsAre, WorkspaceAssumption DEF WsInv, Typed
  <2>2. \A c \in Ids : Anc(c) \subseteq Ids
    <3>1. \A c \in Ids : Anc(c) \subseteq 1..c
      BY <1>1 DEF WsInv, StoreInv, HistoryInv
    <3> QED BY <3>1, <2>1
  <2>3. present \subseteq Ids /\ landing \in Ids /\ \A s \in spare : s.ws \in Ws /\ s.id \in Ids
    BY <1>1 DEF WsInv, Typed, StoreInv
  <2>4. session.base \in 0..Len(commits)
    <3>1. CASE SessionOpen
      <4>1. session.base \in Ids
        BY <3>1, <1>1, <2>3 DEF WsInv, SessionInv
      <4>2. \A c \in Ids : c \in 0..Len(commits)
        BY <2>1
      <4> QED BY <4>1, <4>2
    <3>2. CASE ~SessionOpen
      BY <3>2, <2>1 DEF SessionOpen, NoSession
    <3> QED BY <3>1, <3>2
  <2>5. session.target \in 0..Len(commits)
    <3>1. CASE Unfinished
      <4>1. session.target \in Ids
        BY <3>1, <1>1, <2>3 DEF WsInv, SessionInv
      <4>2. \A c \in Ids : c \in 0..Len(commits)
        BY <2>1
      <4> QED BY <4>1, <4>2
    <3>2. CASE ~Unfinished
      BY <3>2, <2>1 DEF Unfinished
    <3> QED BY <3>1, <3>2
  <2>6. session.live \subseteq Ws /\ DOMAIN session.pairs \subseteq Ws
    BY <1>1 DEF WsInv, Typed, SessionType, Pairs
  <2>7. \A w \in Ws : checkout[w] \in Files \cup {NoDir} /\ running[w] \subseteq {"sc", "child"}
    BY <1>1 DEF WsInv, Typed
  <2>8. torn \subseteq Ws
    BY <1>1 DEF WsInv, Typed
  <2> QED BY <2>1, <2>2, <2>3, <2>4, <2>5, <2>6, <2>7, <2>8 DEF WsTypeOK, Ids, Files
<1> QED BY <1>1, Invariant, PTL

\* gc and the rest: the branches, the session's base and the ends of an unfinished
\* refresh's replays are in the store (gc::roots).
THEOREM SessionsAreReadable == WsSpec => []SessionReadable
<1>1. ASSUME WsInv PROVE SessionReadable
  <2>1. {landing} \cup {s.id : s \in spare} \subseteq present
    BY <1>1 DEF WsInv, StoreInv
  <2>2. session.live # {} => session.base \in present
    <3>1. session.live # {} => SessionOpen
      BY DEF SessionOpen, NoSession
    <3> QED BY <3>1, <1>1 DEF WsInv, SessionInv
  <2>3. ASSUME Unfinished, NEW w \in session.live, NEW k \in {1, 2} PROVE session.pairs[w][k] \in present
    <3>1. session.pairs[w][1] \in present /\ session.pairs[w][2] \in present
      BY <2>3, <1>1 DEF WsInv, SessionInv, PairOK
    <3> QED BY <3>1
  <2> QED BY <2>1, <2>2, <2>3 DEF SessionReadable, WillRead
<1> QED BY <1>1, Invariant, PTL

\* A refresh that was cut short can be finished (check_prior accepts each file).
THEOREM ResumesCanFinish == WsSpec => []ResumeNeverStuck
<1>1. ASSUME WsInv PROVE ResumeNeverStuck
  <2> SUFFICES ASSUME SessionOpen, Unfinished, NEW w \in session.live \ torn, NEW p \in Path
               PROVE  checkout[w] # NoDir /\ checkout[w][p] \in {FilesOf(session.pairs[w][k])[p] : k \in {1, 2}}
    BY DEF ResumeNeverStuck
  <2>1. /\ checkout[w] \in Files
        /\ checkout[w][p] \in {FilesOf(session.pairs[w][1])[p], FilesOf(session.pairs[w][2])[p]}
    BY <1>1 DEF WsInv, LiveInv
  <2>2. checkout[w] # NoDir
    <3>1. DOMAIN checkout[w] = Path /\ DOMAIN NoDir = {}
      BY <2>1 DEF Files, NoDir
    <3> QED BY <3>1
  <2> QED BY <2>1, <2>2
<1> QED BY <1>1, Invariant, PTL

\* What the commands of a live workspace wrote is in its checkout or in the landing
\* branch's history (ws_refresh, ws_harvest).
THEOREM EditsStayThere == WsSpec => []EditsStay
<1>1. ASSUME WsInv PROVE EditsStay
  <2> SUFFICES ASSUME NEW w \in session.live \ torn, NEW p \in DOMAIN mine[w]
               PROVE  \/ checkout[w] # NoDir /\ checkout[w][p] = mine[w][p]
                      \/ \E c \in Anc(landing) : FilesOf(c)[p] = mine[w][p]
    BY DEF EditsStay
  <2>1. checkout[w] \in Files /\ (checkout[w][p] = mine[w][p] \/ InHistory(p, mine[w][p], landing))
    BY <1>1 DEF WsInv, LiveInv
  <2>2. p \in Path
    BY <1>1 DEF WsInv, Typed, SessionType
  <2>3. checkout[w] # NoDir
    <3>1. DOMAIN checkout[w] = Path /\ DOMAIN NoDir = {}
      BY <2>1 DEF Files, NoDir
    <3> QED BY <3>1, <2>2
  <2> QED BY <2>1, <2>3 DEF InHistory
<1> QED BY <1>1, Invariant, PTL

\* A commit of a workspace differs from its base in the workspace's own edits only
\* (ws_harvest commits no half-refreshed tree).
THEOREM HarvestsOnlyEdits == WsSpec => []HarvestOnlyEdits
<1>1. ASSUME WsInv PROVE HarvestOnlyEdits
  <2> SUFFICES ASSUME NEW s \in spare, s.ws \notin torn
               PROVE  LET c == commits[s.id]
                          base == FilesOf(CHOOSE b \in c.anc \ {s.id} : \A a \in c.anc \ {s.id} : a \in Anc(b))
                      IN  \A p \in Path : c.files[p] # base[p] => c.files[p].by = s.ws
    BY DEF HarvestOnlyEdits
  <2>1. PICK b \in Ids :
            /\ s.id \notin Anc(b) /\ Anc(s.id) = Anc(b) \cup {s.id}
            /\ \A p \in Path : FilesOf(s.id)[p] # FilesOf(b)[p] => FilesOf(s.id)[p].by = s.ws
    BY <1>1 DEF WsInv, SpareInv, OwnCommit
  <2>2. PICK A : A = commits[s.id].anc \ {s.id}
    OBVIOUS
  <2>3. A = Anc(b) /\ b \in A /\ A \subseteq 1..b /\ b \in Nat
    BY <1>1, <2>1, <2>2, IdsAre DEF WsInv, StoreInv, HistoryInv, Anc
  <2>4. \A d \in A : Anc(d) \subseteq 1..d /\ d \in Nat
    <3>1. A \subseteq Ids
      BY <1>1, <2>3, IdsAre DEF WsInv
    <3> QED BY <1>1, <2>3, <3>1 DEF WsInv, StoreInv, HistoryInv
  <2>5. ASSUME NEW d \in A, \A a \in A : a \in Anc(d) PROVE d = b
    <3>1. b \in 1..d /\ d \in 1..b
      BY <2>3, <2>4, <2>5
    <3> QED BY <3>1, <2>3, <2>4
  <2>6. (CHOOSE d \in A : \A a \in A : a \in Anc(d)) = b
    BY <2>3, <2>5
  <2>7. (CHOOSE d \in commits[s.id].anc \ {s.id} : \A a \in commits[s.id].anc \ {s.id} : a \in Anc(d)) = b
    BY <2>2, <2>6
  <2> QED BY <2>1, <2>7 DEF FilesOf
<1> QED BY <1>1, Invariant, PTL

\* A workspace that a harvest is done with has each of its edits on a branch
\* (ws_harvest merges or keeps the branch before resolve_and_teardown).
THEOREM HarvestsKeepEdits == WsSpec => HarvestKeepsEdits
<1> DEFINE Kept ==
        \A w \in session.live \ (session'.live \cup torn) :
            wsOp.kind = "harvest" =>
                \A p \in DOMAIN mine[w] :
                    \E t \in {landing} \cup {s.id : s \in spare} :
                        \E c \in Anc(t) : FilesOf(c)[p] = mine[w][p]
<1>1. ASSUME WsInv, WsNext PROVE Kept
  <2> SUFFICES ASSUME wsOp.kind = "harvest", NEW w \in session.live, w \notin session'.live, w \notin torn,
                      NEW p \in DOMAIN mine[w]
               PROVE  \E t \in {landing} \cup {s.id : s \in spare} :
                          \E c \in Anc(t) : FilesOf(c)[p] = mine[w][p]
    OBVIOUS
  <2>1. wsOp # NoOp
    BY DEF NoOp
  <2>2. HarvestResolves \/ HarvestEnds
    <3>1. session' # session
      OBVIOUS
    <3>2. ~Fork /\ ~WsGc /\ (\A q \in Path : ~HostCommits(q)) /\ (\A S \in SUBSET Ws : ~Abandon(S))
      BY <2>1 DEF Fork, WsGc, HostCommits, Abandon, CanAbandon
    <3>3. ~Refresh
      BY <2>1 DEF Refresh, RefreshBegins, RefreshCommits, RefreshReplays, RefreshRefuses, ResumeBegins,
                  RefreshMarks, RefreshWrites, RefreshEnds, WsAt
    <3>4. ~Kill
      BY <3>1, <2>1 DEF Kill, ForkKilled, AbandonKilled, CanAbandon
    <3>5. ASSUME NEW v \in Ws PROVE ~Run(v)
      BY <3>1 DEF Run, RunPlan, RunSpawns, RunRecords, ChildExits, RunDrops, AgentEdits
    <3>6. Harvest
      BY <1>1, <3>2, <3>3, <3>4, <3>5 DEF WsNext
    <3> QED BY <3>1, <3>6 DEF Harvest, HarvestBegins, HarvestCommits, HarvestRejects, HarvestSkips,
                              HarvestMerges, HarvestFails, HarvestUnbranches, HarvestTearsDown
  <2>3. CASE HarvestResolves
    <3>1. w = Lowest(wsOp.todo)
      BY <1>1, <2>3 DEF HarvestResolves, WsInv, Typed, SessionType
    <3>2. Saved(w)
      BY <1>1, <2>3, <3>1 DEF HarvestResolves, WsAt, WsInv, HarvestInv
    <3> QED BY <3>2 DEF Saved, InHistory
  <2>4. CASE HarvestEnds
    <3>1. session.live # {} => session' = session
      BY <2>4 DEF HarvestEnds
    <3> QED BY <3>1
  <2> QED BY <2>2, <2>3, <2>4
<1>2. ASSUME WsInv, [WsNext]_wsVars PROVE [Kept]_wsVars
  BY <1>1, <1>2
<1> QED BY <1>2, Invariant, PTL DEF WsSpec, HarvestKeepsEdits
=============================================================================
