--------------------------- MODULE ReplaysProofs ---------------------------
(***************************************************************************)
(* Stopped rebases and cherry-picks, for branches of any length and any    *)
(* number of commands and kills: what is read to continue or to abandon    *)
(* one is in the store, and what lands in the end is the whole range.      *)
(*                                                                         *)
(* What a command still has to do is part of the argument, because it may  *)
(* be killed before any of it: each effect must find stored what it names, *)
(* by what is in the store or by the effects before it (Fits), and what it *)
(* moves the branch to must be what replaying the range comes to           *)
(* (LandInv).                                                              *)
(*                                                                         *)
(* Those commands run one at a time because each holds RepoLock.  That it  *)
(* is a lock until a process is killed is the last section: before that no *)
(* lock file is stale, nobody breaks one, and the creator of the file is   *)
(* the one process in its critical section.                                *)
(***************************************************************************)
EXTENDS Replays, RepoLock, SequenceTheorems, NaturalsInduction, WellFoundedInduction, TLAPS

-----------------------------------------------------------------------------
(* The invariant *)

RebaseStates ==
    [original : Seq(Link), acc : Seq(Link), conflicted : Seq(Link), rest : Seq(Seq(Link)),
     resolved : BOOLEAN, replayed : Nat, skipped : Nat]

Puts == [do : {"put"}, ids : SUBSET Seq(Link)]
TreeWrites == [do : {"putTree", "rebaseRoot", "pickRoot"}, tree : Tree]
Lays == [do : {"lay"}, tree : Tree, over : Tree, abort : BOOLEAN]
TipMoves == [do : {"tip"}, id : Seq(Link), why : {"rebase", "pick"}]
Records == [do : {"record"}, why : {"rebase", "pick"}, before : Seq(Link), after : Seq(Link), count : Nat]
RebaseWrites == [do : {"rebase"}, state : RebaseStates]
PickWrites == [do : {"pick"}, id : Seq(Link)]

Effects == Puts \cup TreeWrites \cup Lays \cup TipMoves \cup Records \cup RebaseWrites \cup PickWrites

\* What is stored once the effects of a list before the i-th are applied.
StoredAt(list, i) ==
    snapshots \cup UNION {list[j].ids : j \in {k \in 1..i - 1 : list[k].do = "put"}}

TreesAt(list, i) ==
    trees \cup {list[j].tree : j \in {k \in 1..i - 1 : list[k].do = "putTree"}}

WrittenBefore(what, list, i) == \E j \in 1..i - 1 : list[j].do = what

\* The commits of a rebase are those of the branch it began on.
RebaseFits(st) ==
    /\ st.original # Base /\ st.acc # Base
    /\ st.conflicted \in Ancestry(st.original)
    /\ Range(st.rest) \subseteq Ancestry(st.original)

TipFits(list, i) == list[i].id # Base /\ Ancestry(list[i].id) \subseteq StoredAt(list, i)

RebaseWriteFits(list, i) ==
    /\ RebaseFits(list[i].state) /\ list[i].state.acc \in StoredAt(list, i)
    /\ rebaseRoot \in trees \/ WrittenBefore("rebaseRoot", list, i)

PickWriteFits(list, i) ==
    /\ list[i].id = PickedTip /\ PickedTip \in StoredAt(list, i)
    /\ pickRoot \in trees \/ WrittenBefore("pickRoot", list, i)

EffectFits(list, i) ==
    /\ list[i].do = "tip" => TipFits(list, i)
    /\ list[i].do \in {"rebaseRoot", "pickRoot"} => list[i].tree \in TreesAt(list, i)
    /\ list[i].do = "rebase" /\ list[i].state # NoRebase => RebaseWriteFits(list, i)
    /\ list[i].do = "pick" /\ list[i].id # NoPick => PickWriteFits(list, i)

Fits(list) == \A i \in 1..Len(list) : EffectFits(list, i)

BranchStored == tip # Base /\ Ancestry(tip) \subseteq snapshots

RebaseStored ==
    rebase # NoRebase => RebaseFits(rebase) /\ rebase.acc \in snapshots /\ rebaseRoot \in trees

PickStored ==
    /\ side \/ pick # NoPick => PickedTip \in snapshots
    /\ pick # NoPick => pick = PickedTip /\ pickRoot \in trees

ReplayInv ==
    /\ ReplayTypeOK
    /\ rebase \in RebaseStates /\ todo \in Seq(Effects)
    /\ BranchStored /\ RebaseStored /\ PickStored
    /\ Fits(todo)

-----------------------------------------------------------------------------
(* Trees and snapshots *)

LEMMA EmptyTreeType == EmptyTree \in Tree
BY DEF EmptyTree, Tree

LEMMA WithType ==
  ASSUME NEW t \in Tree, NEW c \in Change
  PROVE  With(t, c) \in Tree /\ Marked(t, c) \in Tree
BY DEF With, Marked, Tree

LEMMA PresentType ==
  ASSUME NEW t \in Tree
  PROVE  Present(t) \subseteq Change
BY DEF Present, Tree

LEMMA TreeOfType ==
  ASSUME NEW s \in Seq(Link)
  PROVE  TreeOf(s) \in Tree
<1>1. CASE s = Base
  BY <1>1, EmptyTreeType DEF TreeOf
<1>2. CASE s # Base
  <2>1. Len(s) \in 1..Len(s)
    BY <1>2 DEF Base
  <2>2. s[Len(s)] \in Link
    BY <2>1
  <2> QED
    BY <1>2, <2>2 DEF TreeOf, Last, Link
<1> QED BY <1>1, <1>2

LEMMA CommitChangeType ==
  ASSUME NEW s \in Seq(Link), s # Base
  PROVE  CommitChange(s) \in Change
<1>1. Len(s) \in 1..Len(s)
  BY DEF Base
<1>2. s[Len(s)] \in Link
  BY <1>1
<1> QED
  BY <1>2 DEF CommitChange, Last, Link

LEMMA LandedType ==
  ASSUME NEW s \in Seq(Link), NEW c \in Change
  PROVE  /\ Landed(s, c) \in Seq(Link)
         /\ Landed(s, c) # Base
         /\ Len(Landed(s, c)) = Len(s) + 1
<1> DEFINE x == [change |-> c, tree |-> With(TreeOf(s), c)]
<1>1. x \in Link
  BY TreeOfType, WithType DEF Link
<1>2. Landed(s, c) = Append(s, x)
  BY DEF Landed
<1> HIDE DEF x
<1> QED BY <1>1, <1>2, AppendProperties DEF Base

LEMMA AncestryType ==
  ASSUME NEW s \in Seq(Link), NEW a \in Ancestry(s)
  PROVE  a \in Seq(Link) /\ a # Base
<1>1. PICK n \in 1..Len(s) : a = SubSeq(s, 1, n)
  BY DEF Ancestry
<1>2. \A i \in 1..n : s[i] \in Link
  <2> TAKE i \in 1..n
  <2>1. i \in 1..Len(s)
    BY <1>1
  <2> QED BY <2>1
<1>3. SubSeq(s, 1, n) \in Seq(Link) /\ Len(SubSeq(s, 1, n)) = n
  BY <1>1, <1>2, SubSeqProperties
<1> QED
  BY <1>1, <1>3 DEF Base

LEMMA SelfInAncestry ==
  ASSUME NEW s \in Seq(Link), s # Base
  PROVE  s \in Ancestry(s)
<1>1. Len(s) \in 1..Len(s)
  BY DEF Base
<1>2. SubSeq(s, 1, Len(s)) = s
  BY SubSeqFull
<1> QED BY <1>1, <1>2 DEF Ancestry

\* What is new in the ancestry of a commit is the commit.
LEMMA AncestryOfAppend ==
  ASSUME NEW s \in Seq(Link), NEW x \in Link
  PROVE  Ancestry(Append(s, x)) \subseteq Ancestry(s) \cup {Append(s, x)}
<1> DEFINE t == Append(s, x)
<1>1. t \in Seq(Link) /\ Len(t) = Len(s) + 1
  BY AppendProperties
<1>2. ASSUME NEW n \in 1..Len(t) PROVE SubSeq(t, 1, n) \in Ancestry(s) \cup {t}
  <2>1. CASE n = Len(t)
    BY <1>1, <2>1, SubSeqFull
  <2>2. CASE n # Len(t)
    <3>1. n \in 1..Len(s)
      BY <1>1, <1>2, <2>2
    <3>2. SubSeq(t, 1, n) = SubSeq(s, 1, n)
      <4>1. x \in Link /\ <<x>> \in Seq(Link) /\ t = s \o <<x>>
        BY AppendIsConcat
      <4>2. 1 \in 1..Len(s)
        BY <3>1
      <4> HIDE DEF t
      <4> QED BY <3>1, <4>1, <4>2, SubSeqOfConcat1
    <3> QED BY <3>1, <3>2 DEF Ancestry
  <2> QED BY <2>1, <2>2
<1> HIDE DEF t
<1>3. Ancestry(t) \subseteq Ancestry(s) \cup {t}
  BY <1>2 DEF Ancestry
<1> QED BY <1>3 DEF t

LEMMA AncestryOfLanded ==
  ASSUME NEW s \in Seq(Link), NEW c \in Change
  PROVE  Ancestry(Landed(s, c)) \subseteq Ancestry(s) \cup {Landed(s, c)}
<1>1. [change |-> c, tree |-> With(TreeOf(s), c)] \in Link
  BY TreeOfType, WithType DEF Link
<1> QED BY <1>1, AncestryOfAppend DEF Landed

LEMMA StartType ==
  ASSUME shared \subseteq Own
  PROVE  /\ Original \in Seq(Link) /\ Original # Base
         /\ TargetTip \in Seq(Link) /\ TargetTip # Base
         /\ PickedTip \in Seq(Link) /\ PickedTip # Base
<1>1. ASSUME NEW i \in Own PROVE [change |-> i, tree |-> [has |-> 1..i, marks |-> {}]] \in Link
  <2>1. i \in Change /\ 1..i \subseteq Change
    BY ReplayAssumption DEF Own, Change
  <2> QED BY <2>1 DEF Link, Tree
<1>2. Original \in [1..RangeLen -> Link]
  BY <1>1 DEF Original, Own
<1>3. Original \in Seq(Link) /\ Len(Original) = RangeLen
  BY <1>2, ReplayAssumption
<1>4. Original # Base
  BY <1>3, ReplayAssumption DEF Base
<1>5. [change |-> Target, tree |-> [has |-> {Target} \cup shared, marks |-> {}]] \in Link
  <2>1. Target \in Change /\ shared \subseteq Change
    BY ReplayAssumption DEF Target, Change, Own
  <2> QED BY <2>1 DEF Link, Tree
<1>6. TargetTip \in Seq(Link) /\ TargetTip # Base
  BY <1>5 DEF TargetTip, Base
<1>7. Picked \in Change /\ Base \in Seq(Link)
  BY ReplayAssumption DEF Picked, Change, Base
<1>8. PickedTip \in Seq(Link) /\ PickedTip # Base
  BY <1>7, LandedType DEF PickedTip
<1> QED BY <1>3, <1>4, <1>6, <1>8

-----------------------------------------------------------------------------
(* Replaying a list of commits *)

\* Every non-empty set of natural numbers has a least element.
LEMMA LeastElement ==
  ASSUME NEW S, S \subseteq Nat, S # {}
  PROVE  \E x \in S : \A y \in S : x <= y
<1> DEFINE R == {ss \in Nat \X Nat : ss[1] < ss[2]}
<1>1. IsWellFoundedOn(R, Nat)
  BY NatLessThanWellFounded DEF OpToRel
<1>2. \E x \in S : \A y \in S : <<y, x>> \notin R
  <2> HIDE DEF R
  <2> QED BY <1>1, WFMin
<1>3. PICK x \in S : \A y \in S : <<y, x>> \notin R
  BY <1>2
<1>4. ASSUME NEW y \in S PROVE x <= y
  <2>1. y \in Nat /\ x \in Nat /\ <<y, x>> \notin R
    BY <1>3
  <2>2. ~ (y < x)
    BY <2>1
  <2> QED BY <2>1, <2>2
<1> QED BY <1>3, <1>4

LEMMA CleanCountType ==
  ASSUME NEW list \in Seq(Seq(Link))
  PROVE  CleanCount(list) \in 0..Len(list)
<1> DEFINE hits == {i \in DOMAIN list : Conflicts(list[i])}
<1>1. DOMAIN list = 1..Len(list) /\ Len(list) \in Nat
  BY LenProperties
<1>2. CASE hits = {}
  BY <1>1, <1>2 DEF CleanCount
<1>3. CASE hits # {}
  <2>1. hits \subseteq 1..Len(list) /\ hits \subseteq Nat
    BY <1>1
  <2> HIDE DEF hits
  <2>2. \E x \in hits : \A y \in hits : x <= y
    BY <1>3, <2>1, LeastElement
  <2>3. Min(hits) \in hits
    BY <2>2 DEF Min
  <2>4. CleanCount(list) = Min(hits) - 1
    BY <1>3 DEF CleanCount, hits
  <2>5. PICK m \in hits : m = Min(hits)
    BY <2>3
  <2>6. m \in 1..Len(list) /\ CleanCount(list) = m - 1
    BY <2>1, <2>4, <2>5
  <2> QED BY <1>1, <2>6
<1> QED BY <1>2, <1>3

LEMMA ReplayOntoType ==
  ASSUME NEW acc \in Seq(Link), acc # Base, NEW s \in Seq(Link), s # Base
  PROVE  /\ ReplayOnto(acc, s) \in Seq(Link)
         /\ ReplayOnto(acc, s) # Base
         /\ Len(ReplayOnto(acc, s)) \in Len(acc)..Len(acc) + 1
<1>1. CommitChange(s) \in Change
  BY CommitChangeType
<1>2. /\ Landed(acc, CommitChange(s)) \in Seq(Link)
      /\ Landed(acc, CommitChange(s)) # Base
      /\ Len(Landed(acc, CommitChange(s))) = Len(acc) + 1
  BY <1>1, LandedType
<1>3. Len(acc) \in Nat
  BY LenProperties
<1>4. ReplayOnto(acc, s) = acc \/ ReplayOnto(acc, s) = Landed(acc, CommitChange(s))
  BY DEF ReplayOnto
<1> QED BY <1>2, <1>3, <1>4

\* The accumulators after each commit: what Replayed defines exists.
IsLine(f, acc, list, m) ==
    f = [n \in 0..m |-> IF n = 0 THEN acc ELSE ReplayOnto(f[n - 1], list[n])]

LEMMA LineExists ==
  ASSUME NEW acc, NEW list, NEW m \in Nat
  PROVE  \E f : IsLine(f, acc, list, m)
<1> DEFINE S == {k \in Nat : ~ \E f : IsLine(f, acc, list, k)}
<1> SUFFICES ASSUME S # {} PROVE FALSE
  OBVIOUS
<1>1. S \subseteq Nat
  OBVIOUS
<1>2. PICK k \in S : \A y \in S : k <= y
  <2> HIDE DEF S
  <2> QED BY <1>1, LeastElement
<1>3. k \in Nat /\ ~ \E f : IsLine(f, acc, list, k)
  BY <1>2
<1>4. k # 0
  <2>1. IsLine([n \in {0} |-> acc], acc, list, 0)
    BY DEF IsLine
  <2> QED BY <1>3, <2>1
<1>5. k - 1 \in Nat /\ k - 1 \notin S
  BY <1>2, <1>3, <1>4
<1>6. PICK f : IsLine(f, acc, list, k - 1)
  BY <1>5
<1> DEFINE g == [n \in 0..k |-> IF n = k THEN ReplayOnto(f[k - 1], list[k]) ELSE f[n]]
<1>7. g = [n \in 0..k |-> IF n = 0 THEN acc ELSE ReplayOnto(g[n - 1], list[n])]
  <2>1. ASSUME NEW n \in 0..k
        PROVE  g[n] = IF n = 0 THEN acc ELSE ReplayOnto(g[n - 1], list[n])
    <3>1. CASE n = 0
      BY <1>3, <1>4, <1>6, <3>1 DEF IsLine
    <3>2. CASE n # 0 /\ n # k
      <4>1. n \in 0..k - 1 /\ n - 1 \in 0..k - 1 /\ n - 1 \in 0..k /\ n - 1 # k
        BY <1>3, <2>1, <3>2
      <4>2. g[n] = f[n] /\ g[n - 1] = f[n - 1]
        BY <3>2, <4>1, <2>1
      <4>3. f[n] = ReplayOnto(f[n - 1], list[n])
        BY <1>6, <3>2, <4>1 DEF IsLine
      <4> QED BY <3>2, <4>2, <4>3
    <3>3. CASE n # 0 /\ n = k
      <4>1. k \in 0..k /\ k - 1 \in 0..k /\ k - 1 # k
        BY <1>3, <1>4
      <4>2. g[k] = ReplayOnto(f[k - 1], list[k]) /\ g[k - 1] = f[k - 1]
        BY <4>1
      <4> QED BY <3>3, <4>2
    <3> QED BY <3>1, <3>2, <3>3
  <2>2. g = [n \in 0..k |-> g[n]]
    OBVIOUS
  <2> HIDE DEF g
  <2> QED BY <2>1, <2>2
<1>8. IsLine(g, acc, list, k)
  <2> HIDE DEF g
  <2> QED BY <1>7 DEF IsLine
<1> QED BY <1>3, <1>8

\* A fold adds at most one commit for each it replays.
LEMMA ReplayedType ==
  ASSUME NEW acc \in Seq(Link), acc # Base,
         NEW list \in Seq(Seq(Link)), \A i \in 1..Len(list) : list[i] # Base
  PROVE  /\ Replayed(acc, list) \in Seq(Link)
         /\ Replayed(acc, list) # Base
         /\ Len(Replayed(acc, list)) \in Len(acc)..Len(acc) + Len(list)
<1> DEFINE m == Len(list)
           line == CHOOSE f : f = [n \in 0..m |-> IF n = 0 THEN acc ELSE ReplayOnto(f[n - 1], list[n])]
           Good(n) == /\ line[n] \in Seq(Link) /\ line[n] # Base
                      /\ Len(line[n]) \in Len(acc)..Len(acc) + n
           S == {n \in 0..m : ~ Good(n)}
<1>1. m \in Nat /\ Len(acc) \in Nat
  BY LenProperties
<1>2. line = [n \in 0..m |-> IF n = 0 THEN acc ELSE ReplayOnto(line[n - 1], list[n])]
  <2>1. \E f : f = [n \in 0..m |-> IF n = 0 THEN acc ELSE ReplayOnto(f[n - 1], list[n])]
    <3>1. \E f : IsLine(f, acc, list, m)
      BY <1>1, LineExists
    <3> QED BY <3>1 DEF IsLine
  <2> QED BY <2>1
<1>3. Replayed(acc, list) = line[m]
  BY DEF Replayed
<1> HIDE DEF line
<1>4. S = {}
  <2> SUFFICES ASSUME S # {} PROVE FALSE
    OBVIOUS
  <2>1. S \subseteq Nat
    BY <1>1
  <2>2. PICK k \in S : \A y \in S : k <= y
    <3> HIDE DEF S
    <3> QED BY <2>1, LeastElement
  <2>3. k \in 0..m /\ ~ Good(k)
    BY <2>2
  <2>4. k # 0
    <3>1. line[0] = acc
      BY <1>1, <1>2
    <3>2. Good(0)
      BY <1>1, <3>1
    <3> QED BY <2>3, <3>2
  <2>5. k - 1 \in 0..m /\ k \in 1..m
    BY <1>1, <2>3, <2>4
  <2>6. Good(k - 1)
    <3>1. k - 1 \notin S
      BY <1>1, <2>2, <2>3
    <3> QED BY <2>5, <3>1
  <2>7. line[k] = ReplayOnto(line[k - 1], list[k])
    BY <1>2, <2>3, <2>4
  <2>8. list[k] \in Seq(Link) /\ list[k] # Base
    BY <2>5
  <2> DEFINE a == line[k - 1]
             s == list[k]
  <2>9. a \in Seq(Link) /\ a # Base /\ s \in Seq(Link) /\ s # Base
    BY <2>6, <2>8
  <2>10. Len(a) \in Len(acc)..Len(acc) + (k - 1) /\ line[k] = ReplayOnto(a, s)
    BY <2>6, <2>7
  <2> HIDE DEF a, s
  <2>11. /\ ReplayOnto(a, s) \in Seq(Link) /\ ReplayOnto(a, s) # Base
         /\ Len(ReplayOnto(a, s)) \in Len(a)..Len(a) + 1
    BY <2>9, ReplayOntoType
  <2>12. Good(k)
    BY <1>1, <2>3, <2>10, <2>11
  <2> QED BY <2>3, <2>12
<1>5. Good(m)
  BY <1>1, <1>4
<1> QED BY <1>3, <1>5

-----------------------------------------------------------------------------
(* Lists of effects *)

LEMMA StoredEarlier ==
  ASSUME NEW list, NEW i \in Nat, NEW j \in 1..i - 1
  PROVE  /\ list[j].do = "put" => list[j].ids \subseteq StoredAt(list, i)
         /\ list[j].do = "putTree" => list[j].tree \in TreesAt(list, i)
BY DEF StoredAt, TreesAt

LEMMA RangeOfSubSeq ==
  ASSUME NEW S, NEW list \in Seq(S), NEW m \in Nat \ {0}, NEW n \in Nat, n <= Len(list)
  PROVE  /\ SubSeq(list, m, n) \in Seq(S)
         /\ Len(SubSeq(list, m, n)) = IF m <= n THEN n - m + 1 ELSE 0
         /\ Range(SubSeq(list, m, n)) \subseteq Range(list)
<1>1. \A i \in m..n : list[i] \in S
  <2> TAKE i \in m..n
  <2>1. i \in 1..Len(list)
    OBVIOUS
  <2> QED BY <2>1
<1> DEFINE sub == SubSeq(list, m, n)
<1>2. /\ sub \in Seq(S)
      /\ Len(sub) = IF m <= n THEN n - m + 1 ELSE 0
      /\ \A i \in 1..n - m + 1 : sub[i] = list[m + i - 1]
  BY <1>1, SubSeqProperties
<1>3. ASSUME NEW i \in DOMAIN sub PROVE sub[i] \in Range(list)
  <2>1. DOMAIN sub = 1..Len(sub) /\ i \in 1..n - m + 1
    BY <1>2, <1>3
  <2>2. sub[i] = list[m + i - 1] /\ m + i - 1 \in DOMAIN list
    BY <1>2, <2>1
  <2> QED BY <2>2 DEF Range
<1> HIDE DEF sub
<1>4. Range(sub) \subseteq Range(list)
  BY <1>3 DEF Range
<1> QED BY <1>2, <1>4 DEF sub

LEMMA InRange ==
  ASSUME NEW S, NEW list \in Seq(S), NEW i \in 1..Len(list)
  PROVE  list[i] \in Range(list)
BY DEF Range

LEMMA NoRebaseType == NoRebase \in RebaseStates
BY DEF NoRebase, RebaseStates, Base

\* What a fold still has to do finds stored what it names, wherever it ends.
LEMMA FoldFits ==
  ASSUME NEW st \in RebaseStates, NEW disk \in Tree,
         st.original # Base, st.acc # Base, Range(st.rest) \subseteq Ancestry(st.original)
  PROVE  FoldEffects(st, disk) \in Seq(Effects) /\ Fits(FoldEffects(st, disk))
<1> DEFINE n == CleanCount(st.rest)
           acc == Replayed(st.acc, SubSeq(st.rest, 1, n))
           replayed == st.replayed + Len(acc) - Len(st.acc)
           skipped == st.skipped + n - (Len(acc) - Len(st.acc))
           conflicted == st.rest[n + 1]
           stopTree == Marked(TreeOf(acc), CommitChange(conflicted))
           left == SubSeq(st.rest, n + 2, Len(st.rest))
           stopped == [original |-> st.original, acc |-> acc, conflicted |-> conflicted,
                       rest |-> left, resolved |-> FALSE, replayed |-> replayed, skipped |-> skipped]
           finish == <<Put(Ancestry(acc)), Lay(TreeOf(acc), disk), MoveTip(acc, "rebase"),
                       Record("rebase", st.original, acc, replayed + skipped), WriteRebase(NoRebase)>>
           stop == <<Put(Ancestry(acc)), PutTree(stopTree), Lay(stopTree, disk),
                     WriteRebaseRoot(stopTree), WriteRebase(stopped)>>
<1>1. /\ st.original \in Seq(Link) /\ st.acc \in Seq(Link) /\ st.rest \in Seq(Seq(Link))
      /\ st.replayed \in Nat /\ st.skipped \in Nat /\ Len(st.rest) \in Nat /\ Len(st.acc) \in Nat
  BY DEF RebaseStates
<1>2. n \in 0..Len(st.rest)
  BY <1>1, CleanCountType
<1>3. \A s \in Range(st.rest) : s \in Seq(Link) /\ s # Base
  BY <1>1, AncestryType
<1>4. /\ acc \in Seq(Link) /\ acc # Base
      /\ Len(acc) \in Len(st.acc)..Len(st.acc) + n
  <2> DEFINE list == SubSeq(st.rest, 1, n)
  <2> HIDE DEF n
  <2>1. n \in Nat /\ 1 \in Nat \ {0} /\ n <= Len(st.rest)
    BY <1>1, <1>2
  <2>2. /\ list \in Seq(Seq(Link)) /\ Range(list) \subseteq Range(st.rest)
        /\ Len(list) = IF 1 <= n THEN n - 1 + 1 ELSE 0
    BY <1>1, <2>1, RangeOfSubSeq
  <2>3. Len(list) = n
    BY <2>1, <2>2
  <2> HIDE DEF list
  <2>4. \A i \in 1..Len(list) : list[i] # Base
    BY <1>3, <2>2, InRange
  <2>5. /\ Replayed(st.acc, list) \in Seq(Link) /\ Replayed(st.acc, list) # Base
        /\ Len(Replayed(st.acc, list)) \in Len(st.acc)..Len(st.acc) + Len(list)
    BY <1>1, <2>2, <2>4, ReplayedType
  <2> QED BY <2>3, <2>5 DEF list
<1>5. FoldEffects(st, disk) = <<>> \/ FoldEffects(st, disk) = (IF n = Len(st.rest) THEN finish ELSE stop)
  BY DEF FoldEffects
<1> HIDE DEF n, acc
<1>6. replayed \in Nat /\ skipped \in Nat
  <2>1. PICK a \in Nat : a = Len(acc)
    BY <1>4
  <2>2. PICK b \in Nat : b = Len(st.acc)
    BY <1>1
  <2>3. PICK l \in Nat : l = Len(st.rest)
    BY <1>1
  <2>4. PICK r \in Nat, s \in Nat : r = st.replayed /\ s = st.skipped
    BY <1>1
  <2>5. a \in b..b + n /\ n \in 0..l
    BY <1>2, <1>4, <2>1, <2>2, <2>3
  <2>6. PICK k \in Nat : k = n
    BY <2>3, <2>5
  <2>7. b <= a /\ a <= b + k
    BY <2>1, <2>2, <2>5, <2>6
  <2>8. PICK d \in Nat : d = a - b /\ d <= k
    BY <2>1, <2>2, <2>6, <2>7
  <2>9. r + a - b = r + d /\ s + k - (a - b) = s + (k - d)
    BY <2>1, <2>2, <2>4, <2>6, <2>8
  <2>10. r + d \in Nat /\ s + (k - d) \in Nat
    BY <2>4, <2>6, <2>8
  <2> QED BY <2>1, <2>2, <2>4, <2>6, <2>9, <2>10
<1>7. /\ TreeOf(acc) \in Tree /\ Ancestry(acc) \subseteq Seq(Link) /\ acc \in Ancestry(acc)
  BY <1>4, TreeOfType, AncestryType, SelfInAncestry
<1>8. Put(Ancestry(acc)) \in Effects
  BY <1>7 DEF Put, Effects, Puts
<1>9. <<>> \in Seq(Effects) /\ Fits(<<>>)
  BY DEF Fits
<1>10. finish \in Seq(Effects) /\ Fits(finish)
  <2>1. PICK count \in Nat : count = replayed + skipped
    BY <1>6
  <2> HIDE DEF replayed, skipped
  <2>2. Lay(TreeOf(acc), disk) \in Effects
    BY <1>7 DEF Lay, Effects, Lays
  <2>3. MoveTip(acc, "rebase") \in Effects
    BY <1>4 DEF MoveTip, Effects, TipMoves
  <2>4. Record("rebase", st.original, acc, count) \in Effects
    BY <1>1, <1>4, <2>1 DEF Record, Effects, Records
  <2>5. WriteRebase(NoRebase) \in Effects
    BY NoRebaseType DEF WriteRebase, Effects, RebaseWrites
  <2>6. finish \in Seq(Effects)
    BY <1>8, <2>1, <2>2, <2>3, <2>4, <2>5
  <2>7. /\ Len(finish) = 5 /\ finish[1] = Put(Ancestry(acc))
        /\ finish[2].do = "lay" /\ finish[3] = MoveTip(acc, "rebase")
        /\ finish[4].do = "record" /\ finish[5] = WriteRebase(NoRebase)
    BY DEF Lay, Record
  <2> HIDE DEF finish
  <2>8. Ancestry(acc) \subseteq StoredAt(finish, 3)
    BY <2>7, StoredEarlier DEF Put
  <2>9. \A i \in 1..5 : EffectFits(finish, i)
    BY <1>4, <2>7, <2>8 DEF EffectFits, TipFits, Put, MoveTip, WriteRebase
  <2> QED BY <2>6, <2>7, <2>9 DEF Fits
<1>11. ASSUME n # Len(st.rest) PROVE stop \in Seq(Effects) /\ Fits(stop)
  <2>1. n + 1 \in 1..Len(st.rest) /\ n + 2 \in Nat \ {0}
    BY <1>1, <1>2, <1>11
  <2>2. conflicted \in Range(st.rest)
    BY <1>1, <2>1, InRange
  <2>3. conflicted \in Seq(Link) /\ conflicted # Base /\ conflicted \in Ancestry(st.original)
    BY <1>3, <2>2
  <2>4. left \in Seq(Seq(Link)) /\ Range(left) \subseteq Range(st.rest)
    <3>1. PICK m \in Nat \ {0}, l \in Nat : m = n + 2 /\ l = Len(st.rest)
      BY <1>1, <2>1
    <3>2. PICK list \in Seq(Seq(Link)) : list = st.rest
      BY <1>1
    <3>3. l <= Len(list)
      BY <3>1, <3>2
    <3>4. SubSeq(list, m, l) \in Seq(Seq(Link)) /\ Range(SubSeq(list, m, l)) \subseteq Range(list)
      BY <3>1, <3>2, <3>3, RangeOfSubSeq
    <3> QED BY <3>1, <3>2, <3>4
  <2> HIDE DEF conflicted, left
  <2>5. stopTree \in Tree
    BY <1>7, <2>3, CommitChangeType, WithType
  <2> HIDE DEF stopTree, replayed, skipped
  <2>6. stopped \in RebaseStates
    BY <1>1, <1>4, <1>6, <2>3, <2>4 DEF RebaseStates
  <2>7. RebaseFits(stopped) /\ stopped.acc = acc
    BY <1>4, <2>3, <2>4 DEF RebaseFits
  <2> HIDE DEF stopped
  <2>8. PutTree(stopTree) \in Effects /\ WriteRebaseRoot(stopTree) \in Effects
    BY <2>5 DEF PutTree, WriteRebaseRoot, Effects, TreeWrites
  <2>9. Lay(stopTree, disk) \in Effects
    BY <2>5 DEF Lay, Effects, Lays
  <2>10. WriteRebase(stopped) \in Effects
    BY <2>6 DEF WriteRebase, Effects, RebaseWrites
  <2>11. stop \in Seq(Effects)
    BY <1>8, <2>8, <2>9, <2>10
  <2>12. /\ Len(stop) = 5 /\ stop[1] = Put(Ancestry(acc))
         /\ stop[2] = PutTree(stopTree) /\ stop[3].do = "lay"
         /\ stop[4] = WriteRebaseRoot(stopTree) /\ stop[5] = WriteRebase(stopped)
    BY DEF Lay
  <2> HIDE DEF stop
  <2>13. stopTree \in TreesAt(stop, 4)
    BY <2>12, StoredEarlier DEF PutTree
  <2>14. acc \in StoredAt(stop, 5)
    BY <1>7, <2>12, StoredEarlier DEF Put
  <2>15. WrittenBefore("rebaseRoot", stop, 5)
    BY <2>12 DEF WrittenBefore, WriteRebaseRoot
  <2>16. \A i \in 1..5 : EffectFits(stop, i)
    BY <2>7, <2>12, <2>13, <2>14, <2>15
       DEF EffectFits, RebaseWriteFits, Put, PutTree, WriteRebaseRoot, WriteRebase
  <2> QED BY <2>11, <2>12, <2>16 DEF Fits
<1> HIDE DEF finish, stop
<1> QED BY <1>5, <1>9, <1>10, <1>11

LEMMA NothingEarlier ==
  ASSUME NEW list
  PROVE  /\ StoredAt(list, 1) = snapshots /\ TreesAt(list, 1) = trees
         /\ \A what : ~ WrittenBefore(what, list, 1)
BY DEF StoredAt, TreesAt, WrittenBefore

\* A list that fits in the store fits after another.
LEMMA ConcatFits ==
  ASSUME NEW a \in Seq(Effects), NEW b \in Seq(Effects), Fits(a), Fits(b)
  PROVE  a \o b \in Seq(Effects) /\ Fits(a \o b)
<1> DEFINE c == a \o b
<1>1. /\ c \in Seq(Effects) /\ Len(c) = Len(a) + Len(b)
      /\ \A i \in 1..Len(a) + Len(b) : c[i] = IF i <= Len(a) THEN a[i] ELSE b[i - Len(a)]
  BY ConcatProperties
<1>2. Len(a) \in Nat /\ Len(b) \in Nat
  BY LenProperties
<1> HIDE DEF c
<1>3. ASSUME NEW i \in 1..Len(a) PROVE EffectFits(c, i)
  <2>1. \A j \in 1..i : c[j] = a[j]
    BY <1>1, <1>2
  <2>2. /\ StoredAt(a, i) \subseteq StoredAt(c, i)
        /\ TreesAt(a, i) \subseteq TreesAt(c, i)
        /\ \A what : WrittenBefore(what, a, i) => WrittenBefore(what, c, i)
    BY <1>2, <2>1 DEF StoredAt, TreesAt, WrittenBefore
  <2>3. EffectFits(a, i) /\ c[i] = a[i]
    BY <1>2, <2>1 DEF Fits
  <2> QED BY <2>2, <2>3 DEF EffectFits, TipFits, RebaseWriteFits, PickWriteFits
<1>4. ASSUME NEW k \in 1..Len(b) PROVE EffectFits(c, Len(a) + k)
  <2> DEFINE i == Len(a) + k
  <2>1. ASSUME NEW j \in 1..k PROVE Len(a) + j \in 1..i /\ c[Len(a) + j] = b[j]
    <3>1. PICK la \in Nat, lb \in Nat : la = Len(a) /\ lb = Len(b)
      BY <1>2
    <3>2. PICK m \in 1..la + lb : m = la + j
      BY <1>4, <3>1
    <3>3. ~ (m <= la) /\ m - la = j /\ m \in 1..la + k
      BY <3>1, <3>2
    <3>4. c[m] = b[j]
      BY <1>1, <3>1, <3>2, <3>3
    <3> QED BY <3>1, <3>2, <3>3, <3>4
  <2>2. \A j \in 1..k - 1 : Len(a) + j \in 1..i - 1 /\ c[Len(a) + j] = b[j]
    BY <1>2, <2>1
  <2> HIDE DEF i
  <2>3. StoredAt(b, k) \subseteq StoredAt(c, i)
    BY <2>2 DEF StoredAt
  <2>4. TreesAt(b, k) \subseteq TreesAt(c, i)
    BY <2>2 DEF TreesAt
  <2>5. \A what : WrittenBefore(what, b, k) => WrittenBefore(what, c, i)
    BY <2>2 DEF WrittenBefore
  <2>6. EffectFits(b, k) /\ c[i] = b[k]
    BY <1>2, <2>1 DEF Fits, i
  <2>7. EffectFits(c, i)
    BY <2>3, <2>4, <2>5, <2>6 DEF EffectFits, TipFits, RebaseWriteFits, PickWriteFits
  <2> QED BY <2>7 DEF i
<1>5. ASSUME NEW i \in 1..Len(c) PROVE EffectFits(c, i)
  <2>1. CASE i \in 1..Len(a)
    BY <1>3, <2>1
  <2>2. CASE i \notin 1..Len(a)
    <3>1. PICK k \in 1..Len(b) : i = Len(a) + k
      <4>1. i - Len(a) \in 1..Len(b) /\ i = Len(a) + (i - Len(a))
        BY <1>1, <1>2, <2>2
      <4> QED BY <4>1
    <3> QED BY <1>4, <3>1
  <2> QED BY <2>1, <2>2
<1>6. Fits(c)
  BY <1>5 DEF Fits
<1> QED BY <1>1, <1>6 DEF c

LEMMA FitsStable ==
  ASSUME NEW list, Fits(list), UNCHANGED <<snapshots, trees, rebaseRoot, pickRoot>>
  PROVE  Fits(list)'
BY DEF Fits, EffectFits, TipFits, RebaseWriteFits, PickWriteFits, StoredAt, TreesAt

\* Once the first effect is applied, the others find it stored.
LEMMA FitsAfterFirst ==
  ASSUME NEW list \in Seq(Effects), list # <<>>, Fits(list),
         snapshots' = IF list[1].do = "put" THEN snapshots \cup list[1].ids ELSE snapshots,
         trees' = IF list[1].do = "putTree" THEN trees \cup {list[1].tree} ELSE trees,
         rebaseRoot' = IF list[1].do = "rebaseRoot" THEN list[1].tree ELSE rebaseRoot,
         pickRoot' = IF list[1].do = "pickRoot" THEN list[1].tree ELSE pickRoot
  PROVE  Fits(Tail(list))'
<1> DEFINE rest == Tail(list)
<1>1. Len(list) \in Nat \ {0} /\ Len(rest) = Len(list) - 1
  BY EmptySeq, HeadTailProperties
<1>2. \A i \in 1..Len(rest) : rest[i] = list[i + 1]
  BY HeadTailProperties
<1> HIDE DEF rest
<1>3. EffectFits(list, 1)
  BY <1>1 DEF Fits
<1>4. rebaseRoot \in trees => rebaseRoot' \in trees'
  <2>1. CASE list[1].do = "rebaseRoot"
    BY <1>3, <2>1, NothingEarlier DEF EffectFits
  <2> QED BY <2>1
<1>5. pickRoot \in trees => pickRoot' \in trees'
  <2>1. CASE list[1].do = "pickRoot"
    BY <1>3, <2>1, NothingEarlier DEF EffectFits
  <2> QED BY <2>1
<1>6. list[1].do = "rebaseRoot" => rebaseRoot' \in trees'
  BY <1>3, NothingEarlier DEF EffectFits
<1>7. list[1].do = "pickRoot" => pickRoot' \in trees'
  BY <1>3, NothingEarlier DEF EffectFits
<1>8. ASSUME NEW i \in 1..Len(rest) PROVE EffectFits(rest, i)'
  <2>1. i + 1 \in 1..Len(list) /\ i \in Nat /\ rest[i] = list[i + 1]
    BY <1>1, <1>2
  <2>2. EffectFits(list, i + 1)
    BY <2>1 DEF Fits
  <2>3. ASSUME NEW j \in 1..i + 1 - 1, j # 1
        PROVE  j - 1 \in 1..i - 1 /\ rest[j - 1] = list[j]
    BY <1>1, <1>2, <2>1, <2>3
  <2>4. StoredAt(list, i + 1) \subseteq StoredAt(rest, i)'
    <3> SUFFICES ASSUME NEW s \in StoredAt(list, i + 1) PROVE s \in StoredAt(rest, i)'
      OBVIOUS
    <3>1. CASE s \in snapshots
      BY <3>1 DEF StoredAt
    <3>2. CASE s \notin snapshots
      <4>1. PICK j \in 1..i + 1 - 1 : list[j].do = "put" /\ s \in list[j].ids
        BY <3>2 DEF StoredAt
      <4>2. CASE j = 1
        BY <4>1, <4>2 DEF StoredAt
      <4>3. CASE j # 1
        <5>1. j - 1 \in 1..i - 1 /\ rest[j - 1] = list[j]
          BY <2>3, <4>1, <4>3
        <5>2. PICK k \in 1..i - 1 : rest[k] = list[j]
          BY <5>1
        <5> QED BY <4>1, <5>2 DEF StoredAt
      <4> QED BY <4>2, <4>3
    <3> QED BY <3>1, <3>2
  <2>5. TreesAt(list, i + 1) \subseteq TreesAt(rest, i)'
    <3> SUFFICES ASSUME NEW t \in TreesAt(list, i + 1) PROVE t \in TreesAt(rest, i)'
      OBVIOUS
    <3>1. CASE t \in trees
      BY <3>1 DEF TreesAt
    <3>2. CASE t \notin trees
      <4>1. PICK j \in 1..i + 1 - 1 : list[j].do = "putTree" /\ t = list[j].tree
        BY <3>2 DEF TreesAt
      <4>2. CASE j = 1
        BY <4>1, <4>2 DEF TreesAt
      <4>3. CASE j # 1
        <5>1. j - 1 \in 1..i - 1 /\ rest[j - 1] = list[j]
          BY <2>3, <4>1, <4>3
        <5>2. PICK k \in 1..i - 1 : rest[k] = list[j]
          BY <5>1
        <5> QED BY <4>1, <5>2 DEF TreesAt
      <4> QED BY <4>2, <4>3
    <3> QED BY <3>1, <3>2
  <2>6. ASSUME NEW what, WrittenBefore(what, list, i + 1)
        PROVE  list[1].do = what \/ WrittenBefore(what, rest, i)
    <3>1. PICK j \in 1..i + 1 - 1 : list[j].do = what
      BY <2>6 DEF WrittenBefore
    <3>2. CASE j # 1
      <4>1. j - 1 \in 1..i - 1 /\ rest[j - 1] = list[j]
        BY <2>3, <3>1, <3>2
      <4>2. PICK k \in 1..i - 1 : rest[k] = list[j]
        BY <4>1
      <4> QED BY <3>1, <4>2 DEF WrittenBefore
    <3> QED BY <3>1, <3>2
  <2>7. list[i + 1].do = "tip" => TipFits(rest, i)'
    BY <2>1, <2>2, <2>4 DEF EffectFits, TipFits
  <2>8. list[i + 1].do \in {"rebaseRoot", "pickRoot"} => (rest[i].tree \in TreesAt(rest, i))'
    BY <2>1, <2>2, <2>5 DEF EffectFits
  <2>9. list[i + 1].do = "rebase" /\ list[i + 1].state # NoRebase => RebaseWriteFits(rest, i)'
    <3> SUFFICES ASSUME list[i + 1].do = "rebase", list[i + 1].state # NoRebase
                 PROVE  RebaseWriteFits(rest, i)'
      OBVIOUS
    <3>1. RebaseWriteFits(list, i + 1)
      BY <2>2 DEF EffectFits
    <3>2. rebaseRoot' \in trees' \/ WrittenBefore("rebaseRoot", rest, i)
      BY <1>4, <1>6, <2>6, <3>1 DEF RebaseWriteFits
    <3> QED BY <2>1, <2>4, <3>1, <3>2 DEF RebaseWriteFits, WrittenBefore
  <2>10. list[i + 1].do = "pick" /\ list[i + 1].id # NoPick => PickWriteFits(rest, i)'
    <3> SUFFICES ASSUME list[i + 1].do = "pick", list[i + 1].id # NoPick
                 PROVE  PickWriteFits(rest, i)'
      OBVIOUS
    <3>1. PickWriteFits(list, i + 1)
      BY <2>2 DEF EffectFits
    <3>2. pickRoot' \in trees' \/ WrittenBefore("pickRoot", rest, i)
      BY <1>5, <1>7, <2>6, <3>1 DEF PickWriteFits
    <3> QED BY <2>1, <2>4, <3>1, <3>2 DEF PickWriteFits, WrittenBefore
  <2> QED BY <2>1, <2>7, <2>8, <2>9, <2>10 DEF EffectFits
<1>9. Fits(rest)'
  BY <1>8 DEF Fits
<1> QED BY <1>9 DEF rest

-----------------------------------------------------------------------------
(* The steps *)

LEMMA InitInv == ReplayInit => ReplayInv
<1> SUFFICES ASSUME ReplayInit PROVE ReplayInv
  OBVIOUS
<1>1. shared \subseteq Own /\ clash \subseteq Own \cup {Picked}
  BY DEF ReplayInit
<1>2. /\ Original \in Seq(Link) /\ Original # Base
      /\ TargetTip \in Seq(Link) /\ TargetTip # Base
      /\ PickedTip \in Seq(Link) /\ PickedTip # Base
  BY <1>1, StartType
<1>3. snapshots \subseteq Seq(Link)
  <2>1. /\ Ancestry(Original) \subseteq Seq(Link)
        /\ Ancestry(TargetTip) \subseteq Seq(Link)
        /\ Ancestry(PickedTip) \subseteq Seq(Link)
    BY <1>2, AncestryType
  <2> QED BY <2>1 DEF ReplayInit
<1>4. Base \in Seq(Link)
  BY DEF Base
<1>5. {newest.before, newest.after} \subseteq Seq(Link)
  BY <1>2, <1>4 DEF ReplayInit
<1>6. {files, rebaseRoot, pickRoot} \subseteq Tree
  BY <1>2, TreeOfType, EmptyTreeType DEF ReplayInit
<1>7. clash \subseteq Change
  BY <1>1, ReplayAssumption DEF Own, Picked, Change
<1>8. rebase \in RebaseStates
  BY NoRebaseType DEF ReplayInit
<1>9. /\ {rebase.original, rebase.acc, rebase.conflicted} \subseteq Seq(Link)
      /\ rebase.rest \in Seq(Seq(Link)) /\ rebase.resolved \in BOOLEAN
      /\ rebase.replayed \in Nat /\ rebase.skipped \in Nat
  BY <1>8 DEF RebaseStates
<1>10. /\ {side, torn} \subseteq BOOLEAN /\ trees \subseteq Tree
       /\ begun \in 0..MaxReplays /\ killed \in 0..MaxReplayCrashes
  <2>1. side = TRUE /\ torn = FALSE /\ trees = {} /\ begun = 0 /\ killed = 0
    BY DEF ReplayInit
  <2>2. side \in BOOLEAN /\ torn \in BOOLEAN
    BY <2>1, Zenon
  <2> QED BY <2>1, <2>2, ReplayAssumption
<1>11. \A s \in snapshots \cup {tip, pick} : s \in Seq(Link)
  BY <1>2, <1>3, <1>4 DEF ReplayInit, NoPick, Base
<1>12. ReplayTypeOK
  BY <1>1, <1>5, <1>6, <1>7, <1>9, <1>10, <1>11 DEF ReplayTypeOK
<1>13. BranchStored
  BY <1>2 DEF ReplayInit, BranchStored
<1>14. RebaseStored
  BY DEF ReplayInit, RebaseStored
<1>15. PickStored
  BY <1>2, SelfInAncestry DEF ReplayInit, PickStored
<1>16. todo = <<>> /\ todo \in Seq(Effects) /\ Fits(todo)
  BY DEF ReplayInit, Fits
<1> QED BY <1>8, <1>12, <1>13, <1>14, <1>15, <1>16 DEF ReplayInv

LEMMA TypeParts ==
  ASSUME ReplayTypeOK
  PROVE  /\ clash \subseteq Change /\ shared \subseteq Own
         /\ snapshots \subseteq Seq(Link) /\ tip \in Seq(Link) /\ pick \in Seq(Link)
         /\ trees \subseteq Tree /\ files \in Tree /\ rebaseRoot \in Tree /\ pickRoot \in Tree
         /\ newest.before \in Seq(Link) /\ newest.after \in Seq(Link)
         /\ side \in BOOLEAN /\ torn \in BOOLEAN
         /\ begun \in 0..MaxReplays /\ killed \in 0..MaxReplayCrashes
BY DEF ReplayTypeOK

LEMMA PartsType ==
  ASSUME clash \subseteq Change, shared \subseteq Own,
         snapshots \subseteq Seq(Link), tip \in Seq(Link), pick \in Seq(Link),
         trees \subseteq Tree, files \in Tree, rebaseRoot \in Tree, pickRoot \in Tree,
         newest.before \in Seq(Link), newest.after \in Seq(Link),
         rebase \in RebaseStates, side \in BOOLEAN, torn \in BOOLEAN,
         begun \in 0..MaxReplays, killed \in 0..MaxReplayCrashes
  PROVE  ReplayTypeOK
BY DEF ReplayTypeOK, RebaseStates

\* A command that starts writes nothing yet.
LEMMA ApplyKeeps ==
  ASSUME ReplayInv, NEW effects \in Seq(Effects), Fits(effects),
         Apply(effects), begun' \in 0..MaxReplays
  PROVE  ReplayInv'
<1>1. /\ todo' = effects
      /\ UNCHANGED <<clash, shared, snapshots, trees, side, torn, killed>>
      /\ UNCHANGED <<tip, files, newest, rebase, rebaseRoot, pick, pickRoot>>
  BY DEF Apply, repoFiles
<1>2. ReplayTypeOK'
  BY <1>1 DEF ReplayInv, ReplayTypeOK
<1>3. (rebase \in RebaseStates)' /\ (todo \in Seq(Effects))'
  BY <1>1 DEF ReplayInv
<1>4. BranchStored' /\ RebaseStored' /\ PickStored'
  BY <1>1 DEF ReplayInv, BranchStored, RebaseStored, PickStored
<1>5. Fits(effects)'
  BY <1>1, FitsStable
<1>6. Fits(todo)'
  BY <1>1, <1>5
<1> QED BY <1>2, <1>3, <1>4, <1>6 DEF ReplayInv

LEMMA RunKeeps ==
  ASSUME ReplayInv, NEW effects \in Seq(Effects), Fits(effects), Run(effects)
  PROVE  ReplayInv'
<1>1. Apply(effects) /\ begun' = begun
  BY DEF Run
<1>2. begun' \in 0..MaxReplays
  BY <1>1, TypeParts DEF ReplayInv
<1> QED BY <1>1, <1>2, ApplyKeeps

LEMMA RunNewKeeps ==
  ASSUME ReplayInv, NEW effects \in Seq(Effects), Fits(effects), RunNew(effects)
  PROVE  ReplayInv'
<1>1. begun < MaxReplays /\ begun' = begun + 1 /\ Apply(effects)
  BY DEF RunNew
<1>2. begun \in 0..MaxReplays
  BY TypeParts DEF ReplayInv
<1>3. begun' \in 0..MaxReplays
  BY <1>1, <1>2, ReplayAssumption
<1> QED BY <1>1, <1>3, ApplyKeeps

\* A step between commands that leaves what is stopped alone.
LEMMA IdleFits ==
  ASSUME todo' = <<>>
  PROVE  (todo \in Seq(Effects))' /\ Fits(todo)'
BY DEF Fits

LEMMA RebaseStep ==
  ASSUME ReplayInv, Rebase
  PROVE  ReplayInv'
<1> DEFINE list == [i \in DOMAIN tip |-> SubSeq(tip, 1, i)]
           st == [NoRebase EXCEPT !.original = tip, !.acc = TargetTip, !.rest = list]
<1>1. /\ tip \in Seq(Link) /\ tip # Base /\ shared \subseteq Own
  BY TypeParts DEF ReplayInv, BranchStored
<1>2. TargetTip \in Seq(Link) /\ TargetTip # Base
  BY <1>1, StartType
<1>3. PICK m \in Nat : m = Len(tip) /\ DOMAIN tip = 1..m
  BY <1>1, LenProperties
<1>4. \A i \in 1..m : list[i] \in Ancestry(tip) /\ list[i] \in Seq(Link)
  <2> TAKE i \in 1..m
  <2>1. list[i] = SubSeq(tip, 1, i) /\ i \in 1..Len(tip)
    BY <1>3
  <2>2. SubSeq(tip, 1, i) \in Ancestry(tip)
    BY <2>1 DEF Ancestry
  <2> QED BY <1>1, <2>1, <2>2, AncestryType
<1>5. DOMAIN list = 1..m
  BY <1>3
<1>6. list = [i \in 1..m |-> list[i]]
  BY <1>5
<1>9. RunNew(FoldEffects(st, TreeOf(tip)))
  BY DEF Rebase
<1> HIDE DEF list
<1>7. list \in Seq(Seq(Link)) /\ Range(list) \subseteq Ancestry(tip)
  <2>1. list \in [1..m -> Seq(Link)]
    BY <1>4, <1>6
  <2> QED BY <1>3, <1>4, <1>5, <2>1 DEF Range
<1>8. /\ st.original = tip /\ st.acc = TargetTip /\ st.rest = list
      /\ st \in RebaseStates
  BY <1>1, <1>2, <1>7, NoRebaseType DEF RebaseStates
<1> HIDE DEF st
<1>10. PICK effects : effects = FoldEffects(st, TreeOf(tip))
  OBVIOUS
<1>11. TreeOf(tip) \in Tree
  BY <1>1, TreeOfType
<1>12. effects \in Seq(Effects) /\ Fits(effects)
  <2>1. PICK d \in Tree, r \in RebaseStates : d = TreeOf(tip) /\ r = st
    BY <1>8, <1>11
  <2>2. r.original # Base /\ r.acc # Base /\ Range(r.rest) \subseteq Ancestry(r.original)
    BY <1>1, <1>2, <1>7, <1>8, <2>1
  <2>3. FoldEffects(r, d) \in Seq(Effects) /\ Fits(FoldEffects(r, d))
    BY <2>2, FoldFits
  <2> QED BY <1>10, <2>1, <2>3
<1> QED BY <1>9, <1>10, <1>12, RunNewKeeps

\* The conflicted commit completed is a commit, and putting it comes first.
LEMMA CompletedFits ==
  ASSUME ReplayInv, rebase # NoRebase
  PROVE  LET c == Completed(rebase)
             effects == <<Put({c.acc}), WriteRebase(c)>>
         IN  /\ c \in RebaseStates /\ RebaseFits(c)
             /\ effects \in Seq(Effects) /\ Fits(effects)
<1> DEFINE x == [change |-> CommitChange(rebase.conflicted), tree |-> files]
           c == Completed(rebase)
           effects == <<Put({c.acc}), WriteRebase(c)>>
<1>1. /\ rebase \in RebaseStates /\ RebaseFits(rebase) /\ rebaseRoot \in trees
      /\ files \in Tree
  BY TypeParts DEF ReplayInv, RebaseStored
<1>2. rebase.original \in Seq(Link) /\ rebase.acc \in Seq(Link) /\ rebase.replayed \in Nat
  BY <1>1 DEF RebaseStates
<1>3. rebase.conflicted \in Seq(Link) /\ rebase.conflicted # Base
  BY <1>1, <1>2, AncestryType DEF RebaseFits
<1>4. x \in Link
  BY <1>1, <1>3, CommitChangeType DEF Link
<1> HIDE DEF x
<1>5. PICK acc \in Seq(Link) : acc = Append(rebase.acc, x) /\ acc # <<>>
  BY <1>2, <1>4, AppendProperties
<1>6. PICK n \in Nat : n = rebase.replayed + 1
  BY <1>2
<1>7. c = [rebase EXCEPT !.acc = acc, !.resolved = TRUE, !.replayed = n]
  BY <1>5, <1>6 DEF Completed, x
<1> HIDE DEF c
<1>8. /\ c \in RebaseStates /\ c.acc = acc /\ c.original = rebase.original
      /\ c.conflicted = rebase.conflicted /\ c.rest = rebase.rest
  BY <1>1, <1>7 DEF RebaseStates
<1>9. RebaseFits(c)
  BY <1>1, <1>5, <1>8 DEF RebaseFits, Base
<1>10. Put({acc}) \in Effects
  BY DEF Put, Effects, Puts
<1>11. WriteRebase(c) \in Effects
  BY <1>8 DEF WriteRebase, Effects, RebaseWrites
<1>12. effects \in Seq(Effects)
  BY <1>8, <1>10, <1>11
<1>13. Len(effects) = 2 /\ effects[1] = Put({acc}) /\ effects[2] = WriteRebase(c)
  BY <1>8
<1> HIDE DEF effects
<1>14. acc \in StoredAt(effects, 2)
  BY <1>13, StoredEarlier DEF Put
<1>15. \A i \in 1..2 : EffectFits(effects, i)
  BY <1>1, <1>8, <1>9, <1>13, <1>14 DEF EffectFits, RebaseWriteFits, Put, WriteRebase
<1>16. Fits(effects)
  BY <1>13, <1>15 DEF Fits
<1> QED BY <1>8, <1>9, <1>12, <1>16 DEF c, effects

LEMMA AdvancedFits ==
  ASSUME ReplayInv, rebase # NoRebase
  PROVE  /\ Advanced[1] \in RebaseStates /\ RebaseFits(Advanced[1])
         /\ Advanced[2] \in Seq(Effects) /\ Fits(Advanced[2])
<1>1. CASE rebase.resolved
  <2>1. Advanced = <<rebase, <<>> >>
    BY <1>1 DEF Advanced
  <2>2. <<>> \in Seq(Effects) /\ Fits(<<>>)
    BY DEF Fits
  <2> QED BY <2>1, <2>2 DEF ReplayInv, RebaseStored
<1>2. CASE ~ rebase.resolved
  <2>1. Advanced = <<Completed(rebase), <<Put({Completed(rebase).acc}), WriteRebase(Completed(rebase))>> >>
    BY <1>2 DEF Advanced
  <2> QED BY <2>1, CompletedFits
<1> QED BY <1>1, <1>2

LEMMA RebaseContinueStep ==
  ASSUME ReplayInv, RebaseContinue
  PROVE  ReplayInv'
<1>1. rebase # NoRebase /\ Run(Advanced[2] \o FoldEffects(Advanced[1], TreeOf(Advanced[1].acc)))
  BY DEF RebaseContinue, CanContinue
<1>2. PICK st \in RebaseStates : st = Advanced[1] /\ RebaseFits(st)
  BY <1>1, AdvancedFits
<1>3. PICK first \in Seq(Effects) : first = Advanced[2] /\ Fits(first)
  BY <1>1, AdvancedFits
<1>4. st.acc \in Seq(Link)
  BY <1>2 DEF RebaseStates
<1>5. PICK disk \in Tree : disk = TreeOf(st.acc)
  BY <1>4, TreeOfType
<1>6. st.original # Base /\ st.acc # Base /\ Range(st.rest) \subseteq Ancestry(st.original)
  BY <1>2 DEF RebaseFits
<1>7. PICK fold \in Seq(Effects) : fold = FoldEffects(st, disk) /\ Fits(fold)
  BY <1>6, FoldFits
<1>8. PICK effects \in Seq(Effects) : effects = first \o fold /\ Fits(effects)
  BY <1>3, <1>7, ConcatFits
<1>9. Run(effects)
  BY <1>1, <1>2, <1>3, <1>5, <1>7, <1>8
<1> QED BY <1>8, <1>9, RunKeeps

LEMMA RebaseContinueFailsStep ==
  ASSUME ReplayInv, RebaseContinueFails
  PROVE  ReplayInv'
<1>1. rebase # NoRebase /\ Run(Advanced[2])
  BY DEF RebaseContinueFails, CanContinue
<1>2. PICK effects \in Seq(Effects) : effects = Advanced[2] /\ Fits(effects)
  BY <1>1, AdvancedFits
<1> QED BY <1>1, <1>2, RunKeeps

LEMMA RebaseAbortStep ==
  ASSUME ReplayInv, RebaseAbort
  PROVE  ReplayInv'
<1>1. rebase.original \in Seq(Link) /\ rebaseRoot \in Tree
  BY TypeParts DEF ReplayInv, RebaseStates
<1>2. Restore(TreeOf(rebase.original), rebaseRoot) \in Effects
  BY <1>1, TreeOfType DEF Restore, Effects, Lays
<1>3. WriteRebase(NoRebase) \in Effects
  BY NoRebaseType DEF WriteRebase, Effects, RebaseWrites
<1>4. PICK lay \in Effects : lay = Restore(TreeOf(rebase.original), rebaseRoot) /\ lay.do = "lay"
  BY <1>2 DEF Restore
<1> DEFINE effects == <<lay, WriteRebase(NoRebase)>>
<1>5. effects \in Seq(Effects)
  BY <1>3
<1>6. Len(effects) = 2 /\ effects[1] = lay /\ effects[2] = WriteRebase(NoRebase)
  OBVIOUS
<1>7. Run(effects)
  BY <1>4 DEF RebaseAbort
<1> HIDE DEF effects
<1>8. \A i \in 1..2 : EffectFits(effects, i)
  BY <1>4, <1>6 DEF EffectFits, WriteRebase
<1>9. Fits(effects)
  BY <1>6, <1>8 DEF Fits
<1> QED BY <1>5, <1>7, <1>9, RunKeeps

LEMMA PickCleanStep ==
  ASSUME ReplayInv, PickClean
  PROVE  ReplayInv'
<1>1. tip \in Seq(Link) /\ tip # Base /\ Ancestry(tip) \subseteq snapshots
  BY TypeParts DEF ReplayInv, BranchStored
<1>2. Picked \in Change
  BY ReplayAssumption DEF Picked, Change
<1>3. PICK s \in Seq(Link) : s = Landed(tip, Picked) /\ s # Base
  BY <1>1, <1>2, LandedType
<1>4. Ancestry(s) \subseteq snapshots \cup {s}
  BY <1>1, <1>2, <1>3, AncestryOfLanded
<1>5. PICK lay \in Effects : lay = Lay(TreeOf(s), TreeOf(tip)) /\ lay.do = "lay"
  <2>1. Lay(TreeOf(s), TreeOf(tip)) \in Effects
    BY <1>1, TreeOfType DEF Lay, Effects, Lays
  <2> QED BY <2>1 DEF Lay
<1> DEFINE effects == <<Put({s}), lay, MoveTip(s, "pick"), Record("pick", tip, s, 1)>>
<1>6. Put({s}) \in Effects
  BY DEF Put, Effects, Puts
<1>7. MoveTip(s, "pick") \in Effects
  BY DEF MoveTip, Effects, TipMoves
<1>8. Record("pick", tip, s, 1) \in Effects
  BY <1>1 DEF Record, Effects, Records
<1>9. effects \in Seq(Effects)
  BY <1>6, <1>7, <1>8
<1>10. /\ Len(effects) = 4 /\ effects[1] = Put({s}) /\ effects[2] = lay
       /\ effects[3] = MoveTip(s, "pick") /\ effects[4] = Record("pick", tip, s, 1)
  OBVIOUS
<1>11. RunNew(effects)
  BY <1>3, <1>5 DEF PickClean
<1> HIDE DEF effects
<1>12. {s} \subseteq StoredAt(effects, 3)
  BY <1>10, StoredEarlier DEF Put
<1>13. snapshots \subseteq StoredAt(effects, 3)
  BY DEF StoredAt
<1>14. TipFits(effects, 3)
  BY <1>3, <1>4, <1>10, <1>12, <1>13 DEF TipFits, MoveTip
<1>15. \A i \in 1..4 : EffectFits(effects, i)
  BY <1>5, <1>10, <1>14 DEF EffectFits, Put, MoveTip, Record
<1>16. Fits(effects)
  BY <1>10, <1>15 DEF Fits
<1> QED BY <1>9, <1>11, <1>16, RunNewKeeps

LEMMA PickStopsStep ==
  ASSUME ReplayInv, PickStops
  PROVE  ReplayInv'
<1>1. tip \in Seq(Link) /\ side /\ PickedTip \in snapshots /\ PickedTip \in Seq(Link)
  BY TypeParts DEF ReplayInv, PickStored, PickStops, CanPick
<1>2. Picked \in Change
  BY ReplayAssumption DEF Picked, Change
<1>3. PICK t \in Tree : t = Marked(TreeOf(tip), Picked)
  BY <1>1, <1>2, TreeOfType, WithType
<1>4. PICK lay \in Effects : lay = Lay(t, TreeOf(tip)) /\ lay.do = "lay"
  <2>1. Lay(t, TreeOf(tip)) \in Effects
    BY <1>1, TreeOfType DEF Lay, Effects, Lays
  <2> QED BY <2>1 DEF Lay
<1> DEFINE effects == <<PutTree(t), lay, WritePickRoot(t), WritePick(PickedTip)>>
<1>5. PutTree(t) \in Effects /\ WritePickRoot(t) \in Effects
  BY DEF PutTree, WritePickRoot, Effects, TreeWrites
<1>6. WritePick(PickedTip) \in Effects
  BY <1>1 DEF WritePick, Effects, PickWrites
<1>7. effects \in Seq(Effects)
  BY <1>5, <1>6
<1>8. /\ Len(effects) = 4 /\ effects[1] = PutTree(t) /\ effects[2] = lay
      /\ effects[3] = WritePickRoot(t) /\ effects[4] = WritePick(PickedTip)
  OBVIOUS
<1>9. RunNew(effects)
  BY <1>3, <1>4 DEF PickStops
<1> HIDE DEF effects
<1>10. t \in TreesAt(effects, 3)
  BY <1>8, StoredEarlier DEF PutTree
<1>11. PickWriteFits(effects, 4)
  BY <1>1, <1>8 DEF PickWriteFits, StoredAt, WrittenBefore, WritePick, WritePickRoot
<1>12. \A i \in 1..4 : EffectFits(effects, i)
  BY <1>4, <1>8, <1>10, <1>11 DEF EffectFits, PutTree, WritePickRoot, WritePick
<1>13. Fits(effects)
  BY <1>8, <1>12 DEF Fits
<1> QED BY <1>7, <1>9, <1>13, RunNewKeeps

LEMMA CommitPickStep ==
  ASSUME ReplayInv, CommitPick
  PROVE  ReplayInv'
<1> DEFINE x == [change |-> CommitChange(pick), tree |-> files]
<1>1. /\ tip \in Seq(Link) /\ tip # Base /\ Ancestry(tip) \subseteq snapshots
      /\ pick \in Seq(Link) /\ pick # Base /\ files \in Tree
  BY TypeParts DEF ReplayInv, BranchStored, CommitPick, NoPick
<1>2. x \in Link
  BY <1>1, CommitChangeType DEF Link
<1> HIDE DEF x
<1>3. PICK s \in Seq(Link) : s = Append(tip, x) /\ s # Base
  BY <1>1, <1>2, AppendProperties DEF Base
<1>4. Ancestry(s) \subseteq snapshots \cup {s}
  BY <1>1, <1>2, <1>3, AncestryOfAppend
<1> DEFINE effects == <<Put({s}), MoveTip(s, "pick"), WritePick(NoPick), Record("pick", tip, s, 1)>>
<1>5. Put({s}) \in Effects
  BY DEF Put, Effects, Puts
<1>6. MoveTip(s, "pick") \in Effects
  BY DEF MoveTip, Effects, TipMoves
<1>7. Record("pick", tip, s, 1) \in Effects
  BY <1>1 DEF Record, Effects, Records
<1>8. WritePick(NoPick) \in Effects
  BY DEF WritePick, NoPick, Base, Effects, PickWrites
<1>9. effects \in Seq(Effects)
  BY <1>5, <1>6, <1>7, <1>8
<1>10. /\ Len(effects) = 4 /\ effects[1] = Put({s}) /\ effects[2] = MoveTip(s, "pick")
       /\ effects[3] = WritePick(NoPick) /\ effects[4] = Record("pick", tip, s, 1)
  OBVIOUS
<1>11. Run(effects)
  BY <1>3 DEF CommitPick, x
<1> HIDE DEF effects
<1>12. {s} \subseteq StoredAt(effects, 2)
  BY <1>10, StoredEarlier DEF Put
<1>13. snapshots \subseteq StoredAt(effects, 2)
  BY DEF StoredAt
<1>14. TipFits(effects, 2)
  <2>1. s # Base /\ effects[2].id = s
    BY <1>3, <1>10 DEF MoveTip
  <2> QED BY <1>4, <1>12, <1>13, <2>1 DEF TipFits
<1>15. \A i \in 1..4 : EffectFits(effects, i)
  BY <1>10, <1>14 DEF EffectFits, Put, MoveTip, WritePick, Record
<1>16. Fits(effects)
  BY <1>10, <1>15 DEF Fits
<1> QED BY <1>9, <1>11, <1>16, RunKeeps

LEMMA PickAbortStep ==
  ASSUME ReplayInv, PickAbort
  PROVE  ReplayInv'
<1>1. tip \in Seq(Link) /\ pickRoot \in Tree
  BY TypeParts DEF ReplayInv
<1>2. PICK lay \in Effects : lay = Restore(TreeOf(tip), pickRoot) /\ lay.do = "lay"
  <2>1. Restore(TreeOf(tip), pickRoot) \in Effects
    BY <1>1, TreeOfType DEF Restore, Effects, Lays
  <2> QED BY <2>1 DEF Restore
<1>3. WritePick(NoPick) \in Effects
  BY DEF WritePick, NoPick, Base, Effects, PickWrites
<1> DEFINE effects == <<lay, WritePick(NoPick)>>
<1>4. effects \in Seq(Effects)
  BY <1>3
<1>5. Len(effects) = 2 /\ effects[1] = lay /\ effects[2] = WritePick(NoPick)
  OBVIOUS
<1>6. Run(effects)
  BY <1>2 DEF PickAbort
<1> HIDE DEF effects
<1>7. \A i \in 1..2 : EffectFits(effects, i)
  BY <1>2, <1>5 DEF EffectFits, WritePick
<1>8. Fits(effects)
  BY <1>5, <1>7 DEF Fits
<1> QED BY <1>4, <1>6, <1>8, RunKeeps

LEMMA PeerPushStep ==
  ASSUME ReplayInv, PeerPush
  PROVE  ReplayInv'
<1>1. /\ tip' = Landed(tip, Pushed) /\ snapshots' = snapshots \cup {Landed(tip, Pushed)} /\ todo' = <<>>
      /\ UNCHANGED <<clash, shared, trees, side, torn, begun, killed>>
      /\ UNCHANGED <<files, newest, rebase, rebaseRoot, pick, pickRoot>>
  BY DEF PeerPush, PushAllowed, IdleRepo
<1>2. tip \in Seq(Link) /\ tip # Base /\ Ancestry(tip) \subseteq snapshots
  BY TypeParts DEF ReplayInv, BranchStored
<1>3. Pushed \in Change
  BY ReplayAssumption DEF Pushed, Change
<1>4. PICK s \in Seq(Link) : s = Landed(tip, Pushed) /\ s # Base
  BY <1>2, <1>3, LandedType
<1>5. Ancestry(s) \subseteq snapshots \cup {s}
  BY <1>2, <1>3, <1>4, AncestryOfLanded
<1>6. tip' = s /\ snapshots' = snapshots \cup {s}
  BY <1>1, <1>4
<1>7. ReplayTypeOK'
  BY <1>1, <1>6 DEF ReplayInv, ReplayTypeOK
<1>8. BranchStored'
  BY <1>4, <1>5, <1>6 DEF BranchStored, Ancestry
<1>9. (rebase \in RebaseStates)' /\ RebaseStored' /\ PickStored'
  BY <1>1, <1>6 DEF ReplayInv, RebaseStored, PickStored
<1> QED BY <1>1, <1>7, <1>8, <1>9, IdleFits DEF ReplayInv

\* What gc keeps: the branch, the accumulator, the picked commit, both trees.
LEMMA GcRunStep ==
  ASSUME ReplayInv, GcRun
  PROVE  ReplayInv'
<1> DEFINE Reached == UNION {Ancestry(s) : s \in ReplayRoots}
<1>1. /\ todo' = <<>> /\ snapshots' = snapshots \cap Reached
      /\ UNCHANGED <<clash, shared, side, torn, begun, killed>>
      /\ UNCHANGED <<tip, files, newest, rebase, rebaseRoot, pick, pickRoot>>
  BY DEF GcRun, IdleRepo
<1>2. /\ trees' \subseteq trees
      /\ rebase # NoRebase /\ rebaseRoot \in trees => rebaseRoot \in trees'
      /\ pick # NoPick /\ pickRoot \in trees => pickRoot \in trees'
  BY DEF GcRun
<1>3. Ancestry(tip) \subseteq Reached
  BY DEF ReplayRoots, Named
<1>4. /\ shared \subseteq Own /\ pick \in Seq(Link)
  BY TypeParts DEF ReplayInv
<1>5. rebase # NoRebase => rebase.acc \in Reached
  <2> SUFFICES ASSUME rebase # NoRebase PROVE rebase.acc \in Reached
    OBVIOUS
  <2>1. rebase.acc \in Seq(Link) /\ rebase.acc # Base
    BY DEF ReplayInv, RebaseStates, RebaseStored, RebaseFits
  <2>2. rebase.acc \in Ancestry(rebase.acc)
    BY <2>1, SelfInAncestry
  <2>3. rebase.acc \in ReplayRoots
    BY DEF ReplayRoots
  <2> QED BY <2>2, <2>3
<1>6. side \/ pick # NoPick => PickedTip \in Reached
  <2> SUFFICES ASSUME side \/ pick # NoPick PROVE PickedTip \in Reached
    OBVIOUS
  <2>1. PickedTip \in ReplayRoots
    BY DEF ReplayInv, PickStored, ReplayRoots, Named
  <2>2. PickedTip \in Ancestry(PickedTip)
    BY <1>4, StartType, SelfInAncestry
  <2> QED BY <2>1, <2>2
<1> HIDE DEF Reached
<1>7. ReplayTypeOK'
  BY <1>1, <1>2 DEF ReplayInv, ReplayTypeOK
<1>8. BranchStored'
  BY <1>1, <1>3 DEF ReplayInv, BranchStored
<1>9. RebaseStored'
  BY <1>1, <1>2, <1>5 DEF ReplayInv, RebaseStored
<1>10. PickStored'
  BY <1>1, <1>2, <1>6 DEF ReplayInv, PickStored
<1>11. (rebase \in RebaseStates)'
  BY <1>1 DEF ReplayInv
<1> QED BY <1>1, <1>7, <1>8, <1>9, <1>10, <1>11, IdleFits DEF ReplayInv

LEMMA LaidType ==
  ASSUME files \in Tree, NEW new \in Tree, NEW old \in Tree
  PROVE  Laid(new, old) \in Tree /\ HalfLaid(new, old) \subseteq Tree
<1>1. ASSUME NEW written PROVE LaidPart(new, old, written) \in Tree
  BY DEF LaidPart, Tree
<1>2. ASSUME NEW gone PROVE [has |-> files.has \ gone, marks |-> files.marks \ gone] \in Tree
  BY DEF Tree
<1> QED BY <1>1, <1>2 DEF Laid, HalfLaid

\* A step that moves nothing but the working tree and what is kept of it.
LEMMA FilesKeep ==
  ASSUME ReplayInv, files' \in Tree, torn' \in BOOLEAN, killed' \in 0..MaxReplayCrashes,
         todo' = <<>>, side' \in BOOLEAN, side' => side,
         UNCHANGED <<clash, shared, snapshots, trees, begun>>,
         UNCHANGED <<tip, newest, rebase, rebaseRoot, pick, pickRoot>>
  PROVE  ReplayInv'
<1>1. ReplayTypeOK'
  BY DEF ReplayInv, ReplayTypeOK
<1>2. (rebase \in RebaseStates)' /\ BranchStored' /\ RebaseStored' /\ PickStored'
  BY DEF ReplayInv, BranchStored, RebaseStored, PickStored
<1> QED BY <1>1, <1>2, IdleFits DEF ReplayInv

LEMMA SideMovesStep ==
  ASSUME ReplayInv, SideMoves
  PROVE  ReplayInv'
<1>1. /\ side' = FALSE /\ todo' = <<>>
      /\ UNCHANGED <<clash, shared, snapshots, trees, torn, begun, killed>>
      /\ UNCHANGED <<tip, files, newest, rebase, rebaseRoot, pick, pickRoot>>
  BY DEF SideMoves, IdleRepo, repoFiles
<1>2. side' \in BOOLEAN /\ ~ side'
  BY <1>1, Zenon
<1>3. files' \in Tree /\ torn' \in BOOLEAN /\ killed' \in 0..MaxReplayCrashes
  BY <1>1, TypeParts DEF ReplayInv
<1> QED BY <1>1, <1>2, <1>3, FilesKeep

LEMMA ResolveMarkersStep ==
  ASSUME ReplayInv, ResolveMarkers
  PROVE  ReplayInv'
<1>1. /\ files' = [has |-> Present(files), marks |-> {}] /\ todo' = <<>>
      /\ UNCHANGED <<clash, shared, snapshots, trees, side, torn, begun, killed>>
      /\ UNCHANGED <<tip, newest, rebase, rebaseRoot, pick, pickRoot>>
  BY DEF ResolveMarkers, IdleRepo
<1>2. files \in Tree
  BY TypeParts DEF ReplayInv
<1>3. files' \in Tree
  BY <1>1, <1>2 DEF Tree, Present
<1>4. torn' \in BOOLEAN /\ killed' \in 0..MaxReplayCrashes /\ side' \in BOOLEAN /\ side' = side
  BY <1>1, TypeParts DEF ReplayInv
<1> QED BY <1>1, <1>3, <1>4, FilesKeep

LEMMA TidyFilesStep ==
  ASSUME ReplayInv, TidyFiles
  PROVE  ReplayInv'
<1>1. /\ files' = TreeOf(tip) \/ files' = TreeOf(rebase.acc)
      /\ todo' = <<>>
      /\ UNCHANGED <<clash, shared, snapshots, trees, side, torn, begun, killed>>
      /\ UNCHANGED <<tip, newest, rebase, rebaseRoot, pick, pickRoot>>
  BY DEF TidyFiles, IdleRepo
<1>2. tip \in Seq(Link) /\ rebase.acc \in Seq(Link)
  BY TypeParts DEF ReplayInv, RebaseStates
<1>3. files' \in Tree
  BY <1>1, <1>2, TreeOfType
<1>4. torn' \in BOOLEAN /\ killed' \in 0..MaxReplayCrashes /\ side' \in BOOLEAN /\ side' = side
  BY <1>1, TypeParts DEF ReplayInv
<1> QED BY <1>1, <1>3, <1>4, FilesKeep

\* The first effect that is left.
LEMMA HeadEffect ==
  ASSUME ReplayInv, todo # <<>>
  PROVE  /\ Head(todo) = todo[1] /\ todo[1] \in Effects /\ EffectFits(todo, 1)
         /\ Tail(todo) \in Seq(Effects)
<1>1. todo \in Seq(Effects) /\ Fits(todo)
  BY DEF ReplayInv
<1>2. 1 \in 1..Len(todo)
  BY <1>1, EmptySeq
<1> QED BY <1>1, <1>2, HeadTailProperties DEF Fits

LEMMA EffectParts ==
  ASSUME NEW e \in Effects
  PROVE  /\ e.do = "put" => e.ids \subseteq Seq(Link)
         /\ e.do \in {"putTree", "rebaseRoot", "pickRoot"} => e.tree \in Tree
         /\ e.do = "lay" => e.tree \in Tree /\ e.over \in Tree /\ e.abort \in BOOLEAN
         /\ e.do = "tip" => e.id \in Seq(Link)
         /\ e.do = "record" => e.before \in Seq(Link) /\ e.after \in Seq(Link)
         /\ e.do = "rebase" => e.state \in RebaseStates
         /\ e.do = "pick" => e.id \in Seq(Link)
BY DEF Effects, Puts, TreeWrites, Lays, TipMoves, Records, RebaseWrites, PickWrites

LEMMA CrashCommandStep ==
  ASSUME ReplayInv, CrashCommand
  PROVE  ReplayInv'
<1>1. /\ todo # <<>> /\ killed < MaxReplayCrashes /\ killed' = killed + 1 /\ todo' = <<>>
      /\ UNCHANGED <<clash, shared, snapshots, trees, side, begun>>
      /\ UNCHANGED <<tip, newest, rebase, rebaseRoot, pick, pickRoot>>
  BY DEF CrashCommand
<1>2. PICK e \in Effects : e = Head(todo)
  BY <1>1, HeadEffect
<1>3. \/ /\ e.do = "lay" /\ files' \in HalfLaid(e.tree, e.over)
         /\ torn' = (torn \/ e.abort)
      \/ UNCHANGED <<files, torn>>
  BY <1>2 DEF CrashCommand
<1>4. /\ files \in Tree /\ torn \in BOOLEAN /\ side \in BOOLEAN /\ killed \in 0..MaxReplayCrashes
  BY TypeParts DEF ReplayInv
<1>5. files' \in Tree
  <2>1. e.do = "lay" => e.tree \in Tree /\ e.over \in Tree
    BY EffectParts
  <2> QED BY <1>3, <1>4, <2>1, LaidType
<1>6. torn' \in BOOLEAN
  BY <1>3, <1>4, Zenon
<1>7. killed' \in 0..MaxReplayCrashes
  BY <1>1, <1>4, ReplayAssumption
<1> QED BY <1>1, <1>4, <1>5, <1>6, <1>7, FilesKeep

LEMMA EffectStepStep ==
  ASSUME ReplayInv, EffectStep
  PROVE  ReplayInv'
<1>1. todo # <<>> /\ todo' = Tail(todo) /\ todo \in Seq(Effects) /\ Fits(todo)
  BY DEF EffectStep, ReplayInv
<1>2. PICK e \in Effects : e = Head(todo) /\ e = todo[1] /\ EffectFits(todo, 1)
  BY <1>1, HeadEffect
<1>3. /\ snapshots' = IF e.do = "put" THEN snapshots \cup e.ids ELSE snapshots
      /\ trees' = IF e.do = "putTree" THEN trees \cup {e.tree} ELSE trees
      /\ files' = IF e.do = "lay" THEN Laid(e.tree, e.over) ELSE files
      /\ tip' = IF e.do = "tip" THEN e.id ELSE tip
      /\ newest' = IF e.do = "record" THEN [before |-> e.before, after |-> e.after] ELSE newest
      /\ rebase' = IF e.do = "rebase" THEN e.state ELSE rebase
      /\ rebaseRoot' = IF e.do = "rebaseRoot" THEN e.tree ELSE rebaseRoot
      /\ pick' = IF e.do = "pick" THEN e.id ELSE pick
      /\ pickRoot' = IF e.do = "pickRoot" THEN e.tree ELSE pickRoot
  BY <1>2 DEF EffectStep
<1>4. torn' = FALSE \/ torn' = (torn \/ (e.do = "lay" /\ e.abort))
  BY <1>2 DEF EffectStep
<1>5. UNCHANGED <<clash, shared, side, begun, killed>>
  BY DEF EffectStep
<1>6. /\ clash \subseteq Change /\ shared \subseteq Own
      /\ snapshots \subseteq Seq(Link) /\ tip \in Seq(Link) /\ pick \in Seq(Link)
      /\ trees \subseteq Tree /\ files \in Tree /\ rebaseRoot \in Tree /\ pickRoot \in Tree
      /\ newest.before \in Seq(Link) /\ newest.after \in Seq(Link)
      /\ side \in BOOLEAN /\ torn \in BOOLEAN
      /\ begun \in 0..MaxReplays /\ killed \in 0..MaxReplayCrashes
      /\ rebase \in RebaseStates
  BY TypeParts DEF ReplayInv
<1>7. /\ e.do = "put" => e.ids \subseteq Seq(Link)
      /\ e.do \in {"putTree", "rebaseRoot", "pickRoot"} => e.tree \in Tree
      /\ e.do = "lay" => e.tree \in Tree /\ e.over \in Tree /\ e.abort \in BOOLEAN
      /\ e.do = "tip" => e.id \in Seq(Link)
      /\ e.do = "record" => e.before \in Seq(Link) /\ e.after \in Seq(Link)
      /\ e.do = "rebase" => e.state \in RebaseStates
      /\ e.do = "pick" => e.id \in Seq(Link)
  BY EffectParts
<1>8. snapshots' \subseteq Seq(Link) /\ trees' \subseteq Tree
  BY <1>3, <1>6, <1>7
<1>9. files' \in Tree
  BY <1>3, <1>6, <1>7, LaidType
<1>10. tip' \in Seq(Link) /\ pick' \in Seq(Link) /\ rebaseRoot' \in Tree /\ pickRoot' \in Tree
  BY <1>3, <1>6, <1>7
<1>11. newest'.before \in Seq(Link) /\ newest'.after \in Seq(Link)
  BY <1>3, <1>6, <1>7
<1>12. rebase' \in RebaseStates
  BY <1>3, <1>6, <1>7
<1>13. torn' \in BOOLEAN
  BY <1>4, <1>6, Zenon
<1>14. ReplayTypeOK'
  BY <1>5, <1>6, <1>8, <1>9, <1>10, <1>11, <1>12, <1>13 DEF ReplayTypeOK, RebaseStates
<1>15. StoredAt(todo, 1) = snapshots /\ TreesAt(todo, 1) = trees
  BY NothingEarlier
<1>16. snapshots \subseteq snapshots' /\ trees \subseteq trees'
  BY <1>3
<1>17. BranchStored'
  <2>1. BranchStored
    BY DEF ReplayInv
  <2>2. e.do = "tip" => e.id # Base /\ Ancestry(e.id) \subseteq snapshots
    BY <1>2, <1>15 DEF EffectFits, TipFits
  <2>3. PICK s : s = tip'
    OBVIOUS
  <2>4. s # Base /\ Ancestry(s) \subseteq snapshots
    BY <1>3, <2>1, <2>2, <2>3 DEF BranchStored
  <2> QED BY <1>16, <2>3, <2>4 DEF BranchStored, Ancestry
<1>18. RebaseStored'
  <2>1. RebaseStored
    BY DEF ReplayInv
  <2>2. CASE e.do = "rebase"
    <3>1. rebase' = e.state /\ rebaseRoot' = rebaseRoot
      BY <1>3, <2>2
    <3>2. e.state # NoRebase => RebaseWriteFits(todo, 1) /\ todo[1].state = e.state
      BY <1>2, <2>2 DEF EffectFits
    <3>3. e.state # NoRebase => RebaseFits(e.state) /\ e.state.acc \in snapshots /\ rebaseRoot \in trees
      BY <1>15, <3>2, NothingEarlier DEF RebaseWriteFits
    <3>4. PICK st : st = e.state
      OBVIOUS
    <3> QED BY <1>16, <3>1, <3>3, <3>4 DEF RebaseStored, RebaseFits, Ancestry, NoRebase
  <2>3. CASE e.do = "rebaseRoot"
    <3>1. rebase' = rebase /\ rebaseRoot' = e.tree
      BY <1>3, <2>3
    <3>2. e.tree \in trees
      BY <1>2, <1>15, <2>3 DEF EffectFits
    <3> QED BY <1>16, <2>1, <3>1, <3>2 DEF RebaseStored, RebaseFits
  <2>4. CASE e.do # "rebase" /\ e.do # "rebaseRoot"
    <3>1. rebase' = rebase /\ rebaseRoot' = rebaseRoot
      BY <1>3, <2>4
    <3> QED BY <1>16, <2>1, <3>1 DEF RebaseStored, RebaseFits
  <2> QED BY <2>2, <2>3, <2>4
<1>19. PickStored'
  <2>1. PickStored
    BY DEF ReplayInv
  <2>2. CASE e.do = "pick"
    <3>1. pick' = e.id /\ pickRoot' = pickRoot
      BY <1>3, <2>2
    <3>2. e.id # NoPick => PickWriteFits(todo, 1) /\ todo[1].id = e.id
      BY <1>2, <2>2 DEF EffectFits
    <3>3. e.id # NoPick => e.id = PickedTip /\ PickedTip \in snapshots /\ pickRoot \in trees
      BY <1>15, <3>2, NothingEarlier DEF PickWriteFits
    <3> QED BY <1>5, <1>16, <2>1, <3>1, <3>3 DEF PickStored
  <2>3. CASE e.do = "pickRoot"
    <3>1. pick' = pick /\ pickRoot' = e.tree
      BY <1>3, <2>3
    <3>2. e.tree \in trees
      BY <1>2, <1>15, <2>3 DEF EffectFits
    <3> QED BY <1>5, <1>16, <2>1, <3>1, <3>2 DEF PickStored
  <2>4. CASE e.do # "pick" /\ e.do # "pickRoot"
    <3>1. pick' = pick /\ pickRoot' = pickRoot
      BY <1>3, <2>4
    <3> QED BY <1>5, <1>16, <2>1, <3>1 DEF PickStored
  <2> QED BY <2>2, <2>3, <2>4
<1>20. (todo \in Seq(Effects))'
  BY <1>1, HeadEffect
<1>21. Fits(todo)'
  <2>1. PICK list \in Seq(Effects) : list = todo /\ list # <<>> /\ Fits(list)
    BY <1>1
  <2>2. e = list[1] /\ todo' = Tail(list)
    BY <1>1, <1>2, <2>1
  <2>3. Fits(Tail(list))'
    BY <1>3, <2>1, <2>2, FitsAfterFirst
  <2> QED BY <2>2, <2>3
<1> QED BY <1>12, <1>14, <1>17, <1>18, <1>19, <1>20, <1>21 DEF ReplayInv

LEMMA ReplayInvHolds == ReplaySpec => []ReplayInv
<1>1. ReplayInit => ReplayInv
  BY InitInv
<1>2. ReplayInv /\ [ReplayNext]_replayVars => ReplayInv'
  <2> SUFFICES ASSUME ReplayInv, [ReplayNext]_replayVars PROVE ReplayInv'
    OBVIOUS
  <2>1. CASE UNCHANGED replayVars
    <3>1. /\ UNCHANGED <<clash, shared, snapshots, trees, side, torn, begun, killed, todo>>
          /\ UNCHANGED <<tip, files, newest, rebase, rebaseRoot, pick, pickRoot>>
      BY <2>1 DEF replayVars, repoFiles
    <3>2. ReplayTypeOK' /\ (rebase \in RebaseStates)' /\ (todo \in Seq(Effects))'
      BY <3>1 DEF ReplayInv, ReplayTypeOK
    <3>3. BranchStored' /\ RebaseStored' /\ PickStored'
      BY <3>1 DEF ReplayInv, BranchStored, RebaseStored, PickStored
    <3>4. PICK list : list = todo /\ Fits(list)
      BY DEF ReplayInv
    <3>5. Fits(list)' /\ todo' = list
      BY <3>1, <3>4, FitsStable
    <3>6. Fits(todo)'
      BY <3>5
    <3> QED BY <3>2, <3>3, <3>6 DEF ReplayInv
  <2>2. CASE EffectStep
    BY <2>2, EffectStepStep
  <2>3. CASE CrashCommand
    BY <2>3, CrashCommandStep
  <2>4. CASE Rebase
    BY <2>4, RebaseStep
  <2>5. CASE RebaseContinue
    BY <2>5, RebaseContinueStep
  <2>6. CASE RebaseContinueFails
    BY <2>6, RebaseContinueFailsStep
  <2>7. CASE RebaseAbort
    BY <2>7, RebaseAbortStep
  <2>8. CASE PickClean
    BY <2>8, PickCleanStep
  <2>9. CASE PickStops
    BY <2>9, PickStopsStep
  <2>10. CASE CommitPick
    BY <2>10, CommitPickStep
  <2>11. CASE PickAbort
    BY <2>11, PickAbortStep
  <2>12. CASE PeerPush
    BY <2>12, PeerPushStep
  <2>13. CASE SideMoves
    BY <2>13, SideMovesStep
  <2>14. CASE GcRun
    BY <2>14, GcRunStep
  <2>15. CASE ResolveMarkers
    BY <2>15, ResolveMarkersStep
  <2>16. CASE TidyFiles
    BY <2>16, TidyFilesStep
  <2> QED BY <2>1, <2>2, <2>3, <2>4, <2>5, <2>6, <2>7, <2>8, <2>9, <2>10, <2>11, <2>12,
             <2>13, <2>14, <2>15, <2>16 DEF ReplayNext
<1> QED BY <1>1, <1>2, PTL DEF ReplaySpec

-----------------------------------------------------------------------------
(* The theorems *)

\* Branches, what is stored and what is stopped are of the types they are
\* declared with, whatever is replayed, killed or collected.  (replay.rs, the
\* files of rebase_state.rs and pick_state.rs.)
THEOREM ReplayTypeCorrect == ReplaySpec => []ReplayTypeOK
<1>1. ReplayInv => ReplayTypeOK
  BY DEF ReplayInv
<1> QED BY <1>1, ReplayInvHolds, PTL

\* What --continue, --abort and the completing commit read of a stopped rebase
\* or cherry-pick is in the store, however many commits the branch has and
\* whenever commands were killed, peers pushed and gc ran.  (The order in which
\* rebase_fold_and_finish and cherry_pick write a stop; roots of gc.rs.)
THEOREM StopsAreReadable == ReplaySpec => []StopReadable
<1>1. ReplayInv => StopReadable
  <2> SUFFICES ASSUME ReplayInv PROVE StopReadable
    OBVIOUS
  <2>1. ASSUME rebase # NoRebase, tip = rebase.original
        PROVE  /\ ({rebase.acc, rebase.conflicted, rebase.original} \cup Range(rebase.rest)) \subseteq snapshots
               /\ rebaseRoot \in trees
    <3>1. RebaseFits(rebase) /\ rebase.acc \in snapshots /\ rebaseRoot \in trees
      BY <2>1 DEF ReplayInv, RebaseStored
    <3>2. tip \in Seq(Link) /\ tip # Base /\ Ancestry(tip) \subseteq snapshots
      BY TypeParts DEF ReplayInv, BranchStored
    <3>3. rebase.original \in Ancestry(rebase.original) /\ Ancestry(rebase.original) \subseteq snapshots
      BY <2>1, <3>2, SelfInAncestry
    <3>4. rebase.conflicted \in snapshots /\ Range(rebase.rest) \subseteq snapshots
      BY <3>1, <3>3 DEF RebaseFits
    <3> QED BY <3>1, <3>3, <3>4
  <2>2. ASSUME pick # NoPick PROVE pick \in snapshots /\ pickRoot \in trees
    BY <2>2 DEF ReplayInv, PickStored
  <2> QED BY <2>1, <2>2 DEF StopReadable
<1> QED BY <1>1, ReplayInvHolds, PTL

-----------------------------------------------------------------------------
(* What a rebase should come to: the lines of changes Expected builds *)

IsExpected(f, s, m) ==
    f = [n \in 0..m |-> IF n = 0 THEN <<Target>> ELSE Extended(f[n - 1], s[n].change, shared)]

LEMMA ExpectedLineExists ==
  ASSUME NEW s, NEW m \in Nat
  PROVE  \E f : IsExpected(f, s, m)
<1> DEFINE S == {k \in Nat : ~ \E f : IsExpected(f, s, k)}
<1> SUFFICES ASSUME S # {} PROVE FALSE
  OBVIOUS
<1>1. S \subseteq Nat
  OBVIOUS
<1>2. PICK k \in S : \A y \in S : k <= y
  <2> HIDE DEF S
  <2> QED BY <1>1, LeastElement
<1>3. k \in Nat /\ ~ \E f : IsExpected(f, s, k)
  BY <1>2
<1>4. k # 0
  <2>1. IsExpected([n \in {0} |-> <<Target>>], s, 0)
    BY DEF IsExpected
  <2> QED BY <1>3, <2>1
<1>5. k - 1 \in Nat /\ k - 1 \notin S
  BY <1>2, <1>3, <1>4
<1>6. PICK f : IsExpected(f, s, k - 1)
  BY <1>5
<1> DEFINE g == [n \in 0..k |-> IF n = k THEN Extended(f[k - 1], s[k].change, shared) ELSE f[n]]
<1>7. g = [n \in 0..k |-> IF n = 0 THEN <<Target>> ELSE Extended(g[n - 1], s[n].change, shared)]
  <2>1. ASSUME NEW n \in 0..k
        PROVE  g[n] = IF n = 0 THEN <<Target>> ELSE Extended(g[n - 1], s[n].change, shared)
    <3>1. CASE n = 0
      BY <1>3, <1>4, <1>6, <3>1 DEF IsExpected
    <3>2. CASE n # 0 /\ n # k
      <4>1. n \in 0..k - 1 /\ n - 1 \in 0..k - 1 /\ n - 1 \in 0..k /\ n - 1 # k
        BY <1>3, <2>1, <3>2
      <4>2. g[n] = f[n] /\ g[n - 1] = f[n - 1]
        BY <3>2, <4>1, <2>1
      <4>3. f[n] = Extended(f[n - 1], s[n].change, shared)
        BY <1>6, <3>2, <4>1 DEF IsExpected
      <4> QED BY <3>2, <4>2, <4>3
    <3>3. CASE n # 0 /\ n = k
      <4>1. k \in 0..k /\ k - 1 \in 0..k /\ k - 1 # k
        BY <1>3, <1>4
      <4>2. g[k] = Extended(f[k - 1], s[k].change, shared) /\ g[k - 1] = f[k - 1]
        BY <4>1
      <4> QED BY <3>3, <4>2
    <3> QED BY <3>1, <3>2, <3>3
  <2>2. g = [n \in 0..k |-> g[n]]
    OBVIOUS
  <2> HIDE DEF g
  <2> QED BY <2>1, <2>2
<1>8. IsExpected(g, s, k)
  <2> HIDE DEF g
  <2> QED BY <1>7 DEF IsExpected
<1> QED BY <1>3, <1>8

LEMMA ExpectedLine ==
  ASSUME NEW s \in Seq(Link)
  PROVE  \E f : IsExpected(f, s, Len(s)) /\ Expected(s, shared) = f[Len(s)]
<1> DEFINE m == Len(s)
           line == CHOOSE f : f = [n \in 0..m |-> IF n = 0 THEN <<Target>> ELSE Extended(f[n - 1], s[n].change, shared)]
<1>1. m \in Nat
  BY LenProperties
<1>2. line = [n \in 0..m |-> IF n = 0 THEN <<Target>> ELSE Extended(line[n - 1], s[n].change, shared)]
  <2>1. \E f : f = [n \in 0..m |-> IF n = 0 THEN <<Target>> ELSE Extended(f[n - 1], s[n].change, shared)]
    <3>1. \E f : IsExpected(f, s, m)
      BY <1>1, ExpectedLineExists
    <3> QED BY <3>1 DEF IsExpected
  <2> QED BY <2>1
<1>3. Expected(s, shared) = line[m]
  BY DEF Expected
<1> HIDE DEF line
<1>4. IsExpected(line, s, m)
  BY <1>2 DEF IsExpected
<1> QED BY <1>3, <1>4

\* Lines over branches that agree so far agree so far.
LEMMA ExpectedLinesAgree ==
  ASSUME NEW f, NEW g, NEW s, NEW t, NEW m \in Nat, NEW n \in Nat, NEW k \in Nat,
         k <= m, k <= n, IsExpected(f, s, m), IsExpected(g, t, n),
         \A i \in 1..k : s[i] = t[i]
  PROVE  f[k] = g[k]
<1> DEFINE S == {i \in 0..k : f[i] # g[i]}
<1>1. S = {}
  <2> SUFFICES ASSUME S # {} PROVE FALSE
    OBVIOUS
  <2>1. S \subseteq Nat
    OBVIOUS
  <2>2. PICK i \in S : \A y \in S : i <= y
    <3> HIDE DEF S
    <3> QED BY <2>1, LeastElement
  <2>3. i \in 0..k /\ f[i] # g[i] /\ i \in 0..m /\ i \in 0..n
    BY <2>2
  <2>4. i # 0
    BY <2>3 DEF IsExpected
  <2>5. i - 1 \in 0..k /\ i - 1 \notin S /\ i \in 1..k
    BY <2>2, <2>3, <2>4
  <2>6. f[i - 1] = g[i - 1] /\ s[i] = t[i]
    BY <2>5
  <2>7. f[i] = Extended(f[i - 1], s[i].change, shared) /\ g[i] = Extended(g[i - 1], t[i].change, shared)
    BY <2>3, <2>4 DEF IsExpected
  <2> QED BY <2>3, <2>6, <2>7
<1>2. k \in 0..k /\ k \notin S
  BY <1>1
<1> QED BY <1>2

LEMMA PrefixProperties ==
  ASSUME NEW S, NEW s \in Seq(S), NEW k \in 0..Len(s)
  PROVE  /\ SubSeq(s, 1, k) \in Seq(S) /\ Len(SubSeq(s, 1, k)) = k
         /\ \A i \in 1..k : SubSeq(s, 1, k)[i] = s[i]
<1>1. Len(s) \in Nat /\ k \in Nat
  BY LenProperties
<1>2. \A i \in 1..k : s[i] \in S
  <2> TAKE i \in 1..k
  <2>1. i \in 1..Len(s)
    BY <1>1
  <2> QED BY <2>1
<1>3. /\ SubSeq(s, 1, k) \in Seq(S)
      /\ Len(SubSeq(s, 1, k)) = IF 1 <= k THEN k - 1 + 1 ELSE 0
      /\ \A i \in 1..k - 1 + 1 : SubSeq(s, 1, k)[i] = s[1 + i - 1]
  BY <1>1, <1>2, SubSeqProperties
<1>4. (IF 1 <= k THEN k - 1 + 1 ELSE 0) = k /\ k - 1 + 1 = k /\ \A i \in 1..k : 1 + i - 1 = i
  BY <1>1
<1> QED BY <1>3, <1>4

LEMMA ExpectedBase == Expected(Base, shared) = <<Target>>
<1>1. Base \in Seq(Link) /\ Len(Base) = 0
  BY DEF Base
<1>2. PICK f : IsExpected(f, Base, 0) /\ Expected(Base, shared) = f[0]
  BY <1>1, ExpectedLine
<1> QED BY <1>2 DEF IsExpected

LEMMA ExpectedGrows ==
  ASSUME NEW s \in Seq(Link), NEW k \in 1..Len(s)
  PROVE  Expected(SubSeq(s, 1, k), shared) = Extended(Expected(SubSeq(s, 1, k - 1), shared), s[k].change, shared)
<1>1. Len(s) \in Nat /\ k \in Nat /\ k - 1 \in Nat /\ k - 1 \in 0..Len(s) /\ k \in 0..Len(s)
  BY LenProperties
<1>2. PICK t \in Seq(Link) : t = SubSeq(s, 1, k) /\ Len(t) = k /\ \A i \in 1..k : t[i] = s[i]
  BY <1>1, PrefixProperties
<1>3. PICK u \in Seq(Link) : u = SubSeq(s, 1, k - 1) /\ Len(u) = k - 1 /\ \A i \in 1..k - 1 : u[i] = s[i]
  BY <1>1, PrefixProperties
<1>4. PICK f : IsExpected(f, t, k) /\ Expected(t, shared) = f[k]
  BY <1>2, ExpectedLine
<1>5. PICK g : IsExpected(g, u, k - 1) /\ Expected(u, shared) = g[k - 1]
  BY <1>3, ExpectedLine
<1>6. \A i \in 1..k - 1 : t[i] = u[i]
  BY <1>1, <1>2, <1>3
<1>7. f[k - 1] = g[k - 1]
  BY <1>1, <1>4, <1>5, <1>6, ExpectedLinesAgree
<1>8. f[k] = Extended(f[k - 1], t[k].change, shared)
  <2>1. k \in 0..k /\ k # 0
    BY <1>1
  <2> QED BY <1>4, <2>1 DEF IsExpected
<1> QED BY <1>1, <1>2, <1>3, <1>4, <1>5, <1>7, <1>8

LEMMA RangeOfAppend ==
  ASSUME NEW S, NEW s \in Seq(S), NEW x \in S
  PROVE  Range(Append(s, x)) = Range(s) \cup {x}
<1> DEFINE t == Append(s, x)
<1>1. /\ t \in Seq(S) /\ Len(t) = Len(s) + 1
      /\ \A i \in 1..Len(s) : t[i] = s[i]
      /\ t[Len(s) + 1] = x
  BY AppendProperties
<1>2. DOMAIN s = 1..Len(s) /\ DOMAIN t = 1..Len(s) + 1 /\ Len(s) \in Nat
  BY <1>1, LenProperties
<1> HIDE DEF t
<1>3. ASSUME NEW y \in Range(t) PROVE y \in Range(s) \cup {x}
  <2>1. PICK i \in 1..Len(s) + 1 : y = t[i]
    BY <1>2 DEF Range
  <2>2. i \in 1..Len(s) \/ i = Len(s) + 1
    BY <1>2
  <2> QED BY <1>1, <1>2, <2>1, <2>2 DEF Range
<1>4. ASSUME NEW y \in Range(s) \cup {x} PROVE y \in Range(t)
  <2>1. CASE y = x
    BY <1>1, <1>2, <2>1 DEF Range
  <2>2. CASE y \in Range(s)
    <3>1. PICK i \in 1..Len(s) : y = s[i]
      BY <1>2, <2>2 DEF Range
    <3>2. i \in 1..Len(s) + 1 /\ y = t[i]
      BY <1>1, <1>2, <3>1
    <3> QED BY <1>2, <3>2 DEF Range
  <2> QED BY <2>1, <2>2
<1> QED BY <1>3, <1>4 DEF t

LEMMA ExtendedRange ==
  ASSUME NEW line \in Seq(Change), NEW c \in Change
  PROVE  /\ Extended(line, c, shared) \in Seq(Change)
         /\ Range(Extended(line, c, shared)) \cup shared = Range(line) \cup shared \cup {c}
         /\ Range(Extended(line, c, shared)) \subseteq Range(line) \cup {c}
<1>1. Append(line, c) \in Seq(Change) /\ Range(Append(line, c)) = Range(line) \cup {c}
  BY AppendProperties, RangeOfAppend
<1> QED BY <1>1 DEF Extended

\* A line holds the target and changes of the branch, no others.
LEMMA ExpectedRange ==
  ASSUME NEW s \in Seq(Link), NEW m \in 0..Len(s)
  PROVE  /\ Expected(SubSeq(s, 1, m), shared) \in Seq(Change)
         /\ \A c \in Range(Expected(SubSeq(s, 1, m), shared)) : c = Target \/ \E i \in 1..m : c = s[i].change
<1> DEFINE Good(k) == /\ Expected(SubSeq(s, 1, k), shared) \in Seq(Change)
                      /\ \A c \in Range(Expected(SubSeq(s, 1, k), shared)) :
                            c = Target \/ \E i \in 1..k : c = s[i].change
           S == {k \in 0..Len(s) : ~ Good(k)}
<1>1. Len(s) \in Nat /\ m \in Nat
  BY LenProperties
<1>2. S = {}
  <2> SUFFICES ASSUME S # {} PROVE FALSE
    OBVIOUS
  <2>1. S \subseteq Nat
    BY <1>1
  <2>2. PICK k \in S : \A y \in S : k <= y
    <3> HIDE DEF S
    <3> QED BY <2>1, LeastElement
  <2>3. k \in 0..Len(s) /\ ~ Good(k)
    BY <2>2
  <2>4. k # 0
    <3>1. SubSeq(s, 1, 0) = Base
      BY DEF Base
    <3>2. Target \in Change /\ Range(<<Target>>) = {Target}
      <4>1. DOMAIN <<Target>> = {1} /\ <<Target>>[1] = Target
        OBVIOUS
      <4>2. Range(<<Target>>) = {Target}
        BY <4>1 DEF Range
      <4> QED BY <4>2, ReplayAssumption DEF Target, Change
    <3>3. PICK line : line = Expected(SubSeq(s, 1, 0), shared) /\ line = <<Target>>
      BY <3>1, ExpectedBase
    <3>4. line \in Seq(Change) /\ \A c \in Range(line) : c = Target
      <4>1. <<Target>> \in Seq(Change)
        BY <3>2
      <4>2. \A c \in Range(line) : c = Target
        BY <3>2, <3>3
      <4> QED BY <3>3, <4>1, <4>2
    <3>5. Good(0)
      BY <3>3, <3>4
    <3> QED BY <2>3, <3>5
  <2>5. k - 1 \in 0..Len(s) /\ k \in 1..Len(s)
    BY <1>1, <2>3, <2>4
  <2>6. Good(k - 1)
    <3>1. k - 1 \notin S
      BY <1>1, <2>2, <2>3
    <3> HIDE DEF Good
    <3> QED BY <2>5, <3>1
  <2>7. s[k].change \in Change
    <3>1. s[k] \in Link
      BY <2>5
    <3> QED BY <3>1 DEF Link
  <2>8. PICK line \in Seq(Change) :
           /\ line = Expected(SubSeq(s, 1, k - 1), shared)
           /\ \A c \in Range(line) : c = Target \/ \E i \in 1..k - 1 : c = s[i].change
    BY <2>6
  <2>9. Expected(SubSeq(s, 1, k), shared) = Extended(line, s[k].change, shared)
    BY <2>5, <2>8, ExpectedGrows
  <2>10. /\ Extended(line, s[k].change, shared) \in Seq(Change)
         /\ Range(Extended(line, s[k].change, shared)) \subseteq Range(line) \cup {s[k].change}
    BY <2>7, ExtendedRange
  <2>11. \A i \in 1..k - 1 : i \in 1..k
    BY <1>1, <2>5
  <2>12. ASSUME NEW c \in Range(Extended(line, s[k].change, shared))
         PROVE  c = Target \/ \E i \in 1..k : c = s[i].change
    <3>1. CASE c = s[k].change
      <4>1. k \in 1..k
        BY <1>1, <2>5
      <4> QED BY <3>1, <4>1
    <3>2. CASE c # s[k].change
      <4>1. c \in Range(line)
        BY <2>10, <2>12, <3>2
      <4> QED BY <2>8, <2>11, <4>1
    <3> QED BY <3>1, <3>2
  <2>13. Good(k)
    BY <2>9, <2>10, <2>12
  <2> HIDE DEF Good
  <2> QED BY <2>3, <2>13
<1>3. Good(m)
  <2> HIDE DEF Good
  <2> QED BY <1>2
<1> QED BY <1>3

-----------------------------------------------------------------------------
(* A rebase under way *)

\* acc is what rebasing the commits of s comes to.
Faithful(acc, s) ==
    /\ Changes(acc) = Expected(s, shared)
    /\ Present(TreeOf(acc)) = Range(Expected(s, shared)) \cup shared

\* The first k commits are dealt with, or stopped at; the rest are to be replayed.
RestFrom(st, k) ==
    /\ k \in 0..Len(st.original) /\ Len(st.rest) = Len(st.original) - k
    /\ \A i \in 1..Len(st.rest) : st.rest[i] = SubSeq(st.original, 1, k + i)

ReadyAt(st, k) ==
    /\ RestFrom(st, k)
    /\ Faithful(st.acc, SubSeq(st.original, 1, k))
    /\ st.replayed + st.skipped = k

StoppedAt(st, k) ==
    /\ RestFrom(st, k) /\ k # 0
    /\ st.conflicted = SubSeq(st.original, 1, k)
    /\ Faithful(st.acc, SubSeq(st.original, 1, k - 1))
    /\ CommitChange(st.conflicted) \notin Present(TreeOf(st.acc))
    /\ st.replayed + st.skipped = k - 1

Ready(st) == \E k \in 0..Len(st.original) : ReadyAt(st, k)

Stopped(st) == \E k \in 0..Len(st.original) : StoppedAt(st, k)

StopPresent(st) == Present(TreeOf(st.acc)) \cup {CommitChange(st.conflicted)}

\* The tree that the fold from st lays out.
NextTree(st) ==
    LET n == CleanCount(st.rest)
        acc == Replayed(st.acc, SubSeq(st.rest, 1, n))
    IN  IF n = Len(st.rest) THEN TreeOf(acc) ELSE Marked(TreeOf(acc), CommitChange(st.rest[n + 1]))

-----------------------------------------------------------------------------

LEMMA PresentWith ==
  ASSUME NEW t \in Tree, NEW c
  PROVE  Present(With(t, c)) = Present(t) \cup {c} /\ Present(Marked(t, c)) = Present(t) \cup {c}
BY DEF Present, With, Marked

LEMMA ChangesType ==
  ASSUME NEW s \in Seq(Link)
  PROVE  Changes(s) \in Seq(Change) /\ Len(Changes(s)) = Len(s)
<1>1. PICK m \in Nat : m = Len(s) /\ DOMAIN s = 1..m
  BY LenProperties
<1>2. \A i \in 1..m : s[i].change \in Change
  <2> TAKE i \in 1..m
  <2>1. s[i] \in Link
    BY <1>1
  <2> QED BY <2>1 DEF Link
<1>3. Changes(s) \in [1..m -> Change]
  BY <1>1, <1>2 DEF Changes
<1> QED BY <1>1, <1>3

LEMMA OfAppend ==
  ASSUME NEW s \in Seq(Link), NEW x \in Link
  PROVE  /\ Append(s, x) \in Seq(Link)
         /\ TreeOf(Append(s, x)) = x.tree
         /\ Changes(Append(s, x)) = Append(Changes(s), x.change)
<1> DEFINE t == Append(s, x)
<1>1. /\ t \in Seq(Link) /\ t # <<>> /\ Len(t) = Len(s) + 1
      /\ \A i \in 1..Len(s) : t[i] = s[i]
      /\ t[Len(s) + 1] = x
  BY AppendProperties
<1>2. x.change \in Change
  BY DEF Link
<1>3. Changes(s) \in Seq(Change) /\ Len(Changes(s)) = Len(s) /\ Changes(t) \in Seq(Change) /\ Len(Changes(t)) = Len(t)
  BY <1>1, ChangesType
<1>4. PICK u : u = Append(Changes(s), x.change)
  OBVIOUS
<1>5. /\ u \in Seq(Change) /\ Len(u) = Len(s) + 1
      /\ \A i \in 1..Len(s) : u[i] = Changes(s)[i]
      /\ u[Len(s) + 1] = x.change
  BY <1>2, <1>3, <1>4, AppendProperties
<1> HIDE DEF t
<1>6. PICK m \in Nat : m = Len(s) /\ DOMAIN s = 1..m /\ DOMAIN t = 1..m + 1 /\ DOMAIN u = 1..m + 1
  BY <1>1, <1>5, LenProperties
<1>7. \A i \in 1..m + 1 : u[i] = t[i].change
  <2> TAKE i \in 1..m + 1
  <2>1. CASE i \in 1..m
    <3>1. u[i] = Changes(s)[i] /\ t[i] = s[i]
      BY <1>1, <1>5, <1>6, <2>1
    <3>2. Changes(s)[i] = s[i].change
      BY <1>6, <2>1 DEF Changes
    <3> QED BY <3>1, <3>2
  <2>2. CASE i = m + 1
    BY <1>1, <1>5, <1>6, <2>2
  <2> QED BY <1>6, <2>1, <2>2
<1>8. Changes(t) = [i \in 1..m + 1 |-> t[i].change]
  BY <1>6 DEF Changes
<1>9. u = [i \in 1..m + 1 |-> u[i]]
  BY <1>5, <1>6
<1>10. Changes(t) = u
  BY <1>7, <1>8, <1>9
<1>11. TreeOf(t) = x.tree
  BY <1>1 DEF TreeOf, Base, Last
<1> QED BY <1>1, <1>4, <1>10, <1>11 DEF t

LEMMA OfLanded ==
  ASSUME NEW s \in Seq(Link), NEW c \in Change
  PROVE  /\ Changes(Landed(s, c)) = Append(Changes(s), c)
         /\ Present(TreeOf(Landed(s, c))) = Present(TreeOf(s)) \cup {c}
<1> DEFINE x == [change |-> c, tree |-> With(TreeOf(s), c)]
<1>1. x \in Link
  BY TreeOfType, WithType DEF Link
<1>2. x.change = c /\ x.tree = With(TreeOf(s), c) /\ Landed(s, c) = Append(s, x)
  BY DEF Landed
<1> HIDE DEF x
<1>3. TreeOf(Landed(s, c)) = With(TreeOf(s), c) /\ Changes(Landed(s, c)) = Append(Changes(s), c)
  BY <1>1, <1>2, OfAppend
<1>4. TreeOf(s) \in Tree
  BY TreeOfType
<1> QED BY <1>3, <1>4, PresentWith

\* The change of the k-th commit of a branch.
LEMMA PrefixChange ==
  ASSUME NEW s \in Seq(Link), NEW k \in 1..Len(s)
  PROVE  /\ SubSeq(s, 1, k) \in Seq(Link) /\ SubSeq(s, 1, k) # Base
         /\ CommitChange(SubSeq(s, 1, k)) = s[k].change
         /\ s[k].change \in Change
<1>1. Len(s) \in Nat /\ k \in 0..Len(s) /\ k \in 1..k
  BY LenProperties
<1>2. PICK t \in Seq(Link) : t = SubSeq(s, 1, k) /\ Len(t) = k /\ \A i \in 1..k : t[i] = s[i]
  BY <1>1, PrefixProperties
<1>3. t # Base /\ t[Len(t)] = s[k]
  BY <1>1, <1>2 DEF Base
<1>4. s[k] \in Link
  OBVIOUS
<1>5. s[k].change \in Change
  BY <1>4 DEF Link
<1>6. CommitChange(t) = s[k].change
  BY <1>3 DEF CommitChange, Last
<1> QED BY <1>2, <1>3, <1>5, <1>6

\* The next commit replayed, whether it adds its change or is skipped.
LEMMA ReplayOntoFaithful ==
  ASSUME NEW o \in Seq(Link), NEW k \in 1..Len(o), NEW acc \in Seq(Link),
         Faithful(acc, SubSeq(o, 1, k - 1))
  PROVE  Faithful(ReplayOnto(acc, SubSeq(o, 1, k)), SubSeq(o, 1, k))
<1>1. PICK c \in Change : c = o[k].change /\ c = CommitChange(SubSeq(o, 1, k))
  BY PrefixChange
<1>2. Len(o) \in Nat /\ k - 1 \in 0..Len(o)
  BY LenProperties
<1>3. PICK line \in Seq(Change) : line = Expected(SubSeq(o, 1, k - 1), shared)
  BY <1>2, ExpectedRange
<1>4. Expected(SubSeq(o, 1, k), shared) = Extended(line, c, shared)
  BY <1>1, <1>3, ExpectedGrows
<1>5. Changes(acc) = line /\ Present(TreeOf(acc)) = Range(line) \cup shared
  BY <1>3 DEF Faithful
<1>6. PICK t : t = SubSeq(o, 1, k)
  OBVIOUS
<1>7. CASE c \in Present(TreeOf(acc))
  <2>1. ReplayOnto(acc, t) = acc
    BY <1>1, <1>6, <1>7 DEF ReplayOnto
  <2>2. Extended(line, c, shared) = line
    BY <1>5, <1>7 DEF Extended
  <2> QED BY <1>4, <1>5, <1>6, <2>1, <2>2 DEF Faithful
<1>8. CASE c \notin Present(TreeOf(acc))
  <2>1. ReplayOnto(acc, t) = Landed(acc, c)
    BY <1>1, <1>6, <1>8 DEF ReplayOnto
  <2>2. Extended(line, c, shared) = Append(line, c)
    BY <1>5, <1>8 DEF Extended
  <2>3. /\ Changes(Landed(acc, c)) = Append(Changes(acc), c)
        /\ Present(TreeOf(Landed(acc, c))) = Present(TreeOf(acc)) \cup {c}
    BY OfLanded
  <2>4. Range(Append(line, c)) = Range(line) \cup {c}
    BY RangeOfAppend
  <2>5. Present(TreeOf(Landed(acc, c))) = Range(Append(line, c)) \cup shared
    BY <1>5, <2>3, <2>4
  <2> QED BY <1>4, <1>5, <1>6, <2>1, <2>2, <2>3, <2>5 DEF Faithful
<1> QED BY <1>7, <1>8

\* What Replayed computes, commit by commit.
LEMMA ReplayedLine ==
  ASSUME NEW acc, NEW list \in Seq(Seq(Link))
  PROVE  \E line : IsLine(line, acc, list, Len(list)) /\ Replayed(acc, list) = line[Len(list)]
<1> DEFINE m == Len(list)
           line == CHOOSE f : f = [n \in 0..m |-> IF n = 0 THEN acc ELSE ReplayOnto(f[n - 1], list[n])]
<1>1. m \in Nat
  BY LenProperties
<1>2. line = [n \in 0..m |-> IF n = 0 THEN acc ELSE ReplayOnto(line[n - 1], list[n])]
  <2>1. \E f : f = [n \in 0..m |-> IF n = 0 THEN acc ELSE ReplayOnto(f[n - 1], list[n])]
    <3>1. \E f : IsLine(f, acc, list, m)
      BY <1>1, LineExists
    <3> QED BY <3>1 DEF IsLine
  <2> QED BY <2>1
<1>3. Replayed(acc, list) = line[m]
  BY DEF Replayed
<1> HIDE DEF line
<1>4. IsLine(line, acc, list, m)
  BY <1>2 DEF IsLine
<1> QED BY <1>3, <1>4

\* Replaying the next commits of a branch keeps to what is expected.
LEMMA ReplayedFaithful ==
  ASSUME NEW o \in Seq(Link), NEW k \in Nat, NEW acc \in Seq(Link), acc # Base,
         NEW list \in Seq(Seq(Link)), k + Len(list) <= Len(o),
         \A i \in 1..Len(list) : list[i] = SubSeq(o, 1, k + i),
         Faithful(acc, SubSeq(o, 1, k))
  PROVE  Replayed(acc, list) \in Seq(Link) /\ Faithful(Replayed(acc, list), SubSeq(o, 1, k + Len(list)))
<1>1. PICK m \in Nat, l \in Nat : m = Len(list) /\ l = Len(o)
  BY LenProperties
<1>2. PICK line : IsLine(line, acc, list, m) /\ Replayed(acc, list) = line[m]
  BY <1>1, ReplayedLine
<1> DEFINE Good(n) == line[n] \in Seq(Link) /\ line[n] # Base /\ Faithful(line[n], SubSeq(o, 1, k + n))
           S == {n \in 0..m : ~ Good(n)}
<1>3. S = {}
  <2> SUFFICES ASSUME S # {} PROVE FALSE
    OBVIOUS
  <2>1. S \subseteq Nat
    OBVIOUS
  <2>2. PICK n \in S : \A y \in S : n <= y
    <3> HIDE DEF S
    <3> QED BY <2>1, LeastElement
  <2>3. n \in 0..m /\ ~ Good(n)
    BY <2>2
  <2>4. n # 0
    <3>1. line[0] = acc /\ k + 0 = k
      BY <1>2 DEF IsLine
    <3>2. Good(0)
      BY <3>1
    <3> HIDE DEF Good
    <3> QED BY <2>3, <3>2
  <2>5. n - 1 \in 0..m /\ n \in 1..m /\ k + n \in 1..l /\ k + n - 1 = k + (n - 1)
    BY <1>1, <2>3, <2>4
  <2>6. Good(n - 1)
    <3>1. n - 1 \notin S
      BY <2>2, <2>3
    <3> HIDE DEF Good
    <3> QED BY <2>5, <3>1
  <2>7. PICK a \in Seq(Link) : a = line[n - 1] /\ a # Base /\ Faithful(a, SubSeq(o, 1, k + (n - 1)))
    BY <2>6
  <2>8. PICK j \in 1..l : j = k + n /\ j - 1 = k + (n - 1)
    BY <2>5
  <2>9. line[n] = ReplayOnto(a, SubSeq(o, 1, j))
    <3>1. line[n] = ReplayOnto(line[n - 1], list[n])
      BY <1>2, <2>3, <2>4 DEF IsLine
    <3> QED BY <1>1, <2>5, <2>7, <2>8, <3>1
  <2>10. Faithful(ReplayOnto(a, SubSeq(o, 1, j)), SubSeq(o, 1, j))
    BY <1>1, <2>7, <2>8, ReplayOntoFaithful
  <2>11. ReplayOnto(a, SubSeq(o, 1, j)) \in Seq(Link) /\ ReplayOnto(a, SubSeq(o, 1, j)) # Base
    <3>1. SubSeq(o, 1, j) \in Seq(Link) /\ SubSeq(o, 1, j) # Base
      BY <1>1, PrefixChange
    <3> QED BY <2>7, <3>1, ReplayOntoType
  <2>12. Good(n)
    BY <2>8, <2>9, <2>10, <2>11
  <2> HIDE DEF Good
  <2> QED BY <2>3, <2>12
<1>4. Good(m)
  <2> HIDE DEF Good
  <2> QED BY <1>3
<1> QED BY <1>1, <1>2, <1>4

\* The lists of effects of the two ends of a fold.
FinishList(original, acc, disk, count, ids) ==
    <<Put(ids), Lay(TreeOf(acc), disk), MoveTip(acc, "rebase"),
      Record("rebase", original, acc, count), WriteRebase(NoRebase)>>

StopList(st, tree, disk, ids) ==
    <<Put(ids), PutTree(tree), Lay(tree, disk), WriteRebaseRoot(tree), WriteRebase(st)>>

FinishSound(original, acc, count) == Faithful(acc, original) /\ count = Len(original)

StopSound(st, tree) == Stopped(st) /\ Present(tree) = StopPresent(st)

\* A rebase that is held while a tree is laid is the one that tree goes on from.
LayFits(held, tree) == held # NoRebase => held.resolved /\ tree = NextTree(held)

\* What a fold still has to do, with `held` in REBASE_STATE when it begins.
FoldLands(list, held) ==
    \/ list = <<>>
    \/ \E acc \in Seq(Link), disk \in Tree : \E count, ids :
          /\ list = FinishList(tip, acc, disk, count, ids)
          /\ ~torn => FinishSound(tip, acc, count) /\ LayFits(held, TreeOf(acc))
    \/ \E st \in RebaseStates, tree \in Tree, disk \in Tree : \E ids :
          /\ list = StopList(st, tree, disk, ids)
          /\ st.original # Base /\ ~st.resolved
          /\ ~torn =>
                /\ StopSound(st, tree) /\ LayFits(held, tree)
                /\ Present(files) \subseteq Present(disk) \cup Present(tree)

ClashFits == clash \subseteq Own \cup {Picked} /\ shared \subseteq Own \ clash

-----------------------------------------------------------------------------

LEMMA CleanCountStops ==
  ASSUME NEW list \in Seq(Seq(Link)), CleanCount(list) # Len(list)
  PROVE  Conflicts(list[CleanCount(list) + 1])
<1> DEFINE hits == {i \in DOMAIN list : Conflicts(list[i])}
<1>1. DOMAIN list = 1..Len(list) /\ Len(list) \in Nat
  BY LenProperties
<1>2. hits # {}
  BY DEF CleanCount
<1>3. hits \subseteq 1..Len(list) /\ hits \subseteq Nat
  BY <1>1
<1>4. \A i \in hits : Conflicts(list[i])
  OBVIOUS
<1>5. CleanCount(list) = Min(hits) - 1
  BY <1>2 DEF CleanCount
<1> HIDE DEF hits
<1>6. \E x \in hits : \A y \in hits : x <= y
  BY <1>2, <1>3, LeastElement
<1>7. Min(hits) \in hits
  BY <1>6 DEF Min
<1>8. PICK m \in hits : m = Min(hits)
  BY <1>7
<1>9. m \in Nat /\ CleanCount(list) + 1 = m
  BY <1>3, <1>5, <1>8
<1> QED BY <1>4, <1>9

\* A conflicting change is not on the line yet.
LEMMA ConflictIsNew ==
  ASSUME ClashFits, NEW o \in Seq(Link), NEW k \in 1..Len(o), Conflicts(SubSeq(o, 1, k)), NEW acc,
         Faithful(acc, SubSeq(o, 1, k - 1))
  PROVE  CommitChange(SubSeq(o, 1, k)) \notin Present(TreeOf(acc))
<1>1. PICK l \in Nat : l = Len(o)
  BY LenProperties
<1>2. k \in 1..l /\ k - 1 \in 0..l /\ k \in 0..l
  BY <1>1
<1>3. PICK t \in Seq(Link) : t = SubSeq(o, 1, k) /\ Len(t) = k /\ \A i \in 1..k : t[i] = o[i]
  BY <1>1, <1>2, PrefixProperties
<1>4. PICK u \in Seq(Link) : u = SubSeq(t, 1, k - 1) /\ Len(u) = k - 1 /\ \A i \in 1..k - 1 : u[i] = t[i]
  <2>1. k - 1 \in 0..Len(t)
    BY <1>2, <1>3
  <2> QED BY <2>1, PrefixProperties
<1>5. Front(t) = u
  BY <1>3, <1>4 DEF Front
<1>6. PICK c : c = CommitChange(t)
  OBVIOUS
<1>7. c \in clash /\ c \notin Range(Changes(u))
  BY <1>3, <1>5, <1>6 DEF Conflicts
<1>8. ASSUME NEW i \in 1..k - 1 PROVE c # o[i].change
  <2>1. u[i] = o[i] /\ i \in DOMAIN u
    BY <1>2, <1>3, <1>4
  <2>2. o[i].change \in Range(Changes(u))
    BY <2>1 DEF Range, Changes
  <2> QED BY <1>7, <2>2
<1>9. Target \notin clash
  BY ReplayAssumption DEF ClashFits, Target, Own, Picked
<1>10. c \notin shared /\ c # Target
  BY <1>7, <1>9 DEF ClashFits
<1>11. \A d \in Range(Expected(SubSeq(o, 1, k - 1), shared)) : d = Target \/ \E i \in 1..k - 1 : d = o[i].change
  BY <1>1, <1>2, ExpectedRange
<1>12. c \notin Range(Expected(SubSeq(o, 1, k - 1), shared))
  BY <1>8, <1>10, <1>11
<1> QED BY <1>3, <1>6, <1>10, <1>12 DEF Faithful

\* The commits before the first conflict, replayed.
LEMMA CleanFaithful ==
  ASSUME NEW st \in RebaseStates, st.acc # Base, NEW k, ReadyAt(st, k)
  PROVE  LET n == CleanCount(st.rest)
             acc == Replayed(st.acc, SubSeq(st.rest, 1, n))
         IN  Faithful(acc, SubSeq(st.original, 1, k + n))
<1>1. PICK o \in Seq(Link), rest \in Seq(Seq(Link)), a \in Seq(Link) :
         o = st.original /\ rest = st.rest /\ a = st.acc
  BY DEF RebaseStates
<1>2. PICK l \in Nat, r \in Nat : l = Len(o) /\ r = Len(rest)
  BY LenProperties
<1>3. /\ k \in 0..l /\ r = l - k
      /\ \A i \in 1..r : rest[i] = SubSeq(o, 1, k + i)
      /\ Faithful(a, SubSeq(o, 1, k))
  BY <1>1, <1>2 DEF ReadyAt, RestFrom
<1>4. PICK n \in 0..r : n = CleanCount(rest)
  BY <1>2, CleanCountType
<1>5. PICK list \in Seq(Seq(Link)) : list = SubSeq(rest, 1, n) /\ Len(list) = n /\ \A i \in 1..n : list[i] = rest[i]
  <2>1. n \in 0..Len(rest)
    BY <1>2, <1>4
  <2>2. PICK S : S = Seq(Link)
    OBVIOUS
  <2>3. rest \in Seq(S)
    BY <2>2
  <2>4. /\ SubSeq(rest, 1, n) \in Seq(S) /\ Len(SubSeq(rest, 1, n)) = n
        /\ \A i \in 1..n : SubSeq(rest, 1, n)[i] = rest[i]
    BY <2>1, <2>3, PrefixProperties
  <2> QED BY <2>2, <2>4
<1>6. k \in Nat /\ n \in Nat /\ k + n <= l
  BY <1>2, <1>3, <1>4
<1>7. \A i \in 1..n : list[i] = SubSeq(o, 1, k + i)
  BY <1>2, <1>3, <1>4, <1>5
<1>8. Faithful(Replayed(a, list), SubSeq(o, 1, k + n))
  <2>1. k + Len(list) <= Len(o) /\ \A i \in 1..Len(list) : list[i] = SubSeq(o, 1, k + i)
    BY <1>2, <1>5, <1>6, <1>7
  <2>2. Faithful(Replayed(a, list), SubSeq(o, 1, k + Len(list)))
    BY <1>1, <1>3, <1>6, <2>1, ReplayedFaithful
  <2> QED BY <1>5, <2>2
<1> QED BY <1>1, <1>4, <1>5, <1>8

\* Replayed and skipped together: each commit dealt with counts once.
LEMMA CountsAdd ==
  ASSUME NEW a \in Nat, NEW b \in Nat, NEW x \in Nat, NEW y \in Nat, NEW m \in Nat
  PROVE  (x + a - b) + (y + m - (a - b)) = x + y + m
OBVIOUS

\* A fold that begins sound ends sound, wherever it ends.
LEMMA FoldBegins ==
  ASSUME ClashFits, NEW st \in RebaseStates, NEW disk \in Tree, NEW held \in {NoRebase, st},
         st.original = tip, tip # Base, st.acc # Base, Range(st.rest) \subseteq Ancestry(st.original),
         held # NoRebase => held.resolved,
         ~torn => Ready(st) /\ Present(files) \subseteq Present(disk) \cup Present(NextTree(st))
  PROVE  FoldLands(FoldEffects(st, disk), held)
<1> DEFINE n == CleanCount(st.rest)
           acc == Replayed(st.acc, SubSeq(st.rest, 1, n))
           replayed == st.replayed + Len(acc) - Len(st.acc)
           skipped == st.skipped + n - (Len(acc) - Len(st.acc))
           conflicted == st.rest[n + 1]
           stopTree == Marked(TreeOf(acc), CommitChange(conflicted))
           left == SubSeq(st.rest, n + 2, Len(st.rest))
           stopped == [original |-> st.original, acc |-> acc, conflicted |-> conflicted,
                       rest |-> left, resolved |-> FALSE, replayed |-> replayed, skipped |-> skipped]
           finish == FinishList(st.original, acc, disk, replayed + skipped, Ancestry(acc))
           stop == StopList(stopped, stopTree, disk, Ancestry(acc))
<1>1. /\ st.original \in Seq(Link) /\ st.acc \in Seq(Link) /\ st.rest \in Seq(Seq(Link))
      /\ st.replayed \in Nat /\ st.skipped \in Nat
  BY DEF RebaseStates
<1>2. PICK list \in Seq(Effects) : list = FoldEffects(st, disk)
  BY FoldFits
<1>3. \/ list = <<>>
      \/ list = finish /\ n = Len(st.rest)
      \/ list = stop /\ n # Len(st.rest)
  BY <1>2 DEF FoldEffects, FinishList, StopList
<1>4. NextTree(st) = IF n = Len(st.rest) THEN TreeOf(acc) ELSE stopTree
  BY DEF NextTree
<1>5. n \in 0..Len(st.rest) /\ Len(st.rest) \in Nat /\ Len(st.original) \in Nat /\ Len(st.acc) \in Nat
  BY <1>1, CleanCountType, LenProperties
<1>6. n # Len(st.rest) => Conflicts(conflicted)
  BY <1>1, CleanCountStops
<1>7. \A k : ReadyAt(st, k) => Faithful(acc, SubSeq(st.original, 1, k + n))
  BY CleanFaithful
<1> HIDE DEF n, acc
<1>8. CASE list = finish /\ n = Len(st.rest)
  <2>1. finish[2] = Lay(TreeOf(acc), disk) /\ finish[3] = MoveTip(acc, "rebase") /\ Len(finish) = 5
    BY DEF FinishList
  <2> HIDE DEF finish
  <2>2. acc \in Seq(Link)
    <3>0. 3 \in 1..Len(list) /\ list[3] = MoveTip(acc, "rebase")
      BY <1>8, <2>1
    <3>1. list[3] \in Effects /\ list[3] = MoveTip(acc, "rebase")
      BY <3>0
    <3>2. PICK e \in Effects : e.do = "tip" /\ e.id = acc
      BY <3>1 DEF MoveTip
    <3> QED BY <3>2, EffectParts
  <2>3. PICK c : c = replayed + skipped
    OBVIOUS
  <2>4. ASSUME ~torn PROVE FinishSound(tip, acc, c) /\ LayFits(held, TreeOf(acc))
    <3>1. PICK k \in 0..Len(st.original) : ReadyAt(st, k)
      BY <2>4 DEF Ready
    <3>2. k + n = Len(st.original) /\ st.replayed + st.skipped = k
      BY <1>5, <1>8, <3>1 DEF ReadyAt, RestFrom
    <3>3. Faithful(acc, SubSeq(st.original, 1, k + n))
      BY <1>7, <3>1
    <3>4. Faithful(acc, tip)
      BY <1>1, <3>2, <3>3, SubSeqFull
    <3>5. c = k + n
      <4>1. PICK a \in Nat, b \in Nat, x \in Nat, y \in Nat :
               a = Len(acc) /\ b = Len(st.acc) /\ x = st.replayed /\ y = st.skipped
        BY <1>1, <1>5, <2>2, LenProperties
      <4>2. PICK m \in Nat : m = n
        BY <1>5
      <4>3. (x + a - b) + (y + m - (a - b)) = x + y + m
        BY <4>1, <4>2
      <4> QED BY <2>3, <3>2, <4>1, <4>2, <4>3
    <3>6. LayFits(held, TreeOf(acc))
      BY <1>4, <1>8 DEF LayFits
    <3> QED BY <3>2, <3>4, <3>5, <3>6 DEF FinishSound
  <2>5. list = FinishList(tip, acc, disk, c, Ancestry(acc))
    BY <1>8, <2>3 DEF finish
  <2> QED BY <1>2, <2>2, <2>4, <2>5 DEF FoldLands
<1>9. CASE list = stop /\ n # Len(st.rest)
  <2>1. /\ stop[3] = Lay(stopTree, disk) /\ stop[5] = WriteRebase(stopped) /\ Len(stop) = 5
        /\ stop[1] = Put(Ancestry(acc))
    BY DEF StopList
  <2>2. stopped.original = st.original /\ stopped.acc = acc /\ stopped.conflicted = conflicted
        /\ stopped.rest = left /\ stopped.resolved = FALSE
        /\ stopped.replayed = replayed /\ stopped.skipped = skipped
    OBVIOUS
  <2>3. PICK c : c = CommitChange(conflicted) /\ stopTree = Marked(TreeOf(acc), c)
    OBVIOUS
  <2>4. PICK t : t = stopTree
    OBVIOUS
  <2>5. PICK s : s = stopped
    OBVIOUS
  <2>6. list = StopList(s, t, disk, Ancestry(acc))
    BY <1>9, <2>4, <2>5
  <2> HIDE DEF stop, stopped, stopTree
  <2>7. t \in Tree
    <3>0. 3 \in 1..Len(list) /\ list[3] = Lay(t, disk)
      BY <1>9, <2>1, <2>4
    <3>1. list[3] \in Effects /\ list[3] = Lay(t, disk)
      BY <3>0
    <3>2. PICK e \in Effects : e.do = "lay" /\ e.tree = t
      BY <3>1 DEF Lay
    <3> QED BY <3>2, EffectParts
  <2>8. s \in RebaseStates
    <3>0. 5 \in 1..Len(list) /\ list[5] = WriteRebase(s)
      BY <1>9, <2>1, <2>5
    <3>1. list[5] \in Effects /\ list[5] = WriteRebase(s)
      BY <3>0
    <3>2. PICK e \in Effects : e.do = "rebase" /\ e.state = s
      BY <3>1 DEF WriteRebase
    <3> QED BY <3>2, EffectParts
  <2>9. acc \in Seq(Link)
    BY <2>2, <2>5, <2>8 DEF RebaseStates
  <2>10. Present(t) = Present(TreeOf(acc)) \cup {c}
    BY <2>3, <2>4, <2>9, TreeOfType, PresentWith
  <2>11. Present(t) = StopPresent(s)
    BY <2>2, <2>3, <2>5, <2>10 DEF StopPresent
  <2>12. ASSUME ~torn PROVE Stopped(s)
    <3>1. PICK k \in 0..Len(st.original) : ReadyAt(st, k)
      BY <2>12 DEF Ready
    <3>2. /\ k \in 0..Len(st.original) /\ Len(st.rest) = Len(st.original) - k
          /\ \A i \in 1..Len(st.rest) : st.rest[i] = SubSeq(st.original, 1, k + i)
          /\ st.replayed + st.skipped = k
      BY <3>1 DEF ReadyAt, RestFrom
    <3>3. PICK l \in Nat, r \in Nat, m \in Nat : l = Len(st.original) /\ r = Len(st.rest) /\ m = n
      BY <1>5
    <3>4. PICK j \in 1..l : j = k + m + 1 /\ j - 1 = k + m /\ m + 1 \in 1..r /\ k + (m + 1) = j
      BY <1>5, <1>9, <3>2, <3>3
    <3>5. conflicted = SubSeq(st.original, 1, j)
      BY <3>2, <3>3, <3>4
    <3>6. Faithful(acc, SubSeq(st.original, 1, j - 1))
      BY <1>7, <3>1, <3>3, <3>4
    <3>7. c \notin Present(TreeOf(acc))
      <4>1. PICK o \in Seq(Link) : o = st.original
        BY <1>1
      <4>2. Conflicts(SubSeq(o, 1, j)) /\ j \in 1..Len(o)
        BY <1>6, <1>9, <3>3, <3>5, <4>1
      <4>3. CommitChange(SubSeq(o, 1, j)) \notin Present(TreeOf(acc))
        BY <3>6, <4>1, <4>2, ConflictIsNew
      <4> QED BY <2>3, <3>5, <4>1, <4>3
    <3>8. replayed + skipped = j - 1
      <4>1. PICK a \in Nat, b \in Nat, x \in Nat, y \in Nat :
               a = Len(acc) /\ b = Len(st.acc) /\ x = st.replayed /\ y = st.skipped
        BY <1>1, <1>5, <2>9, LenProperties
      <4>2. (x + a - b) + (y + m - (a - b)) = x + y + m
        BY CountsAdd
      <4> QED BY <3>2, <3>3, <3>4, <4>1, <4>2
    <3>9. Len(left) = l - j /\ \A i \in 1..l - j : left[i] = SubSeq(st.original, 1, j + i)
      <4>1. PICK rest \in Seq(Seq(Link)) : rest = st.rest /\ Len(rest) = r
        BY <1>1, <3>3
      <4>2. \A i \in m + 2..r : rest[i] \in Seq(Link)
        <5> TAKE i \in m + 2..r
        <5>1. i \in 1..Len(rest)
          BY <4>1
        <5> QED BY <5>1
      <4>3. /\ Len(SubSeq(rest, m + 2, r)) = IF m + 2 <= r THEN r - (m + 2) + 1 ELSE 0
            /\ \A i \in 1..r - (m + 2) + 1 : SubSeq(rest, m + 2, r)[i] = rest[m + 2 + i - 1]
        BY <4>2, SubSeqProperties
      <4>4. r - (m + 2) + 1 = l - j /\ l - j \in Nat /\ (m + 2 <= r => l - j > 0) /\ (~(m + 2 <= r) => l - j = 0)
        BY <3>2, <3>3, <3>4
      <4>5. left = SubSeq(rest, m + 2, r)
        BY <3>3, <4>1
      <4>6. Len(left) = l - j
        BY <4>3, <4>4, <4>5
      <4>7. ASSUME NEW i \in 1..l - j PROVE left[i] = SubSeq(st.original, 1, j + i)
        <5>1. /\ i \in 1..r - (m + 2) + 1 /\ m + 2 + i - 1 = m + 1 + i
              /\ m + 1 + i \in 1..r /\ k + (m + 1 + i) = j + i
          BY <3>2, <3>3, <3>4, <4>4, <4>7
        <5>2. left[i] = rest[m + 1 + i]
          BY <4>3, <4>5, <5>1
        <5>3. rest[m + 1 + i] = SubSeq(st.original, 1, k + (m + 1 + i))
          BY <3>2, <3>3, <4>1, <5>1
        <5> QED BY <5>1, <5>2, <5>3
      <4> QED BY <4>6, <4>7
    <3>10. s.original = st.original /\ s.acc = acc /\ s.conflicted = conflicted /\ s.rest = left
           /\ s.replayed = replayed /\ s.skipped = skipped
      BY <2>2, <2>5
    <3>11. j \in 0..l /\ j # 0
      BY <3>4
    <3> HIDE DEF left, conflicted, replayed, skipped
    <3>12. RestFrom(s, j)
      BY <3>3, <3>9, <3>10, <3>11 DEF RestFrom
    <3>13. StoppedAt(s, j)
      BY <2>3, <3>5, <3>6, <3>7, <3>8, <3>10, <3>11, <3>12 DEF StoppedAt
    <3> QED BY <3>3, <3>10, <3>11, <3>13 DEF Stopped
  <2>13. LayFits(held, t)
    BY <1>4, <1>9, <2>4 DEF LayFits
  <2>14. s.original # Base /\ ~ s.resolved
    BY <2>2, <2>5
  <2>15. ~torn => StopSound(s, t) /\ Present(files) \subseteq Present(disk) \cup Present(t)
    BY <1>4, <1>9, <2>4, <2>11, <2>12 DEF StopSound
  <2> QED BY <1>2, <2>6, <2>7, <2>8, <2>13, <2>14, <2>15 DEF FoldLands
<1> QED BY <1>2, <1>3, <1>8, <1>9 DEF FoldLands

-----------------------------------------------------------------------------
(* The invariant of what lands *)

\* While nothing is torn: --continue finds a rebase where the fold left it, and in
\* the working tree what it conflicted on, or what its next step is about to change.
RebaseLands ==
    rebase # NoRebase /\ ~torn =>
        \/ /\ rebase.resolved /\ Ready(rebase)
           /\ Present(files) \subseteq Present(TreeOf(rebase.acc)) \cup Present(NextTree(rebase))
        \/ ~rebase.resolved /\ Stopped(rebase) /\ Present(files) = StopPresent(rebase)

PickPresent == Present(TreeOf(tip)) \cup {Picked}

PickLands == pick # NoPick /\ ~torn => Present(files) = PickPresent

Alone == rebase = NoRebase \/ pick = NoPick

\* What is left of a command from its m-th effect on.
Left(list, m) == SubSeq(list, m, Len(list))

Advancing ==
    \E c \in RebaseStates, p \in Effects, fold \in Seq(Effects) :
       /\ todo \in {<<p>> \o (<<WriteRebase(c)>> \o fold), <<WriteRebase(c)>> \o fold}
       /\ p.do = "put" /\ c.resolved /\ pick = NoPick /\ FoldLands(fold, c)
       /\ ~torn => Ready(c) /\ Present(files) = Present(TreeOf(c.acc))

FinishingAt(list, m) ==
    \E original \in Seq(Link), acc \in Seq(Link), disk \in Tree : \E count, ids :
       /\ list = FinishList(original, acc, disk, count, ids)
       /\ m <= 3 => tip = original
       /\ pick = NoPick
       /\ ~torn => FinishSound(original, acc, count) /\ (m <= 2 => LayFits(rebase, TreeOf(acc)))

StoppingAt(list, m) ==
    \E st \in RebaseStates, tree \in Tree, disk \in Tree : \E ids :
       /\ list = StopList(st, tree, disk, ids)
       /\ pick = NoPick /\ st.original # Base /\ ~st.resolved
       /\ ~torn =>
             /\ StopSound(st, tree)
             /\ m <= 3 => LayFits(rebase, tree) /\ Present(files) \subseteq Present(disk) \cup Present(tree)
             /\ m > 3 => Present(files) = Present(tree)

AbortingAt(list, m) ==
    \E tree \in Tree, over \in Tree :
       \/ list = <<Restore(tree, over), WriteRebase(NoRebase)>> /\ pick = NoPick
       \/ list = <<Restore(tree, over), WritePick(NoPick)>> /\ rebase = NoRebase

PickingAt(list, m) ==
    \E s \in Seq(Link), disk \in Tree : \E ids, before, after :
       /\ list = <<Put(ids), Lay(TreeOf(s), disk), MoveTip(s, "pick"), Record("pick", before, after, 1)>>
       /\ NothingStopped
       /\ m <= 3 => PickPresent \subseteq Present(TreeOf(s))

PickStoppingAt(list, m) ==
    \E tree \in Tree, disk \in Tree :
       /\ list = <<PutTree(tree), Lay(tree, disk), WritePickRoot(tree), WritePick(PickedTip)>>
       /\ NothingStopped
       /\ ~torn =>
             /\ Present(tree) = PickPresent
             /\ m <= 2 => Present(files) \subseteq Present(disk) \cup Present(tree)
             /\ m > 2 => Present(files) = Present(tree)

PickCommittingAt(list, m) ==
    \E s \in Seq(Link) : \E ids, before, after :
       /\ list = <<Put(ids), MoveTip(s, "pick"), WritePick(NoPick), Record("pick", before, after, 1)>>
       /\ rebase = NoRebase
       /\ m <= 2 /\ ~torn => Present(TreeOf(s)) = PickPresent /\ Present(files) = PickPresent

CommandAt(list, m) ==
    \/ FinishingAt(list, m) \/ StoppingAt(list, m) \/ AbortingAt(list, m)
    \/ PickingAt(list, m) \/ PickStoppingAt(list, m) \/ PickCommittingAt(list, m)

RunLands ==
    \/ todo = <<>>
    \/ Advancing
    \/ \E list \in Seq(Effects), m \in 1..5 : m <= Len(list) /\ todo = Left(list, m) /\ CommandAt(list, m)

LandInv == ClashFits /\ RebaseLands /\ PickLands /\ Alone /\ RunLands

-----------------------------------------------------------------------------
(* What a step leaves alone *)

LEMMA NextTreeStable ==
  ASSUME UNCHANGED clash, NEW st
  PROVE  NextTree(st)' = NextTree(st)
<1>1. ASSUME NEW list PROVE CleanCount(list)' = CleanCount(list)
  <2>1. ASSUME NEW s PROVE Conflicts(s)' <=> Conflicts(s)
    BY DEF Conflicts
  <2>2. {i \in DOMAIN list : Conflicts(list[i])}' = {i \in DOMAIN list : Conflicts(list[i])}
    BY <2>1
  <2> QED BY <2>2 DEF CleanCount
<1>2. CleanCount(st.rest)' = CleanCount(st.rest)
  BY <1>1
<1> QED BY <1>2 DEF NextTree

LEMMA SoundStable ==
  ASSUME UNCHANGED <<clash, shared>>
  PROVE  /\ \A a, s : Faithful(a, s)' <=> Faithful(a, s)
         /\ \A st : (Ready(st)' <=> Ready(st)) /\ (Stopped(st)' <=> Stopped(st))
         /\ \A st : NextTree(st)' = NextTree(st)
         /\ \A o, a, c : FinishSound(o, a, c)' <=> FinishSound(o, a, c)
         /\ \A st, t : StopSound(st, t)' <=> StopSound(st, t)
         /\ \A st, t : LayFits(st, t)' <=> LayFits(st, t)
<1>1. ASSUME NEW a, NEW s PROVE Faithful(a, s)' <=> Faithful(a, s)
  BY DEF Faithful
<1>2. ASSUME NEW st, NEW k PROVE (ReadyAt(st, k)' <=> ReadyAt(st, k)) /\ (StoppedAt(st, k)' <=> StoppedAt(st, k))
  BY <1>1 DEF ReadyAt, StoppedAt
<1>3. ASSUME NEW st PROVE (Ready(st)' <=> Ready(st)) /\ (Stopped(st)' <=> Stopped(st))
  BY <1>2 DEF Ready, Stopped
<1>4. ASSUME NEW st PROVE NextTree(st)' = NextTree(st)
  BY NextTreeStable
<1>5. ASSUME NEW o, NEW a, NEW c PROVE FinishSound(o, a, c)' <=> FinishSound(o, a, c)
  BY <1>1 DEF FinishSound
<1>6. ASSUME NEW st, NEW t PROVE StopSound(st, t)' <=> StopSound(st, t)
  BY <1>3 DEF StopSound
<1>7. ASSUME NEW st, NEW t PROVE LayFits(st, t)' <=> LayFits(st, t)
  BY <1>4 DEF LayFits
<1> QED BY <1>1, <1>3, <1>4, <1>5, <1>6, <1>7

LEMMA FilesStand ==
  ASSUME RebaseLands, PickLands, Alone, ClashFits,
         UNCHANGED <<clash, shared, tip, rebase, pick, torn>>, Present(files)' = Present(files)
  PROVE  (RebaseLands /\ PickLands /\ Alone /\ ClashFits)'
<1>1. PICK st : st = rebase
  OBVIOUS
<1>2. /\ Ready(st)' <=> Ready(st)
      /\ Stopped(st)' <=> Stopped(st)
      /\ NextTree(st)' = NextTree(st)
  BY SoundStable
<1>3. RebaseLands'
  <2>1. rebase' = st
    BY <1>1
  <2> QED BY <1>1, <1>2, <2>1 DEF RebaseLands
<1>4. PickLands' /\ Alone' /\ ClashFits'
  BY DEF PickLands, PickPresent, Alone, ClashFits
<1> QED BY <1>3, <1>4

LEMMA FoldLandsStable ==
  ASSUME UNCHANGED <<clash, shared, tip, torn, files>>, NEW list, NEW held, FoldLands(list, held)
  PROVE  FoldLands(list, held)'
<1>1. /\ \A o, a, c : FinishSound(o, a, c)' <=> FinishSound(o, a, c)
      /\ \A st, t : StopSound(st, t)' <=> StopSound(st, t)
      /\ \A st, t : LayFits(st, t)' <=> LayFits(st, t)
  BY SoundStable
<1> QED BY <1>1 DEF FoldLands

-----------------------------------------------------------------------------
(* Effects *)

\* EffectStep with e at the head of the list.
Does(e) ==
    /\ UNCHANGED <<clash, shared>>
    /\ files' = IF e.do = "lay" THEN Laid(e.tree, e.over) ELSE files
    /\ tip' = IF e.do = "tip" THEN e.id ELSE tip
    /\ rebase' = IF e.do = "rebase" THEN e.state ELSE rebase
    /\ pick' = IF e.do = "pick" THEN e.id ELSE pick
    /\ torn' = IF e \in {WriteRebase(NoRebase), WritePick(NoPick)} THEN FALSE
               ELSE torn \/ (e.do = "lay" /\ e.abort)

LEMMA DoesHead ==
  ASSUME EffectStep
  PROVE  Does(Head(todo)) /\ todo' = Tail(todo)
BY DEF EffectStep, Does

LEMMA DoesLeft ==
  ASSUME EffectStep, NEW list \in Seq(Effects), NEW m \in 1..Len(list), todo = Left(list, m)
  PROVE  /\ Does(list[m])
         /\ m < Len(list) => m + 1 <= Len(list) /\ todo' = Left(list, m + 1)
         /\ m = Len(list) => todo' = <<>>
<1>1. PICK l \in Nat : l = Len(list)
  BY LenProperties
<1>2. l \in m..l /\ m \in 1..l
  BY <1>1
<1>3. Head(todo) = list[m] /\ Tail(todo) = SubSeq(list, m + 1, l)
  BY <1>1, <1>2, HeadTailOfSubSeq DEF Left
<1>4. Does(list[m]) /\ todo' = SubSeq(list, m + 1, l)
  BY <1>3, DoesHead
<1>5. m = l => todo' = <<>>
  BY <1>1, <1>2, <1>4, SubSeqEmpty
<1> QED BY <1>1, <1>2, <1>4, <1>5 DEF Left

LEMMA HeadOfLeft ==
  ASSUME NEW list \in Seq(Effects), NEW m \in 1..Len(list)
  PROVE  Head(Left(list, m)) = list[m]
<1>1. PICK l \in Nat : l = Len(list)
  BY LenProperties
<1>2. l \in m..l /\ m \in 1..l
  BY <1>1
<1> QED BY <1>1, <1>2, HeadTailOfSubSeq DEF Left

LEMMA ConsHeadTail ==
  ASSUME NEW S, NEW x \in S, NEW s \in Seq(S)
  PROVE  <<x>> \o s \in Seq(S) /\ <<x>> \o s # <<>> /\ Head(<<x>> \o s) = x /\ Tail(<<x>> \o s) = s
<1> DEFINE t == <<x>> \o s
<1>1. PICK u \in Seq(S) : u = <<x>> /\ Len(u) = 1 /\ u[1] = x
  <2>1. <<x>> \in Seq(S) /\ Len(<<x>>) = 1 /\ <<x>>[1] = x
    OBVIOUS
  <2> QED BY <2>1, Zenon
<1>2. PICK l \in Nat : l = Len(s)
  BY LenProperties
<1>3. /\ t \in Seq(S) /\ Len(t) = 1 + l
      /\ \A i \in 1..1 + l : t[i] = IF i <= 1 THEN x ELSE s[i - 1]
  <2>1. /\ u \o s \in Seq(S) /\ Len(u \o s) = Len(u) + Len(s)
        /\ \A i \in 1..Len(u) + Len(s) : (u \o s)[i] = IF i <= Len(u) THEN u[i] ELSE s[i - Len(u)]
    BY ConcatProperties
  <2>2. \A i \in 1..1 + l : i <= 1 => u[i] = x
    BY <1>1
  <2> QED BY <1>1, <1>2, <2>1, <2>2
<1> HIDE DEF t
<1>4. t # <<>>
  BY <1>2, <1>3
<1>5. /\ Head(t) = t[1] /\ Tail(t) \in Seq(S) /\ Len(Tail(t)) = Len(t) - 1
      /\ \A i \in 1..Len(Tail(t)) : Tail(t)[i] = t[i + 1]
  BY <1>3, <1>4, HeadTailProperties
<1>6. Head(t) = x
  BY <1>2, <1>3, <1>5
<1>7. PICK r \in Seq(S) : r = Tail(t) /\ Len(r) = l /\ \A i \in 1..l : r[i] = t[i + 1]
  BY <1>2, <1>3, <1>5
<1>8. \A i \in 1..l : r[i] = s[i]
  <2> TAKE i \in 1..l
  <2>1. i + 1 \in 1..1 + l /\ ~ (i + 1 <= 1) /\ i + 1 - 1 = i
    BY <1>2
  <2> QED BY <1>3, <1>7, <2>1
<1>9. r = s
  BY <1>2, <1>7, <1>8, SeqEqual
<1> QED BY <1>3, <1>4, <1>6, <1>7, <1>9 DEF t

\* An effect that only writes objects, roots or records.
LEMMA DoesQuiet ==
  ASSUME torn \in BOOLEAN, NEW e, Does(e), e.do \notin {"lay", "tip", "rebase", "pick"}
  PROVE  UNCHANGED <<clash, shared, tip, files, rebase, pick, torn>>
<1>1. UNCHANGED <<clash, shared, tip, files, rebase, pick>>
  BY DEF Does
<1>2. e # WriteRebase(NoRebase) /\ e # WritePick(NoPick)
  BY DEF WriteRebase, WritePick
<1>3. torn' = (torn \/ (e.do = "lay" /\ e.abort)) /\ ~(e.do = "lay")
  BY <1>2 DEF Does
<1>4. torn' = torn
  BY <1>3, Zenon
<1> QED BY <1>1, <1>4

LEMMA DoesQuietly ==
  ASSUME ReplayInv, LandInv, NEW e, Does(e), e.do \notin {"lay", "tip", "rebase", "pick"}
  PROVE  /\ UNCHANGED <<clash, shared, tip, files, rebase, pick, torn>>
         /\ (RebaseLands /\ PickLands /\ Alone /\ ClashFits)'
<1>1. torn \in BOOLEAN
  BY TypeParts DEF ReplayInv
<1>2. UNCHANGED <<clash, shared, tip, files, rebase, pick, torn>>
  BY <1>1, DoesQuiet
<1>3. Present(files)' = Present(files)
  BY <1>2 DEF Present
<1> QED BY <1>2, <1>3, FilesStand DEF LandInv

LEMMA LaidPresent ==
  ASSUME files \in Tree, NEW new \in Tree, NEW old \in Tree
  PROVE  /\ Present(Laid(new, old)) \subseteq Present(files) \cup Present(new)
         /\ \A t \in HalfLaid(new, old) : Present(t) \subseteq Present(files) \cup Present(new)
         /\ Present(files) \subseteq Present(old) \cup Present(new) => Present(Laid(new, old)) = Present(new)
<1>1. ASSUME NEW written PROVE Present(LaidPart(new, old, written)) \subseteq Present(files) \cup Present(new)
  BY DEF LaidPart, Present
<1>2. ASSUME NEW gone
      PROVE  Present([has |-> files.has \ gone, marks |-> files.marks \ gone]) \subseteq Present(files)
  BY DEF Present
<1>3. ASSUME Present(files) \subseteq Present(old) \cup Present(new) PROVE Present(Laid(new, old)) = Present(new)
  <2>1. Present(Laid(new, old)) = (Present(files) \ ((Present(old) \ Present(new)) \cup Present(new))) \cup Present(new)
    BY DEF Laid, LaidPart, Present
  <2> QED BY <1>3, <2>1
<1> QED BY <1>1, <1>2, <1>3 DEF Laid, HalfLaid

\* A tree laid, all of it or some, for the rebase that is held.
LEMMA LaysFit ==
  ASSUME LandInv, pick = NoPick, NEW tree, ~torn => LayFits(rebase, tree),
         UNCHANGED <<clash, shared, tip, rebase, pick, torn>>,
         NEW old, files' = old, Present(old) \subseteq Present(files) \cup Present(tree)
  PROVE  (RebaseLands /\ PickLands /\ Alone /\ ClashFits)'
<1>1. PICK st : st = rebase
  OBVIOUS
<1>2. (Ready(st)' <=> Ready(st)) /\ NextTree(st)' = NextTree(st)
  BY SoundStable
<1>3. RebaseLands'
  <2>1. SUFFICES ASSUME st # NoRebase, ~torn
                 PROVE  /\ st.resolved /\ Ready(st)
                        /\ Present(old) \subseteq Present(TreeOf(st.acc)) \cup Present(NextTree(st))
    BY <1>1, <1>2 DEF RebaseLands
  <2>2. st.resolved /\ tree = NextTree(st)
    BY <1>1, <2>1 DEF LayFits
  <2>3. Ready(st) /\ Present(files) \subseteq Present(TreeOf(st.acc)) \cup Present(NextTree(st))
    BY <1>1, <2>1, <2>2 DEF LandInv, RebaseLands
  <2> QED BY <2>2, <2>3
<1>4. PickLands' /\ Alone' /\ ClashFits'
  BY DEF LandInv, PickLands, PickPresent, Alone, ClashFits
<1> QED BY <1>3, <1>4

LEMMA DoesLay ==
  ASSUME ReplayInv, LandInv, pick = NoPick, NEW tree \in Tree, NEW over \in Tree,
         ~torn => LayFits(rebase, tree), Does(Lay(tree, over))
  PROVE  /\ (RebaseLands /\ PickLands /\ Alone /\ ClashFits)'
         /\ UNCHANGED <<clash, shared, tip, rebase, pick, torn>>
         /\ Present(files) \subseteq Present(over) \cup Present(tree) => Present(files)' = Present(tree)
<1>1. torn \in BOOLEAN /\ files \in Tree
  BY TypeParts DEF ReplayInv
<1>2. PICK e : e = Lay(tree, over)
  OBVIOUS
<1>3. e.do = "lay" /\ e.tree = tree /\ e.over = over /\ e.abort = FALSE
  BY <1>2 DEF Lay
<1>4. e # WriteRebase(NoRebase) /\ e # WritePick(NoPick)
  BY <1>3 DEF WriteRebase, WritePick
<1>5. UNCHANGED <<clash, shared, tip, rebase, pick>> /\ files' = Laid(tree, over)
  BY <1>2, <1>3 DEF Does
<1>6. torn' = torn
  <2>1. torn' = (torn \/ (e.do = "lay" /\ e.abort))
    BY <1>2, <1>4 DEF Does
  <2> QED BY <1>1, <1>3, <2>1, Zenon
<1>7. PICK t : t = Laid(tree, over)
  OBVIOUS
<1>8. /\ Present(t) \subseteq Present(files) \cup Present(tree)
      /\ Present(files) \subseteq Present(over) \cup Present(tree) => Present(t) = Present(tree)
  BY <1>1, <1>7, LaidPresent
<1>9. files' = t /\ Present(files)' = Present(t)
  BY <1>5, <1>7 DEF Present
<1>10. (RebaseLands /\ PickLands /\ Alone /\ ClashFits)'
  BY <1>5, <1>6, <1>8, <1>9, LaysFit
<1> QED BY <1>5, <1>6, <1>8, <1>9, <1>10

LEMMA DoesTip ==
  ASSUME ReplayInv, LandInv, NEW s, NEW why, Does(MoveTip(s, why))
  PROVE  /\ (RebaseLands /\ Alone /\ ClashFits)'
         /\ UNCHANGED <<clash, shared, files, rebase, pick, torn>> /\ tip' = s
<1>1. PICK e : e = MoveTip(s, why)
  OBVIOUS
<1>2. e.do = "tip" /\ e.id = s /\ e # WriteRebase(NoRebase) /\ e # WritePick(NoPick)
  BY <1>1 DEF MoveTip, WriteRebase, WritePick
<1>3. UNCHANGED <<clash, shared, files, rebase, pick>> /\ tip' = s
  BY <1>1, <1>2 DEF Does
<1>4. torn' = torn
  <2>1. torn' = (torn \/ (e.do = "lay" /\ e.abort)) /\ ~(e.do = "lay")
    BY <1>1, <1>2 DEF Does
  <2>2. torn \in BOOLEAN
    BY TypeParts DEF ReplayInv
  <2> QED BY <2>1, <2>2, Zenon
<1>5. PICK st : st = rebase
  OBVIOUS
<1>6. (Ready(st)' <=> Ready(st)) /\ (Stopped(st)' <=> Stopped(st)) /\ NextTree(st)' = NextTree(st)
  BY <1>3, SoundStable
<1>7. RebaseLands'
  BY <1>3, <1>4, <1>5, <1>6 DEF LandInv, RebaseLands, Present
<1> QED BY <1>3, <1>4, <1>7 DEF LandInv, Alone, ClashFits

\* REBASE_STATE or PICK_HEAD removed.
LEMMA DoesClear ==
  ASSUME LandInv, NEW e \in {WriteRebase(NoRebase), WritePick(NoPick)}, Does(e),
         e = WriteRebase(NoRebase) => pick = NoPick, e = WritePick(NoPick) => rebase = NoRebase
  PROVE  (RebaseLands /\ PickLands /\ Alone /\ ClashFits /\ NothingStopped)'
<1>1. e.do = IF e = WriteRebase(NoRebase) THEN "rebase" ELSE "pick"
  BY DEF WriteRebase, WritePick
<1>2. rebase' = NoRebase /\ pick' = NoPick /\ UNCHANGED <<clash, shared>>
  <2>1. CASE e = WriteRebase(NoRebase)
    <3>1. e.do = "rebase" /\ e.state = NoRebase
      BY <2>1 DEF WriteRebase
    <3> QED BY <2>1, <3>1 DEF Does
  <2>2. CASE e = WritePick(NoPick)
    <3>1. e.do = "pick" /\ e.id = NoPick
      BY <2>2 DEF WritePick
    <3> QED BY <2>2, <3>1 DEF Does
  <2> QED BY <2>1, <2>2
<1> QED BY <1>2 DEF LandInv, RebaseLands, PickLands, Alone, ClashFits, NothingStopped

LEMMA NextEffect ==
  ASSUME EffectStep, NEW list \in Seq(Effects), Len(list) \in 1..5, NEW m \in 1..Len(list), todo = Left(list, m),
         m < Len(list) => CommandAt(list, m + 1)'
  PROVE  RunLands'
<1>1. /\ m < Len(list) => m + 1 <= Len(list) /\ todo' = Left(list, m + 1)
      /\ m = Len(list) => todo' = <<>>
  BY DoesLeft
<1>2. CASE m = Len(list)
  BY <1>1, <1>2 DEF RunLands
<1>3. CASE m # Len(list)
  <2>1. m + 1 \in 1..5 /\ m < Len(list)
    <3>1. PICK l \in 1..5 : l = Len(list)
      OBVIOUS
    <3>2. m \in 1..l /\ m # l
      BY <1>3, <3>1
    <3>3. m < l /\ m + 1 \in 1..5
      BY <3>2
    <3> QED BY <3>1, <3>3
  <2>2. PICK n \in 1..5 : n = m + 1
    BY <2>1
  <2>3. n <= Len(list) /\ todo' = Left(list, n) /\ CommandAt(list, n)'
    BY <1>1, <2>1, <2>2
  <2>4. (todo = Left(list, n))'
    BY <2>3 DEF Left
  <2> QED BY <2>3, <2>4 DEF RunLands
<1> QED BY <1>2, <1>3

\* A rebase that finishes.
LEMMA FinishingStep ==
  ASSUME ReplayInv, LandInv, EffectStep, NEW list \in Seq(Effects), NEW m \in 1..5, m <= Len(list),
         todo = Left(list, m), FinishingAt(list, m)
  PROVE  LandInv'
<1>0. PICK original \in Seq(Link), acc \in Seq(Link), disk \in Tree : \E count, ids :
         /\ list = FinishList(original, acc, disk, count, ids)
         /\ m <= 3 => tip = original
         /\ pick = NoPick
         /\ ~torn => FinishSound(original, acc, count) /\ (m <= 2 => LayFits(rebase, TreeOf(acc)))
  BY DEF FinishingAt
<1>1. PICK count, ids :
         /\ list = FinishList(original, acc, disk, count, ids)
         /\ m <= 3 => tip = original
         /\ pick = NoPick
         /\ ~torn => FinishSound(original, acc, count) /\ (m <= 2 => LayFits(rebase, TreeOf(acc)))
  BY <1>0
<1>2. /\ Len(list) = 5 /\ list[1] = Put(ids) /\ list[2] = Lay(TreeOf(acc), disk)
      /\ list[3] = MoveTip(acc, "rebase") /\ list[4] = Record("rebase", original, acc, count)
      /\ list[5] = WriteRebase(NoRebase)
  BY <1>1 DEF FinishList
<1>3. Does(list[m]) /\ m \in 1..Len(list) /\ UNCHANGED <<clash, shared>>
  <2>1. m \in 1..Len(list)
    BY <1>2
  <2> QED BY <2>1, DoesLeft DEF Does
<1>4. FinishSound(original, acc, count)' <=> FinishSound(original, acc, count)
  BY <1>3, SoundStable
<1>5. /\ (RebaseLands /\ PickLands /\ Alone /\ ClashFits)'
      /\ m < 5 => pick' = NoPick /\ torn' = torn
      /\ m < 3 => UNCHANGED <<tip, rebase>>
  <2>1. CASE m \in {1, 4}
    <3>1. list[m].do \notin {"lay", "tip", "rebase", "pick"}
      BY <1>2, <2>1 DEF Put, Record
    <3>2. /\ UNCHANGED <<tip, rebase, pick, torn>>
          /\ (RebaseLands /\ PickLands /\ Alone /\ ClashFits)'
      BY <1>3, <3>1, DoesQuietly
    <3> QED BY <1>1, <3>2
  <2>2. CASE m = 2
    <3>1. PICK tree \in Tree : tree = TreeOf(acc)
      BY TreeOfType
    <3>2. Does(Lay(tree, disk)) /\ (~torn => LayFits(rebase, tree))
      BY <1>1, <1>2, <1>3, <2>2, <3>1
    <3>3. /\ UNCHANGED <<tip, rebase, pick, torn>>
          /\ (RebaseLands /\ PickLands /\ Alone /\ ClashFits)'
      BY <1>1, <3>2, DoesLay
    <3> QED BY <1>1, <3>3
  <2>3. CASE m = 3
    <3>1. Does(MoveTip(acc, "rebase"))
      BY <1>2, <1>3, <2>3
    <3>2. (RebaseLands /\ Alone /\ ClashFits)' /\ UNCHANGED <<pick, torn>>
      BY <3>1, DoesTip
    <3> QED BY <1>1, <2>3, <3>2 DEF PickLands
  <2>4. CASE m = 5
    <3>1. list[m] = WriteRebase(NoRebase) /\ WriteRebase(NoRebase) # WritePick(NoPick)
      BY <1>2, <2>4 DEF WriteRebase, WritePick
    <3>2. PICK e : e = list[m]
      OBVIOUS
    <3>3. /\ e \in {WriteRebase(NoRebase), WritePick(NoPick)} /\ Does(e)
          /\ (e = WriteRebase(NoRebase) => pick = NoPick) /\ (e = WritePick(NoPick) => rebase = NoRebase)
      BY <1>1, <1>3, <3>1, <3>2
    <3> QED BY <2>4, <3>3, DoesClear
  <2> QED BY <2>1, <2>2, <2>3, <2>4
<1>6. m < 5 => FinishingAt(list, m + 1)'
  <2> SUFFICES ASSUME m < 5 PROVE FinishingAt(list, m + 1)'
    OBVIOUS
  <2>1. m + 1 <= 3 => m < 3 /\ m <= 3
    OBVIOUS
  <2>2. m + 1 <= 2 => m < 3 /\ m <= 2
    OBVIOUS
  <2>3. (m + 1 <= 3 => tip' = original) /\ pick' = NoPick
    BY <1>1, <1>5, <2>1
  <2>4. LayFits(rebase, TreeOf(acc)) /\ UNCHANGED rebase => LayFits(rebase, TreeOf(acc))'
    <3>1. PICK st, t : st = rebase /\ t = TreeOf(acc)
      OBVIOUS
    <3>2. LayFits(st, t)' <=> LayFits(st, t)
      BY <1>3, SoundStable
    <3> QED BY <3>1, <3>2
  <2>5. ~torn' => FinishSound(original, acc, count)' /\ (m + 1 <= 2 => LayFits(rebase, TreeOf(acc))')
    BY <1>1, <1>4, <1>5, <2>2, <2>4
  <2> QED BY <1>1, <2>3, <2>5 DEF FinishingAt
<1>7. RunLands'
  <2>1. m \in 1..Len(list) /\ (m < Len(list) => CommandAt(list, m + 1)')
    BY <1>2, <1>6 DEF CommandAt
  <2>2. Len(list) \in 1..5
    BY <1>2
  <2> QED BY <2>1, <2>2, NextEffect
<1> QED BY <1>5, <1>7 DEF LandInv

\* A rebase that stops at a conflict.
LEMMA StoppingStep ==
  ASSUME ReplayInv, LandInv, EffectStep, NEW list \in Seq(Effects), NEW m \in 1..5, m <= Len(list),
         todo = Left(list, m), StoppingAt(list, m)
  PROVE  LandInv'
<1>0. PICK st \in RebaseStates, tree \in Tree, disk \in Tree : \E ids :
         /\ list = StopList(st, tree, disk, ids)
         /\ pick = NoPick /\ st.original # Base /\ ~st.resolved
         /\ ~torn =>
               /\ StopSound(st, tree)
               /\ m <= 3 => LayFits(rebase, tree) /\ Present(files) \subseteq Present(disk) \cup Present(tree)
               /\ m > 3 => Present(files) = Present(tree)
  BY DEF StoppingAt
<1>1. PICK ids :
         /\ list = StopList(st, tree, disk, ids)
         /\ pick = NoPick /\ st.original # Base /\ ~st.resolved
         /\ ~torn =>
               /\ StopSound(st, tree)
               /\ m <= 3 => LayFits(rebase, tree) /\ Present(files) \subseteq Present(disk) \cup Present(tree)
               /\ m > 3 => Present(files) = Present(tree)
  BY <1>0
<1>2. /\ Len(list) = 5 /\ list[1] = Put(ids) /\ list[2] = PutTree(tree) /\ list[3] = Lay(tree, disk)
      /\ list[4] = WriteRebaseRoot(tree) /\ list[5] = WriteRebase(st)
  BY <1>1 DEF StopList
<1>3. Does(list[m]) /\ m \in 1..Len(list) /\ UNCHANGED <<clash, shared>>
  <2>1. m \in 1..Len(list)
    BY <1>2
  <2> QED BY <2>1, DoesLeft DEF Does
<1>4. StopSound(st, tree)' <=> StopSound(st, tree)
  BY <1>3, SoundStable
<1>5. torn \in BOOLEAN
  BY TypeParts DEF ReplayInv
<1>6. /\ (RebaseLands /\ PickLands /\ Alone /\ ClashFits)' /\ pick' = NoPick /\ torn' = torn
      /\ m < 3 => UNCHANGED <<rebase, files>>
      /\ m < 5 => rebase' = rebase
      /\ m = 3 /\ ~torn => Present(files)' = Present(tree)
      /\ m > 3 => files' = files
  <2>1. CASE m \in {1, 2, 4}
    <3>1. list[m].do \notin {"lay", "tip", "rebase", "pick"}
      BY <1>2, <2>1 DEF Put, PutTree, WriteRebaseRoot
    <3>2. /\ UNCHANGED <<tip, rebase, pick, torn, files>>
          /\ (RebaseLands /\ PickLands /\ Alone /\ ClashFits)'
      BY <1>3, <3>1, DoesQuietly
    <3> QED BY <1>1, <2>1, <3>2
  <2>2. CASE m = 3
    <3>1. Does(Lay(tree, disk)) /\ (~torn => LayFits(rebase, tree))
      BY <1>1, <1>2, <1>3, <2>2
    <3>2. /\ UNCHANGED <<tip, rebase, pick, torn>>
          /\ (RebaseLands /\ PickLands /\ Alone /\ ClashFits)'
          /\ Present(files) \subseteq Present(disk) \cup Present(tree) => Present(files)' = Present(tree)
      BY <1>1, <3>1, DoesLay
    <3> QED BY <1>1, <2>2, <3>2
  <2>3. CASE m = 5
    <3>1. PICK e : e = list[m] /\ e = WriteRebase(st)
      BY <1>2, <2>3
    <3>2. e.do = "rebase" /\ e.state = st /\ e # WritePick(NoPick)
      BY <3>1 DEF WriteRebase, WritePick
    <3>3. e # WriteRebase(NoRebase)
      <4>1. WriteRebase(NoRebase).state.original = Base
        BY DEF WriteRebase, NoRebase
      <4> QED BY <1>1, <3>2, <4>1
    <3>4. UNCHANGED <<clash, shared, files, pick, tip>> /\ rebase' = st
      BY <1>3, <3>1, <3>2 DEF Does
    <3>5. torn' = torn
      <4>1. torn' = (torn \/ (e.do = "lay" /\ e.abort)) /\ ~(e.do = "lay")
        BY <1>3, <3>1, <3>2, <3>3 DEF Does
      <4> QED BY <1>5, <4>1, Zenon
    <3>6. Stopped(st)' <=> Stopped(st)
      BY <1>3, SoundStable
    <3>7. RebaseLands'
      <4>1. SUFFICES ASSUME ~torn PROVE Stopped(st) /\ Present(files) = StopPresent(st)
        BY <1>1, <3>4, <3>5, <3>6 DEF RebaseLands, Present
      <4> QED BY <1>1, <2>3, <4>1 DEF StopSound
    <3>8. (PickLands /\ Alone /\ ClashFits)'
      BY <1>1, <3>4 DEF LandInv, PickLands, Alone, ClashFits
    <3> QED BY <1>1, <2>3, <3>4, <3>5, <3>7, <3>8
  <2> QED BY <2>1, <2>2, <2>3
<1>7. m < 5 => StoppingAt(list, m + 1)'
  <2> SUFFICES ASSUME m < 5 PROVE StoppingAt(list, m + 1)'
    OBVIOUS
  <2>1. m + 1 <= 3 => m < 3 /\ m <= 3
    OBVIOUS
  <2>2. m + 1 > 3 => m = 3 \/ m > 3
    OBVIOUS
  <2>3. LayFits(rebase, tree) => LayFits(rebase, tree)'
    <3>1. PICK held : held = rebase
      OBVIOUS
    <3>2. LayFits(held, tree)' <=> LayFits(held, tree)
      BY <1>3, SoundStable
    <3> QED BY <1>6, <3>1, <3>2
  <2>4. ~torn' => StopSound(st, tree)'
    BY <1>1, <1>4, <1>6
  <2>5. ~torn' => (m + 1 <= 3 => LayFits(rebase, tree)' /\ Present(files') \subseteq Present(disk) \cup Present(tree))
    BY <1>1, <1>6, <2>1, <2>3 DEF Present
  <2>6. ~torn' => (m + 1 > 3 => Present(files') = Present(tree))
    BY <1>1, <1>6, <2>2 DEF Present
  <2> QED BY <1>1, <1>6, <2>4, <2>5, <2>6 DEF StoppingAt
<1>8. RunLands'
  <2>1. m \in 1..Len(list) /\ (m < Len(list) => CommandAt(list, m + 1)')
    BY <1>2, <1>3, <1>7 DEF CommandAt
  <2>2. Len(list) \in 1..5
    BY <1>2
  <2> QED BY <2>1, <2>2, NextEffect
<1> QED BY <1>6, <1>8 DEF LandInv

\* An abort: while it is under way nothing is promised of the working tree.
LEMMA AbortingStep ==
  ASSUME ReplayInv, LandInv, EffectStep, NEW list \in Seq(Effects), NEW m \in 1..5, m <= Len(list),
         todo = Left(list, m), AbortingAt(list, m)
  PROVE  LandInv'
<1>0. PICK tree \in Tree, over \in Tree : \E e :
         /\ list = <<Restore(tree, over), e>>
         /\ \/ e = WriteRebase(NoRebase) /\ pick = NoPick
            \/ e = WritePick(NoPick) /\ rebase = NoRebase
  BY DEF AbortingAt
<1>1. PICK e :
         /\ list = <<Restore(tree, over), e>>
         /\ \/ e = WriteRebase(NoRebase) /\ pick = NoPick
            \/ e = WritePick(NoPick) /\ rebase = NoRebase
  BY <1>0
<1>2. Len(list) = 2 /\ list[1] = Restore(tree, over) /\ list[2] = e
  BY <1>1
<1>3. Does(list[m]) /\ m \in 1..Len(list) /\ UNCHANGED <<clash, shared>>
  <2>1. m \in 1..Len(list)
    BY <1>2
  <2> QED BY <2>1, DoesLeft DEF Does
<1>4. WriteRebase(NoRebase) # WritePick(NoPick)
  BY DEF WriteRebase, WritePick
<1>5. CASE m = 1
  <2>1. PICK d : d = list[m] /\ d.do = "lay" /\ d.abort = TRUE
    BY <1>2, <1>5 DEF Restore
  <2>2. d # WriteRebase(NoRebase) /\ d # WritePick(NoPick)
    BY <2>1 DEF WriteRebase, WritePick
  <2>3. UNCHANGED <<clash, shared, tip, rebase, pick>>
    BY <1>3, <2>1 DEF Does
  <2>4. torn'
    <3>1. torn' = (torn \/ (d.do = "lay" /\ d.abort))
      BY <1>3, <2>1, <2>2 DEF Does
    <3> QED BY <2>1, <3>1, Zenon
  <2>5. (RebaseLands /\ PickLands /\ Alone /\ ClashFits)'
    BY <2>3, <2>4 DEF LandInv, RebaseLands, PickLands, Alone, ClashFits
  <2>6. AbortingAt(list, m + 1)'
    BY <1>1, <2>3 DEF AbortingAt
  <2>7. Len(list) \in 1..5 /\ (m < Len(list) => CommandAt(list, m + 1)')
    BY <1>2, <2>6 DEF CommandAt
  <2>8. RunLands'
    BY <1>3, <2>7, NextEffect
  <2> QED BY <2>5, <2>8 DEF LandInv
<1>6. CASE m = 2
  <2>1. Does(e) /\ e \in {WriteRebase(NoRebase), WritePick(NoPick)}
    BY <1>1, <1>2, <1>3, <1>6
  <2>2. (e = WriteRebase(NoRebase) => pick = NoPick) /\ (e = WritePick(NoPick) => rebase = NoRebase)
    BY <1>1, <1>4
  <2>3. (RebaseLands /\ PickLands /\ Alone /\ ClashFits)'
    BY <2>1, <2>2, DoesClear
  <2>4. Len(list) \in 1..5 /\ ~(m < Len(list))
    BY <1>2, <1>6
  <2>5. RunLands'
    BY <1>3, <2>4, NextEffect
  <2> QED BY <2>3, <2>5 DEF LandInv
<1>7. m = 1 \/ m = 2
  BY <1>2
<1> QED BY <1>5, <1>6, <1>7

\* A pick without conflict.
LEMMA PickingStep ==
  ASSUME ReplayInv, LandInv, EffectStep, NEW list \in Seq(Effects), NEW m \in 1..5, m <= Len(list),
         todo = Left(list, m), PickingAt(list, m)
  PROVE  LandInv'
<1>0. PICK s \in Seq(Link), disk \in Tree : \E ids, before, after :
         /\ list = <<Put(ids), Lay(TreeOf(s), disk), MoveTip(s, "pick"), Record("pick", before, after, 1)>>
         /\ NothingStopped
         /\ m <= 3 => PickPresent \subseteq Present(TreeOf(s))
  BY DEF PickingAt
<1>1. PICK ids, before, after :
         /\ list = <<Put(ids), Lay(TreeOf(s), disk), MoveTip(s, "pick"), Record("pick", before, after, 1)>>
         /\ NothingStopped
         /\ m <= 3 => PickPresent \subseteq Present(TreeOf(s))
  BY <1>0
<1>2. /\ Len(list) = 4 /\ list[1] = Put(ids) /\ list[2] = Lay(TreeOf(s), disk)
      /\ list[3] = MoveTip(s, "pick") /\ list[4] = Record("pick", before, after, 1)
  BY <1>1
<1>3. Does(list[m]) /\ m \in 1..Len(list)
  <2>1. m \in 1..Len(list)
    BY <1>2
  <2> QED BY <2>1, DoesLeft
<1>4. rebase = NoRebase /\ pick = NoPick
  BY <1>1 DEF NothingStopped
<1>5. /\ (RebaseLands /\ PickLands /\ Alone /\ ClashFits)' /\ UNCHANGED <<rebase, pick>>
      /\ m < 3 => tip' = tip
  <2>1. CASE m \in {1, 4}
    <3>1. list[m].do \notin {"lay", "tip", "rebase", "pick"}
      BY <1>2, <2>1 DEF Put, Record
    <3> QED BY <1>3, <3>1, DoesQuietly
  <2>2. CASE m = 2
    <3>1. PICK tree \in Tree : tree = TreeOf(s)
      BY TreeOfType
    <3>2. Does(Lay(tree, disk)) /\ LayFits(rebase, tree)
      BY <1>2, <1>3, <1>4, <2>2, <3>1 DEF LayFits
    <3> QED BY <1>4, <3>2, DoesLay
  <2>3. CASE m = 3
    <3>1. Does(MoveTip(s, "pick"))
      BY <1>2, <1>3, <2>3
    <3>2. (RebaseLands /\ Alone /\ ClashFits)' /\ UNCHANGED <<rebase, pick>>
      BY <3>1, DoesTip
    <3> QED BY <1>4, <2>3, <3>2 DEF PickLands
  <2> QED BY <1>2, <2>1, <2>2, <2>3
<1>6. m < 4 => PickingAt(list, m + 1)'
  <2> SUFFICES ASSUME m < 4 PROVE PickingAt(list, m + 1)'
    OBVIOUS
  <2>1. m + 1 <= 3 => m < 3 /\ m <= 3
    OBVIOUS
  <2>2. m + 1 <= 3 => PickPresent' \subseteq Present(TreeOf(s))
    BY <1>1, <1>5, <2>1 DEF PickPresent
  <2>3. NothingStopped'
    BY <1>4, <1>5 DEF NothingStopped
  <2> QED BY <1>1, <2>2, <2>3 DEF PickingAt
<1>7. RunLands'
  <2>1. m \in 1..Len(list) /\ (m < Len(list) => CommandAt(list, m + 1)') /\ Len(list) \in 1..5
    BY <1>2, <1>3, <1>6 DEF CommandAt
  <2> QED BY <2>1, NextEffect
<1> QED BY <1>5, <1>7 DEF LandInv

\* A pick that stops at a conflict.
LEMMA PickStoppingStep ==
  ASSUME ReplayInv, LandInv, EffectStep, NEW list \in Seq(Effects), NEW m \in 1..5, m <= Len(list),
         todo = Left(list, m), PickStoppingAt(list, m)
  PROVE  LandInv'
<1>1. PICK tree \in Tree, disk \in Tree :
         /\ list = <<PutTree(tree), Lay(tree, disk), WritePickRoot(tree), WritePick(PickedTip)>>
         /\ NothingStopped
         /\ ~torn =>
               /\ Present(tree) = PickPresent
               /\ m <= 2 => Present(files) \subseteq Present(disk) \cup Present(tree)
               /\ m > 2 => Present(files) = Present(tree)
  BY DEF PickStoppingAt
<1>2. /\ Len(list) = 4 /\ list[1] = PutTree(tree) /\ list[2] = Lay(tree, disk)
      /\ list[3] = WritePickRoot(tree) /\ list[4] = WritePick(PickedTip)
  BY <1>1
<1>3. Does(list[m]) /\ m \in 1..Len(list)
  <2>1. m \in 1..Len(list)
    BY <1>2
  <2> QED BY <2>1, DoesLeft
<1>4. rebase = NoRebase /\ pick = NoPick /\ torn \in BOOLEAN /\ shared \subseteq Own
  BY <1>1, TypeParts DEF NothingStopped, ReplayInv
<1>5. /\ (RebaseLands /\ PickLands /\ Alone /\ ClashFits)' /\ UNCHANGED <<tip, torn>>
      /\ m < 4 => UNCHANGED <<rebase, pick>>
      /\ m = 2 /\ ~torn => Present(files)' = Present(tree)
      /\ m # 2 => files' = files
  <2>1. CASE m \in {1, 3}
    <3>1. list[m].do \notin {"lay", "tip", "rebase", "pick"}
      BY <1>2, <2>1 DEF PutTree, WritePickRoot
    <3>2. /\ UNCHANGED <<tip, files, rebase, pick, torn>>
          /\ (RebaseLands /\ PickLands /\ Alone /\ ClashFits)'
      BY <1>3, <3>1, DoesQuietly
    <3> QED BY <2>1, <3>2
  <2>2. CASE m = 2
    <3>1. Does(Lay(tree, disk)) /\ LayFits(rebase, tree)
      BY <1>2, <1>3, <1>4, <2>2 DEF LayFits
    <3>2. /\ UNCHANGED <<tip, rebase, pick, torn>>
          /\ (RebaseLands /\ PickLands /\ Alone /\ ClashFits)'
          /\ Present(files) \subseteq Present(disk) \cup Present(tree) => Present(files)' = Present(tree)
      BY <1>4, <3>1, DoesLay
    <3> QED BY <1>1, <2>2, <3>2
  <2>3. CASE m = 4
    <3>1. PICK e : e = list[m] /\ e = WritePick(PickedTip)
      BY <1>2, <2>3
    <3>2. e.do = "pick" /\ e.id = PickedTip /\ e # WriteRebase(NoRebase)
      BY <3>1 DEF WriteRebase, WritePick
    <3>3. e # WritePick(NoPick)
      <4>1. PickedTip # NoPick
        BY <1>4, StartType DEF NoPick
      <4> QED BY <3>2, <4>1 DEF WritePick
    <3>4. UNCHANGED <<clash, shared, files, tip, rebase>> /\ pick' = PickedTip
      BY <1>3, <3>1, <3>2 DEF Does
    <3>5. torn' = torn
      <4>1. torn' = (torn \/ (e.do = "lay" /\ e.abort)) /\ ~(e.do = "lay")
        BY <1>3, <3>1, <3>2, <3>3 DEF Does
      <4> QED BY <1>4, <4>1, Zenon
    <3>6. PickLands'
      BY <1>1, <2>3, <3>4, <3>5 DEF PickLands, PickPresent
    <3>7. (RebaseLands /\ Alone /\ ClashFits)'
      BY <1>4, <3>4 DEF LandInv, RebaseLands, Alone, ClashFits
    <3> QED BY <2>3, <3>4, <3>5, <3>6, <3>7
  <2> QED BY <1>2, <2>1, <2>2, <2>3
<1>6. m < 4 => PickStoppingAt(list, m + 1)'
  <2> SUFFICES ASSUME m < 4 PROVE PickStoppingAt(list, m + 1)'
    OBVIOUS
  <2>1. (m + 1 <= 2 => m # 2 /\ m <= 2) /\ (m + 1 > 2 => m = 2 \/ m > 2)
    OBVIOUS
  <2>2. NothingStopped'
    BY <1>4, <1>5 DEF NothingStopped
  <2>3. ~torn' => Present(tree) = PickPresent'
    BY <1>1, <1>5 DEF PickPresent
  <2>4. ~torn' => (m + 1 <= 2 => Present(files') \subseteq Present(disk) \cup Present(tree))
    BY <1>1, <1>5, <2>1
  <2>5. ~torn' => (m + 1 > 2 => Present(files') = Present(tree))
    BY <1>1, <1>5, <2>1 DEF Present
  <2> QED BY <1>1, <2>2, <2>3, <2>4, <2>5 DEF PickStoppingAt
<1>7. RunLands'
  <2>1. m \in 1..Len(list) /\ (m < Len(list) => CommandAt(list, m + 1)') /\ Len(list) \in 1..5
    BY <1>2, <1>3, <1>6 DEF CommandAt
  <2> QED BY <2>1, NextEffect
<1> QED BY <1>5, <1>7 DEF LandInv

\* The commit that completes a stopped pick.
LEMMA PickCommittingStep ==
  ASSUME ReplayInv, LandInv, EffectStep, NEW list \in Seq(Effects), NEW m \in 1..5, m <= Len(list),
         todo = Left(list, m), PickCommittingAt(list, m)
  PROVE  LandInv'
<1>0. PICK s \in Seq(Link) : \E ids, before, after :
         /\ list = <<Put(ids), MoveTip(s, "pick"), WritePick(NoPick), Record("pick", before, after, 1)>>
         /\ rebase = NoRebase
         /\ m <= 2 /\ ~torn => Present(TreeOf(s)) = PickPresent /\ Present(files) = PickPresent
  BY DEF PickCommittingAt
<1>1. PICK ids, before, after :
         /\ list = <<Put(ids), MoveTip(s, "pick"), WritePick(NoPick), Record("pick", before, after, 1)>>
         /\ rebase = NoRebase
         /\ m <= 2 /\ ~torn => Present(TreeOf(s)) = PickPresent /\ Present(files) = PickPresent
  BY <1>0
<1>2. /\ Len(list) = 4 /\ list[1] = Put(ids) /\ list[2] = MoveTip(s, "pick")
      /\ list[3] = WritePick(NoPick) /\ list[4] = Record("pick", before, after, 1)
  BY <1>1
<1>3. Does(list[m]) /\ m \in 1..Len(list)
  <2>1. m \in 1..Len(list)
    BY <1>2
  <2> QED BY <2>1, DoesLeft
<1>4. /\ (RebaseLands /\ PickLands /\ Alone /\ ClashFits)' /\ rebase' = NoRebase
      /\ m < 2 => UNCHANGED <<tip, files, torn>>
  <2>1. CASE m \in {1, 4}
    <3>1. list[m].do \notin {"lay", "tip", "rebase", "pick"}
      BY <1>2, <2>1 DEF Put, Record
    <3>2. /\ UNCHANGED <<tip, files, rebase, torn>>
          /\ (RebaseLands /\ PickLands /\ Alone /\ ClashFits)'
      BY <1>3, <3>1, DoesQuietly
    <3> QED BY <1>1, <3>2
  <2>2. CASE m = 2
    <3>1. Does(MoveTip(s, "pick"))
      BY <1>2, <1>3, <2>2
    <3>2. (RebaseLands /\ Alone /\ ClashFits)' /\ UNCHANGED <<files, rebase, pick, torn>> /\ tip' = s
      BY <3>1, DoesTip
    <3>3. ~torn => Present(files) = Present(TreeOf(s)) \cup {Picked}
      BY <1>1, <2>2 DEF PickPresent
    <3>4. PickLands'
      BY <3>2, <3>3 DEF PickLands, PickPresent
    <3> QED BY <1>1, <2>2, <3>2, <3>4
  <2>3. CASE m = 3
    <3>1. PICK e : e = list[m] /\ e = WritePick(NoPick)
      BY <1>2, <2>3
    <3>2. Does(e) /\ e \in {WriteRebase(NoRebase), WritePick(NoPick)} /\ e # WriteRebase(NoRebase)
      BY <1>3, <3>1 DEF WriteRebase, WritePick
    <3>3. (RebaseLands /\ PickLands /\ Alone /\ ClashFits /\ NothingStopped)'
      BY <1>1, <3>2, DoesClear
    <3> QED BY <2>3, <3>3 DEF NothingStopped
  <2> QED BY <1>2, <2>1, <2>2, <2>3
<1>5. m < 4 => PickCommittingAt(list, m + 1)'
  <2> SUFFICES ASSUME m < 4 PROVE PickCommittingAt(list, m + 1)'
    OBVIOUS
  <2>1. m + 1 <= 2 => m < 2 /\ m <= 2
    OBVIOUS
  <2>2. m + 1 <= 2 /\ ~torn' => Present(TreeOf(s)) = PickPresent' /\ Present(files') = PickPresent'
    BY <1>1, <1>4, <2>1 DEF PickPresent
  <2> QED BY <1>1, <1>4, <2>2 DEF PickCommittingAt
<1>6. RunLands'
  <2>1. m \in 1..Len(list) /\ (m < Len(list) => CommandAt(list, m + 1)') /\ Len(list) \in 1..5
    BY <1>2, <1>3, <1>5 DEF CommandAt
  <2> QED BY <2>1, NextEffect
<1> QED BY <1>4, <1>6 DEF LandInv

\* A fold is what is left to do next.
LEMMA FoldRuns ==
  ASSUME NEW fold \in Seq(Effects), NEW held, FoldLands(fold, held)',
         rebase' = held, pick' = NoPick, todo' = fold, tip' \in Seq(Link)
  PROVE  RunLands'
<1>1. CASE fold = <<>>
  BY <1>1 DEF RunLands
<1>2. PICK o \in Seq(Link) : o = tip'
  OBVIOUS
<1>3. ASSUME NEW acc \in Seq(Link), NEW disk \in Tree, NEW count, NEW ids,
             fold = FinishList(o, acc, disk, count, ids),
             ~torn' => FinishSound(o, acc, count)' /\ LayFits(held, TreeOf(acc))'
      PROVE  RunLands'
  <2>1. PICK t : t = TreeOf(acc)
    OBVIOUS
  <2>2. (LayFits(rebase, t))' <=> LayFits(held, t)'
    BY DEF LayFits
  <2>3. FinishingAt(fold, 1)'
    BY <1>2, <1>3, <2>1, <2>2 DEF FinishingAt
  <2>4. Len(fold) = 5 /\ Left(fold, 1) = fold
    BY <1>3, SubSeqFull DEF FinishList, Left
  <2>5. (todo = Left(fold, 1))'
    BY <2>4 DEF Left
  <2> QED BY <2>3, <2>4, <2>5 DEF RunLands, CommandAt
<1>4. ASSUME NEW st \in RebaseStates, NEW tree \in Tree, NEW disk \in Tree, NEW ids,
             fold = StopList(st, tree, disk, ids), st.original # Base, ~st.resolved,
             ~torn' =>
                /\ StopSound(st, tree)' /\ LayFits(held, tree)'
                /\ Present(files') \subseteq Present(disk) \cup Present(tree)
      PROVE  RunLands'
  <2>1. (LayFits(rebase, tree))' <=> LayFits(held, tree)'
    BY DEF LayFits
  <2>2. StoppingAt(fold, 1)'
    BY <1>4, <2>1 DEF StoppingAt
  <2>3. Len(fold) = 5 /\ Left(fold, 1) = fold
    BY <1>4, SubSeqFull DEF StopList, Left
  <2>4. (todo = Left(fold, 1))'
    BY <2>3 DEF Left
  <2> QED BY <2>2, <2>3, <2>4 DEF RunLands, CommandAt
<1> QED BY <1>1, <1>2, <1>3, <1>4 DEF FoldLands

\* --continue before its fold: the completed commit is put and recorded.
LEMMA AdvancingStep ==
  ASSUME ReplayInv, LandInv, EffectStep, Advancing
  PROVE  LandInv'
<1>1. PICK c \in RebaseStates, p \in Effects, fold \in Seq(Effects) :
         /\ todo \in {<<p>> \o (<<WriteRebase(c)>> \o fold), <<WriteRebase(c)>> \o fold}
         /\ p.do = "put" /\ c.resolved /\ pick = NoPick /\ FoldLands(fold, c)
         /\ ~torn => Ready(c) /\ Present(files) = Present(TreeOf(c.acc))
  BY DEF Advancing
<1>2. PICK w \in Effects : w = WriteRebase(c)
  <2>1. WriteRebase(c) \in Effects
    BY DEF WriteRebase, Effects, RebaseWrites
  <2> QED BY <2>1
<1>3. tip \in Seq(Link) /\ torn \in BOOLEAN
  BY TypeParts DEF ReplayInv
<1>4. PICK rest \in Seq(Effects) : rest = <<w>> \o fold /\ Head(rest) = w /\ Tail(rest) = fold
  BY ConsHeadTail
<1>5. CASE todo = <<p>> \o rest
  <2>1. Head(todo) = p /\ Tail(todo) = rest
    BY <1>5, ConsHeadTail
  <2>2. Does(p) /\ todo' = rest
    BY <2>1, DoesHead
  <2>3. p.do \notin {"lay", "tip", "rebase", "pick"}
    BY <1>1
  <2>4. /\ UNCHANGED <<clash, shared, tip, files, rebase, pick, torn>>
        /\ (RebaseLands /\ PickLands /\ Alone /\ ClashFits)'
    BY <2>2, <2>3, DoesQuietly
  <2>5. FoldLands(fold, c)' /\ (Ready(c)' <=> Ready(c))
    BY <1>1, <2>4, FoldLandsStable, SoundStable
  <2>6. Advancing'
    BY <1>1, <1>2, <1>4, <2>2, <2>4, <2>5 DEF Advancing, Present
  <2> QED BY <2>4, <2>6 DEF LandInv, RunLands
<1>6. CASE todo = rest
  <2>1. Does(w) /\ todo' = fold
    BY <1>4, <1>6, DoesHead
  <2>2. w.do = "rebase" /\ w.state = c /\ w # WritePick(NoPick)
    BY <1>2 DEF WriteRebase, WritePick
  <2>3. w # WriteRebase(NoRebase)
    <3>1. WriteRebase(NoRebase).state.resolved = FALSE
      BY DEF WriteRebase, NoRebase
    <3> QED BY <1>1, <2>2, <3>1
  <2>4. UNCHANGED <<clash, shared, files, tip, pick>> /\ rebase' = c
    BY <2>1, <2>2 DEF Does
  <2>5. torn' = torn
    <3>1. torn' = (torn \/ (w.do = "lay" /\ w.abort)) /\ ~(w.do = "lay")
      BY <2>1, <2>2, <2>3 DEF Does
    <3> QED BY <1>3, <3>1, Zenon
  <2>6. FoldLands(fold, c)' /\ (Ready(c)' <=> Ready(c)) /\ NextTree(c)' = NextTree(c)
    BY <1>1, <2>4, <2>5, FoldLandsStable, SoundStable
  <2>7. RebaseLands'
    BY <1>1, <2>4, <2>5, <2>6 DEF RebaseLands, Present
  <2>8. (PickLands /\ Alone /\ ClashFits)'
    BY <1>1, <2>4 DEF LandInv, PickLands, Alone, ClashFits
  <2>9. RunLands'
    BY <1>1, <1>3, <2>1, <2>4, <2>6, FoldRuns
  <2> QED BY <2>7, <2>8, <2>9 DEF LandInv
<1> QED BY <1>1, <1>2, <1>4, <1>5, <1>6

LEMMA LandEffectStep ==
  ASSUME ReplayInv, LandInv, EffectStep
  PROVE  LandInv'
<1>1. todo # <<>>
  BY DEF EffectStep
<1>2. CASE Advancing
  BY <1>2, AdvancingStep
<1>3. ASSUME NEW list \in Seq(Effects), NEW m \in 1..5, m <= Len(list), todo = Left(list, m), CommandAt(list, m)
      PROVE  LandInv'
  BY <1>3, FinishingStep, StoppingStep, AbortingStep, PickingStep, PickStoppingStep, PickCommittingStep
     DEF CommandAt
<1> QED BY <1>1, <1>2, <1>3 DEF LandInv, RunLands

\* The effect that comes next, and what it may do to what has landed.
HeadLands(e) ==
    /\ e.do = "lay" /\ ~e.abort => pick = NoPick /\ (~torn => LayFits(rebase, e.tree))
    /\ ~torn =>
          /\ e.do = "tip" /\ e.why = "rebase" => Faithful(e.id, tip)
          /\ e.do = "tip" /\ e.why = "pick" => PickPresent \subseteq Present(TreeOf(e.id))
          /\ e.do = "record" /\ e.why = "rebase" => e.count = Len(e.before)

LEMMA HeadLandsNext ==
  ASSUME LandInv, todo # <<>>
  PROVE  HeadLands(Head(todo))
<1>1. CASE Advancing
  <2>1. PICK c \in RebaseStates, p \in Effects, fold \in Seq(Effects) :
           /\ todo \in {<<p>> \o (<<WriteRebase(c)>> \o fold), <<WriteRebase(c)>> \o fold}
           /\ p.do = "put"
    BY <1>1 DEF Advancing
  <2>2. PICK w \in Effects : w = WriteRebase(c) /\ w.do = "rebase"
    <3>1. WriteRebase(c) \in Effects /\ WriteRebase(c).do = "rebase"
      BY DEF WriteRebase, Effects, RebaseWrites
    <3> QED BY <3>1
  <2>3. PICK rest \in Seq(Effects) : rest = <<w>> \o fold /\ Head(rest) = w
    BY ConsHeadTail
  <2>4. Head(todo) = p \/ Head(todo) = w
    BY <2>1, <2>2, <2>3, ConsHeadTail
  <2> QED BY <2>1, <2>2, <2>4 DEF HeadLands
<1>2. ASSUME NEW list \in Seq(Effects), NEW m \in 1..5, m <= Len(list), todo = Left(list, m), CommandAt(list, m)
      PROVE  HeadLands(list[m])
  <2>1. CASE FinishingAt(list, m)
    <3>0. PICK original \in Seq(Link), acc \in Seq(Link), disk \in Tree : \E count, ids :
             /\ list = FinishList(original, acc, disk, count, ids)
             /\ m <= 3 => tip = original
             /\ pick = NoPick
             /\ ~torn => FinishSound(original, acc, count) /\ (m <= 2 => LayFits(rebase, TreeOf(acc)))
      BY <2>1 DEF FinishingAt
    <3>1. PICK count, ids :
             /\ list = FinishList(original, acc, disk, count, ids)
             /\ m <= 3 => tip = original
             /\ pick = NoPick
             /\ ~torn => FinishSound(original, acc, count) /\ (m <= 2 => LayFits(rebase, TreeOf(acc)))
      BY <3>0
    <3>2. /\ list[1] = Put(ids) /\ list[2] = Lay(TreeOf(acc), disk)
          /\ list[3] = MoveTip(acc, "rebase") /\ list[4] = Record("rebase", original, acc, count)
          /\ list[5] = WriteRebase(NoRebase)
      BY <3>1 DEF FinishList
    <3>3. PICK e : e = list[m]
      OBVIOUS
    <3>4. CASE m \in {1, 5}
      BY <3>2, <3>3, <3>4 DEF HeadLands, Put, WriteRebase
    <3>5. CASE m = 2
      BY <3>1, <3>2, <3>3, <3>5 DEF HeadLands, Lay
    <3>6. CASE m = 3
      BY <3>1, <3>2, <3>3, <3>6 DEF HeadLands, MoveTip, FinishSound
    <3>7. CASE m = 4
      BY <3>1, <3>2, <3>3, <3>7 DEF HeadLands, Record, FinishSound
    <3> QED BY <3>4, <3>5, <3>6, <3>7
  <2>2. CASE StoppingAt(list, m)
    <3>0. PICK st \in RebaseStates, tree \in Tree, disk \in Tree : \E ids :
             /\ list = StopList(st, tree, disk, ids)
             /\ pick = NoPick
             /\ ~torn => (m <= 3 => LayFits(rebase, tree))
      BY <2>2 DEF StoppingAt
    <3>1. PICK ids :
             /\ list = StopList(st, tree, disk, ids)
             /\ pick = NoPick
             /\ ~torn => (m <= 3 => LayFits(rebase, tree))
      BY <3>0
    <3>2. /\ list[1] = Put(ids) /\ list[2] = PutTree(tree) /\ list[3] = Lay(tree, disk)
          /\ list[4] = WriteRebaseRoot(tree) /\ list[5] = WriteRebase(st)
      BY <3>1 DEF StopList
    <3>3. CASE m \in {1, 2, 4, 5}
      BY <3>2, <3>3 DEF HeadLands, Put, PutTree, WriteRebaseRoot, WriteRebase
    <3>4. CASE m = 3
      BY <3>1, <3>2, <3>4 DEF HeadLands, Lay
    <3> QED BY <3>3, <3>4
  <2>3. CASE AbortingAt(list, m)
    <3>0. PICK tree \in Tree, over \in Tree : \E e :
             list = <<Restore(tree, over), e>> /\ e \in {WriteRebase(NoRebase), WritePick(NoPick)}
      BY <2>3 DEF AbortingAt
    <3>1. PICK e :
             list = <<Restore(tree, over), e>> /\ e \in {WriteRebase(NoRebase), WritePick(NoPick)}
      BY <3>0
    <3>2. Len(list) = 2 /\ list[1] = Restore(tree, over) /\ list[2] = e
      BY <3>1
    <3>3. m = 1 \/ m = 2
      BY <1>2, <3>2
    <3> QED BY <3>1, <3>2, <3>3 DEF HeadLands, Restore, WriteRebase, WritePick
  <2>4. CASE PickingAt(list, m)
    <3>0. PICK s \in Seq(Link), disk \in Tree : \E ids, before, after :
             /\ list = <<Put(ids), Lay(TreeOf(s), disk), MoveTip(s, "pick"), Record("pick", before, after, 1)>>
             /\ NothingStopped
             /\ m <= 3 => PickPresent \subseteq Present(TreeOf(s))
      BY <2>4 DEF PickingAt
    <3>1. PICK ids, before, after :
             /\ list = <<Put(ids), Lay(TreeOf(s), disk), MoveTip(s, "pick"), Record("pick", before, after, 1)>>
             /\ NothingStopped
             /\ m <= 3 => PickPresent \subseteq Present(TreeOf(s))
      BY <3>0
    <3>2. /\ Len(list) = 4 /\ list[1] = Put(ids) /\ list[2] = Lay(TreeOf(s), disk)
          /\ list[3] = MoveTip(s, "pick") /\ list[4] = Record("pick", before, after, 1)
      BY <3>1
    <3>3. CASE m \in {1, 4}
      BY <3>2, <3>3 DEF HeadLands, Put, Record
    <3>4. CASE m = 2
      BY <3>1, <3>2, <3>4 DEF HeadLands, Lay, LayFits, NothingStopped
    <3>5. CASE m = 3
      BY <3>1, <3>2, <3>5 DEF HeadLands, MoveTip
    <3> QED BY <1>2, <3>2, <3>3, <3>4, <3>5
  <2>5. CASE PickStoppingAt(list, m)
    <3>1. PICK tree \in Tree, disk \in Tree :
             /\ list = <<PutTree(tree), Lay(tree, disk), WritePickRoot(tree), WritePick(PickedTip)>>
             /\ NothingStopped
      BY <2>5 DEF PickStoppingAt
    <3>2. /\ Len(list) = 4 /\ list[1] = PutTree(tree) /\ list[2] = Lay(tree, disk)
          /\ list[3] = WritePickRoot(tree) /\ list[4] = WritePick(PickedTip)
      BY <3>1
    <3>3. CASE m # 2
      <4>1. m \in {1, 3, 4}
        BY <1>2, <3>2, <3>3
      <4> QED BY <3>2, <4>1 DEF HeadLands, PutTree, WritePickRoot, WritePick
    <3>4. CASE m = 2
      BY <3>1, <3>2, <3>4 DEF HeadLands, Lay, LayFits, NothingStopped
    <3> QED BY <3>3, <3>4
  <2>6. CASE PickCommittingAt(list, m)
    <3>0. PICK s \in Seq(Link) : \E ids, before, after :
             /\ list = <<Put(ids), MoveTip(s, "pick"), WritePick(NoPick), Record("pick", before, after, 1)>>
             /\ m <= 2 /\ ~torn => Present(TreeOf(s)) = PickPresent
      BY <2>6 DEF PickCommittingAt
    <3>1. PICK ids, before, after :
             /\ list = <<Put(ids), MoveTip(s, "pick"), WritePick(NoPick), Record("pick", before, after, 1)>>
             /\ m <= 2 /\ ~torn => Present(TreeOf(s)) = PickPresent
      BY <3>0
    <3>2. /\ Len(list) = 4 /\ list[1] = Put(ids) /\ list[2] = MoveTip(s, "pick")
          /\ list[3] = WritePick(NoPick) /\ list[4] = Record("pick", before, after, 1)
      BY <3>1
    <3>3. CASE m # 2
      <4>1. m \in {1, 3, 4}
        BY <1>2, <3>2, <3>3
      <4> QED BY <3>2, <4>1 DEF HeadLands, Put, WritePick, Record
    <3>4. CASE m = 2
      BY <3>1, <3>2, <3>4 DEF HeadLands, MoveTip
    <3> QED BY <3>3, <3>4
  <2> QED BY <1>2, <2>1, <2>2, <2>3, <2>4, <2>5, <2>6 DEF CommandAt
<1>3. ASSUME NEW list \in Seq(Effects), NEW m \in 1..5, m <= Len(list), todo = Left(list, m), CommandAt(list, m)
      PROVE  HeadLands(Head(todo))
  <2>1. m \in 1..Len(list)
    BY <1>3
  <2> QED BY <1>2, <1>3, <2>1, HeadOfLeft
<1> QED BY <1>1, <1>3 DEF LandInv, RunLands

LEMMA LandCrashStep ==
  ASSUME ReplayInv, LandInv, CrashCommand
  PROVE  LandInv'
<1>1. /\ todo # <<>> /\ todo' = <<>>
      /\ UNCHANGED <<clash, shared, tip, rebase, pick>>
  BY DEF CrashCommand
<1>2. PICK e \in Effects : e = Head(todo)
  BY <1>1, HeadEffect
<1>3. HeadLands(e)
  BY <1>1, <1>2, HeadLandsNext
<1>4. \/ e.do = "lay" /\ files' \in HalfLaid(e.tree, e.over) /\ torn' = (torn \/ e.abort)
      \/ UNCHANGED <<files, torn>>
  BY <1>2 DEF CrashCommand
<1>5. torn \in BOOLEAN /\ files \in Tree
  BY TypeParts DEF ReplayInv
<1>6. (RebaseLands /\ PickLands /\ Alone /\ ClashFits)'
  <2>1. CASE UNCHANGED <<files, torn>>
    BY <1>1, <2>1, FilesStand DEF LandInv, Present
  <2>2. CASE e.do = "lay" /\ files' \in HalfLaid(e.tree, e.over) /\ torn' = (torn \/ e.abort) /\ e.abort
    <3>1. torn'
      BY <2>2, Zenon
    <3> QED BY <1>1, <3>1 DEF LandInv, RebaseLands, PickLands, Alone, ClashFits
  <2>3. CASE e.do = "lay" /\ files' \in HalfLaid(e.tree, e.over) /\ torn' = (torn \/ e.abort) /\ ~e.abort
    <3>1. torn' = torn
      BY <1>5, <2>3, Zenon
    <3>2. PICK old \in HalfLaid(e.tree, e.over) : files' = old
      BY <2>3
    <3>3. e.tree \in Tree /\ e.over \in Tree
      BY <2>3, EffectParts
    <3>4. Present(old) \subseteq Present(files) \cup Present(e.tree)
      BY <1>5, <3>2, <3>3, LaidPresent
    <3>5. pick = NoPick /\ (~torn => LayFits(rebase, e.tree))
      BY <1>3, <2>3 DEF HeadLands
    <3> QED BY <1>1, <3>1, <3>2, <3>4, <3>5, LaysFit
  <2> QED BY <1>4, <2>1, <2>2, <2>3
<1> QED BY <1>1, <1>6 DEF LandInv, RunLands

-----------------------------------------------------------------------------
(* Commands that start *)

LEMMA ApplyFrame ==
  ASSUME NEW list, Apply(list)
  PROVE  /\ todo' = list
         /\ UNCHANGED <<clash, shared, tip, files, rebase, pick, torn>>
BY DEF Apply, repoFiles

LEMMA ApplyLands ==
  ASSUME LandInv, NEW list, Apply(list), RunLands'
  PROVE  LandInv'
<1>1. UNCHANGED <<clash, shared, tip, files, rebase, pick, torn>>
  BY ApplyFrame
<1> QED BY <1>1, FilesStand DEF LandInv, Present

LEMMA StartLands ==
  ASSUME LandInv, NEW list \in Seq(Effects), Apply(list), Len(list) \in 1..5, CommandAt(list, 1)'
  PROVE  LandInv'
<1>1. todo' = list /\ Left(list, 1) = list
  BY ApplyFrame, SubSeqFull DEF Left
<1>2. (todo = Left(list, 1))'
  BY <1>1 DEF Left
<1>3. 1 \in 1..5 /\ 1 <= Len(list)
  OBVIOUS
<1>4. RunLands'
  BY <1>2, <1>3 DEF RunLands
<1> QED BY <1>4, ApplyLands

\* The commit a stop is about, completed, is the next one expected.
LEMMA CompletedReady ==
  ASSUME NEW st \in RebaseStates, ClashFits, files \in Tree, Stopped(st), Present(files) = StopPresent(st)
  PROVE  Ready(Completed(st)) /\ Present(files) = Present(TreeOf(Completed(st).acc))
<1>1. PICK k \in 0..Len(st.original) : StoppedAt(st, k)
  BY DEF Stopped
<1>2. PICK o \in Seq(Link), a \in Seq(Link), l \in Nat : o = st.original /\ a = st.acc /\ l = Len(o)
  BY LenProperties DEF RebaseStates
<1>3. /\ RestFrom(st, k) /\ k # 0
      /\ st.conflicted = SubSeq(o, 1, k)
      /\ Faithful(a, SubSeq(o, 1, k - 1))
      /\ CommitChange(st.conflicted) \notin Present(TreeOf(a))
      /\ st.replayed + st.skipped = k - 1
  BY <1>1, <1>2 DEF StoppedAt
<1>4. k \in 1..l /\ k - 1 \in 0..l
  BY <1>2, <1>3
<1>5. PICK c \in Change : c = o[k].change /\ c = CommitChange(st.conflicted)
  BY <1>2, <1>3, <1>4, PrefixChange
<1>6. PICK x \in Link : x = [change |-> c, tree |-> files]
  BY DEF Link
<1>7. PICK b : b = Append(a, x)
  OBVIOUS
<1>8. TreeOf(b) = files /\ Changes(b) = Append(Changes(a), c)
  BY <1>6, <1>7, OfAppend
<1>9. PICK d : d = Completed(st)
  OBVIOUS
<1>10. /\ d.original = o /\ d.rest = st.rest /\ d.acc = b
       /\ d.replayed = st.replayed + 1 /\ d.skipped = st.skipped
  BY <1>2, <1>5, <1>6, <1>7, <1>9 DEF Completed, RebaseStates
<1>11. PICK line \in Seq(Change) : line = Expected(SubSeq(o, 1, k - 1), shared)
  BY <1>2, <1>4, ExpectedRange
<1>12. Changes(a) = line /\ Present(TreeOf(a)) = Range(line) \cup shared
  BY <1>3, <1>11 DEF Faithful
<1>13. Expected(SubSeq(o, 1, k), shared) = Append(line, c)
  <2>1. c \notin Range(line) \cup shared
    BY <1>3, <1>5, <1>12
  <2>2. Expected(SubSeq(o, 1, k), shared) = Extended(line, c, shared)
    BY <1>2, <1>4, <1>5, <1>11, ExpectedGrows
  <2> QED BY <2>1, <2>2 DEF Extended
<1>14. Range(Append(line, c)) = Range(line) \cup {c}
  BY RangeOfAppend
<1>15. Present(files) = Present(TreeOf(a)) \cup {c}
  BY <1>2, <1>5 DEF StopPresent
<1>16. Faithful(b, SubSeq(o, 1, k))
  BY <1>8, <1>12, <1>13, <1>14, <1>15 DEF Faithful
<1>17. d.replayed + d.skipped = k
  <2>1. PICK r \in Nat, s \in Nat : r = st.replayed /\ s = st.skipped
    BY DEF RebaseStates
  <2>2. PICK j \in Nat : j = k
    BY <1>4
  <2>3. d.replayed = r + 1 /\ d.skipped = s
    BY <1>10, <2>1
  <2>4. r + s = j - 1
    BY <1>3, <2>1, <2>2
  <2>5. r + 1 + s = j
    BY <2>4
  <2> QED BY <2>2, <2>3, <2>5
<1>18. ReadyAt(d, k)
  BY <1>2, <1>3, <1>10, <1>16, <1>17 DEF ReadyAt, RestFrom
<1>19. k \in 0..Len(d.original)
  BY <1>2, <1>10
<1> QED BY <1>8, <1>9, <1>10, <1>18, <1>19 DEF Ready

LEMMA LandRebaseStep ==
  ASSUME ReplayInv, LandInv, Rebase
  PROVE  LandInv'
<1> DEFINE list == [i \in DOMAIN tip |-> SubSeq(tip, 1, i)]
           st == [NoRebase EXCEPT !.original = tip, !.acc = TargetTip, !.rest = list]
<1>1. /\ tip \in Seq(Link) /\ tip # Base /\ shared \subseteq Own
  BY TypeParts DEF ReplayInv, BranchStored
<1>2. TargetTip \in Seq(Link) /\ TargetTip # Base
  BY <1>1, StartType
<1>3. PICK m \in Nat : m = Len(tip) /\ DOMAIN tip = 1..m
  BY <1>1, LenProperties
<1>4. \A i \in 1..m : list[i] = SubSeq(tip, 1, i) /\ list[i] \in Ancestry(tip) /\ list[i] \in Seq(Link)
  <2> TAKE i \in 1..m
  <2>1. list[i] = SubSeq(tip, 1, i) /\ i \in 1..Len(tip)
    BY <1>3
  <2>2. SubSeq(tip, 1, i) \in Ancestry(tip)
    BY <2>1 DEF Ancestry
  <2> QED BY <1>1, <2>1, <2>2, AncestryType
<1>5. DOMAIN list = 1..m
  BY <1>3
<1>6. list = [i \in 1..m |-> list[i]]
  BY <1>5
<1>7. /\ Apply(FoldEffects(st, TreeOf(tip)))
      /\ rebase = NoRebase /\ pick = NoPick /\ files = TreeOf(tip)
  BY DEF Rebase, RunNew, NothingStopped, CleanFiles
<1> HIDE DEF list
<1>8. list \in Seq(Seq(Link)) /\ Range(list) \subseteq Ancestry(tip) /\ Len(list) = m
  <2>1. list \in [1..m -> Seq(Link)]
    BY <1>4, <1>6
  <2> QED BY <1>3, <1>4, <1>5, <2>1 DEF Range
<1>9. /\ st.original = tip /\ st.acc = TargetTip /\ st.rest = list /\ st.replayed = 0 /\ st.skipped = 0
      /\ st \in RebaseStates
  BY <1>1, <1>2, <1>8, NoRebaseType DEF RebaseStates, NoRebase
<1> HIDE DEF st
<1>10. Faithful(TargetTip, Base)
  <2>1. PICK t \in Tree : t = TreeOf(TargetTip) /\ t = [has |-> {Target} \cup shared, marks |-> {}]
    <3>1. TreeOf(TargetTip) = [has |-> {Target} \cup shared, marks |-> {}]
      BY DEF TargetTip, TreeOf, Base, Last
    <3> QED BY <1>2, <3>1, TreeOfType
  <2>2. Present(TreeOf(TargetTip)) = {Target} \cup shared
    BY <2>1 DEF Present
  <2>3. Changes(TargetTip) = <<Target>>
    <3>1. DOMAIN TargetTip = 1..1 /\ TargetTip[1].change = Target
      BY DEF TargetTip
    <3>2. Changes(TargetTip) = [i \in 1..1 |-> Target]
      BY <3>1 DEF Changes
    <3>3. <<Target>> = [i \in 1..1 |-> Target]
      OBVIOUS
    <3> QED BY <3>2, <3>3
  <2>4. Range(<<Target>>) = {Target}
    <3>1. DOMAIN <<Target>> = {1} /\ <<Target>>[1] = Target
      OBVIOUS
    <3> QED BY <3>1 DEF Range
  <2> QED BY <2>2, <2>3, <2>4, ExpectedBase DEF Faithful
<1>11. Ready(st)
  <2>1. SubSeq(tip, 1, 0) = Base
    BY DEF Base
  <2>2. 0 \in 0..Len(tip) /\ Len(list) = Len(tip) - 0 /\ \A i \in 1..Len(list) : 0 + i = i
    BY <1>3, <1>8
  <2>3. RestFrom(st, 0)
    BY <1>4, <1>8, <1>9, <2>2 DEF RestFrom
  <2>4. Faithful(st.acc, SubSeq(st.original, 1, 0))
    BY <1>9, <1>10, <2>1
  <2>5. st.replayed + st.skipped = 0
    BY <1>9
  <2>6. ReadyAt(st, 0)
    BY <2>3, <2>4, <2>5 DEF ReadyAt
  <2> QED BY <1>9, <2>2, <2>6 DEF Ready
<1>12. PICK disk \in Tree : disk = TreeOf(tip)
  BY <1>1, TreeOfType
<1>13. PICK fold \in Seq(Effects) : fold = FoldEffects(st, disk)
  BY <1>1, <1>2, <1>8, <1>9, FoldFits
<1>14. FoldLands(fold, NoRebase)
  <2>1. NoRebase \in {NoRebase, st} /\ ClashFits
    BY DEF LandInv
  <2>2. Present(files) \subseteq Present(disk) \cup Present(NextTree(st))
    BY <1>7, <1>12
  <2> QED BY <1>1, <1>2, <1>8, <1>9, <1>11, <1>13, <2>1, <2>2, FoldBegins
<1>15. Apply(fold)
  BY <1>7, <1>12, <1>13
<1>16. todo' = fold /\ UNCHANGED <<clash, shared, tip, files, rebase, pick, torn>>
  BY <1>15, ApplyFrame
<1>17. FoldLands(fold, NoRebase)'
  BY <1>14, <1>16, FoldLandsStable
<1>18. RunLands'
  BY <1>1, <1>7, <1>16, <1>17, FoldRuns
<1> QED BY <1>15, <1>18, ApplyLands

LEMMA PairConcat ==
  ASSUME NEW S, NEW p \in S, NEW w \in S, NEW s \in Seq(S)
  PROVE  <<p, w>> \o s = <<p>> \o (<<w>> \o s)
<1>1. PICK a \in Seq(S), b \in Seq(S) : a = <<p>> /\ b = <<w>>
  <2>1. <<p>> \in Seq(S) /\ <<w>> \in Seq(S)
    OBVIOUS
  <2> QED BY <2>1, Zenon
<1>2. a \o b = <<p, w>>
  <2>1. PICK t \in Seq(S) : t = <<p, w>> /\ Len(t) = 2 /\ t[1] = p /\ t[2] = w
    <3>1. <<p, w>> \in Seq(S) /\ Len(<<p, w>>) = 2 /\ <<p, w>>[1] = p /\ <<p, w>>[2] = w
      OBVIOUS
    <3> QED BY <3>1, Zenon
  <2>2. Len(a) = 1 /\ a[1] = p /\ Len(b) = 1 /\ b[1] = w
    <3>1. Len(<<p>>) = 1 /\ <<p>>[1] = p /\ Len(<<w>>) = 1 /\ <<w>>[1] = w
      OBVIOUS
    <3> QED BY <1>1, <3>1, Zenon
  <2>3. /\ a \o b \in Seq(S) /\ Len(a \o b) = Len(a) + Len(b)
        /\ \A i \in 1..Len(a) + Len(b) : (a \o b)[i] = IF i <= Len(a) THEN a[i] ELSE b[i - Len(a)]
    BY ConcatProperties
  <2>4. PICK u \in Seq(S) : u = a \o b /\ Len(u) = 2 /\ u[1] = p /\ u[2] = w
    <3>1. PICK u : u = a \o b
      OBVIOUS
    <3>2. u \in Seq(S) /\ Len(u) = 2 /\ \A i \in 1..2 : u[i] = IF i <= 1 THEN a[i] ELSE b[i - 1]
      BY <2>2, <2>3, <3>1
    <3>3. u[1] = p /\ u[2] = w
      BY <2>2, <3>2
    <3> QED BY <3>1, <3>2, <3>3
  <2>5. \A i \in 1..Len(u) : u[i] = t[i]
    BY <2>1, <2>4
  <2>6. u = t
    BY <2>1, <2>4, <2>5, SeqEqual
  <2> QED BY <2>1, <2>4, <2>6
<1>3. (a \o b) \o s = a \o (b \o s)
  BY ConcatAssociative
<1> QED BY <1>1, <1>2, <1>3

\* --continue completes the commit stopped at, and goes on from there.
LEMMA ContinueCompletes ==
  ASSUME ReplayInv, LandInv, CanContinue, ~rebase.resolved
  PROVE  /\ Completed(rebase) \in RebaseStates /\ RebaseFits(Completed(rebase))
         /\ Completed(rebase).original = tip /\ Completed(rebase).resolved
         /\ ~torn => /\ Ready(Completed(rebase))
                     /\ Present(files) = Present(TreeOf(Completed(rebase).acc))
<1>1. rebase # NoRebase /\ tip = rebase.original /\ rebase \in RebaseStates /\ files \in Tree
  BY TypeParts DEF CanContinue, ReplayInv
<1>2. Completed(rebase) \in RebaseStates /\ RebaseFits(Completed(rebase))
  BY <1>1, CompletedFits
<1>3. Completed(rebase).original = tip /\ Completed(rebase).resolved
  BY <1>1 DEF Completed, RebaseStates
<1>4. ASSUME ~torn
      PROVE  /\ Ready(Completed(rebase))
             /\ Present(files) = Present(TreeOf(Completed(rebase).acc))
  <2>1. Stopped(rebase) /\ Present(files) = StopPresent(rebase) /\ ClashFits
    BY <1>1, <1>4 DEF LandInv, RebaseLands
  <2> QED BY <1>1, <2>1, CompletedReady
<1> QED BY <1>2, <1>3, <1>4

LEMMA AdvancingStarts ==
  ASSUME ReplayInv, LandInv, CanContinue, ~rebase.resolved,
         NEW fold \in Seq(Effects), FoldLands(fold, Completed(rebase)), Apply(Advanced[2] \o fold)
  PROVE  LandInv'
<1>1. PICK c \in RebaseStates : c = Completed(rebase) /\ c.resolved /\ FoldLands(fold, c)
                                /\ (~torn => Ready(c) /\ Present(files) = Present(TreeOf(c.acc)))
  BY ContinueCompletes
<1>2. PICK a : a = c.acc /\ a \in Seq(Link)
  BY DEF RebaseStates
<1>3. PICK p \in Effects : p = Put({a}) /\ p.do = "put"
  <2>1. Put({a}) \in Effects
    BY <1>2 DEF Put, Effects, Puts
  <2> QED BY <2>1 DEF Put
<1>4. PICK w \in Effects : w = WriteRebase(c)
  BY DEF WriteRebase, Effects, RebaseWrites
<1>5. Advanced[2] = <<p, w>>
  BY <1>1, <1>2, <1>3, <1>4 DEF Advanced
<1>6. PICK list : list = Advanced[2] \o fold /\ list = <<p>> \o (<<w>> \o fold)
  <2>1. PICK S : S = Effects
    OBVIOUS
  <2>2. <<p, w>> \o fold = <<p>> \o (<<w>> \o fold)
    BY <2>1, PairConcat
  <2> QED BY <1>5, <2>2
<1>7. Apply(list)
  BY <1>6
<1>8. todo' = list /\ UNCHANGED <<clash, shared, tip, files, rebase, pick, torn>>
  BY <1>7, ApplyFrame
<1>9. FoldLands(fold, c)'
  BY <1>1, <1>8, FoldLandsStable
<1>10. Ready(c)' <=> Ready(c)
  BY <1>8, SoundStable
<1>11. Present(files)' = Present(files)
  BY <1>8 DEF Present
<1>12. pick = NoPick
  BY DEF LandInv, Alone, CanContinue
<1>13. ~torn' => Ready(c)' /\ Present(files)' = Present(TreeOf(c.acc))
  BY <1>1, <1>8, <1>10, <1>11
<1>14. Advancing'
  BY <1>1, <1>3, <1>4, <1>6, <1>8, <1>9, <1>12, <1>13 DEF Advancing
<1>15. RunLands'
  BY <1>14 DEF RunLands
<1> QED BY <1>7, <1>15, ApplyLands

LEMMA LandContinueFailsStep ==
  ASSUME ReplayInv, LandInv, RebaseContinueFails
  PROVE  LandInv'
<1>1. CanContinue /\ ~rebase.resolved /\ Apply(Advanced[2])
  BY DEF RebaseContinueFails, Run
<1>2. PICK fold \in Seq(Effects) : fold = <<>>
  <2>1. <<>> \in Seq(Effects)
    OBVIOUS
  <2> QED BY <2>1, Zenon
<1>3. FoldLands(fold, Completed(rebase))
  BY <1>2 DEF FoldLands
<1>4. PICK first \in Seq(Effects) : first = Advanced[2]
  BY <1>1, AdvancedFits DEF CanContinue
<1>5. first \o fold = first
  BY <1>2, ConcatEmptySeq
<1> QED BY <1>1, <1>3, <1>4, <1>5, AdvancingStarts

LEMMA LandContinueStep ==
  ASSUME ReplayInv, LandInv, RebaseContinue
  PROVE  LandInv'
<1>1. CanContinue /\ Apply(Advanced[2] \o FoldEffects(Advanced[1], TreeOf(Advanced[1].acc)))
  BY DEF RebaseContinue, Run
<1>2. rebase # NoRebase /\ tip = rebase.original /\ pick = NoPick /\ ClashFits
  BY <1>1 DEF CanContinue, LandInv, Alone
<1>3. PICK st \in RebaseStates : st = Advanced[1] /\ RebaseFits(st)
  BY <1>2, AdvancedFits
<1>4. /\ st.original = tip /\ st.resolved
      /\ ~torn => Ready(st) /\ Present(files) \subseteq Present(TreeOf(st.acc)) \cup Present(NextTree(st))
  <2>1. CASE rebase.resolved
    <3>1. st = rebase
      BY <1>3, <2>1 DEF Advanced
    <3> QED BY <1>2, <2>1, <3>1 DEF LandInv, RebaseLands
  <2>2. CASE ~rebase.resolved
    <3>1. st = Completed(rebase)
      BY <1>3, <2>2 DEF Advanced
    <3> QED BY <1>1, <2>2, <3>1, ContinueCompletes
  <2> QED BY <2>1, <2>2
<1>5. st.acc \in Seq(Link)
  BY DEF RebaseStates
<1>6. PICK disk \in Tree : disk = TreeOf(st.acc)
  BY <1>5, TreeOfType
<1>7. st.original # Base /\ st.acc # Base /\ Range(st.rest) \subseteq Ancestry(st.original) /\ tip # Base
  BY <1>3, <1>4 DEF RebaseFits
<1>8. PICK fold \in Seq(Effects) : fold = FoldEffects(st, disk)
  BY <1>7, FoldFits
<1>9. FoldLands(fold, st)
  <2>1. ~torn => Ready(st) /\ Present(files) \subseteq Present(disk) \cup Present(NextTree(st))
    BY <1>4, <1>6
  <2>2. FoldLands(FoldEffects(st, disk), st)
    BY <1>2, <1>4, <1>7, <2>1, FoldBegins
  <2> QED BY <1>8, <2>2
<1>10. Apply(Advanced[2] \o fold)
  BY <1>1, <1>3, <1>6, <1>8
<1>11. CASE rebase.resolved
  <2>1. st = rebase /\ Advanced[2] = <<>>
    BY <1>3, <1>11 DEF Advanced
  <2>2. <<>> \o fold = fold
    BY ConcatEmptySeq
  <2>3. Apply(fold)
    BY <1>10, <2>1, <2>2
  <2>4. todo' = fold /\ UNCHANGED <<clash, shared, tip, files, rebase, pick, torn>>
    BY <2>3, ApplyFrame
  <2>5. FoldLands(fold, st)'
    BY <1>9, <2>4, FoldLandsStable
  <2>6. tip \in Seq(Link)
    BY TypeParts DEF ReplayInv
  <2>7. RunLands'
    BY <1>2, <2>1, <2>4, <2>5, <2>6, FoldRuns
  <2> QED BY <2>3, <2>7, ApplyLands
<1>12. CASE ~rebase.resolved
  <2>1. st = Completed(rebase)
    BY <1>3, <1>12 DEF Advanced
  <2> QED BY <1>1, <1>9, <1>10, <1>12, <2>1, AdvancingStarts
<1> QED BY <1>11, <1>12

LEMMA LandRebaseAbortStep ==
  ASSUME ReplayInv, LandInv, RebaseAbort
  PROVE  LandInv'
<1>1. pick = NoPick /\ Apply(<<Restore(TreeOf(rebase.original), rebaseRoot), WriteRebase(NoRebase)>>)
  BY DEF RebaseAbort, CanAbortRebase, Run, LandInv, Alone
<1>2. rebase.original \in Seq(Link) /\ rebaseRoot \in Tree
  BY TypeParts DEF ReplayInv, RebaseStates
<1>3. PICK tree \in Tree, over \in Tree : tree = TreeOf(rebase.original) /\ over = rebaseRoot
  BY <1>2, TreeOfType
<1>4. Restore(tree, over) \in Effects
  BY DEF Restore, Effects, Lays
<1>5. WriteRebase(NoRebase) \in Effects
  BY NoRebaseType DEF WriteRebase, Effects, RebaseWrites
<1>6. PICK list \in Seq(Effects) : list = <<Restore(tree, over), WriteRebase(NoRebase)>> /\ Len(list) = 2
  <2>1. <<Restore(tree, over), WriteRebase(NoRebase)>> \in Seq(Effects)
    BY <1>4, <1>5
  <2>2. Len(<<Restore(tree, over), WriteRebase(NoRebase)>>) = 2
    OBVIOUS
  <2> QED BY <2>1, <2>2, Zenon
<1>7. Apply(list)
  BY <1>1, <1>3, <1>6
<1>8. pick' = NoPick
  BY <1>1, <1>7, ApplyFrame
<1>9. CommandAt(list, 1)'
  BY <1>6, <1>8 DEF CommandAt, AbortingAt
<1>10. Len(list) \in 1..5
  BY <1>6
<1> QED BY <1>7, <1>9, <1>10, StartLands

LEMMA LandPickAbortStep ==
  ASSUME ReplayInv, LandInv, PickAbort
  PROVE  LandInv'
<1>1. rebase = NoRebase /\ Apply(<<Restore(TreeOf(tip), pickRoot), WritePick(NoPick)>>)
  BY DEF PickAbort, Run, LandInv, Alone
<1>2. tip \in Seq(Link) /\ pickRoot \in Tree
  BY TypeParts DEF ReplayInv
<1>3. PICK tree \in Tree, over \in Tree : tree = TreeOf(tip) /\ over = pickRoot
  BY <1>2, TreeOfType
<1>4. Restore(tree, over) \in Effects
  BY DEF Restore, Effects, Lays
<1>5. WritePick(NoPick) \in Effects
  BY DEF WritePick, NoPick, Base, Effects, PickWrites
<1>6. PICK list \in Seq(Effects) : list = <<Restore(tree, over), WritePick(NoPick)>> /\ Len(list) = 2
  <2>1. <<Restore(tree, over), WritePick(NoPick)>> \in Seq(Effects)
    BY <1>4, <1>5
  <2>2. Len(<<Restore(tree, over), WritePick(NoPick)>>) = 2
    OBVIOUS
  <2> QED BY <2>1, <2>2, Zenon
<1>7. Apply(list)
  BY <1>1, <1>3, <1>6
<1>8. rebase' = NoRebase
  BY <1>1, <1>7, ApplyFrame
<1>9. CommandAt(list, 1)'
  BY <1>6, <1>8 DEF CommandAt, AbortingAt
<1>10. Len(list) \in 1..5
  BY <1>6
<1> QED BY <1>7, <1>9, <1>10, StartLands

LEMMA LandPickCleanStep ==
  ASSUME ReplayInv, LandInv, PickClean
  PROVE  LandInv'
<1>1. tip \in Seq(Link) /\ Picked \in Change
  BY TypeParts, ReplayAssumption DEF ReplayInv, Picked, Change
<1>2. PICK s \in Seq(Link) : s = Landed(tip, Picked)
  BY <1>1, LandedType
<1>3. Present(TreeOf(s)) = PickPresent
  BY <1>1, <1>2, OfLanded DEF PickPresent
<1>4. PICK disk \in Tree : disk = TreeOf(tip)
  BY <1>1, TreeOfType
<1>5. TreeOf(s) \in Tree
  BY TreeOfType
<1>6. PICK a \in Effects, b \in Effects, c \in Effects, d \in Effects :
         a = Put({s}) /\ b = Lay(TreeOf(s), disk) /\ c = MoveTip(s, "pick") /\ d = Record("pick", tip, s, 1)
  <2>1. Put({s}) \in Effects
    BY DEF Put, Effects, Puts
  <2>2. Lay(TreeOf(s), disk) \in Effects
    BY <1>5 DEF Lay, Effects, Lays
  <2>3. MoveTip(s, "pick") \in Effects
    BY DEF MoveTip, Effects, TipMoves
  <2>4. Record("pick", tip, s, 1) \in Effects
    BY <1>1 DEF Record, Effects, Records
  <2> QED BY <2>1, <2>2, <2>3, <2>4, Zenon
<1>7. PICK list \in Seq(Effects) : list = <<a, b, c, d>> /\ Len(list) = 4
  <2>1. <<a, b, c, d>> \in Seq(Effects) /\ Len(<<a, b, c, d>>) = 4
    OBVIOUS
  <2> QED BY <2>1, Zenon
<1>8. NothingStopped /\ Apply(list)
  BY <1>2, <1>4, <1>6, <1>7 DEF PickClean, CanPick, RunNew
<1>9. UNCHANGED <<tip, rebase, pick>>
  BY <1>8, ApplyFrame
<1>10. PickPresent' = PickPresent /\ NothingStopped'
  BY <1>8, <1>9 DEF PickPresent, NothingStopped
<1>11. PickingAt(list, 1)'
  BY <1>3, <1>6, <1>7, <1>10 DEF PickingAt
<1>12. CommandAt(list, 1)' /\ Len(list) \in 1..5
  BY <1>7, <1>11 DEF CommandAt
<1> QED BY <1>8, <1>12, StartLands

LEMMA LandPickStopsStep ==
  ASSUME ReplayInv, LandInv, PickStops
  PROVE  LandInv'
<1>1. /\ tip \in Seq(Link) /\ Picked \in Change /\ PickedTip \in Seq(Link)
      /\ NothingStopped /\ files = TreeOf(tip)
  BY TypeParts, ReplayAssumption DEF ReplayInv, PickStored, PickStops, CanPick, CleanFiles, Picked, Change
<1>2. PICK disk \in Tree : disk = TreeOf(tip)
  BY <1>1, TreeOfType
<1>3. PICK t \in Tree : t = Marked(disk, Picked)
  BY <1>1, <1>2, WithType
<1>4. Present(t) = PickPresent
  BY <1>2, <1>3, PresentWith DEF PickPresent
<1>5. PICK a \in Effects, b \in Effects, c \in Effects, d \in Effects :
         a = PutTree(t) /\ b = Lay(t, disk) /\ c = WritePickRoot(t) /\ d = WritePick(PickedTip)
  <2>1. PutTree(t) \in Effects /\ WritePickRoot(t) \in Effects
    BY DEF PutTree, WritePickRoot, Effects, TreeWrites
  <2>2. Lay(t, disk) \in Effects
    BY DEF Lay, Effects, Lays
  <2>3. WritePick(PickedTip) \in Effects
    BY <1>1 DEF WritePick, Effects, PickWrites
  <2> QED BY <2>1, <2>2, <2>3, Zenon
<1>6. PICK list \in Seq(Effects) : list = <<a, b, c, d>> /\ Len(list) = 4
  <2>1. <<a, b, c, d>> \in Seq(Effects) /\ Len(<<a, b, c, d>>) = 4
    OBVIOUS
  <2> QED BY <2>1, Zenon
<1>7. Apply(list)
  BY <1>2, <1>3, <1>5, <1>6 DEF PickStops, RunNew
<1>8. UNCHANGED <<tip, files, rebase, pick, torn>>
  BY <1>7, ApplyFrame
<1>9. PickPresent' = PickPresent /\ NothingStopped' /\ Present(files)' = Present(disk)
  BY <1>1, <1>2, <1>8 DEF PickPresent, NothingStopped, Present
<1>10. PickStoppingAt(list, 1)'
  BY <1>4, <1>5, <1>6, <1>9 DEF PickStoppingAt
<1>11. CommandAt(list, 1)' /\ Len(list) \in 1..5
  BY <1>6, <1>10 DEF CommandAt
<1> QED BY <1>7, <1>11, StartLands

LEMMA LandCommitPickStep ==
  ASSUME ReplayInv, LandInv, CommitPick
  PROVE  LandInv'
<1>1. /\ tip \in Seq(Link) /\ pick \in Seq(Link) /\ pick # Base /\ files \in Tree
      /\ rebase = NoRebase /\ pick # NoPick
  BY TypeParts DEF ReplayInv, CommitPick, NoPick
<1>2. PICK x \in Link : x = [change |-> CommitChange(pick), tree |-> files] /\ x.tree = files
  <2>1. [change |-> CommitChange(pick), tree |-> files] \in Link
    BY <1>1, CommitChangeType DEF Link
  <2> QED BY <2>1
<1>3. PICK s \in Seq(Link) : s = Append(tip, x) /\ TreeOf(s) = files
  BY <1>1, <1>2, OfAppend
<1>4. ~torn => Present(TreeOf(s)) = PickPresent /\ Present(files) = PickPresent
  BY <1>1, <1>3 DEF LandInv, PickLands
<1>5. PICK a \in Effects, b \in Effects, c \in Effects, d \in Effects :
         a = Put({s}) /\ b = MoveTip(s, "pick") /\ c = WritePick(NoPick) /\ d = Record("pick", tip, s, 1)
  <2>1. Put({s}) \in Effects
    BY DEF Put, Effects, Puts
  <2>2. MoveTip(s, "pick") \in Effects
    BY DEF MoveTip, Effects, TipMoves
  <2>3. WritePick(NoPick) \in Effects
    BY DEF WritePick, NoPick, Base, Effects, PickWrites
  <2>4. Record("pick", tip, s, 1) \in Effects
    BY <1>1 DEF Record, Effects, Records
  <2> QED BY <2>1, <2>2, <2>3, <2>4, Zenon
<1>6. PICK list \in Seq(Effects) : list = <<a, b, c, d>> /\ Len(list) = 4
  <2>1. <<a, b, c, d>> \in Seq(Effects) /\ Len(<<a, b, c, d>>) = 4
    OBVIOUS
  <2> QED BY <2>1, Zenon
<1>7. Apply(list)
  BY <1>2, <1>3, <1>5, <1>6 DEF CommitPick, Run
<1>8. UNCHANGED <<tip, files, rebase, pick, torn>>
  BY <1>7, ApplyFrame
<1>9. PickPresent' = PickPresent /\ Present(files)' = Present(files)
  BY <1>8 DEF PickPresent, Present
<1>10. PickCommittingAt(list, 1)'
  BY <1>1, <1>4, <1>5, <1>6, <1>8, <1>9 DEF PickCommittingAt
<1>11. CommandAt(list, 1)' /\ Len(list) \in 1..5
  BY <1>6, <1>10 DEF CommandAt
<1> QED BY <1>7, <1>11, StartLands

-----------------------------------------------------------------------------
(* What others do between commands *)

LEMMA LandPeerPushStep ==
  ASSUME LandInv, PeerPush
  PROVE  LandInv'
<1>1. rebase' = NoRebase /\ pick' = NoPick /\ todo' = <<>> /\ UNCHANGED <<clash, shared>>
  BY DEF PeerPush, PushAllowed, IdleRepo, NothingStopped
<1> QED BY <1>1 DEF LandInv, RebaseLands, PickLands, Alone, ClashFits, RunLands

LEMMA LandIdleStep ==
  ASSUME LandInv, todo' = <<>>, UNCHANGED <<clash, shared, tip, rebase, pick, torn>>,
         Present(files)' = Present(files)
  PROVE  LandInv'
<1>1. RunLands'
  BY DEF RunLands
<1> QED BY <1>1, FilesStand DEF LandInv

LEMMA LandSideMovesStep ==
  ASSUME LandInv, SideMoves
  PROVE  LandInv'
<1>1. todo' = <<>> /\ UNCHANGED <<clash, shared, tip, files, rebase, pick, torn>>
  BY DEF SideMoves, IdleRepo, repoFiles
<1>2. Present(files)' = Present(files)
  BY <1>1 DEF Present
<1> QED BY <1>1, <1>2, LandIdleStep

LEMMA LandGcRunStep ==
  ASSUME LandInv, GcRun
  PROVE  LandInv'
<1>1. todo' = <<>> /\ UNCHANGED <<clash, shared, tip, files, rebase, pick, torn>>
  BY DEF GcRun, IdleRepo
<1>2. Present(files)' = Present(files)
  BY <1>1 DEF Present
<1> QED BY <1>1, <1>2, LandIdleStep

LEMMA LandResolveMarkersStep ==
  ASSUME LandInv, ResolveMarkers
  PROVE  LandInv'
<1>1. todo' = <<>> /\ UNCHANGED <<clash, shared, tip, rebase, pick, torn>>
  BY DEF ResolveMarkers, IdleRepo
<1>2. PICK old : old = [has |-> Present(files), marks |-> {}] /\ files' = old
  BY DEF ResolveMarkers
<1>3. Present(old) = Present(files)
  BY <1>2 DEF Present
<1>4. Present(files)' = Present(old)
  BY <1>2 DEF Present
<1> QED BY <1>1, <1>3, <1>4, LandIdleStep

LEMMA LandTidyFilesStep ==
  ASSUME LandInv, TidyFiles
  PROVE  LandInv'
<1>1. /\ todo' = <<>> /\ UNCHANGED <<clash, shared, tip, rebase, pick, torn>>
      /\ NothingStopped \/ (rebase.resolved /\ files' = TreeOf(rebase.acc))
  BY DEF TidyFiles, IdleRepo
<1>2. PICK st : st = rebase
  OBVIOUS
<1>3. (Ready(st)' <=> Ready(st)) /\ NextTree(st)' = NextTree(st)
  BY <1>1, SoundStable
<1>4. CASE NothingStopped
  <2>1. rebase' = NoRebase /\ pick' = NoPick
    BY <1>1, <1>4 DEF NothingStopped
  <2> QED BY <1>1, <2>1 DEF LandInv, RebaseLands, PickLands, Alone, ClashFits, RunLands
<1>5. CASE rebase.resolved /\ files' = TreeOf(rebase.acc)
  <2>1. rebase # NoRebase
    BY <1>5 DEF NoRebase
  <2>2. PICK old : old = TreeOf(st.acc) /\ files' = old
    BY <1>2, <1>5
  <2>3. Present(files)' = Present(old)
    BY <2>2 DEF Present
  <2>4. ~torn => Ready(st)
    BY <1>2, <1>5, <2>1 DEF LandInv, RebaseLands
  <2>5. RebaseLands'
    BY <1>1, <1>2, <1>3, <1>5, <2>2, <2>3, <2>4 DEF RebaseLands
  <2>6. pick' = NoPick
    BY <1>1, <2>1 DEF LandInv, Alone
  <2> QED BY <1>1, <2>5, <2>6 DEF LandInv, PickLands, Alone, ClashFits, RunLands
<1> QED BY <1>1, <1>4, <1>5

-----------------------------------------------------------------------------
(* The invariant holds *)

LEMMA LandInitInv == ReplayInit => LandInv
<1> SUFFICES ASSUME ReplayInit PROVE LandInv
  OBVIOUS
<1>1. rebase = NoRebase /\ pick = NoPick /\ todo = <<>>
  BY DEF ReplayInit
<1>2. ClashFits
  BY DEF ReplayInit, ClashFits
<1> QED BY <1>1, <1>2 DEF LandInv, RebaseLands, PickLands, Alone, RunLands

LEMMA LandStutters ==
  ASSUME LandInv, UNCHANGED <<clash, shared, tip, files, rebase, pick, torn, todo>>
  PROVE  LandInv'
<1>1. PICK st : st = rebase
  OBVIOUS
<1>2. Present(files)' = Present(files) /\ PickPresent' = PickPresent /\ (NothingStopped' <=> NothingStopped)
  BY DEF Present, PickPresent, NothingStopped
<1>3. /\ \A o, a, c : FinishSound(o, a, c)' <=> FinishSound(o, a, c)
      /\ \A s, t : StopSound(s, t)' <=> StopSound(s, t)
      /\ \A s, t : LayFits(s, t)' <=> LayFits(s, t)
      /\ \A s : Ready(s)' <=> Ready(s)
  BY SoundStable
<1>4. ASSUME NEW t PROVE (LayFits(rebase, t))' <=> LayFits(rebase, t)
  <2>1. (LayFits(rebase, t))' <=> LayFits(st, t)'
    BY <1>1 DEF LayFits
  <2> QED BY <1>1, <1>3, <2>1
<1>5. ASSUME Advancing PROVE Advancing'
  <2>1. \A fold, held : FoldLands(fold, held) => FoldLands(fold, held)'
    BY FoldLandsStable
  <2> QED BY <1>2, <1>3, <1>5, <2>1 DEF Advancing
<1>6. ASSUME NEW list, NEW m, CommandAt(list, m) PROVE CommandAt(list, m)'
  <2>1. CASE FinishingAt(list, m)
    <3>1. FinishingAt(list, m)'
      BY <1>3, <1>4, <2>1 DEF FinishingAt
    <3> QED BY <3>1 DEF CommandAt
  <2>2. CASE StoppingAt(list, m)
    <3>1. StoppingAt(list, m)'
      BY <1>2, <1>3, <1>4, <2>2 DEF StoppingAt
    <3> QED BY <3>1 DEF CommandAt
  <2>3. CASE AbortingAt(list, m)
    <3>1. AbortingAt(list, m)'
      BY <2>3 DEF AbortingAt
    <3> QED BY <3>1 DEF CommandAt
  <2>4. CASE PickingAt(list, m)
    <3>1. PickingAt(list, m)'
      BY <1>2, <2>4 DEF PickingAt
    <3> QED BY <3>1 DEF CommandAt
  <2>5. CASE PickStoppingAt(list, m)
    <3>1. PickStoppingAt(list, m)'
      BY <1>2, <2>5 DEF PickStoppingAt
    <3> QED BY <3>1 DEF CommandAt
  <2>6. CASE PickCommittingAt(list, m)
    <3>1. PickCommittingAt(list, m)'
      BY <1>2, <2>6 DEF PickCommittingAt
    <3> QED BY <3>1 DEF CommandAt
  <2> QED BY <1>6, <2>1, <2>2, <2>3, <2>4, <2>5, <2>6 DEF CommandAt
<1>7. RunLands'
  BY <1>5, <1>6 DEF LandInv, RunLands, Left
<1> QED BY <1>2, <1>7, FilesStand DEF LandInv

LEMMA LandNextInv ==
  ASSUME ReplayInv, LandInv, [ReplayNext]_replayVars
  PROVE  LandInv'
<1>1. CASE UNCHANGED replayVars
  <2>1. UNCHANGED <<clash, shared, tip, files, rebase, pick, torn, todo>>
    BY <1>1 DEF replayVars, repoFiles
  <2> QED BY <2>1, LandStutters
<1>2. CASE EffectStep
  BY <1>2, LandEffectStep
<1>3. CASE CrashCommand
  BY <1>3, LandCrashStep
<1>4. CASE Rebase
  BY <1>4, LandRebaseStep
<1>5. CASE RebaseContinue
  BY <1>5, LandContinueStep
<1>6. CASE RebaseContinueFails
  BY <1>6, LandContinueFailsStep
<1>7. CASE RebaseAbort
  BY <1>7, LandRebaseAbortStep
<1>8. CASE PickClean
  BY <1>8, LandPickCleanStep
<1>9. CASE PickStops
  BY <1>9, LandPickStopsStep
<1>10. CASE CommitPick
  BY <1>10, LandCommitPickStep
<1>11. CASE PickAbort
  BY <1>11, LandPickAbortStep
<1>12. CASE PeerPush
  BY <1>12, LandPeerPushStep
<1>13. CASE SideMoves
  BY <1>13, LandSideMovesStep
<1>14. CASE GcRun
  BY <1>14, LandGcRunStep
<1>15. CASE ResolveMarkers
  BY <1>15, LandResolveMarkersStep
<1>16. CASE TidyFiles
  BY <1>16, LandTidyFilesStep
<1> QED BY <1>1, <1>2, <1>3, <1>4, <1>5, <1>6, <1>7, <1>8, <1>9, <1>10, <1>11, <1>12,
           <1>13, <1>14, <1>15, <1>16 DEF ReplayNext

LEMMA LandInvHolds == ReplaySpec => []LandInv
<1>1. ReplayInit => LandInv
  BY LandInitInv
<1>2. ReplayInv /\ LandInv /\ [ReplayNext]_replayVars => LandInv'
  BY LandNextInv
<1> QED BY <1>1, <1>2, ReplayInvHolds, PTL DEF ReplaySpec

-----------------------------------------------------------------------------
(* The theorem *)

\* While a command runs and is not killed, only its effects happen.
LEMMA OnlyEffects ==
  ASSUME ReplayInv, ReplayNext, todo # <<>>, killed' = killed
  PROVE  EffectStep
<1>1. ~ CrashCommand
  <2>1. killed \in Nat
    BY TypeParts, ReplayAssumption DEF ReplayInv
  <2> QED BY <2>1 DEF CrashCommand
<1>2. ~ Rebase /\ ~ RebaseContinue /\ ~ RebaseContinueFails /\ ~ RebaseAbort
  BY DEF Rebase, RebaseContinue, RebaseContinueFails, RebaseAbort, RunNew, Run, Apply, IdleRepo
<1>3. ~ PickClean /\ ~ PickStops /\ ~ CommitPick /\ ~ PickAbort
  BY DEF PickClean, PickStops, CommitPick, PickAbort, RunNew, Run, Apply, IdleRepo
<1>4. ~ PeerPush /\ ~ SideMoves /\ ~ GcRun /\ ~ ResolveMarkers /\ ~ TidyFiles
  BY DEF PeerPush, PushAllowed, SideMoves, GcRun, ResolveMarkers, TidyFiles, IdleRepo
<1> QED BY <1>1, <1>2, <1>3, <1>4 DEF ReplayNext

\* A rebase lands every commit of its range exactly once, in order, on top of
\* the target, and a pick keeps everything the branch has, however many commits
\* the branch has, whichever of them conflict or are there already, and wherever
\* commands stopped, failed or were killed.  (rebase_fold_and_finish, `resolved`
\* in rebase_continue, the completing commit, the guard of update_ref.)
THEOREM ReplaysLandWhole == ReplaySpec => ReplayLandsWhole
<1> DEFINE Whole ==
             todo # <<>> /\ killed' = killed /\ ~torn =>
                LET e == Head(todo)
                    landed == Present(TreeOf(tip'))
                IN  /\ e.do = "tip" /\ e.why = "rebase" =>
                          /\ Changes(tip') = Expected(tip, shared)
                          /\ landed = Range(Changes(tip')) \cup shared
                    /\ e.do = "record" /\ e.why = "rebase" => e.count = Len(e.before)
                    /\ e.do = "tip" /\ e.why = "pick" => Present(TreeOf(tip)) \cup {Picked} \subseteq landed
<1>1. ReplayInv /\ LandInv /\ [ReplayNext]_replayVars => [Whole]_replayVars
  <2> SUFFICES ASSUME ReplayInv, LandInv, ReplayNext, todo # <<>>, killed' = killed, ~torn PROVE Whole
    BY Zenon
  <2>1. EffectStep
    BY OnlyEffects
  <2>2. PICK e : e = Head(todo) /\ Does(e) /\ HeadLands(e)
    BY <2>1, DoesHead, HeadLandsNext
  <2>3. e.do = "tip" => tip' = e.id
    BY <2>2 DEF Does
  <2>4. ASSUME e.do = "tip", e.why = "rebase"
        PROVE  /\ Changes(tip') = Expected(tip, shared)
               /\ Present(TreeOf(tip')) = Range(Changes(tip')) \cup shared
    <3>1. PICK s : s = e.id /\ Faithful(s, tip)
      BY <2>2, <2>4 DEF HeadLands
    <3> QED BY <2>3, <2>4, <3>1 DEF Faithful
  <2>5. ASSUME e.do = "tip", e.why = "pick"
        PROVE  Present(TreeOf(tip)) \cup {Picked} \subseteq Present(TreeOf(tip'))
    BY <2>2, <2>3, <2>5 DEF HeadLands, PickPresent
  <2>6. e.do = "record" /\ e.why = "rebase" => e.count = Len(e.before)
    BY <2>2 DEF HeadLands
  <2> QED BY <2>2, <2>4, <2>5, <2>6
<1> QED BY <1>1, ReplayInvHolds, LandInvHolds, PTL DEF ReplaySpec, ReplayLandsWhole

-----------------------------------------------------------------------------
(* The lock those commands hold                                              *)

\* The process inside its critical section created the lock file that exists,
\* and nobody has found a reason to remove it.
CreatorHolds ==
    /\ \A p \in Process : at[p] \notin {"unlink", "dead"}
    /\ \A p \in Process : InCritical(p) => file # Absent /\ file.creator = p

\* The holder is probed, and its file removed, on the first attempt only.
ProbesOnce == \A p \in Process : at[p] \in {"read", "unlink"} => attempt[p] = 0

LockInv == LockTypeOK /\ ProbesOnce /\ (crashes = 0 => CreatorHolds)

\* The inductive step: every action keeps LockInv; a SIGKILL ends what it claims.
LEMMA LockStepKeepsLockInv == ASSUME LockInv, [LockNext]_lockVars PROVE LockInv'
<1> USE ConstantsAssumption, AbsentAssumption DEF LockInv, CreatorHolds, ProbesOnce, LockTypeOK, InCritical,
        LockFile, PcLabel, LockTo
<1>1. ASSUME NEW p \in Process, BeginAcquire(p) PROVE LockInv'
  BY <1>1 DEF BeginAcquire
<1>2. ASSUME NEW p \in Process, CreateNew(p) PROVE LockInv'
  BY <1>2 DEF CreateNew
<1>3. ASSUME NEW p \in Process, WritePid(p) PROVE LockInv'
  BY <1>3 DEF WritePid
<1>4. ASSUME NEW p \in Process, ProbeHolder(p) PROVE LockInv'
  BY <1>4 DEF ProbeHolder, HolderIsDead
<1>5. ASSUME NEW p \in Process, BreakStale(p) PROVE LockInv'
  BY <1>5 DEF BreakStale
<1>6. ASSUME NEW p \in Process, DropLock(p) PROVE LockInv'
  BY <1>6 DEF DropLock
<1>7. ASSUME NEW p \in Process, KillProcess(p) PROVE LockInv'
  BY <1>7 DEF KillProcess
<1>8. CASE UNCHANGED lockVars
  BY <1>8 DEF lockVars
<1> QED BY <1>1, <1>2, <1>3, <1>4, <1>5, <1>6, <1>7, <1>8 DEF LockNext

\* The variables keep their types (RepoLock::acquire tries at most twice).
THEOREM LockTypeCorrect == LockSpec => []LockTypeOK
<1>1. LockInit => LockInv
  BY ConstantsAssumption DEF LockInit, LockInv, CreatorHolds, ProbesOnce, LockTypeOK, InCritical, PcLabel
<1>2. LockInv /\ [LockNext]_lockVars => LockInv'
  BY LockStepKeepsLockInv
<1>3. LockInv => LockTypeOK
  BY DEF LockInv
<1> QED BY <1>1, <1>2, <1>3, PTL DEF LockSpec

\* Until somebody is killed, two processes never hold the repository lock at
\* once (RepoLock::acquire, Drop).
THEOREM LockExcludesUntilCrash == LockSpec => []ExclusiveUntilCrash
<1>1. LockInit => LockInv
  BY ConstantsAssumption DEF LockInit, LockInv, CreatorHolds, ProbesOnce, LockTypeOK, InCritical, PcLabel
<1>2. LockInv /\ [LockNext]_lockVars => LockInv'
  BY LockStepKeepsLockInv
<1>3. LockInv => ExclusiveUntilCrash
  BY DEF LockInv, CreatorHolds, ExclusiveUntilCrash, MutualExclusion
<1> QED BY <1>1, <1>2, <1>3, PTL DEF LockSpec
=============================================================================
