--------------------------- MODULE LocalRepoProofs ---------------------------
(***************************************************************************)
(* Proofs about LocalRepo, for any number of snapshots, branches, commands,*)
(* pushes and crashes: what undo undoes is the last operation that ended,  *)
(* a branch moves forward only, a stopped merge keeps the tip it was       *)
(* decided on, and gc never takes what a branch or the log needs, as long  *)
(* as it spares what a push under way counts on.                           *)
(***************************************************************************)
EXTENDS LocalRepo, SequenceTheorems, TLAPS

GcName == {"trim", "pack", "loose", "packs"}
Kind == {"commit", "amend", "branch", "switch", "merge", "abort", "undo", "gc"}

CommandRecord ==
    [kind : Kind \cup {None}, todo : Seq(Effect),
     reach : SUBSET Object, list : SUBSET Object, old : SUBSET SUBSET Object]

Typed ==
    /\ refs \in [Branch -> Tip] /\ head \in Branch
    /\ mergeHead \in Tip /\ decided \in Tree \cup {None}
    /\ oplog \in Seq(Record \cup {Torn})
    /\ \A i \in DOMAIN oplog : i < Len(oplog) => oplog[i] # Torn
    /\ work \in Tip \cup {Mixed, Marked}
    /\ loose \in SUBSET Object /\ fresh \in SUBSET loose /\ packs \in SUBSET SUBSET Object
    /\ cmd \in CommandRecord /\ (cmd.todo = <<>> => Idle)
    /\ push \in [Pusher -> PushState]
    /\ windows \in 0..MaxWindows
    /\ anc \in [Snapshot -> SUBSET Snapshot] /\ outside \in SUBSET Snapshot
    /\ logged \in Record \cup {None}

\* A snapshot that somebody names has been made; its ancestors are known.
Made(id) == id = None \/ id \in anc[id]

KnownLog == \A i \in DOMAIN oplog : oplog[i] # Torn => Made(oplog[i].before) /\ Made(oplog[i].after)

KnownInv ==
    /\ \A s \in Snapshot : anc[s] # {} => s \in anc[s]
    /\ \A s \in Snapshot : \A a \in anc[s] : a \in anc[a]
    /\ \A b \in Branch : Made(refs[b])
    /\ Made(mergeHead)
    /\ KnownLog
    /\ \A s \in outside : Made(s)

\* The log ends with the last operation that ended, but for a torn tail.
LogInv == logged # None => ReadAll # <<>> /\ LastRecord = logged

\* The branch a push means to move, and the fast-forward it checked.
PushInv ==
    \A p \in Pusher : Pushing(p) =>
        /\ push[p].branch \in Branch /\ Made(push[p].new)
        /\ push[p].old # None => push[p].old \in anc[push[p].new]

\* What the command that holds the lock has left to do follows from what it read.
TipSound(i) ==
    LET e == cmd.todo[i] IN
    /\ Made(e.id)
    /\ cmd.kind \notin {"amend", "undo"} /\ refs[e.branch] # None => e.id # None /\ refs[e.branch] \in anc[e.id]
    /\ mergeHead # None /\ e.branch = head => e.id # None /\ mergeHead \in anc[e.id]
    /\ \A j \in DOMAIN cmd.todo : j # i => cmd.todo[j].do # "tip"
    /\ \A j \in DOMAIN cmd.todo : cmd.todo[j].do = "mergeHead" => cmd.todo[j].id = None

\* The order of gc.
Follows(i, name) == i + 1 \in DOMAIN cmd.todo /\ cmd.todo[i + 1].do = name

EffectSound(i) ==
    LET e == cmd.todo[i] IN
    /\ e.do \in GcName <=> cmd.kind = "gc"
    /\ e.do = "tip" => TipSound(i)
    /\ e.do = "mergeHead" => Made(e.id)
    /\ e.do = "head" => mergeHead = None /\ \A j \in DOMAIN cmd.todo : cmd.todo[j].do # "mergeHead"
    /\ e.do = "record" => Made(e.before) /\ Made(e.after)
    /\ e.do = "trim" => Follows(i, "pack")
    /\ e.do = "pack" => Follows(i, "loose")

CommandInv == \A i \in DOMAIN cmd.todo : EffectSound(i)

StopInv == mergeHead # None => head = stop.branch

LocalInv ==
    /\ Typed /\ KnownInv /\ LogInv /\ PushInv /\ CommandInv /\ StopInv /\ CompletionExtendsStop

\* What is stored by the time the i-th effect of a program is made.
PromisedBy(E, i) == Stored \cup {E[j].obj : j \in {k \in 1..(i - 1) : E[k].do = "put"}}

AncOf(id) == IF id = None THEN {} ELSE anc[id]

EffectKept(i) ==
    LET todo == cmd.todo  e == todo[i] IN
    /\ e.do = "tip" => AncOf(e.id) \subseteq PromisedBy(todo, i)
    /\ e.do = "record" => AncOf(e.before) \cup AncOf(e.after) \subseteq PromisedBy(todo, i)
    /\ e.do = "decided" /\ e.root # None => e.root \in PromisedBy(todo, i) /\ mergeHead = None
    /\ e.do = "decided" /\ e.root = None =>
          mergeHead = None \/ \E j \in 1..(i - 1) : todo[j].do = "mergeHead"
    /\ e.do = "mergeHead" /\ e.id # None =>
          /\ anc[e.id] \subseteq Stored
          /\ decided \in Tree \cap Stored \/ \E j \in 1..(i - 1) : todo[j].do = "decided"
          /\ \A j \in DOMAIN todo : todo[j].do = "decided" => j < i /\ todo[j].root # None
          /\ \A j \in DOMAIN todo : todo[j].do = "mergeHead" => j = i

EffectsKept == \A i \in DOMAIN cmd.todo : EffectKept(i)

\* gc has what can be reached in its new pack by the time it deletes.
GcKept ==
    At("loose") \/ At("packs") =>
       /\ cmd.reach = Reachable
       /\ Reachable # {} => Reachable \in packs
       /\ Reachable \notin cmd.old

\* Whatever can be reached is stored, and so is what a push counts on.
KeepInv ==
    /\ Reachable \subseteq Stored
    /\ mergeHead # None => decided # None
    /\ Counted \subseteq Stored
    /\ EffectsKept
    /\ GcKept

-----------------------------------------------------------------------------
(* The log                                                                   *)

\* ReadAll of a given log.
ReadOf(log) ==
    LET Parses(n) == \A i \in 1..n : log[i] # Torn
    IN  SubSeq(log, 1, CHOOSE n \in 0..Len(log) : Parses(n) /\ (n = Len(log) \/ ~Parses(n + 1)))

\* A log is well-formed up to its end, which may be torn.
LogTyped(log) == log \in Seq(Record \cup {Torn}) /\ \A i \in DOMAIN log : i < Len(log) => log[i] # Torn

LEMMA ReadOfWhole ==
    ASSUME NEW log \in Seq(Record)
    PROVE  ReadOf(log) = log
<1>1. \A i \in 1..Len(log) : log[i] # Torn
  BY LocalAssumption
<1>2. \A n \in 0..Len(log) : (\A i \in 1..n : log[i] # Torn) /\ (n = Len(log) \/ ~\A i \in 1..(n + 1) : log[i] # Torn)
                      <=> n = Len(log)
  BY <1>1
<1>3. (CHOOSE n \in 0..Len(log) : (\A i \in 1..n : log[i] # Torn) /\ (n = Len(log) \/ ~\A i \in 1..(n + 1) : log[i] # Torn))
         = Len(log)
  BY <1>2
<1>4. SubSeq(log, 1, Len(log)) = log
  OBVIOUS
<1> QED BY <1>3, <1>4 DEF ReadOf

LEMMA ReadOfTorn ==
    ASSUME NEW log \in Seq(Record)
    PROVE  ReadOf(Append(log, Torn)) = log
<1> DEFINE full == Append(log, Torn)
<1>1. /\ Len(full) = Len(log) + 1 /\ full[Len(log) + 1] = Torn
      /\ \A i \in 1..Len(log) : full[i] = log[i] /\ full[i] # Torn
  BY LocalAssumption
<1>2. \A n \in 0..Len(full) : (\A i \in 1..n : full[i] # Torn) /\ (n = Len(full) \/ ~\A i \in 1..(n + 1) : full[i] # Torn)
                      <=> n = Len(log)
  BY <1>1
<1>3. (CHOOSE n \in 0..Len(full) : (\A i \in 1..n : full[i] # Torn) /\ (n = Len(full) \/ ~\A i \in 1..(n + 1) : full[i] # Torn))
         = Len(log)
  BY <1>1, <1>2
<1>4. SubSeq(full, 1, Len(log)) = log
  BY <1>1
<1> QED BY <1>3, <1>4 DEF ReadOf

\* What is read is the log, or all of it but a torn tail.
LEMMA ReadOfLog ==
    ASSUME NEW log, LogTyped(log)
    PROVE  /\ ReadOf(log) \in Seq(Record)
           /\ log = ReadOf(log) \/ log = Append(ReadOf(log), Torn)
           /\ \A i \in DOMAIN ReadOf(log) : i \in DOMAIN log /\ ReadOf(log)[i] = log[i]
<1>1. CASE \A i \in DOMAIN log : log[i] # Torn
  <2>1. log \in Seq(Record)
    <3>1. \A i \in 1..Len(log) : log[i] \in Record
      BY <1>1 DEF LogTyped
    <3>2. log \in [1..Len(log) -> Record] /\ Len(log) \in Nat
      BY <3>1 DEF LogTyped
    <3> QED BY <3>2
  <2> QED BY <2>1, ReadOfWhole
<1>2. CASE \E i \in DOMAIN log : log[i] = Torn
  <2> DEFINE n == Len(log) - 1
             rest == SubSeq(log, 1, n)
  <2>0. log \in Seq(Record \cup {Torn}) /\ Len(log) \in Nat /\ DOMAIN log = 1..Len(log)
    BY LenProperties DEF LogTyped
  <2>1. Len(log) \in Nat \ {0} /\ log[Len(log)] = Torn
    BY <1>2, <2>0 DEF LogTyped
  <2>2. n \in Nat /\ \A i \in 1..n : log[i] \in Record
    <3> SUFFICES ASSUME NEW i \in 1..n PROVE log[i] \in Record
      BY <2>1
    <3>1. i \in 1..Len(log) /\ i < Len(log)
      BY <2>1
    <3> QED BY <2>0, <3>1, ElementOfSeq DEF LogTyped
  <2>3. rest \in Seq(Record) /\ Len(rest) = n /\ \A i \in 1..n : rest[i] = log[i]
    <3>1. 1 \in Int /\ n \in Int
      BY <2>2
    <3>2. /\ rest \in Seq(Record) /\ Len(rest) = IF 1 <= n THEN n - 1 + 1 ELSE 0
          /\ \A i \in 1..(n - 1 + 1) : rest[i] = log[1 + i - 1]
      <4> HIDE DEF n
      <4> QED BY <2>2, <3>1, SubSeqProperties
    <3> HIDE DEF rest, n
    <3>4. Len(rest) = n
      BY <2>2, <3>2
    <3>5. \A i \in 1..n : rest[i] = log[i]
      BY <2>2, <3>2
    <3> QED BY <3>2, <3>4, <3>5
  <2>4. log = Append(rest, Torn)
    <3>1. rest \in Seq(Record \cup {Torn})
      BY <2>3, SeqMonotonic
    <3>2. /\ Append(rest, Torn) \in Seq(Record \cup {Torn}) /\ Len(Append(rest, Torn)) = n + 1
          /\ \A i \in 1..n : Append(rest, Torn)[i] = rest[i]
          /\ Append(rest, Torn)[n + 1] = Torn
      BY <2>3, <3>1, AppendProperties
    <3>3. \A i \in 1..Len(log) : log[i] = Append(rest, Torn)[i]
      <4> SUFFICES ASSUME NEW i \in 1..Len(log) PROVE log[i] = Append(rest, Torn)[i]
        OBVIOUS
      <4>1. i \in 1..n \/ i = n + 1
        BY <2>1
      <4> QED BY <2>1, <2>3, <3>2, <4>1
    <3>4. Len(log) = Len(Append(rest, Torn))
      BY <2>1, <3>2
    <3> HIDE DEF rest, n
    <3> QED BY <2>0, <3>2, <3>3, <3>4, SeqEqual
  <2> HIDE DEF rest
  <2>5. ReadOf(log) = rest
    BY <2>3, <2>4, ReadOfTorn
  <2> QED BY <2>0, <2>1, <2>3, <2>4, <2>5
<1> QED BY <1>1, <1>2

LEMMA LogFacts ==
    ASSUME Typed
    PROVE  /\ ReadAll \in Seq(Record) /\ LogTyped(oplog)
           /\ oplog = ReadAll \/ oplog = Append(ReadAll, Torn)
           /\ \A i \in DOMAIN ReadAll : i \in DOMAIN oplog /\ ReadAll[i] = oplog[i] /\ oplog[i] # Torn
<1>1. LogTyped(oplog)
  BY DEF Typed, LogTyped
<1>2. ReadAll = ReadOf(oplog)
  BY DEF ReadAll, ReadOf
<1>3. \A i \in DOMAIN ReadOf(oplog) : ReadOf(oplog)[i] \in Record
  <2>1. ReadOf(oplog) \in Seq(Record)
    BY <1>1, ReadOfLog
  <2> QED BY <2>1, LenProperties, ElementOfSeq
<1> QED BY <1>1, <1>2, <1>3, ReadOfLog, LocalAssumption

\* A log is rewritten, with or without a torn tail.
LEMMA LogWritten ==
    ASSUME NEW log \in Seq(Record), oplog' \in {log, Append(log, Torn)}
    PROVE  LogTyped(oplog)' /\ ReadAll' = log
<1>1. ReadAll' = ReadOf(oplog')
  BY DEF ReadAll, ReadOf
<1>2. CASE oplog' = log
  <2>1. log \in Seq(Record \cup {Torn})
    BY SeqMonotonic
  <2>2. \A i \in DOMAIN log : log[i] # Torn
    BY LenProperties, ElementOfSeq, LocalAssumption
  <2> QED BY <1>1, <1>2, <2>1, <2>2, ReadOfWhole DEF LogTyped
<1>3. CASE oplog' = Append(log, Torn)
  <2>1. log \in Seq(Record \cup {Torn})
    BY SeqMonotonic
  <2>2. \A i \in 1..Len(log) : log[i] # Torn
    BY LenProperties, ElementOfSeq, LocalAssumption
  <2>3. /\ Append(log, Torn) \in Seq(Record \cup {Torn}) /\ Len(Append(log, Torn)) = Len(log) + 1
        /\ \A i \in 1..Len(log) : Append(log, Torn)[i] = log[i]
    BY <2>1, AppendProperties
  <2>4. DOMAIN Append(log, Torn) = 1..(Len(log) + 1) /\ Len(log) \in Nat
    BY <2>3, LenProperties
  <2>5. \A i \in DOMAIN Append(log, Torn) : i < Len(Append(log, Torn)) => Append(log, Torn)[i] # Torn
    <3> SUFFICES ASSUME NEW i \in 1..(Len(log) + 1), i < Len(log) + 1 PROVE Append(log, Torn)[i] # Torn
      BY <2>3, <2>4
    <3>1. i \in 1..Len(log)
      BY <2>4
    <3> QED BY <2>2, <2>3, <3>1
  <2> QED BY <1>1, <1>3, <2>3, <2>5, ReadOfTorn DEF LogTyped
<1> QED BY <1>2, <1>3

-----------------------------------------------------------------------------
(* Effects                                                                   *)

\* The fields of an effect, by what it does.
LEMMA EffectFields ==
    ASSUME NEW e \in Effect
    PROVE  /\ e.do \in {"put", "lay", "tip", "head", "decided", "mergeHead", "record"} \cup GcName
           /\ e.do = "put" => e.obj \in Object
           /\ e.do = "lay" => e.tree \in Snapshot \cup {Marked}
           /\ e.do = "tip" => e.branch \in Branch /\ e.id \in Tip
           /\ e.do = "head" => e.branch \in Branch
           /\ e.do = "decided" => e.root \in Tree \cup {None}
           /\ e.do = "mergeHead" => e.id \in Tip
           /\ e.do = "record" => /\ e.from \in Branch /\ e.to \in Branch /\ e.branch \in Branch \cup {None}
                                 /\ e.before \in Tip /\ e.after \in Tip
BY DEF Effect, GcName

LEMMA TodoTyped ==
    ASSUME Typed
    PROVE  /\ cmd.todo \in Seq(Effect) /\ Len(cmd.todo) \in Nat /\ DOMAIN cmd.todo = 1..Len(cmd.todo)
           /\ \A i \in DOMAIN cmd.todo : cmd.todo[i] \in Effect
<1>1. cmd.todo \in Seq(Effect)
  BY DEF Typed, CommandRecord
<1> QED BY <1>1, LenProperties, ElementOfSeq

\* The effect that comes next.
LEMMA HeadFacts ==
    ASSUME Typed, NEW name, At(name)
    PROVE  /\ cmd.todo # <<>> /\ 1 \in DOMAIN cmd.todo
           /\ Head(cmd.todo) = cmd.todo[1] /\ cmd.todo[1] \in Effect /\ cmd.todo[1].do = name
<1>1. cmd.todo \in Seq(Effect) /\ cmd.todo # <<>>
  BY TodoTyped DEF At
<1>2. Len(cmd.todo) \in Nat \ {0}
  BY <1>1, EmptySeq
<1>3. Head(cmd.todo) = cmd.todo[1]
  BY <1>1
<1> QED BY <1>1, <1>2, <1>3, TodoTyped DEF At

\* The effect done is taken off the list, and with the last one the command ends.
Shifted ==
    /\ \A i \in DOMAIN cmd'.todo : i \in Nat \ {0} /\ i + 1 \in DOMAIN cmd.todo /\ cmd'.todo[i] = cmd.todo[i + 1]
    /\ \A i \in DOMAIN cmd.todo : i # 1 => i - 1 \in DOMAIN cmd'.todo /\ cmd'.todo[i - 1] = cmd.todo[i]
    /\ DOMAIN cmd'.todo # {} => cmd'.kind = cmd.kind

\* The command's record is one, and an idle one has nothing to do.
CommandTyped == cmd \in CommandRecord /\ (cmd.todo = <<>> => Idle)

LEMMA NoCommandTyped ==
    ASSUME cmd' = NoCommand
    PROVE  CommandTyped' /\ DOMAIN cmd'.todo = {} /\ cmd'.todo = <<>>
<1>1. <<>> \in Seq(Effect)
  BY EmptySeq
<1> QED BY <1>1 DEF NoCommand, CommandTyped, CommandRecord, Idle

LEMMA TailShifts ==
    ASSUME Typed, cmd.todo # <<>>
    PROVE  /\ Tail(cmd.todo) \in Seq(Effect) /\ Len(Tail(cmd.todo)) = Len(cmd.todo) - 1
           /\ Len(cmd.todo) \in Nat \ {0}
           /\ \A i \in DOMAIN Tail(cmd.todo) : i \in Nat \ {0} /\ i + 1 \in DOMAIN cmd.todo /\ Tail(cmd.todo)[i] = cmd.todo[i + 1]
           /\ \A i \in DOMAIN cmd.todo : i # 1 => i - 1 \in DOMAIN Tail(cmd.todo) /\ Tail(cmd.todo)[i - 1] = cmd.todo[i]
<1>1. cmd.todo \in Seq(Effect) /\ DOMAIN cmd.todo = 1..Len(cmd.todo)
  BY TodoTyped
<1>2. Len(cmd.todo) \in Nat \ {0}
  BY <1>1, EmptySeq
<1>3. /\ Tail(cmd.todo) \in Seq(Effect) /\ Len(Tail(cmd.todo)) = Len(cmd.todo) - 1
      /\ \A i \in 1..Len(Tail(cmd.todo)) : Tail(cmd.todo)[i] = cmd.todo[i + 1]
  BY <1>1, HeadTailProperties
<1>4. DOMAIN Tail(cmd.todo) = 1..(Len(cmd.todo) - 1)
  BY <1>3, LenProperties
<1>5. \A i \in 1..(Len(cmd.todo) - 1) : i \in Nat \ {0} /\ i + 1 \in 1..Len(cmd.todo) /\ Tail(cmd.todo)[i] = cmd.todo[i + 1]
  BY <1>2, <1>3
<1>6. \A i \in 1..Len(cmd.todo) : i # 1 => i - 1 \in 1..(Len(cmd.todo) - 1) /\ Tail(cmd.todo)[i - 1] = cmd.todo[i]
  <2> SUFFICES ASSUME NEW i \in 1..Len(cmd.todo), i # 1
               PROVE  i - 1 \in 1..(Len(cmd.todo) - 1) /\ Tail(cmd.todo)[i - 1] = cmd.todo[i]
    OBVIOUS
  <2>1. i - 1 \in 1..(Len(cmd.todo) - 1) /\ (i - 1) + 1 = i
    BY <1>2
  <2>2. Tail(cmd.todo)[i - 1] = cmd.todo[(i - 1) + 1]
    BY <1>3, <2>1
  <2> QED BY <2>1, <2>2
<1> QED BY <1>1, <1>2, <1>3, <1>4, <1>5, <1>6

LEMMA DoneShifts ==
    ASSUME Typed, cmd.todo # <<>>, Done
    PROVE  CommandTyped' /\ Shifted
<1>1. CASE Len(cmd.todo) = 1
  <2>1. cmd' = NoCommand
    BY <1>1 DEF Done
  <2>2. DOMAIN cmd.todo = 1..1
    BY <1>1, TodoTyped
  <2> QED BY <2>1, <2>2, NoCommandTyped DEF Shifted
<1>2. CASE Len(cmd.todo) # 1
  <2>1. cmd' = [cmd EXCEPT !.todo = Tail(@)]
    BY <1>2 DEF Done
  <2>2. cmd'.todo = Tail(cmd.todo) /\ cmd'.kind = cmd.kind
    BY <2>1 DEF Typed, CommandRecord
  <2>3. cmd' \in CommandRecord
    BY <2>1, TailShifts DEF Typed, CommandRecord
  <2>4. Tail(cmd.todo) # <<>>
    <3>1. Len(Tail(cmd.todo)) # 0
      BY <1>2, TailShifts
    <3>2. Len(<<>>) = 0
      OBVIOUS
    <3> QED BY <3>1, <3>2, Zenon
  <2>5. CommandTyped'
    BY <2>2, <2>3, <2>4 DEF CommandTyped
  <2>6. Shifted
    <3> DEFINE rest == Tail(cmd.todo)
    <3>1. /\ \A i \in DOMAIN rest : i \in Nat \ {0} /\ i + 1 \in DOMAIN cmd.todo /\ rest[i] = cmd.todo[i + 1]
          /\ \A i \in DOMAIN cmd.todo : i # 1 => i - 1 \in DOMAIN rest /\ rest[i - 1] = cmd.todo[i]
      BY TailShifts
    <3>2. cmd'.todo = rest
      BY <2>2
    <3> HIDE DEF rest
    <3>3. /\ \A i \in DOMAIN cmd'.todo : i \in Nat \ {0} /\ i + 1 \in DOMAIN cmd.todo /\ cmd'.todo[i] = cmd.todo[i + 1]
          /\ \A i \in DOMAIN cmd.todo : i # 1 => i - 1 \in DOMAIN cmd'.todo /\ cmd'.todo[i - 1] = cmd.todo[i]
      BY <3>1, <3>2, Zenon
    <3> QED BY <2>2, <3>3 DEF Shifted
  <2> QED BY <2>5, <2>6
<1> QED BY <1>1, <1>2

-----------------------------------------------------------------------------
(* Frames                                                                    *)

\* A step makes at most snapshots that nobody has named yet.
Grown ==
    /\ anc' \in [Snapshot -> SUBSET Snapshot]
    /\ \A s \in Snapshot : anc[s] # {} => anc'[s] = anc[s]
    /\ \A s \in Snapshot : anc'[s] # {} => s \in anc'[s]
    /\ \A s \in Snapshot : \A a \in anc'[s] : a \in anc'[a]

LEMMA SameGrows == ASSUME Typed, KnownInv, UNCHANGED anc PROVE Grown
BY DEF Typed, KnownInv, Grown

LEMMA MakeGrows ==
    ASSUME Typed, KnownInv, NEW s \in Snapshot, NEW A \in SUBSET Snapshot, \A a \in A : a \in anc[a], Make(s, A)
    PROVE  Grown /\ anc[s] = {} /\ anc'[s] = {s} \cup A /\ \A r \in Snapshot \ {s} : anc'[r] = anc[r]
<1>1. anc[s] = {} /\ anc'[s] = {s} \cup A /\ anc' \in [Snapshot -> SUBSET Snapshot]
      /\ \A r \in Snapshot \ {s} : anc'[r] = anc[r]
  BY DEF Typed, Make
<1>2. \A r \in Snapshot : anc[r] # {} => anc'[r] = anc[r]
  BY <1>1
<1>3. \A r \in Snapshot : anc'[r] # {} => r \in anc'[r]
  BY <1>1 DEF KnownInv
<1>4. \A r \in Snapshot : \A a \in anc'[r] : a \in anc'[a]
  <2> SUFFICES ASSUME NEW r \in Snapshot, NEW a \in anc'[r] PROVE a \in anc'[a]
    OBVIOUS
  <2>1. a \in Snapshot /\ (a = s \/ a \in anc[a])
    BY <1>1 DEF KnownInv, Typed
  <2> QED BY <1>1, <2>1
<1> QED BY <1>1, <1>2, <1>3, <1>4 DEF Grown

LEMMA ClosureTyped == Typed => \A S \in SUBSET Tip : Closure(S) \in SUBSET Snapshot
BY DEF Typed, Closure, Tip

LEMMA MadeStays ==
    ASSUME Typed, Grown, NEW id \in Tip, Made(id)
    PROVE  Made(id)' /\ (id # None => id \in Snapshot /\ id \in anc[id] /\ anc'[id] = anc[id])
BY DEF Made, Grown, Typed, Tip

\* The effects are those of before, or the rest of them.
LEMMA SoundShift ==
    ASSUME Typed, CommandInv, Grown, UNCHANGED <<refs, head, mergeHead>>, Shifted
    PROVE  CommandInv'
<1> SUFFICES ASSUME NEW i \in DOMAIN cmd'.todo PROVE EffectSound(i)'
  BY DEF CommandInv
<1>1. /\ i \in Nat \ {0} /\ i + 1 \in DOMAIN cmd.todo /\ cmd'.todo[i] = cmd.todo[i + 1] /\ cmd'.kind = cmd.kind
      /\ \A j \in DOMAIN cmd'.todo : j \in Nat \ {0} /\ j + 1 \in DOMAIN cmd.todo /\ cmd'.todo[j] = cmd.todo[j + 1]
  BY DEF Shifted
<1>e. PICK e \in Effect : e = cmd.todo[i + 1]
  BY <1>1, TodoTyped
<1>2. EffectSound(i + 1)
  BY <1>1 DEF CommandInv
<1>3. e.do = "tip" => TipSound(i)'
  <2> SUFFICES ASSUME e.do = "tip" PROVE TipSound(i)'
    OBVIOUS
  <2>1. TipSound(i + 1) /\ e.id \in Tip /\ e.branch \in Branch
    BY <1>e, <1>2, EffectFields DEF EffectSound
  <2>2. Made(e.id)' /\ (e.id # None => anc'[e.id] = anc[e.id])
    BY <1>e, <2>1, MadeStays DEF TipSound
  <2>3. \A j \in DOMAIN cmd'.todo : j # i => cmd'.todo[j].do # "tip"
    <3> SUFFICES ASSUME NEW j \in DOMAIN cmd'.todo, j # i PROVE cmd.todo[j + 1].do # "tip"
      BY <1>1
    <3>1. j + 1 # i + 1 /\ j + 1 \in DOMAIN cmd.todo
      BY <1>1
    <3> QED BY <2>1, <3>1 DEF TipSound
  <2>4. \A j \in DOMAIN cmd'.todo : cmd'.todo[j].do = "mergeHead" => cmd'.todo[j].id = None
    BY <1>1, <2>1 DEF TipSound
  <2>5. Made(cmd.todo[i].id)'
    BY <1>e, <1>1, <2>2 DEF Made
  <2>6. cmd'.kind \notin {"amend", "undo"} /\ refs[e.branch] # None => e.id # None /\ refs[e.branch] \in anc'[e.id]
    <3>1. cmd.kind \notin {"amend", "undo"} /\ refs[e.branch] # None => e.id # None /\ refs[e.branch] \in anc[e.id]
      BY <1>e, <2>1 DEF TipSound
    <3> QED BY <1>1, <2>2, <3>1
  <2>7. mergeHead # None /\ e.branch = head => e.id # None /\ mergeHead \in anc'[e.id]
    BY <1>e, <2>1, <2>2 DEF TipSound
  <2>8. cmd'.todo[i] = e
    BY <1>e, <1>1
  <2> QED BY <2>3, <2>4, <2>5, <2>6, <2>7, <2>8 DEF TipSound
<1>4. e.do = "mergeHead" => Made(e.id)'
  BY <1>e, <1>2, EffectFields, MadeStays DEF EffectSound
<1>5. e.do = "record" => Made(e.before)' /\ Made(e.after)'
  BY <1>e, <1>2, EffectFields, MadeStays DEF EffectSound
<1>6. e.do = "head" => mergeHead' = None /\ \A j \in DOMAIN cmd'.todo : cmd'.todo[j].do # "mergeHead"
  BY <1>e, <1>1, <1>2 DEF EffectSound
<1>7. e.do \in GcName <=> cmd'.kind = "gc"
  BY <1>e, <1>1, <1>2 DEF EffectSound
<1>8. /\ e.do = "trim" => Follows(i, "pack")'
      /\ e.do = "pack" => Follows(i, "loose")'
  <2>1. \A name : Follows(i + 1, name) => Follows(i, name)'
    <3> SUFFICES ASSUME NEW name, Follows(i + 1, name) PROVE Follows(i, name)'
      OBVIOUS
    <3>1. (i + 1) + 1 \in DOMAIN cmd.todo /\ (i + 1) + 1 # 1 /\ ((i + 1) + 1) - 1 = i + 1
      BY <1>1 DEF Follows
    <3>2. i + 1 \in DOMAIN cmd'.todo /\ cmd'.todo[i + 1] = cmd.todo[(i + 1) + 1]
      BY <3>1 DEF Shifted
    <3> QED BY <3>2 DEF Follows
  <2> QED BY <1>e, <1>2, <2>1 DEF EffectSound
<1> QED BY <1>e, <1>1, <1>3, <1>4, <1>5, <1>6, <1>7, <1>8 DEF EffectSound, Made

LEMMA SoundSame ==
    ASSUME Typed, CommandInv, Grown, UNCHANGED <<refs, head, mergeHead>>, cmd'.todo = cmd.todo, cmd'.kind = cmd.kind
    PROVE  CommandInv'
<1> SUFFICES ASSUME NEW i \in DOMAIN cmd.todo PROVE EffectSound(i)'
  BY DEF CommandInv
<1>e. PICK e \in Effect : e = cmd.todo[i]
  BY TodoTyped
<1>1. EffectSound(i)
  BY DEF CommandInv
<1>2. e.do = "tip" => TipSound(i)'
  <2> SUFFICES ASSUME e.do = "tip" PROVE TipSound(i)'
    OBVIOUS
  <2>1. TipSound(i) /\ e.id \in Tip /\ e.branch \in Branch
    BY <1>e, <1>1, EffectFields DEF EffectSound
  <2>2. Made(e.id)' /\ (e.id # None => anc'[e.id] = anc[e.id])
    BY <1>e, <2>1, MadeStays DEF TipSound
  <2> QED BY <1>e, <2>1, <2>2 DEF TipSound, Made
<1>3. e.do = "mergeHead" => Made(e.id)'
  BY <1>e, <1>1, EffectFields, MadeStays DEF EffectSound
<1>4. e.do = "record" => Made(e.before)' /\ Made(e.after)'
  BY <1>e, <1>1, EffectFields, MadeStays DEF EffectSound
<1> QED BY <1>e, <1>1, <1>2, <1>3, <1>4 DEF EffectSound, Made, Follows

\* A command that ends has nothing left to do.
LEMMA SoundEnd == ASSUME cmd' = NoCommand PROVE CommandInv'
BY NoCommandTyped DEF CommandInv

LEMMA PushFrame == ASSUME Typed, PushInv, Grown, UNCHANGED push PROVE PushInv'
<1> SUFFICES ASSUME NEW p \in Pusher, push[p].new # None
             PROVE  /\ push[p].branch \in Branch /\ Made(push[p].new)'
                    /\ push[p].old # None => push[p].old \in anc'[push[p].new]
  BY DEF PushInv, Pushing, Made
<1>1. push[p].new \in Tip /\ Made(push[p].new) /\ push[p].branch \in Branch
      /\ (push[p].old # None => push[p].old \in anc[push[p].new])
  BY DEF PushInv, Pushing, Typed, PushState
<1>2. PICK s \in Tip : s = push[p].new
  BY <1>1
<1>3. Made(s)' /\ anc'[s] = anc[s]
  BY <1>1, <1>2, MadeStays
<1> QED BY <1>1, <1>2, <1>3 DEF Made

LEMMA KnownFrame ==
    ASSUME Typed, KnownInv, Grown, UNCHANGED <<refs, mergeHead, oplog>>, \A s \in outside' : s \in Snapshot /\ s \in anc'[s]
    PROVE  KnownInv'
<1>1. \A b \in Branch : refs[b] = None \/ refs[b] \in anc'[refs[b]]
  <2> SUFFICES ASSUME NEW b \in Branch PROVE refs[b] = None \/ refs[b] \in anc'[refs[b]]
    OBVIOUS
  <2>1. PICK r \in Tip : r = refs[b] /\ Made(r)
    BY DEF Typed, KnownInv
  <2> QED BY <2>1, MadeStays DEF Made
<1>2. mergeHead = None \/ mergeHead \in anc'[mergeHead]
  <2>1. PICK r \in Tip : r = mergeHead /\ Made(r)
    BY DEF Typed, KnownInv
  <2> QED BY <2>1, MadeStays DEF Made
<1>3. KnownLog'
  <2> SUFFICES ASSUME NEW i \in DOMAIN oplog, oplog[i] # Torn PROVE Made(oplog[i].before)' /\ Made(oplog[i].after)'
    BY DEF KnownLog
  <2>1. oplog[i] \in Record
    BY LenProperties, ElementOfSeq DEF Typed
  <2>2. PICK r \in Record : r = oplog[i] /\ Made(r.before) /\ Made(r.after)
    BY <2>1 DEF KnownInv, KnownLog
  <2>3. Made(r.before)' /\ Made(r.after)'
    BY <2>2, MadeStays DEF Record
  <2> QED BY <2>2, <2>3 DEF Made
<1> QED BY <1>1, <1>2, <1>3 DEF KnownInv, Grown, Made

\* The log that is read, and its last record.
LEMMA LogFrame == ASSUME LogInv, UNCHANGED <<oplog, logged>> PROVE LogInv'
BY DEF LogInv, ReadAll, LastRecord

LEMMA StopFrame ==
    ASSUME Typed, Grown, StopInv, CompletionExtendsStop, UNCHANGED <<refs, head, mergeHead, stop>>
    PROVE  StopInv' /\ CompletionExtendsStop'
<1>1. StopInv'
  BY DEF StopInv
<1>2. CompletionExtendsStop'
  <2>1. refs[head] # None => refs[head] \in Snapshot
    BY DEF Typed, Tip
  <2>2. PICK t : t = refs[head]
    OBVIOUS
  <2>3. mergeHead # None => t = stop.tip \/ (t # None /\ mergeHead \in anc'[t])
    BY <2>1, <2>2 DEF CompletionExtendsStop, tip, Grown
  <2> QED BY <2>2, <2>3 DEF CompletionExtendsStop, tip
<1> QED BY <1>1, <1>2

\* A step that leaves HEAD, the refs, the stop and the log alone.
LEMMA QuietKeeps ==
    ASSUME LocalInv, Grown, UNCHANGED <<refs, head, mergeHead, oplog, stop, logged>>,
           \A s \in outside' : s \in Snapshot /\ s \in anc'[s],
           Typed', CommandInv', PushInv'
    PROVE  LocalInv'
BY KnownFrame, LogFrame, StopFrame DEF LocalInv

\* Nobody outside learns of a snapshot.
LEMMA SameOutside ==
    ASSUME LocalInv, Grown, UNCHANGED outside
    PROVE  \A s \in outside' : s \in Snapshot /\ s \in anc'[s]
<1> SUFFICES ASSUME NEW s \in outside PROVE s \in Snapshot /\ s \in anc'[s]
  OBVIOUS
<1>1. s \in Tip /\ s \in Snapshot /\ s # None /\ Made(s)
  BY LocalAssumption DEF LocalInv, Typed, KnownInv, Tip, Object
<1> QED BY <1>1, MadeStays DEF LocalInv, Made

-----------------------------------------------------------------------------
(* Effects, gc, crashes and time                                             *)

LEMMA EffectKeeps ==
    ASSUME LocalInv, cmd.todo # <<>>, Done, Typed',
           UNCHANGED <<refs, head, mergeHead, oplog, push, anc, outside, logged, stop>>
    PROVE  LocalInv'
<1>1. Grown
  BY SameGrows DEF LocalInv
<1>2. CommandInv'
  BY <1>1, DoneShifts, SoundShift DEF LocalInv
<1>3. PushInv'
  BY <1>1, PushFrame DEF LocalInv
<1> QED BY <1>1, <1>2, <1>3, QuietKeeps, SameOutside

LEMMA PutTyped == ASSUME Typed, NEW o \in Object, PutObject(o) PROVE loose' \in SUBSET Object /\ fresh' \in SUBSET loose' /\ packs' = packs
BY DEF Typed, PutObject

LEMMA QuietEffects ==
    ASSUME LocalInv, PutStep \/ LayStep \/ DecidedStep \/ EndOfList
    PROVE  LocalInv'
<1> USE DEF LocalInv
<1>1. CASE PutStep
  <2>1. cmd.todo # <<>> /\ Head(cmd.todo).obj \in Object
    BY <1>1, HeadFacts, EffectFields DEF PutStep
  <2>2. CommandTyped'
    BY <1>1, <2>1, DoneShifts DEF PutStep
  <2>3. loose' \in SUBSET Object /\ fresh' \in SUBSET loose' /\ packs' = packs
    BY <1>1, <2>1, PutTyped DEF PutStep
  <2>4. Typed'
    BY <1>1, <2>2, <2>3 DEF Typed, PutStep, CommandTyped, disk, ownerFrame
  <2> QED BY <1>1, <2>1, <2>4, EffectKeeps DEF PutStep, disk, ownerFrame
<1>2. CASE LayStep
  <2>1. cmd.todo # <<>> /\ Head(cmd.todo).tree \in Snapshot \cup {Marked}
    BY <1>2, HeadFacts, EffectFields DEF LayStep
  <2>2. CommandTyped'
    BY <1>2, <2>1, DoneShifts DEF LayStep
  <2>4. Typed'
    BY <1>2, <2>1, <2>2 DEF Typed, LayStep, CommandTyped, store, ownerFrame, Tip
  <2> QED BY <1>2, <2>1, <2>4, EffectKeeps DEF LayStep, store, ownerFrame
<1>3. CASE DecidedStep
  <2>1. cmd.todo # <<>> /\ Head(cmd.todo).root \in Tree \cup {None}
    BY <1>3, HeadFacts, EffectFields DEF DecidedStep
  <2>2. CommandTyped'
    BY <1>3, <2>1, DoneShifts DEF DecidedStep
  <2>4. Typed'
    BY <1>3, <2>1, <2>2 DEF Typed, DecidedStep, CommandTyped, store, ownerFrame
  <2> QED BY <1>3, <2>1, <2>4, EffectKeeps DEF DecidedStep, store, ownerFrame
<1>4. CASE EndOfList
  <2>1. cmd.todo # <<>>
    BY <1>4 DEF EndOfList, At
  <2>2. CommandTyped'
    BY <1>4, <2>1, DoneShifts DEF EndOfList
  <2>4. Typed'
    BY <1>4, <2>1, <2>2 DEF Typed, EndOfList, CommandTyped, store, disk, ownerFrame
  <2> QED BY <1>4, <2>1, <2>4, EffectKeeps DEF EndOfList, store, disk, ownerFrame
<1> QED BY <1>1, <1>2, <1>3, <1>4

\* What can be reached are objects.
LEMMA ReachTyped == Typed => Reachable \in SUBSET Object
<1> SUFFICES ASSUME Typed PROVE Reachable \in SUBSET Object
  OBVIOUS
<1>1. Roots \in SUBSET Tip
  <2>1. \A r \in Logged : r \in Record
    BY LogFacts, LenProperties, ElementOfSeq DEF Logged
  <2> QED BY <2>1 DEF Roots, Record, Typed
<1>2. DecidedTree \in SUBSET Tree
  BY DEF DecidedTree, Typed
<1> QED BY <1>1, <1>2, ClosureTyped DEF Reachable, Object

LEMMA GcEffects ==
    ASSUME LocalInv, Pack \/ (\E o \in Object : PruneLoose(o)) \/ (\E k \in packs : DropPack(k))
    PROVE  LocalInv'
<1> USE DEF LocalInv
<1>0. Grown
  BY SameGrows DEF Pack, PruneLoose, DropPack, ownerFrame
<1>1. PushInv' /\ \A s \in outside' : s \in Snapshot /\ s \in anc'[s]
  BY <1>0, PushFrame, SameOutside DEF Pack, PruneLoose, DropPack, ownerFrame
<1>2. UNCHANGED <<refs, head, mergeHead, oplog, stop, logged>>
  BY DEF Pack, PruneLoose, DropPack, disk
<1>3. CASE Pack
  <2>1. cmd.todo # <<>>
    BY <1>3 DEF Pack, At
  <2>2. CASE Reachable \subseteq Stored
    <3>1. PICK rest : rest = Tail(cmd.todo)
      OBVIOUS
    <3>2. PICK old : old = IF Reachable = {} THEN {} ELSE packs \ {Reachable}
      OBVIOUS
    <3>3. cmd' = [cmd EXCEPT !.todo = rest, !.reach = Reachable, !.list = loose, !.old = old]
      BY <1>3, <2>2, <3>1, <3>2 DEF Pack
    <3>4. rest \in Seq(Effect) /\ old \in SUBSET SUBSET Object /\ Reachable \in SUBSET Object /\ loose \in SUBSET Object
      BY <2>1, <3>1, <3>2, TailShifts, ReachTyped DEF Typed
    <3>5. cmd' \in CommandRecord /\ cmd'.todo = rest /\ cmd'.kind = cmd.kind
      BY <3>3, <3>4 DEF Typed, CommandRecord
    <3>6. Shifted
      BY <2>1, <3>1, <3>5, TailShifts DEF Shifted
    <3>7. packs' \in SUBSET SUBSET Object
      BY <1>3, <2>2, <3>4 DEF Pack, Packed, Typed
    <3>8. rest # <<>>
      <4>1. 1 \in DOMAIN cmd.todo /\ cmd.todo[1].do = "pack"
        BY <1>3, HeadFacts DEF Pack
      <4>2. 1 + 1 \in DOMAIN cmd.todo
        BY <4>1 DEF CommandInv, EffectSound, Follows
      <4>3. Len(rest) # 0
        BY <2>1, <3>1, <4>2, TodoTyped, TailShifts
      <4>4. Len(<<>>) = 0
        OBVIOUS
      <4> QED BY <4>3, <4>4, Zenon
    <3>9. Typed'
      BY <1>2, <1>3, <3>5, <3>7, <3>8 DEF Typed, Pack, disk, ownerFrame
    <3> QED BY <1>0, <1>1, <1>2, <3>6, <3>9, SoundShift, QuietKeeps
  <2>3. CASE ~(Reachable \subseteq Stored)
    <3>1. cmd' = NoCommand /\ packs' = packs
      BY <1>3, <2>3 DEF Pack
    <3>2. Typed'
      BY <1>2, <1>3, <3>1, NoCommandTyped DEF Typed, CommandTyped, Pack, disk, ownerFrame
    <3> QED BY <1>0, <1>1, <1>2, <3>1, <3>2, SoundEnd, QuietKeeps
  <2> QED BY <2>2, <2>3
<1>4. ASSUME NEW o \in Object, PruneLoose(o) PROVE LocalInv'
  <2>1. cmd' = [cmd EXCEPT !.list = @ \ {o}] /\ cmd.todo # <<>>
    BY <1>4 DEF PruneLoose, At
  <2>2. cmd' \in CommandRecord /\ cmd'.todo = cmd.todo /\ cmd'.kind = cmd.kind
    BY <2>1 DEF Typed, CommandRecord
  <2>3. loose' \in SUBSET Object /\ fresh' \in SUBSET loose' /\ packs' = packs
    BY <1>4 DEF PruneLoose, Typed
  <2>4. Typed'
    BY <1>2, <1>4, <2>1, <2>2, <2>3 DEF Typed, PruneLoose, disk, ownerFrame
  <2> QED BY <1>0, <1>1, <1>2, <2>2, <2>4, SoundSame, QuietKeeps
<1>5. ASSUME NEW k \in packs, DropPack(k) PROVE LocalInv'
  <2>1. cmd' = [cmd EXCEPT !.old = @ \ {k}] /\ cmd.todo # <<>>
    BY <1>5 DEF DropPack, At
  <2>2. cmd' \in CommandRecord /\ cmd'.todo = cmd.todo /\ cmd'.kind = cmd.kind
    BY <2>1 DEF Typed, CommandRecord
  <2>3. UNCHANGED <<loose, fresh>> /\ packs' \in SUBSET SUBSET Object
    BY <1>5 DEF DropPack, Typed
  <2>4. Typed'
    BY <1>2, <1>5, <2>1, <2>2, <2>3 DEF Typed, DropPack, disk, ownerFrame
  <2> QED BY <1>0, <1>1, <1>2, <2>2, <2>4, SoundSame, QuietKeeps
<1> QED BY <1>3, <1>4, <1>5

\* After a write of a ref, HEAD or MERGE_HEAD the effects left are still sound:
\* no other tip is written, and HEAD stays where a merge is stopped.
LEMMA SoundAfter ==
    ASSUME LocalInv, UNCHANGED anc, Shifted, cmd.todo # <<>>,
           \/ cmd.todo[1].do = "tip" /\ UNCHANGED <<head, mergeHead>>
           \/ cmd.todo[1].do = "head" /\ UNCHANGED <<refs, mergeHead>>
           \/ cmd.todo[1].do = "mergeHead" /\ UNCHANGED <<refs, head>> /\ mergeHead' = cmd.todo[1].id
    PROVE  CommandInv'
<1> USE DEF LocalInv
<1> SUFFICES ASSUME NEW i \in DOMAIN cmd'.todo PROVE EffectSound(i)'
  BY DEF CommandInv
<1>0. 1 \in DOMAIN cmd.todo
  <2>1. Len(cmd.todo) \in Nat \ {0}
    BY TailShifts
  <2> QED BY <2>1, TodoTyped
<1>1. /\ i \in Nat \ {0} /\ i + 1 \in DOMAIN cmd.todo /\ cmd'.todo[i] = cmd.todo[i + 1] /\ cmd'.kind = cmd.kind
      /\ \A j \in DOMAIN cmd'.todo : j \in Nat \ {0} /\ j + 1 \in DOMAIN cmd.todo /\ cmd'.todo[j] = cmd.todo[j + 1]
      /\ i + 1 # 1
  BY DEF Shifted
<1>e. PICK e \in Effect : e = cmd.todo[i + 1]
  BY <1>1, TodoTyped
<1>2. EffectSound(1) /\ EffectSound(i + 1)
  BY <1>0, <1>1 DEF CommandInv
<1>3. e.do = "tip" => TipSound(i)'
  <2> SUFFICES ASSUME e.do = "tip" PROVE TipSound(i)'
    OBVIOUS
  <2>1. TipSound(i + 1)
    BY <1>e, <1>2 DEF EffectSound
  <2>2. cmd.todo[1].do # "tip"
    BY <1>0, <1>1, <2>1 DEF TipSound
  <2>3. cmd.todo[1].do = "mergeHead" => mergeHead' = None
    BY <1>0, <2>1 DEF TipSound
  <2>4. cmd.todo[1].do = "head" => mergeHead = None
    BY <1>2 DEF EffectSound
  <2>5. refs' = refs
    BY <2>2
  <2>6. mergeHead' # None => head' = head /\ mergeHead' = mergeHead
    BY <2>2, <2>3, <2>4
  <2>7. Made(e.id) /\ (cmd.kind \notin {"amend", "undo"} /\ refs[e.branch] # None => e.id # None /\ refs[e.branch] \in anc[e.id])
    BY <1>e, <2>1 DEF TipSound
  <2>8. mergeHead # None /\ e.branch = head => e.id # None /\ mergeHead \in anc[e.id]
    BY <1>e, <2>1 DEF TipSound
  <2>9. \A j \in DOMAIN cmd'.todo : j # i => cmd'.todo[j].do # "tip"
    <3> SUFFICES ASSUME NEW j \in DOMAIN cmd'.todo, j # i PROVE cmd.todo[j + 1].do # "tip"
      BY <1>1
    <3>1. j + 1 # i + 1 /\ j + 1 \in DOMAIN cmd.todo
      BY <1>1
    <3> QED BY <2>1, <3>1 DEF TipSound
  <2>10. \A j \in DOMAIN cmd'.todo : cmd'.todo[j].do = "mergeHead" => cmd'.todo[j].id = None
    BY <1>1, <2>1 DEF TipSound
  <2>11. cmd'.todo[i] = e /\ cmd'.kind = cmd.kind
    BY <1>e, <1>1
  <2> QED BY <2>5, <2>6, <2>7, <2>8, <2>9, <2>10, <2>11 DEF TipSound, Made
<1>4. e.do = "mergeHead" => Made(e.id)
  BY <1>e, <1>2 DEF EffectSound
<1>5. e.do = "record" => Made(e.before) /\ Made(e.after)
  BY <1>e, <1>2 DEF EffectSound
<1>6. e.do = "head" => mergeHead' = None /\ \A j \in DOMAIN cmd'.todo : cmd'.todo[j].do # "mergeHead"
  <2> SUFFICES ASSUME e.do = "head" PROVE mergeHead' = None /\ \A j \in DOMAIN cmd'.todo : cmd'.todo[j].do # "mergeHead"
    OBVIOUS
  <2>1. mergeHead = None /\ \A j \in DOMAIN cmd.todo : cmd.todo[j].do # "mergeHead"
    BY <1>e, <1>2 DEF EffectSound
  <2> QED BY <1>0, <1>1, <2>1
<1>7. e.do \in GcName <=> cmd'.kind = "gc"
  BY <1>e, <1>1, <1>2 DEF EffectSound
<1>8. /\ e.do = "trim" => Follows(i, "pack")'
      /\ e.do = "pack" => Follows(i, "loose")'
  <2>1. \A name : Follows(i + 1, name) => Follows(i, name)'
    <3> SUFFICES ASSUME NEW name, Follows(i + 1, name) PROVE Follows(i, name)'
      OBVIOUS
    <3>1. (i + 1) + 1 \in DOMAIN cmd.todo /\ (i + 1) + 1 # 1 /\ ((i + 1) + 1) - 1 = i + 1
      BY <1>1 DEF Follows
    <3>2. i + 1 \in DOMAIN cmd'.todo /\ cmd'.todo[i + 1] = cmd.todo[(i + 1) + 1]
      BY <3>1 DEF Shifted
    <3> QED BY <3>2 DEF Follows
  <2> QED BY <1>e, <1>2, <2>1 DEF EffectSound
<1> QED BY <1>e, <1>1, <1>3, <1>4, <1>5, <1>6, <1>7, <1>8 DEF EffectSound, Made

LEMMA TipStepKeeps == ASSUME LocalInv, TipStep PROVE LocalInv'
<1> USE DEF LocalInv
<1>1. PICK e \in Effect : e = cmd.todo[1] /\ e = Head(cmd.todo) /\ e.do = "tip"
  BY HeadFacts DEF TipStep
<1>2. /\ cmd.todo # <<>> /\ 1 \in DOMAIN cmd.todo /\ e.branch \in Branch /\ e.id \in Tip
  BY <1>1, HeadFacts, EffectFields DEF TipStep
<1>3. /\ refs' = [refs EXCEPT ![e.branch] = e.id] /\ outside' = outside \cup Closure({e.id})
      /\ Done /\ UNCHANGED <<head, mergeHead, decided, oplog, work, store, push, windows, anc, count, logged, stop>>
  BY <1>1 DEF TipStep, ownerFrame
<1>4. CommandTyped' /\ Shifted
  BY <1>2, <1>3, DoneShifts
<1>5. CommandInv'
  BY <1>1, <1>2, <1>3, <1>4, SoundAfter
<1>6. TipSound(1) /\ Made(e.id)
  BY <1>1, <1>2 DEF CommandInv, EffectSound, TipSound
<1>7. Closure({e.id}) \in SUBSET Snapshot
  BY <1>2, ClosureTyped
<1>8. Typed'
  BY <1>2, <1>3, <1>4, <1>7 DEF Typed, CommandTyped, store
<1>9. Grown
  BY <1>3, SameGrows
<1>10. KnownInv'
  <2>1. \A b \in Branch : Made(refs[b])'
    BY <1>2, <1>3, <1>6 DEF KnownInv, Made, Typed
  <2>2. \A s \in outside' : Made(s)
    <3>1. \A s \in Closure({e.id}) : s \in anc[s]
      BY <1>2, <1>6 DEF Closure, KnownInv, Typed, Tip
    <3> QED BY <1>3, <3>1 DEF KnownInv, Made
  <2>3. Made(mergeHead)' /\ KnownLog'
    BY <1>3 DEF KnownInv, KnownLog, Made
  <2> QED BY <1>3, <2>1, <2>2, <2>3 DEF KnownInv, Made
<1>11. CompletionExtendsStop'
  <2> SUFFICES ASSUME mergeHead # None PROVE tip' = stop.tip \/ (tip' # None /\ mergeHead \in anc[tip'])
    BY <1>3 DEF CompletionExtendsStop
  <2>1. CASE e.branch = head
    <3>1. e.id # None /\ mergeHead \in anc[e.id]
      BY <1>1, <1>6, <2>1 DEF TipSound
    <3> QED BY <1>2, <1>3, <2>1, <3>1 DEF tip, Typed
  <2>2. CASE e.branch # head
    BY <1>2, <1>3, <2>2 DEF tip, Typed, CompletionExtendsStop
  <2> QED BY <2>1, <2>2
<1>12. LogInv' /\ PushInv' /\ StopInv'
  BY <1>3, <1>9, LogFrame, PushFrame DEF StopInv
<1> QED BY <1>5, <1>8, <1>10, <1>11, <1>12

LEMMA HeadStepKeeps == ASSUME LocalInv, HeadStep PROVE LocalInv'
<1> USE DEF LocalInv
<1>1. PICK e \in Effect : e = cmd.todo[1] /\ e = Head(cmd.todo) /\ e.do = "head"
  BY HeadFacts DEF HeadStep
<1>2. /\ cmd.todo # <<>> /\ 1 \in DOMAIN cmd.todo /\ e.branch \in Branch
  BY <1>1, HeadFacts, EffectFields DEF HeadStep
<1>3. /\ head' = e.branch
      /\ Done /\ UNCHANGED <<refs, mergeHead, decided, oplog, work, store, push, windows, anc, count, outside, logged, stop>>
  BY <1>1 DEF HeadStep, ownerFrame
<1>4. CommandTyped' /\ Shifted
  BY <1>2, <1>3, DoneShifts
<1>5. CommandInv'
  BY <1>1, <1>2, <1>3, <1>4, SoundAfter
<1>6. mergeHead = None
  BY <1>1, <1>2 DEF CommandInv, EffectSound
<1>7. Typed'
  BY <1>2, <1>3, <1>4 DEF Typed, CommandTyped, store
<1>8. KnownInv' /\ LogInv' /\ PushInv'
  BY <1>3, SameGrows, SameOutside, KnownFrame, LogFrame, PushFrame
<1> QED BY <1>3, <1>5, <1>6, <1>7, <1>8 DEF StopInv, CompletionExtendsStop

LEMMA MergeHeadStepKeeps == ASSUME LocalInv, MergeHeadStep PROVE LocalInv'
<1> USE DEF LocalInv
<1>1. PICK e \in Effect : e = cmd.todo[1] /\ e = Head(cmd.todo) /\ e.do = "mergeHead"
  BY HeadFacts DEF MergeHeadStep
<1>2. /\ cmd.todo # <<>> /\ 1 \in DOMAIN cmd.todo /\ e.id \in Tip
  BY <1>1, HeadFacts, EffectFields DEF MergeHeadStep
<1>3. /\ mergeHead' = e.id /\ stop' = IF mergeHead' = None THEN stop ELSE [branch |-> head, tip |-> tip]
      /\ Done /\ UNCHANGED <<refs, head, decided, oplog, work, store, push, windows, anc, count, outside, logged>>
  BY <1>1 DEF MergeHeadStep, ownerFrame
<1>4. CommandTyped' /\ Shifted
  BY <1>2, <1>3, DoneShifts
<1>5. CommandInv'
  BY <1>1, <1>2, <1>3, <1>4, SoundAfter
<1>6. Made(e.id)
  BY <1>1, <1>2 DEF CommandInv, EffectSound
<1>7. Typed'
  BY <1>2, <1>3, <1>4 DEF Typed, CommandTyped, store
<1>8. LogInv' /\ PushInv'
  BY <1>3, SameGrows, LogFrame, PushFrame
<1>9. KnownInv'
  BY <1>3, <1>6 DEF KnownInv, KnownLog, Made
<1>10. StopInv' /\ CompletionExtendsStop'
  BY <1>3 DEF StopInv, CompletionExtendsStop, tip
<1> QED BY <1>5, <1>7, <1>8, <1>9, <1>10

\* The log as it is written keeps what a step makes it say.
LEMMA KnownWritten ==
    ASSUME NEW log \in Seq(Record), oplog' \in {log, Append(log, Torn)}, UNCHANGED anc,
           \A i \in DOMAIN log : Made(log[i].before) /\ Made(log[i].after)
    PROVE  KnownLog'
<1>1. DOMAIN log = 1..Len(log) /\ Len(log) \in Nat /\ log \in Seq(Record \cup {Torn})
  BY LenProperties, SeqMonotonic
<1>2. /\ Append(log, Torn) \in Seq(Record \cup {Torn}) /\ Len(Append(log, Torn)) = Len(log) + 1
      /\ \A i \in 1..Len(log) : Append(log, Torn)[i] = log[i]
      /\ Append(log, Torn)[Len(log) + 1] = Torn
  BY <1>1, AppendProperties
<1>3. DOMAIN Append(log, Torn) = 1..(Len(log) + 1)
  BY <1>2, LenProperties
<1> SUFFICES ASSUME NEW i \in DOMAIN oplog', oplog'[i] # Torn PROVE Made(oplog'[i].before) /\ Made(oplog'[i].after)
  BY DEF KnownLog, Made
<1>4. i \in DOMAIN log /\ oplog'[i] = log[i]
  <2>1. CASE oplog' = log
    BY <2>1
  <2>2. CASE oplog' = Append(log, Torn)
    <3>1. i # Len(log) + 1
      BY <1>2, <2>2
    <3>2. i \in 1..Len(log)
      BY <1>1, <1>3, <2>2, <3>1
    <3> QED BY <1>1, <1>2, <2>2, <3>2
  <2> QED BY <2>1, <2>2
<1> QED BY <1>4

LEMMA ReadKnown == ASSUME LocalInv PROVE \A i \in DOMAIN ReadAll : Made(ReadAll[i].before) /\ Made(ReadAll[i].after)
BY LogFacts DEF LocalInv, KnownInv, KnownLog

\* A step that rewrites the log.
LEMMA LogKeeps ==
    ASSUME LocalInv, NEW log \in Seq(Record), oplog' \in {log, Append(log, Torn)},
           \A i \in DOMAIN log : Made(log[i].before) /\ Made(log[i].after),
           logged' # None => log # <<>> /\ log[Len(log)] = logged',
           logged' \in Record \cup {None}, work' \in Tip \cup {Mixed, Marked},
           UNCHANGED <<refs, head, mergeHead, decided, loose, fresh, packs, push, windows, anc, outside, stop>>,
           CommandTyped', CommandInv'
    PROVE  LocalInv'
<1> USE DEF LocalInv
<1>1. LogTyped(oplog)' /\ ReadAll' = log
  BY LogWritten
<1>2. LogInv'
  BY <1>1 DEF LogInv, LastRecord
<1>3. KnownInv'
  BY KnownWritten DEF KnownInv, Made
<1>4. Grown
  BY SameGrows
<1>5. PushInv' /\ StopInv' /\ CompletionExtendsStop'
  BY <1>4, PushFrame, StopFrame
<1>6. Typed'
  BY <1>1 DEF Typed, LogTyped, CommandTyped
<1> QED BY <1>2, <1>3, <1>5, <1>6

LEMMA RecordStepKeeps == ASSUME LocalInv, RecordStep PROVE LocalInv'
<1> USE DEF LocalInv
<1>1. PICK e \in Effect : e = cmd.todo[1] /\ e = Head(cmd.todo) /\ e.do = "record"
  BY HeadFacts DEF RecordStep
<1>2. cmd.todo # <<>> /\ 1 \in DOMAIN cmd.todo
  BY HeadFacts DEF RecordStep
<1>3. PICK r : r = RecordOf(e)
  OBVIOUS
<1>4. /\ oplog' = Append(ReadAll, r) /\ logged' = r
      /\ Done /\ UNCHANGED <<refs, head, mergeHead, decided, work, loose, fresh, packs, push, windows, anc, outside, stop>>
  BY <1>1, <1>3 DEF RecordStep, Appended, ownerFrame, store
<1>5. r \in Record /\ r.before = e.before /\ r.after = e.after
  BY <1>1, <1>3, EffectFields DEF RecordOf, Record, Typed
<1>6. ReadAll \in Seq(Record)
  BY LogFacts
<1>7. /\ oplog' \in Seq(Record) /\ Len(oplog') = Len(ReadAll) + 1
      /\ \A i \in 1..Len(ReadAll) : oplog'[i] = ReadAll[i]
      /\ oplog'[Len(ReadAll) + 1] = r /\ oplog' # <<>>
  BY <1>4, <1>5, <1>6, AppendProperties
<1>8. DOMAIN oplog' = 1..(Len(ReadAll) + 1) /\ DOMAIN ReadAll = 1..Len(ReadAll) /\ Len(ReadAll) \in Nat
  BY <1>6, <1>7, LenProperties
<1>9. Made(e.before) /\ Made(e.after)
  BY <1>1, <1>2 DEF CommandInv, EffectSound
<1>10. \A i \in DOMAIN oplog' : Made(oplog'[i].before) /\ Made(oplog'[i].after)
  <2> SUFFICES ASSUME NEW i \in 1..(Len(ReadAll) + 1) PROVE Made(oplog'[i].before) /\ Made(oplog'[i].after)
    BY <1>8
  <2>1. i \in 1..Len(ReadAll) \/ i = Len(ReadAll) + 1
    BY <1>8
  <2> QED BY <1>5, <1>7, <1>8, <1>9, <2>1, ReadKnown
<1>11. CommandTyped' /\ CommandInv'
  BY <1>2, <1>4, DoneShifts, SoundShift, SameGrows
<1>12. PICK log : log = oplog'
  OBVIOUS
<1>13. work' \in Tip \cup {Mixed, Marked}
  BY <1>4 DEF Typed
<1> QED BY <1>4, <1>5, <1>7, <1>10, <1>11, <1>12, <1>13, LogKeeps

\* What trim leaves is the end of the log.
LEMMA TrimLeaves ==
    ASSUME Typed, NEW i \in 1..(Len(ReadAll) + 1), TrimTo(i)
    PROVE  \/ oplog' = oplog
           \/ /\ oplog' \in Seq(Record) /\ oplog' # <<>> /\ ReadAll # <<>>
              /\ oplog'[Len(oplog')] = LastRecord
              /\ \A k \in DOMAIN oplog' : \E j \in DOMAIN ReadAll : oplog'[k] = ReadAll[j]
<1> SUFFICES ASSUME i # 1
             PROVE  /\ oplog' \in Seq(Record) /\ oplog' # <<>> /\ ReadAll # <<>>
                    /\ oplog'[Len(oplog')] = LastRecord
                    /\ \A k \in DOMAIN oplog' : \E j \in DOMAIN ReadAll : oplog'[k] = ReadAll[j]
  BY DEF TrimTo
<1> DEFINE all == ReadAll
           n == Len(all)
<1>1. all \in Seq(Record) /\ n \in Nat /\ DOMAIN all = 1..n
  BY LogFacts, LenProperties
<1>2. n # 0
  BY <1>1
<1>3. n >= i
  <2>1. n \in DOMAIN all /\ Keeps(n)
    BY <1>1, <1>2 DEF Keeps
  <2> QED BY <2>1 DEF TrimTo
<1>4. oplog' = SubSeq(all, i, n)
  BY DEF TrimTo
<1>5. \A j \in i..n : all[j] \in Record
  BY <1>1, ElementOfSeq
<1>6. /\ SubSeq(all, i, n) \in Seq(Record)
      /\ Len(SubSeq(all, i, n)) = IF i <= n THEN n - i + 1 ELSE 0
      /\ \A k \in 1..(n - i + 1) : SubSeq(all, i, n)[k] = all[i + k - 1]
  <2>1. i \in Int /\ n \in Int
    BY <1>1
  <2> HIDE DEF all, n
  <2> QED BY <1>5, <2>1, SubSeqProperties
<1> HIDE DEF all, n
<1>7. i \in Nat /\ n \in Nat /\ i >= 1 /\ i <= n
  BY <1>1, <1>3 DEF all, n
<1>8. Len(oplog') = n - i + 1 /\ DOMAIN oplog' = 1..(n - i + 1) /\ oplog' \in Seq(Record)
  BY <1>4, <1>6, <1>7, LenProperties
<1>9. \A k \in 1..(n - i + 1) : i + k - 1 \in 1..n
  BY <1>7
<1>10. \A k \in DOMAIN oplog' : \E j \in DOMAIN all : oplog'[k] = all[j]
  BY <1>1, <1>4, <1>6, <1>8, <1>9
<1>11. oplog'[Len(oplog')] = all[n]
  <2>1. n - i + 1 \in 1..(n - i + 1) /\ i + (n - i + 1) - 1 = n
    BY <1>7
  <2> QED BY <1>4, <1>6, <1>8, <2>1
<1>12. oplog' # <<>> /\ all # <<>>
  <2>1. Len(<<>>) = 0 /\ Len(oplog') # 0 /\ Len(all) # 0
    BY <1>2, <1>7, <1>8 DEF n
  <2> QED BY <2>1, Zenon
<1> QED BY <1>8, <1>10, <1>11, <1>12 DEF LastRecord, all, n

LEMMA TrimKeeps == ASSUME LocalInv, Trim PROVE LocalInv'
<1> USE DEF LocalInv
<1>1. PICK i \in 1..(Len(ReadAll) + 1) : TrimTo(i)
  BY DEF Trim
<1>2. cmd.todo # <<>> /\ Done
      /\ UNCHANGED <<refs, head, mergeHead, decided, work, loose, fresh, packs, push, windows, anc, outside, logged, stop>>
  BY HeadFacts DEF Trim, store, ownerFrame
<1>3. CommandTyped' /\ CommandInv'
  BY <1>2, DoneShifts, SoundShift, SameGrows
<1>4. CASE oplog' = oplog
  <2>1. Typed'
    BY <1>2, <1>3, <1>4 DEF Typed, CommandTyped
  <2> QED BY <1>2, <1>4, <2>1, EffectKeeps
<1>5. CASE /\ oplog' \in Seq(Record) /\ oplog' # <<>> /\ ReadAll # <<>>
           /\ oplog'[Len(oplog')] = LastRecord
           /\ \A k \in DOMAIN oplog' : \E j \in DOMAIN ReadAll : oplog'[k] = ReadAll[j]
  <2>1. PICK log : log = oplog'
    OBVIOUS
  <2>2. logged' # None => log # <<>> /\ log[Len(log)] = logged'
    BY <1>2, <1>5, <2>1 DEF LogInv
  <2>3. \A k \in DOMAIN log : Made(log[k].before) /\ Made(log[k].after)
    BY <1>5, <2>1, ReadKnown
  <2>4. logged' \in Record \cup {None} /\ work' \in Tip \cup {Mixed, Marked}
    BY <1>2 DEF Typed
  <2> QED BY <1>2, <1>3, <1>5, <2>1, <2>2, <2>3, <2>4, LogKeeps
<1> QED BY <1>1, <1>4, <1>5, TrimLeaves

LEMMA CrashKeeps == ASSUME LocalInv, Crash PROVE LocalInv'
<1> USE DEF LocalInv
<1>1. /\ cmd' = NoCommand /\ logged' = None /\ oplog' \in {oplog, ReadAll, Append(ReadAll, Torn)}
      /\ work' \in {work, Mixed}
      /\ UNCHANGED <<refs, head, mergeHead, decided, loose, fresh, packs, push, windows, anc, outside, stop>>
  BY DEF Crash, store
<1>2. ReadAll \in Seq(Record) /\ (oplog = ReadAll \/ oplog = Append(ReadAll, Torn))
  BY LogFacts
<1>3. PICK log : log = ReadAll
  OBVIOUS
<1>4. \A i \in DOMAIN log : Made(log[i].before) /\ Made(log[i].after)
  BY <1>3, ReadKnown
<1>5. CommandTyped' /\ CommandInv'
  BY <1>1, NoCommandTyped, SoundEnd
<1>6. oplog' \in {log, Append(log, Torn)} /\ work' \in Tip \cup {Mixed, Marked}
  BY <1>1, <1>2, <1>3 DEF Typed
<1> QED BY <1>1, <1>2, <1>3, <1>4, <1>5, <1>6, LogKeeps

LEMMA TickKeeps == ASSUME LocalInv, Tick PROVE LocalInv'
<1> USE DEF LocalInv
<1>1. /\ windows' = windows + 1 /\ windows < MaxWindows /\ fresh' = {}
      /\ UNCHANGED <<refs, head, mergeHead, decided, oplog, work, loose, packs, cmd, push, anc, outside, logged, stop>>
  BY DEF Tick, disk, history
<1>2. Typed'
  BY <1>1, LocalAssumption DEF Typed, Idle
<1>3. Grown /\ CommandInv' /\ PushInv' /\ \A s \in outside' : s \in Snapshot /\ s \in anc'[s]
  BY <1>1, SameGrows, SoundSame, PushFrame, SameOutside
<1> QED BY <1>1, <1>2, <1>3, QuietKeeps

-----------------------------------------------------------------------------
(* Pushes                                                                    *)

LEMMA NoPushTyped ==
    NoPush \in PushState /\ NoPush.new = None
BY DEF NoPush, PushState, Tip

\* One push moves on, and knows a snapshot that has been made.
LEMMA PushMoves ==
    ASSUME LocalInv, NEW p \in Pusher, NEW r \in PushState, push' = [push EXCEPT ![p] = r], Grown,
           r.new # None => r.branch \in Branch /\ r.new \in anc'[r.new] /\ (r.old # None => r.old \in anc'[r.new])
    PROVE  PushInv' /\ push' \in [Pusher -> PushState]
<1> USE DEF LocalInv
<1>1. push' \in [Pusher -> PushState]
  BY DEF Typed
<1>2. PushInv'
  <2> SUFFICES ASSUME NEW q \in Pusher, push'[q].new # None
               PROVE  /\ push'[q].branch \in Branch /\ push'[q].new \in anc'[push'[q].new]
                      /\ push'[q].old # None => push'[q].old \in anc'[push'[q].new]
    BY DEF PushInv, Pushing, Made
  <2>1. CASE q = p
    BY <2>1 DEF Typed
  <2>2. CASE q # p
    <3>1. PICK u \in PushState : u = push[q] /\ u = push'[q]
      BY <2>2 DEF Typed
    <3>2. u.branch \in Branch /\ Made(u.new) /\ (u.old # None => u.old \in anc[u.new]) /\ u.new \in Tip /\ u.new # None
      BY <3>1 DEF PushInv, Pushing, PushState
    <3>3. anc'[u.new] = anc[u.new]
      BY <3>2, MadeStays
    <3> QED BY <3>1, <3>2, <3>3 DEF Made
  <2> QED BY <2>1, <2>2
<1> QED BY <1>1, <1>2

\* Everything but the refs, the store and the pushes.
LEMMA PushFrameIs ==
    ASSUME pushFrame' = pushFrame
    PROVE  UNCHANGED <<head, mergeHead, decided, oplog, work, cmd, windows, logged, stop>>
BY DEF pushFrame

\* A push under way goes on.
LEMMA PushGoesOn ==
    ASSUME LocalInv, NEW p \in Pusher, NEW r \in PushState, push' = [push EXCEPT ![p] = r],
           r.new \in {None, push[p].new}, r.new # None => r.branch = push[p].branch /\ r.old = push[p].old,
           UNCHANGED <<refs, anc, outside, pushFrame>>,
           loose' \in SUBSET Object, fresh' \in SUBSET loose', packs' = packs
    PROVE  LocalInv'
<1> USE DEF LocalInv
<1>1. UNCHANGED <<head, mergeHead, decided, oplog, work, cmd, windows, logged, stop>>
  BY PushFrameIs
<1>2. Grown
  BY SameGrows
<1>3. r.new # None => r.branch \in Branch /\ r.new \in anc'[r.new] /\ (r.old # None => r.old \in anc'[r.new])
  BY DEF PushInv, Pushing, Made
<1>4. PushInv' /\ push' \in [Pusher -> PushState]
  BY <1>2, <1>3, PushMoves
<1>5. Typed'
  BY <1>1, <1>4 DEF Typed, Idle
<1>6. CommandInv' /\ \A s \in outside' : s \in Snapshot /\ s \in anc'[s]
  BY <1>1, <1>2, SoundSame, SameOutside
<1> QED BY <1>1, <1>2, <1>4, <1>5, <1>6, QuietKeeps

LEMMA ProbeKeeps == ASSUME LocalInv, NEW p \in Pusher, NEW o \in Snapshot, Probe(p, o) PROVE LocalInv'
<1> USE DEF LocalInv
<1>1. push[p] \in PushState
  BY DEF Typed
<1>2. PICK send : send = IF HasObject(p, o) THEN push[p].send ELSE push[p].send \cup {o}
  OBVIOUS
<1>3. PICK r : r = [push[p] EXCEPT !.todo = @ \ {o}, !.send = send]
  OBVIOUS
<1>4. send \in SUBSET Snapshot
  BY <1>1, <1>2 DEF PushState
<1>5. r \in PushState /\ r.new = push[p].new /\ r.branch = push[p].branch /\ r.old = push[p].old
  BY <1>1, <1>3, <1>4 DEF PushState
<1>6. push' = [push EXCEPT ![p] = r]
  BY <1>1, <1>2, <1>3 DEF Probe, Typed
<1>7. UNCHANGED <<refs, loose, fresh, packs, anc, outside, pushFrame>>
  BY DEF Probe, store
<1>8. loose' \in SUBSET Object /\ fresh' \in SUBSET loose'
  BY <1>7 DEF Typed
<1> QED BY <1>5, <1>6, <1>7, <1>8, PushGoesOn

LEMMA PutPackKeeps == ASSUME LocalInv, NEW p \in Pusher, NEW o \in Snapshot, PutPack(p, o) PROVE LocalInv'
<1> USE DEF LocalInv
<1>1. push[p] \in PushState
  BY DEF Typed
<1>3. PICK r : r = [push[p] EXCEPT !.send = @ \ {o}]
  OBVIOUS
<1>5. r \in PushState /\ r.new = push[p].new /\ r.branch = push[p].branch /\ r.old = push[p].old
  BY <1>1, <1>3 DEF PushState
<1>6. push' = [push EXCEPT ![p] = r]
  BY <1>1, <1>3 DEF PutPack, Typed
<1>7. UNCHANGED <<refs, anc, outside, pushFrame>> /\ PutObject(o) /\ o \in Object
  BY DEF PutPack, Object
<1>8. loose' \in SUBSET Object /\ fresh' \in SUBSET loose' /\ packs' = packs
  BY <1>7, PutTyped
<1> QED BY <1>5, <1>6, <1>7, <1>8, PushGoesOn

LEMMA GiveUpKeeps == ASSUME LocalInv, NEW p \in Pusher, GiveUp(p) PROVE LocalInv'
<1>1. UNCHANGED <<refs, loose, fresh, packs, anc, outside, pushFrame>> /\ push' = [push EXCEPT ![p] = NoPush]
  BY DEF GiveUp, store
<1>2. loose' \in SUBSET Object /\ fresh' \in SUBSET loose'
  BY <1>1 DEF LocalInv, Typed
<1> QED BY <1>1, <1>2, NoPushTyped, PushGoesOn

\* The snapshot that is pushed has been made by the time it is.
LEMMA BeginPushMakes ==
    ASSUME LocalInv, NEW p \in Pusher, NEW b \in Branch, NEW s \in Snapshot, BeginPush(p, b, s)
    PROVE  Grown /\ s \in anc'[s]
<1> USE DEF LocalInv
<1>1. CASE s \in outside /\ UNCHANGED anc
  BY <1>1, SameGrows, LocalAssumption DEF KnownInv, Made, Object
<1>2. ASSUME NEW base \in outside \cup {None}, Make(s, Closure({base})) PROVE Grown /\ s \in anc'[s]
  <2>1. base \in Tip /\ Made(base)
    BY DEF Typed, Tip, KnownInv, Made
  <2>2. Closure({base}) \in SUBSET Snapshot
    BY <2>1, ClosureTyped
  <2>3. \A a \in Closure({base}) : a \in anc[a]
    BY <2>1 DEF Closure, KnownInv, Tip
  <2> QED BY <1>2, <2>2, <2>3, MakeGrows
<1> QED BY <1>1, <1>2 DEF BeginPush

LEMMA BeginPushKeeps ==
    ASSUME LocalInv, NEW p \in Pusher, NEW b \in Branch, NEW s \in Snapshot, BeginPush(p, b, s)
    PROVE  LocalInv'
<1> USE DEF LocalInv
<1>1. Grown /\ s \in anc'[s] /\ anc'[s] \in SUBSET Snapshot
  BY BeginPushMakes DEF Grown
<1>2. PICK r : r = [NoPush EXCEPT !.branch = b, !.new = s, !.old = refs[b], !.todo = anc'[s], !.index = UNION packs]
  OBVIOUS
<1>3. r \in PushState /\ r.new = s /\ r.branch = b /\ r.old = refs[b]
  BY <1>1, <1>2, NoPushTyped DEF PushState, NoPush, Typed, Tip
<1>4. /\ push' = [push EXCEPT ![p] = r] /\ outside' = outside \cup {s} /\ (refs[b] # None => refs[b] \in anc'[s])
      /\ UNCHANGED <<refs, loose, fresh, packs, pushFrame>>
  BY <1>2 DEF BeginPush, store
<1>5. UNCHANGED <<head, mergeHead, decided, oplog, work, cmd, windows, logged, stop>>
  BY <1>4, PushFrameIs
<1>6. PushInv' /\ push' \in [Pusher -> PushState]
  BY <1>1, <1>3, <1>4, PushMoves
<1>7. Typed'
  BY <1>1, <1>4, <1>5, <1>6 DEF Typed, Idle, Grown
<1>8. CommandInv'
  BY <1>1, <1>4, <1>5, SoundSame
<1>9. \A t \in outside' : t \in Snapshot /\ t \in anc'[t]
  <2>1. \A t \in outside : t \in Tip /\ t \in Snapshot /\ t # None /\ Made(t)
    BY LocalAssumption DEF Typed, KnownInv, Tip, Object
  <2> QED BY <1>1, <1>4, <2>1, MadeStays DEF Made
<1> QED BY <1>1, <1>4, <1>5, <1>6, <1>7, <1>8, <1>9, QuietKeeps

LEMMA UpdateRefKeeps == ASSUME LocalInv, NEW p \in Pusher, UpdateRef(p) PROVE LocalInv'
<1> USE DEF LocalInv
<1>1. UNCHANGED <<loose, fresh, packs, anc, outside, pushFrame>> /\ push' = [push EXCEPT ![p] = NoPush] /\ Pushing(p)
  BY DEF UpdateRef, store
<1>2. UNCHANGED <<head, mergeHead, decided, oplog, work, cmd, windows, logged, stop>>
  BY <1>1, PushFrameIs
<1>3. loose' \in SUBSET Object /\ fresh' \in SUBSET loose'
  BY <1>1 DEF Typed
<1>4. CASE UNCHANGED refs
  BY <1>1, <1>3, <1>4, NoPushTyped, PushGoesOn
<1>5. CASE /\ Idle /\ ~StoppedHere(push[p].branch) /\ TipUnmoved(p)
           /\ refs' = [refs EXCEPT ![push[p].branch] = push[p].new]
  <2>1. PICK b \in Branch : b = push[p].branch
    BY <1>1 DEF PushInv
  <2>2. PICK s \in Tip : s = push[p].new /\ Made(s)
    BY <1>1 DEF PushInv, Typed, PushState
  <2>3. refs' = [refs EXCEPT ![b] = s] /\ refs' \in [Branch -> Tip]
    BY <1>5, <2>1, <2>2 DEF Typed
  <2>4. Grown
    BY <1>1, SameGrows
  <2>5. PushInv' /\ push' \in [Pusher -> PushState]
    BY <1>1, <2>4, NoPushTyped, PushMoves
  <2>6. Typed'
    BY <1>1, <1>2, <1>3, <2>3, <2>5 DEF Typed, Idle
  <2>7. CommandInv'
    BY <1>2, <1>5, SoundEnd DEF Idle
  <2>8. KnownInv'
    <3>1. \A c \in Branch : Made(refs[c])'
      BY <1>1, <2>2, <2>3 DEF KnownInv, Made, Typed
    <3> QED BY <1>1, <1>2, <3>1 DEF KnownInv, KnownLog, Made
  <2>9. LogInv' /\ StopInv'
    BY <1>2, LogFrame DEF StopInv
  <2>10. CompletionExtendsStop'
    BY <1>1, <1>2, <1>5, <2>1, <2>3 DEF CompletionExtendsStop, StoppedHere, tip, Typed
  <2> QED BY <2>5, <2>6, <2>7, <2>8, <2>9, <2>10
<1> QED BY <1>4, <1>5 DEF UpdateRef

-----------------------------------------------------------------------------
(* Commands begin                                                            *)

LEMMA EffectsAre ==
    /\ \A o \in Object : Put(o) \in Effect /\ Put(o).do = "put" /\ Put(o).obj = o
    /\ \A s \in Snapshot \cup {Marked} : Lay(s) \in Effect /\ Lay(s).do = "lay"
    /\ \A b \in Branch, s \in Tip : /\ WriteTip(b, s) \in Effect /\ WriteTip(b, s).do = "tip"
                                    /\ WriteTip(b, s).branch = b /\ WriteTip(b, s).id = s
    /\ \A b \in Branch : WriteHead(b) \in Effect /\ WriteHead(b).do = "head"
    /\ \A t \in Tree \cup {None} : WriteDecided(t) \in Effect /\ WriteDecided(t).do = "decided" /\ WriteDecided(t).root = t
    /\ \A s \in Tip : WriteMergeHead(s) \in Effect /\ WriteMergeHead(s).do = "mergeHead" /\ WriteMergeHead(s).id = s
    /\ \A f, t \in Branch, b \in Branch \cup {None}, x, y \in Tip :
          /\ AppendRecord(f, t, b, x, y) \in Effect /\ AppendRecord(f, t, b, x, y).do = "record"
          /\ AppendRecord(f, t, b, x, y).before = x /\ AppendRecord(f, t, b, x, y).after = y
    /\ \A name \in GcName : GcStep(name) \in Effect /\ GcStep(name).do = name
BY DEF Put, Lay, WriteTip, WriteHead, WriteDecided, WriteMergeHead, AppendRecord, GcStep, Effect, GcName

\* A command begins on its effects, and all else stays but the working tree and
\* a snapshot it makes.
LEMMA BeginFacts ==
    ASSUME NEW kind, NEW E, Begin(kind, E)
    PROVE  /\ Idle /\ cmd'.kind = kind /\ cmd'.todo = E /\ cmd'.reach = {} /\ cmd'.list = {} /\ cmd'.old = {}
           /\ cmd' = [kind |-> kind, todo |-> E, reach |-> {}, list |-> {}, old |-> {}]
           /\ UNCHANGED <<refs, head, mergeHead, decided, oplog, loose, fresh, packs, push, windows, outside, logged, stop>>
BY DEF Begin, NoCommand, store

LEMMA Begins ==
    ASSUME LocalInv, NEW kind \in Kind, NEW E \in Seq(Effect), E # <<>>, Begin(kind, E),
           Grown, work' \in Tip \cup {Mixed, Marked}, CommandInv'
    PROVE  LocalInv'
<1> USE DEF LocalInv
<1>1. cmd' \in CommandRecord /\ cmd'.todo # <<>>
  BY BeginFacts DEF CommandRecord
<1>2. Typed'
  BY <1>1, BeginFacts DEF Typed, Grown
<1>3. PushInv' /\ \A s \in outside' : s \in Snapshot /\ s \in anc'[s]
  BY BeginFacts, PushFrame, SameOutside
<1> QED BY <1>2, <1>3, BeginFacts, QuietKeeps

\* A program is sound if its effects are, one by one.
ProgramSound(kind, E) ==
    /\ \A i \in DOMAIN E : E[i].do \in GcName <=> kind = "gc"
    /\ \A i, j \in DOMAIN E : E[i].do = "tip" /\ E[j].do = "tip" => i = j
    /\ \A i, j \in DOMAIN E : E[i].do = "tip" /\ E[j].do = "mergeHead" => E[j].id = None
    /\ \A i \in DOMAIN E : E[i].do = "tip" =>
          LET e == E[i] IN
          /\ e.id = None \/ e.id \in anc'[e.id]
          /\ kind \notin {"amend", "undo"} /\ refs[e.branch] # None => e.id # None /\ refs[e.branch] \in anc'[e.id]
          /\ mergeHead # None /\ e.branch = head => e.id # None /\ mergeHead \in anc'[e.id]
    /\ \A i \in DOMAIN E : E[i].do = "mergeHead" => E[i].id = None \/ E[i].id \in anc'[E[i].id]
    /\ \A i \in DOMAIN E : E[i].do = "head" => mergeHead = None
    /\ \A i, j \in DOMAIN E : E[i].do = "head" => E[j].do # "mergeHead"
    /\ \A i \in DOMAIN E : E[i].do = "record" =>
          /\ E[i].before = None \/ E[i].before \in anc'[E[i].before]
          /\ E[i].after = None \/ E[i].after \in anc'[E[i].after]
    /\ \A i \in DOMAIN E : E[i].do = "trim" => i + 1 \in DOMAIN E /\ E[i + 1].do = "pack"
    /\ \A i \in DOMAIN E : E[i].do = "pack" => i + 1 \in DOMAIN E /\ E[i + 1].do = "loose"

LEMMA ProgramIsSound ==
    ASSUME NEW kind, NEW E, Begin(kind, E), ProgramSound(kind, E)
    PROVE  CommandInv'
<1>1. cmd'.kind = kind /\ cmd'.todo = E /\ UNCHANGED <<refs, head, mergeHead>>
  BY BeginFacts
<1> SUFFICES ASSUME NEW i \in DOMAIN E PROVE EffectSound(i)'
  BY <1>1 DEF CommandInv
<1>2. E[i].do = "tip" => TipSound(i)'
  BY <1>1 DEF ProgramSound, TipSound, Made
<1>3. /\ E[i].do \in GcName <=> kind = "gc"
      /\ E[i].do = "head" => mergeHead = None /\ \A j \in DOMAIN E : E[j].do # "mergeHead"
      /\ E[i].do = "mergeHead" => E[i].id = None \/ E[i].id \in anc'[E[i].id]
      /\ E[i].do = "record" => /\ E[i].before = None \/ E[i].before \in anc'[E[i].before]
                               /\ E[i].after = None \/ E[i].after \in anc'[E[i].after]
      /\ E[i].do = "trim" => i + 1 \in DOMAIN E /\ E[i + 1].do = "pack"
      /\ E[i].do = "pack" => i + 1 \in DOMAIN E /\ E[i + 1].do = "loose"
  BY DEF ProgramSound
<1> QED BY <1>1, <1>2, <1>3 DEF EffectSound, Made, Follows

\* A program keeps what can be reached if its effects store before they name.
ProgramKept(E) ==
    /\ \A i \in DOMAIN E : E[i].do = "tip" => E[i].id = None \/ anc'[E[i].id] \subseteq PromisedBy(E, i)
    /\ \A i \in DOMAIN E : E[i].do = "record" =>
          /\ E[i].before = None \/ anc'[E[i].before] \subseteq PromisedBy(E, i)
          /\ E[i].after = None \/ anc'[E[i].after] \subseteq PromisedBy(E, i)
    /\ \A i \in DOMAIN E : E[i].do = "decided" =>
          IF E[i].root = None
          THEN mergeHead = None \/ \E j \in 1..(i - 1) : E[j].do = "mergeHead"
          ELSE mergeHead = None /\ E[i].root \in PromisedBy(E, i)
    /\ \A i \in DOMAIN E : E[i].do = "mergeHead" /\ E[i].id # None =>
          /\ anc'[E[i].id] \subseteq Stored
          /\ \E j \in 1..(i - 1) : E[j].do = "decided"
          /\ \A j \in DOMAIN E : E[j].do = "decided" => j < i /\ E[j].root # None
          /\ \A j \in DOMAIN E : E[j].do = "mergeHead" => j = i
    /\ E[1].do \notin {"loose", "packs"}

\* A command has begun on a program that keeps what can be reached.
Begun ==
    \E kind \in Kind, E \in Seq(Effect) : E # <<>> /\ Begin(kind, E) /\ Grown /\ (KeepInv => ProgramKept(E))

LEMMA CommandBegins ==
    ASSUME LocalInv, NEW kind \in Kind, NEW E \in Seq(Effect), E # <<>>, Begin(kind, E),
           Grown, work' \in Tip \cup {Mixed, Marked}, ProgramSound(kind, E), KeepInv => ProgramKept(E)
    PROVE  LocalInv' /\ Begun
<1>1. LocalInv'
  BY ProgramIsSound, Begins
<1> QED BY <1>1, Zenon DEF Begun

\* The tip of the branch that is checked out, and what it knows.
LEMMA TipFacts ==
    ASSUME LocalInv
    PROVE  /\ tip \in Tip /\ mergeHead \in Tip /\ Made(tip) /\ Made(mergeHead) /\ head \in Branch
           /\ Closure({tip, mergeHead}) \in SUBSET Snapshot
           /\ \A a \in Closure({tip, mergeHead}) : a \in anc[a]
           /\ tip # None => tip \in Closure({tip, mergeHead})
           /\ mergeHead # None => mergeHead \in Closure({tip, mergeHead})
<1>1. tip \in Tip /\ mergeHead \in Tip /\ Made(tip) /\ Made(mergeHead) /\ head \in Branch
  BY DEF LocalInv, Typed, KnownInv, tip
<1>2. Closure({tip, mergeHead}) \in SUBSET Snapshot
  BY <1>1, ClosureTyped DEF LocalInv
<1>3. \A a \in Closure({tip, mergeHead}) : a \in anc[a]
  BY <1>1 DEF Closure, LocalInv, KnownInv, Tip
<1> QED BY <1>1, <1>2, <1>3 DEF Closure, Made

\* What names, and what is stored of it.
LEMMA Named ==
    ASSUME LocalInv
    PROVE  /\ \A rec \in Logged : rec \in Record /\ rec.before \in Tip /\ rec.after \in Tip /\ Made(rec.before) /\ Made(rec.after)
           /\ Roots \in SUBSET Tip /\ \A r \in Roots : Made(r)
<1>1. \A rec \in Logged : rec \in Record /\ Made(rec.before) /\ Made(rec.after)
  BY ReadKnown, LogFacts, LenProperties, ElementOfSeq DEF Logged, LocalInv
<1>2. \A rec \in Logged : rec.before \in Tip /\ rec.after \in Tip
  BY <1>1 DEF Record
<1>3. \A r \in Roots : r \in Tip /\ Made(r)
  BY <1>1, <1>2 DEF Roots, LocalInv, Typed, KnownInv
<1> QED BY <1>1, <1>2, <1>3

\* What an effect may name is stored, and is what it was, whatever snapshot is made.
LEMMA Kept ==
    ASSUME LocalInv, KeepInv, Grown
    PROVE  /\ \A r \in Roots : r = None \/ anc'[r] \subseteq Stored
           /\ tip = None \/ anc'[tip] \subseteq Stored
           /\ Closure({tip, mergeHead}) \subseteq Stored
           /\ \A b \in Branch : refs[b] \in Roots
<1>1. \A r \in Roots : r # None => anc[r] \subseteq Closure(Roots)
  BY DEF Closure
<1>2. Closure(Roots) \subseteq Stored
  BY DEF KeepInv, Reachable
<1>3. \A r \in Roots : r # None => anc'[r] = anc[r]
  BY Named, MadeStays DEF LocalInv
<1>4. /\ \A b \in Branch : refs[b] \in Roots
      /\ tip \in Roots /\ mergeHead \in Roots
  BY TipFacts DEF Roots, tip
<1>5. Closure({tip, mergeHead}) \subseteq Closure(Roots)
  BY <1>4 DEF Closure
<1> QED BY <1>1, <1>2, <1>3, <1>4, <1>5

LEMMA PutPromised ==
    ASSUME NEW E, NEW i, NEW k \in 1..(i - 1), E[k].do = "put"
    PROVE  E[k].obj \in PromisedBy(E, i) /\ Stored \subseteq PromisedBy(E, i)
BY DEF PromisedBy

LEMMA StoredPromised == \A E, i : Stored \subseteq PromisedBy(E, i)
BY DEF PromisedBy

\* Tuples, put together.
LEMMA TwoAndTwo ==
    ASSUME NEW S, NEW a \in S, NEW b \in S, NEW c \in S, NEW d \in S
    PROVE  <<a, b>> \o <<c, d>> = <<a, b, c, d>>
<1> DEFINE x == <<a, b>>
           y == <<c, d>>
           z == <<a, b, c, d>>
<1>1. x \in Seq(S) /\ y \in Seq(S) /\ z \in Seq(S)
  OBVIOUS
<1>0. Len(x) = 2 /\ Len(y) = 2 /\ Len(z) = 4
  OBVIOUS
<1>2. x[1] = a /\ x[2] = b /\ y[1] = c /\ y[2] = d /\ z[1] = a /\ z[2] = b /\ z[3] = c /\ z[4] = d
  OBVIOUS
<1> HIDE DEF x, y, z
<1>3. /\ x \o y \in Seq(S) /\ Len(x \o y) = 4
      /\ \A i \in 1..4 : (x \o y)[i] = IF i <= 2 THEN x[i] ELSE y[i - 2]
  BY <1>0, <1>1, ConcatProperties DEF x, y
<1>4. \A i \in 1..4 : (x \o y)[i] = z[i]
  BY <1>2, <1>3
<1> QED BY <1>0, <1>1, <1>3, <1>4, SeqEqual DEF x, y, z

LEMMA FourAndOne ==
    ASSUME NEW S, NEW a \in S, NEW b \in S, NEW c \in S, NEW d \in S, NEW e \in S
    PROVE  <<a, b, c, d>> \o <<e>> = <<a, b, c, d, e>>
<1> DEFINE x == <<a, b, c, d>>
           y == <<e>>
           z == <<a, b, c, d, e>>
<1>1. x \in Seq(S) /\ y \in Seq(S) /\ z \in Seq(S)
  OBVIOUS
<1>0. Len(x) = 4 /\ Len(y) = 1 /\ Len(z) = 5
  OBVIOUS
<1>2. x[1] = a /\ x[2] = b /\ x[3] = c /\ x[4] = d /\ y[1] = e
      /\ z[1] = a /\ z[2] = b /\ z[3] = c /\ z[4] = d /\ z[5] = e
  OBVIOUS
<1> HIDE DEF x, y, z
<1>3. /\ x \o y \in Seq(S) /\ Len(x \o y) = 5
      /\ \A i \in 1..5 : (x \o y)[i] = IF i <= 4 THEN x[i] ELSE y[i - 4]
  BY <1>0, <1>1, ConcatProperties DEF x, y
<1>4. \A i \in 1..5 : (x \o y)[i] = z[i]
  BY <1>2, <1>3
<1> QED BY <1>0, <1>1, <1>3, <1>4, SeqEqual DEF x, y, z

LEMMA OneAndTwo ==
    ASSUME NEW S, NEW a \in S, NEW b \in S, NEW c \in S
    PROVE  <<a>> \o <<b, c>> = <<a, b, c>>
<1> DEFINE x == <<a>>
           y == <<b, c>>
           z == <<a, b, c>>
<1>1. x \in Seq(S) /\ y \in Seq(S) /\ z \in Seq(S)
  OBVIOUS
<1>0. Len(x) = 1 /\ Len(y) = 2 /\ Len(z) = 3
  OBVIOUS
<1>2. x[1] = a /\ y[1] = b /\ y[2] = c /\ z[1] = a /\ z[2] = b /\ z[3] = c
  OBVIOUS
<1> HIDE DEF x, y, z
<1>3. /\ x \o y \in Seq(S) /\ Len(x \o y) = 3
      /\ \A i \in 1..3 : (x \o y)[i] = IF i <= 1 THEN x[i] ELSE y[i - 1]
  BY <1>0, <1>1, ConcatProperties DEF x, y
<1>4. \A i \in 1..3 : (x \o y)[i] = z[i]
  BY <1>2, <1>3
<1> QED BY <1>0, <1>1, <1>3, <1>4, SeqEqual DEF x, y, z

LEMMA CommitKeeps == ASSUME LocalInv, NEW s \in Snapshot, Commit(s) PROVE LocalInv' /\ Begun
<1> DEFINE E == <<Put(s), WriteTip(head, s), WriteMergeHead(None), WriteDecided(None), RecordTip(s)>>
<1>0. <<Put(s), WriteTip(head, s)>> \o ClearMerge \o <<RecordTip(s)>> = E
  <2>1. /\ Put(s) \in Effect /\ WriteTip(head, s) \in Effect /\ WriteMergeHead(None) \in Effect
        /\ WriteDecided(None) \in Effect /\ RecordTip(s) \in Effect
    BY TipFacts, EffectsAre DEF RecordTip, Tip, Object
  <2>2. <<Put(s), WriteTip(head, s)>> \o <<WriteMergeHead(None), WriteDecided(None)>>
          = <<Put(s), WriteTip(head, s), WriteMergeHead(None), WriteDecided(None)>>
    BY <2>1, TwoAndTwo, Zenon
  <2>3. <<Put(s), WriteTip(head, s), WriteMergeHead(None), WriteDecided(None)>> \o <<RecordTip(s)>> = E
    <3>1. PICK a \in Effect, b \in Effect, c \in Effect, d \in Effect, e \in Effect :
               a = Put(s) /\ b = WriteTip(head, s) /\ c = WriteMergeHead(None) /\ d = WriteDecided(None) /\ e = RecordTip(s)
      BY <2>1
    <3>2. <<a, b, c, d>> \o <<e>> = <<a, b, c, d, e>>
      BY FourAndOne
    <3> QED BY <3>1, <3>2, Zenon
  <2> QED BY <2>2, <2>3, Zenon DEF ClearMerge
<1>1. Make(s, Closure({tip, mergeHead})) /\ work' = s /\ Begin("commit", E)
  BY <1>0 DEF Commit
<1>2. Grown /\ anc'[s] = {s} \cup Closure({tip, mergeHead})
  BY <1>1, TipFacts, MakeGrows DEF LocalInv
<1>3. s \in Tip /\ s \in Object /\ None \in Tip /\ s # None
  BY LocalAssumption DEF Tip, Object
<1>4. E \in Seq(Effect) /\ E # <<>> /\ DOMAIN E = 1..5
      /\ E[1] = Put(s) /\ E[2] = WriteTip(head, s) /\ E[3] = WriteMergeHead(None) /\ E[4] = WriteDecided(None) /\ E[5] = RecordTip(s)
  BY <1>3, TipFacts, EffectsAre DEF RecordTip
<1>5. /\ E[1].do = "put" /\ E[1].obj = s /\ E[4].do = "decided" /\ E[4].root = None
      /\ E[2].do = "tip" /\ E[2].branch = head /\ E[2].id = s /\ E[3].do = "mergeHead" /\ E[3].id = None
      /\ E[5].do = "record" /\ E[5].before = tip /\ E[5].after = s
  BY <1>3, <1>4, TipFacts, EffectsAre DEF RecordTip
<1> HIDE DEF E
<1>6. tip = None \/ tip \in anc'[tip]
  <2>1. PICK t \in Tip : t = tip /\ Made(t)
    BY TipFacts
  <2> QED BY <1>2, <2>1, MadeStays DEF LocalInv, Made
<1>7. ProgramSound("commit", E)
  <2>1. \A i \in DOMAIN E : E[i].do \notin GcName /\ E[i].do # "head" /\ (E[i].do = "mergeHead" => E[i].id = None)
    BY <1>4, <1>5 DEF GcName
  <2>2. \A i \in DOMAIN E : E[i].do = "tip" => i = 2
    BY <1>4, <1>5
  <2>3. \A i \in DOMAIN E : E[i].do = "record" => i = 5
    BY <1>4, <1>5
  <2>4. (refs[head] # None => refs[head] \in anc'[s]) /\ (mergeHead # None => mergeHead \in anc'[s])
    BY <1>2, TipFacts DEF tip
  <2> QED BY <1>2, <1>3, <1>5, <1>6, <2>1, <2>2, <2>3, <2>4 DEF ProgramSound, GcName
<1>8. KeepInv => ProgramKept(E)
  <2> SUFFICES ASSUME KeepInv PROVE ProgramKept(E)
    OBVIOUS
  <2>1. anc'[s] \subseteq Stored \cup {s} /\ (tip = None \/ anc'[tip] \subseteq Stored)
    BY <1>2, Kept
  <2>2. anc'[s] \subseteq PromisedBy(E, 2) /\ anc'[s] \subseteq PromisedBy(E, 5)
        /\ (tip = None \/ anc'[tip] \subseteq PromisedBy(E, 5))
    BY <1>5, <2>1, PutPromised
  <2>3. \A i \in DOMAIN E : (E[i].do = "tip" => i = 2) /\ (E[i].do = "record" => i = 5) /\ (E[i].do = "decided" => i = 4)
                             /\ (E[i].do = "mergeHead" => i = 3)
    BY <1>4, <1>5
  <2> QED BY <1>5, <2>2, <2>3 DEF ProgramKept
<1> QED BY <1>1, <1>2, <1>3, <1>4, <1>7, <1>8, CommandBegins DEF Kind

\* Commands that write no merge state: what they read is settled, so that what
\* they do is sound.
LEMMA AmendKeeps == ASSUME LocalInv, NEW s \in Snapshot, Amend(s) PROVE LocalInv' /\ Begun
<1> DEFINE E == <<Put(s), WriteTip(head, s), RecordTip(s)>>
<1>1. Make(s, anc[tip] \ {tip}) /\ work' = s /\ Begin("amend", E) /\ mergeHead = None /\ tip # None
  BY DEF Amend
<1>2. Grown /\ s \in anc'[s] /\ anc'[s] = {s} \cup (anc[tip] \ {tip})
  <2>1. anc[tip] \in SUBSET Snapshot /\ \A a \in anc[tip] : a \in anc[a]
    BY <1>1, TipFacts DEF LocalInv, Typed, KnownInv, Tip
  <2> QED BY <1>1, <2>1, MakeGrows DEF LocalInv
<1>3. s \in Tip /\ s \in Object
  BY DEF Tip, Object
<1>4. E \in Seq(Effect) /\ E # <<>> /\ DOMAIN E = 1..3
      /\ E[1] = Put(s) /\ E[2] = WriteTip(head, s) /\ E[3] = RecordTip(s)
  BY <1>3, TipFacts, EffectsAre DEF RecordTip
<1>5. /\ E[1].do = "put" /\ E[1].obj = s
      /\ E[2].do = "tip" /\ E[2].branch = head /\ E[2].id = s
      /\ E[3].do = "record" /\ E[3].before = tip /\ E[3].after = s
  BY <1>3, <1>4, TipFacts, EffectsAre DEF RecordTip
<1> HIDE DEF E
<1>6. tip \in anc'[tip] /\ anc'[tip] = anc[tip]
  <2>1. PICK t \in Tip : t = tip /\ Made(t)
    BY TipFacts
  <2> QED BY <1>1, <1>2, <2>1, MadeStays DEF LocalInv, Made
<1>7. ProgramSound("amend", E)
  <2>1. \A i \in DOMAIN E : E[i].do \notin GcName /\ E[i].do # "head" /\ E[i].do # "mergeHead"
    BY <1>4, <1>5 DEF GcName
  <2>2. \A i \in DOMAIN E : (E[i].do = "tip" => i = 2) /\ (E[i].do = "record" => i = 3)
    BY <1>4, <1>5
  <2> QED BY <1>1, <1>2, <1>5, <1>6, <2>1, <2>2 DEF ProgramSound, GcName
<1>8. KeepInv => ProgramKept(E)
  <2> SUFFICES ASSUME KeepInv PROVE ProgramKept(E)
    OBVIOUS
  <2>1. anc'[tip] \subseteq Stored /\ anc'[s] \subseteq Stored \cup {s}
    BY <1>1, <1>2, <1>6, Kept
  <2>2. /\ anc'[s] \subseteq PromisedBy(E, 2) /\ anc'[s] \subseteq PromisedBy(E, 3)
        /\ anc'[tip] \subseteq PromisedBy(E, 3)
    BY <1>5, <2>1, PutPromised
  <2>3. \A i \in DOMAIN E : /\ E[i].do \in {"put", "tip", "record"}
                            /\ (E[i].do = "tip" => i = 2) /\ (E[i].do = "record" => i = 3)
    BY <1>4, <1>5
  <2> QED BY <1>5, <2>2, <2>3 DEF ProgramKept
<1> QED BY <1>1, <1>2, <1>3, <1>4, <1>7, <1>8, CommandBegins DEF Kind

\* A command that makes no snapshot.
LEMMA Unmade == ASSUME LocalInv, UNCHANGED anc PROVE Grown /\ \A t \in Tip : Made(t) => t = None \/ t \in anc'[t]
BY SameGrows DEF LocalInv, Made

LEMMA BranchFacts == ASSUME LocalInv, NEW b \in Branch PROVE refs[b] \in Tip /\ Made(refs[b]) /\ (refs[b] # None => refs[b] \in Snapshot)
BY DEF LocalInv, Typed, KnownInv, Tip

LEMMA CreateBranchKeeps == ASSUME LocalInv, NEW b \in Branch, CreateBranch(b) PROVE LocalInv' /\ Begun
<1> DEFINE E == <<WriteTip(b, tip), AppendRecord(head, head, b, None, tip)>>
<1>1. refs[b] = None /\ tip # None /\ Begin("branch", E) /\ UNCHANGED <<work, anc>>
  BY DEF CreateBranch
<1>2. Grown /\ tip \in anc'[tip] /\ work' \in Tip \cup {Mixed, Marked} /\ tip \in Tip /\ None \in Tip
  BY <1>1, Unmade, TipFacts DEF LocalInv, Typed, Tip
<1>4. E \in Seq(Effect) /\ E # <<>> /\ DOMAIN E = 1..2
      /\ E[1] = WriteTip(b, tip) /\ E[2] = AppendRecord(head, head, b, None, tip)
  BY <1>2, TipFacts, EffectsAre
<1>5. /\ E[1].do = "tip" /\ E[1].branch = b /\ E[1].id = tip
      /\ E[2].do = "record" /\ E[2].before = None /\ E[2].after = tip
  BY <1>2, <1>4, TipFacts, EffectsAre
<1> HIDE DEF E
<1>6. b # head
  BY <1>1 DEF tip
<1>7. ProgramSound("branch", E)
  <2>1. \A i \in DOMAIN E : E[i].do \notin GcName /\ E[i].do # "head" /\ E[i].do # "mergeHead"
    BY <1>4, <1>5 DEF GcName
  <2>2. \A i \in DOMAIN E : (E[i].do = "tip" => i = 1) /\ (E[i].do = "record" => i = 2)
    BY <1>4, <1>5
  <2> QED BY <1>1, <1>2, <1>5, <1>6, <2>1, <2>2 DEF ProgramSound, GcName
<1>8. KeepInv => ProgramKept(E)
  <2> SUFFICES ASSUME KeepInv PROVE ProgramKept(E)
    OBVIOUS
  <2>1. anc'[tip] \subseteq PromisedBy(E, 1) /\ anc'[tip] \subseteq PromisedBy(E, 2)
    BY <1>1, <1>2, Kept, StoredPromised
  <2>2. \A i \in DOMAIN E : /\ E[i].do \in {"tip", "record"}
                            /\ (E[i].do = "tip" => i = 1) /\ (E[i].do = "record" => i = 2)
    BY <1>4, <1>5
  <2> QED BY <1>5, <2>1, <2>2 DEF ProgramKept
<1> QED BY <1>1, <1>2, <1>4, <1>7, <1>8, CommandBegins DEF Kind

LEMMA SwitchKeeps == ASSUME LocalInv, NEW b \in Branch, Switch(b) PROVE LocalInv' /\ Begun
<1>0. PICK r : r = refs[b]
  OBVIOUS
<1>3. PICK rec : rec = AppendRecord(head, b, None, None, None)
  OBVIOUS
<1> DEFINE E == <<Lay(r), WriteHead(b), rec>>
<1>1. r # None /\ mergeHead = None /\ Begin("switch", E) /\ UNCHANGED <<work, anc>>
  BY <1>0, <1>3 DEF Switch
<1>2. Grown /\ work' \in Tip \cup {Mixed, Marked} /\ r \in Snapshot \cup {Marked} /\ None \in Tip
  BY <1>0, <1>1, Unmade, BranchFacts DEF LocalInv, Typed, Tip
<1>5. rec \in Effect /\ rec.do = "record" /\ rec.before = None /\ rec.after = None
  BY <1>2, <1>3, TipFacts DEF AppendRecord, Effect
<1>6. Lay(r) \in Effect /\ Lay(r).do = "lay" /\ WriteHead(b) \in Effect /\ WriteHead(b).do = "head"
  BY <1>2, EffectsAre
<1>4. E \in Seq(Effect) /\ E # <<>> /\ DOMAIN E = 1..3
      /\ E[1].do = "lay" /\ E[2].do = "head" /\ E[3] = rec
  BY <1>5, <1>6
<1> HIDE DEF E
<1>7. ProgramSound("switch", E)
  <2>1. \A i \in DOMAIN E : E[i].do \notin GcName /\ E[i].do # "tip" /\ E[i].do # "mergeHead"
    BY <1>4, <1>5 DEF GcName
  <2>2. \A i \in DOMAIN E : E[i].do = "record" => i = 3
    BY <1>4, <1>5
  <2>3. E[3].before = None /\ E[3].after = None
    BY <1>4, <1>5
  <2> QED BY <1>1, <2>1, <2>2, <2>3 DEF ProgramSound, GcName
<1>8. ProgramKept(E)
  <2>1. \A i \in DOMAIN E : E[i].do \in {"lay", "head", "record"} /\ (E[i].do = "record" => i = 3)
    BY <1>4, <1>5
  <2>2. E[3].before = None /\ E[3].after = None
    BY <1>4, <1>5
  <2> QED BY <1>4, <2>1, <2>2 DEF ProgramKept
<1> QED BY <1>1, <1>2, <1>4, <1>7, <1>8, CommandBegins DEF Kind

LEMMA MergeForwardKeeps == ASSUME LocalInv, NEW b \in Branch, MergeForward(b) PROVE LocalInv' /\ Begun
<1>0. PICK r : r = refs[b]
  OBVIOUS
<1> DEFINE E == <<Lay(r), WriteTip(head, r), RecordTip(r)>>
<1>1. /\ r # None /\ mergeHead = None /\ Begin("merge", E) /\ UNCHANGED <<work, anc>>
      /\ tip = None \/ tip \in anc[r] \ {r}
  BY <1>0 DEF MergeForward, CanMerge
<1>2. /\ Grown /\ work' \in Tip \cup {Mixed, Marked} /\ r \in Snapshot \cup {Marked} /\ r \in Tip
      /\ r \in anc'[r] /\ (tip = None \/ tip \in anc'[tip])
  <2>1. work' \in Tip \cup {Mixed, Marked}
    BY <1>1 DEF LocalInv, Typed
  <2> QED BY <1>0, <1>1, <2>1, Unmade, BranchFacts, TipFacts DEF Tip
<1>4. E \in Seq(Effect) /\ E # <<>> /\ DOMAIN E = 1..3
      /\ E[1].do = "lay" /\ E[2] = WriteTip(head, r) /\ E[3] = RecordTip(r)
  BY <1>2, TipFacts, EffectsAre DEF RecordTip
<1>5. /\ E[2].do = "tip" /\ E[2].branch = head /\ E[2].id = r
      /\ E[3].do = "record" /\ E[3].before = tip /\ E[3].after = r
  BY <1>2, <1>4, TipFacts, EffectsAre DEF RecordTip
<1> HIDE DEF E
<1>7. ProgramSound("merge", E)
  <2>1. \A i \in DOMAIN E : E[i].do \notin GcName /\ E[i].do # "head" /\ E[i].do # "mergeHead"
    BY <1>4, <1>5 DEF GcName
  <2>2. \A i \in DOMAIN E : (E[i].do = "tip" => i = 2) /\ (E[i].do = "record" => i = 3)
    BY <1>4, <1>5
  <2>3. refs[head] # None => refs[head] \in anc'[r]
    BY <1>1 DEF tip
  <2> QED BY <1>1, <1>2, <1>5, <2>1, <2>2, <2>3 DEF ProgramSound, GcName
<1>8. KeepInv => ProgramKept(E)
  <2> SUFFICES ASSUME KeepInv PROVE ProgramKept(E)
    OBVIOUS
  <2>1. (tip = None \/ anc'[tip] \subseteq PromisedBy(E, 3)) /\ anc'[r] \subseteq PromisedBy(E, 2) /\ anc'[r] \subseteq PromisedBy(E, 3)
    BY <1>0, <1>1, <1>2, Kept, StoredPromised
  <2>2. \A i \in DOMAIN E : /\ E[i].do \in {"lay", "tip", "record"}
                            /\ (E[i].do = "tip" => i = 2) /\ (E[i].do = "record" => i = 3)
    BY <1>4, <1>5
  <2> QED BY <1>4, <1>5, <2>1, <2>2 DEF ProgramKept
<1> QED BY <1>1, <1>2, <1>4, <1>7, <1>8, CommandBegins DEF Kind

LEMMA MergeCleanKeeps == ASSUME LocalInv, NEW b \in Branch, NEW s \in Snapshot, MergeClean(b, s) PROVE LocalInv' /\ Begun
<1> DEFINE E == <<Lay(s), Put(s), WriteTip(head, s), RecordTip(s)>>
<1>1. /\ refs[b] # None /\ mergeHead = None /\ tip # None /\ Begin("merge", E) /\ work' = work
      /\ Make(s, anc[tip] \cup anc[refs[b]])
  BY DEF MergeClean, Diverged, CanMerge
<1>2. Grown /\ anc'[s] = {s} \cup anc[tip] \cup anc[refs[b]] /\ tip \in anc[tip]
  <2>1. anc[tip] \in SUBSET Snapshot /\ \A a \in anc[tip] : a \in anc[a]
    BY <1>1, TipFacts DEF LocalInv, Typed, KnownInv, Tip
  <2>2. anc[refs[b]] \in SUBSET Snapshot /\ \A a \in anc[refs[b]] : a \in anc[a]
    BY <1>1, BranchFacts DEF LocalInv, Typed, KnownInv, Tip
  <2>3. anc[tip] \cup anc[refs[b]] \in SUBSET Snapshot /\ \A a \in anc[tip] \cup anc[refs[b]] : a \in anc[a]
    BY <2>1, <2>2
  <2>4. tip \in anc[tip]
    BY <1>1, TipFacts DEF Made
  <2> QED BY <1>1, <2>3, <2>4, MakeGrows DEF LocalInv
<1>3. s \in Tip /\ s \in Object /\ s \in Snapshot \cup {Marked} /\ work' \in Tip \cup {Mixed, Marked}
  BY <1>1 DEF Tip, Object, LocalInv, Typed
<1>4. E \in Seq(Effect) /\ E # <<>> /\ DOMAIN E = 1..4
      /\ E[1].do = "lay" /\ E[2] = Put(s) /\ E[3] = WriteTip(head, s) /\ E[4] = RecordTip(s)
  BY <1>3, TipFacts, EffectsAre DEF RecordTip
<1>5. /\ E[2].do = "put" /\ E[2].obj = s
      /\ E[3].do = "tip" /\ E[3].branch = head /\ E[3].id = s
      /\ E[4].do = "record" /\ E[4].before = tip /\ E[4].after = s
  BY <1>3, <1>4, TipFacts, EffectsAre DEF RecordTip
<1> HIDE DEF E
<1>6. tip \in anc'[tip]
  <2>1. PICK t \in Tip : t = tip /\ Made(t)
    BY TipFacts
  <2> QED BY <1>1, <1>2, <2>1, MadeStays DEF LocalInv, Made
<1>7. ProgramSound("merge", E)
  <2>1. \A i \in DOMAIN E : E[i].do \notin GcName /\ E[i].do # "head" /\ E[i].do # "mergeHead"
    BY <1>4, <1>5 DEF GcName
  <2>2. \A i \in DOMAIN E : (E[i].do = "tip" => i = 3) /\ (E[i].do = "record" => i = 4)
    BY <1>4, <1>5
  <2>3. refs[head] \in anc'[s] /\ s \in anc'[s]
    BY <1>2 DEF tip
  <2>4. mergeHead = None
    BY <1>1
  <2>5. \A i \in DOMAIN E : E[i].do = "tip" =>
           /\ E[i].id \in anc'[E[i].id] /\ (refs[E[i].branch] # None => E[i].id # None /\ refs[E[i].branch] \in anc'[E[i].id])
    <3>1. s # None
      BY LocalAssumption DEF Object
    <3> QED BY <1>5, <2>2, <2>3, <3>1
  <2>6. \A i \in DOMAIN E : E[i].do = "record" => E[i].before \in anc'[E[i].before] /\ E[i].after \in anc'[E[i].after]
    BY <1>5, <1>6, <2>2, <2>3
  <2> QED BY <1>4, <2>1, <2>2, <2>4, <2>5, <2>6 DEF ProgramSound, GcName
<1>8. KeepInv => ProgramKept(E)
  <2> SUFFICES ASSUME KeepInv PROVE ProgramKept(E)
    OBVIOUS
  <2>1. PICK t : t = tip
    OBVIOUS
  <2>2. anc'[t] \subseteq Stored /\ anc'[t] = anc[t]
    <3>1. t \in Tip /\ Made(t) /\ t # None
      BY <1>1, <2>1, TipFacts
    <3> QED BY <1>2, <2>1, <3>1, Kept, MadeStays DEF LocalInv
  <2>3. anc[refs[b]] \subseteq Stored
    <3>1. PICK r : r = refs[b]
      OBVIOUS
    <3>2. r \in Tip /\ Made(r) /\ r # None
      BY <1>1, <3>1, BranchFacts
    <3>3. anc'[r] \subseteq Stored /\ anc'[r] = anc[r]
      BY <1>2, <3>1, <3>2, Kept, MadeStays DEF LocalInv
    <3> QED BY <3>1, <3>3
  <2>4. anc'[s] \subseteq Stored \cup {s}
    BY <1>2, <2>1, <2>2, <2>3
  <2>5. anc'[s] \subseteq PromisedBy(E, 3) /\ anc'[s] \subseteq PromisedBy(E, 4)
    BY <1>5, <2>4, PutPromised
  <2>6. anc'[t] \subseteq PromisedBy(E, 4)
    BY <2>2, StoredPromised
  <2>7. \A i \in DOMAIN E : /\ E[i].do \in {"lay", "put", "tip", "record"}
                            /\ (E[i].do = "tip" => i = 3) /\ (E[i].do = "record" => i = 4)
    BY <1>4, <1>5
  <2>8. E[4].before = t
    BY <1>5, <2>1
  <2> QED BY <1>4, <1>5, <2>5, <2>6, <2>7, <2>8 DEF ProgramKept
<1> QED BY <1>1, <1>2, <1>3, <1>4, <1>7, <1>8, CommandBegins DEF Kind

LEMMA MergeConflictedKeeps == ASSUME LocalInv, NEW b \in Branch, NEW t \in Tree, MergeConflicted(b, t) PROVE LocalInv' /\ Begun
<1>0. PICK r : r = refs[b]
  OBVIOUS
<1> DEFINE E == <<Put(t), Lay(Marked), WriteDecided(t), WriteMergeHead(r)>>
<1>1. r \in Tip /\ Made(r) /\ t \in Object
  BY <1>0, BranchFacts DEF Object
<1>2. Put(t) \in Effect /\ Lay(Marked) \in Effect /\ WriteDecided(t) \in Effect /\ WriteMergeHead(r) \in Effect
  BY <1>1, EffectsAre
<1>3. <<Put(t), Lay(Marked)>> \o <<WriteDecided(t), WriteMergeHead(r)>> = E
  BY <1>2, TwoAndTwo, Zenon
<1>4. Begin("merge", E) /\ UNCHANGED <<work, anc>>
  BY <1>0, <1>3 DEF MergeConflicted, StopAt
<1>5. Grown /\ work' \in Tip \cup {Mixed, Marked} /\ (r = None \/ r \in anc'[r])
  <2>1. work' \in Tip \cup {Mixed, Marked}
    BY <1>4 DEF LocalInv, Typed
  <2> QED BY <1>1, <1>4, <2>1, Unmade
<1>6. E \in Seq(Effect) /\ E # <<>> /\ DOMAIN E = 1..4
      /\ E[1] = Put(t) /\ E[2].do = "lay" /\ E[3] = WriteDecided(t) /\ E[4] = WriteMergeHead(r)
  BY <1>1, <1>2, EffectsAre
<1>7. /\ E[1].do = "put" /\ E[1].obj = t /\ E[3].do = "decided" /\ E[3].root = t
      /\ E[4].do = "mergeHead" /\ E[4].id = r
  BY <1>1, <1>6, EffectsAre
<1> HIDE DEF E
<1>8. ProgramSound("merge", E)
  <2>1. \A i \in DOMAIN E : E[i].do \notin GcName /\ E[i].do # "head" /\ E[i].do # "tip" /\ E[i].do # "record"
    BY <1>6, <1>7 DEF GcName
  <2>2. \A i \in DOMAIN E : E[i].do = "mergeHead" => i = 4
    BY <1>6, <1>7
  <2> QED BY <1>5, <1>7, <2>1, <2>2 DEF ProgramSound, GcName
<1>9. KeepInv => ProgramKept(E)
  <2> SUFFICES ASSUME KeepInv PROVE ProgramKept(E)
    OBVIOUS
  <2>1. mergeHead = None /\ r # None
    BY <1>0 DEF MergeConflicted, Diverged, CanMerge
  <2>2. anc'[r] \subseteq Stored
    BY <1>0, <1>5, <2>1, Kept
  <2>3. t \in PromisedBy(E, 3) /\ t # None
    BY <1>7, PutPromised, LocalAssumption DEF Object
  <2>4. \A i \in DOMAIN E : /\ E[i].do \in {"put", "lay", "decided", "mergeHead"}
                            /\ (E[i].do = "decided" => i = 3) /\ (E[i].do = "mergeHead" => i = 4)
    BY <1>6, <1>7
  <2>5. 3 \in 1..(4 - 1) /\ 3 < 4
    OBVIOUS
  <2> QED BY <1>7, <2>1, <2>2, <2>3, <2>4, <2>5 DEF ProgramKept
<1> QED BY <1>4, <1>5, <1>6, <1>8, <1>9, CommandBegins DEF Kind

LEMMA GcKeeps == ASSUME LocalInv, Gc PROVE LocalInv' /\ Begun
<1> DEFINE E == <<GcStep("trim"), GcStep("pack"), GcStep("loose"), GcStep("packs")>>
<1>1. Begin("gc", E) /\ UNCHANGED <<work, anc>>
  BY DEF Gc
<1>2. Grown /\ work' \in Tip \cup {Mixed, Marked}
  BY <1>1, Unmade DEF LocalInv, Typed
<1>3. E \in Seq(Effect) /\ E # <<>> /\ DOMAIN E = 1..4
      /\ E[1].do = "trim" /\ E[2].do = "pack" /\ E[3].do = "loose" /\ E[4].do = "packs"
  BY EffectsAre DEF GcName
<1> HIDE DEF E
<1>4. ProgramSound("gc", E)
  <2>1. \A i \in DOMAIN E : E[i].do \in GcName
    BY <1>3 DEF GcName
  <2>2. \A i \in DOMAIN E : (E[i].do = "trim" => i = 1) /\ (E[i].do = "pack" => i = 2)
    BY <1>3
  <2> QED BY <1>3, <2>1, <2>2 DEF ProgramSound, GcName
<1>5. ProgramKept(E)
  <2>1. \A i \in DOMAIN E : E[i].do \in GcName
    BY <1>3 DEF GcName
  <2> QED BY <1>3, <2>1 DEF ProgramKept, GcName
<1> QED BY <1>1, <1>2, <1>3, <1>4, <1>5, CommandBegins DEF Kind

\* merge --abort lays the tip out, if there is one, and clears the merge state.
LEMMA MergeAbortKeeps == ASSUME LocalInv, MergeAbort PROVE LocalInv' /\ Begun
<1>0. None \in Tip /\ None \in Tree \cup {None}
  BY DEF Tip
<1>1. Grown /\ work' \in Tip \cup {Mixed, Marked}
  BY Unmade DEF LocalInv, Typed, MergeAbort
<1>2. PICK clear \in Effect, root \in Effect :
         clear = WriteMergeHead(None) /\ root = WriteDecided(None) /\ clear.do = "mergeHead" /\ clear.id = None
         /\ root.do = "decided" /\ root.root = None
  BY <1>0, EffectsAre
<1>3. CASE tip = None
  <2> DEFINE E == <<clear, root>>
  <2>1. E \in Seq(Effect) /\ E # <<>> /\ DOMAIN E = 1..2 /\ E[1] = clear /\ E[2] = root
    OBVIOUS
  <2>2. Begin("abort", <<>> \o E)
    BY <1>2, <1>3 DEF MergeAbort, ClearMerge
  <2> HIDE DEF E
  <2>3. Begin("abort", E)
    BY <2>1, <2>2, ConcatEmptySeq
  <2>4. ProgramSound("abort", E)
    <3>1. \A i \in DOMAIN E : E[i].do \in {"mergeHead", "decided"} /\ (E[i].do = "mergeHead" => E[i].id = None)
      BY <1>2, <2>1
    <3> QED BY <3>1 DEF ProgramSound, GcName
  <2>5. ProgramKept(E)
    <3>1. \A i \in DOMAIN E : /\ E[i].do \in {"mergeHead", "decided"} /\ (E[i].do = "mergeHead" => E[i].id = None)
                              /\ E[i].do = "decided" => i = 2 /\ E[i].root = None
      BY <1>2, <2>1
    <3>2. 1 \in 1..(2 - 1) /\ E[1].do = "mergeHead"
      BY <1>2, <2>1
    <3>3. \A i \in DOMAIN E : E[i].do = "decided" => E[i].root = None /\ \E j \in 1..(i - 1) : E[j].do = "mergeHead"
      BY <3>1, <3>2
    <3> QED BY <3>1, <3>2, <3>3, Zenon DEF ProgramKept
  <2> QED BY <1>1, <2>1, <2>3, <2>4, <2>5, CommandBegins DEF Kind
<1>4. CASE tip # None
  <2>1. PICK lay \in Effect : lay = Lay(tip) /\ lay.do = "lay"
    BY <1>4, TipFacts, EffectsAre DEF Tip
  <2> DEFINE E == <<lay, clear, root>>
  <2>2. E \in Seq(Effect) /\ E # <<>> /\ DOMAIN E = 1..3 /\ E[1] = lay /\ E[2] = clear /\ E[3] = root
    OBVIOUS
  <2>3. <<lay>> \o <<clear, root>> = E
    BY OneAndTwo, Zenon
  <2>4. Begin("abort", <<lay>> \o <<clear, root>>)
    BY <1>2, <1>4, <2>1 DEF MergeAbort, ClearMerge
  <2> HIDE DEF E
  <2>5. ProgramSound("abort", E)
    <3>1. \A i \in DOMAIN E : E[i].do \in {"lay", "mergeHead", "decided"} /\ (E[i].do = "mergeHead" => E[i].id = None)
      BY <1>2, <2>1, <2>2
    <3> QED BY <3>1 DEF ProgramSound, GcName
  <2>6. ProgramKept(E)
    <3>1. \A i \in DOMAIN E : /\ E[i].do \in {"lay", "mergeHead", "decided"} /\ (E[i].do = "mergeHead" => E[i].id = None)
                              /\ E[i].do = "decided" => i = 3 /\ E[i].root = None
      BY <1>2, <2>1, <2>2
    <3>2. 2 \in 1..(3 - 1) /\ E[2].do = "mergeHead" /\ E[1].do = "lay"
      BY <1>2, <2>1, <2>2
    <3>3. \A i \in DOMAIN E : E[i].do = "decided" => E[i].root = None /\ \E j \in 1..(i - 1) : E[j].do = "mergeHead"
      BY <3>1, <3>2
    <3> QED BY <3>1, <3>2, <3>3, Zenon DEF ProgramKept
  <2> QED BY <1>1, <2>2, <2>3, <2>4, <2>5, <2>6, CommandBegins DEF Kind
<1> QED BY <1>3, <1>4

\* Parts of a program, one after the other: whatever else they do, only the first
\* may write a tip.
TipFirst(E) == \A i \in DOMAIN E : E[i].do = "tip" => i = 1

LEMMA PartsJoin ==
    ASSUME NEW S, NEW x \in Seq(S), NEW y \in Seq(S), TipFirst(x), \A i \in DOMAIN y : y[i].do # "tip"
    PROVE  x \o y \in Seq(S) /\ TipFirst(x \o y)
<1>1. /\ x \o y \in Seq(S) /\ Len(x \o y) = Len(x) + Len(y) /\ Len(x) \in Nat /\ Len(y) \in Nat
      /\ DOMAIN x = 1..Len(x) /\ DOMAIN y = 1..Len(y)
      /\ \A i \in 1..(Len(x) + Len(y)) : (x \o y)[i] = IF i <= Len(x) THEN x[i] ELSE y[i - Len(x)]
  BY ConcatProperties, LenProperties
<1>2. DOMAIN (x \o y) = 1..(Len(x) + Len(y))
  BY <1>1, LenProperties
<1>3. ASSUME NEW i \in 1..(Len(x) + Len(y)), (x \o y)[i].do = "tip" PROVE i = 1
  <2>1. CASE i <= Len(x)
    BY <1>1, <1>3, <2>1 DEF TipFirst
  <2>2. CASE i > Len(x)
    <3>1. i - Len(x) \in 1..Len(y) /\ (x \o y)[i] = y[i - Len(x)]
      BY <1>1, <2>2
    <3> QED BY <1>1, <1>3, <3>1
  <2> QED BY <1>1, <2>1, <2>2
<1> QED BY <1>1, <1>2, <1>3 DEF TipFirst

\* The effects of the undo of a record.
UndoEffect(rec) ==
    {e \in Effect : /\ e.do \in {"tip", "head", "lay", "record"}
                    /\ e.do = "tip" => e.id = rec.before
                    /\ e.do = "record" => e.before = rec.after /\ e.after = rec.before}

LEMMA UndoBegins ==
    ASSUME LocalInv, Undo
    PROVE  /\ mergeHead = None /\ UNCHANGED <<work, anc>> /\ LastRecord \in Logged /\ LastRecord \in Record
           /\ \E E \in Seq(UndoEffect(LastRecord)) : E # <<>> /\ TipFirst(E) /\ Begin("undo", E)
<1>1. ReadAll # <<>> /\ mergeHead = None /\ UNCHANGED <<work, anc>>
  BY DEF Undo
<1>2. LastRecord \in Logged /\ LastRecord \in Record
  <2>1. ReadAll \in Seq(Record) /\ Len(ReadAll) \in 1..Len(ReadAll) /\ DOMAIN ReadAll = 1..Len(ReadAll)
    BY <1>1, LogFacts, EmptySeq, LenProperties DEF LocalInv
  <2> QED BY <2>1, ElementOfSeq DEF LastRecord, Logged
<1>3. PICK rec \in Record : rec = LastRecord
  BY <1>2
<1>4. /\ rec.from \in Branch /\ rec.to \in Branch /\ rec.branch \in Branch \cup {None}
      /\ rec.before \in Tip /\ rec.after \in Tip
  BY <1>3 DEF Record
<1> DEFINE movesTip == rec.branch = rec.from /\ rec.before # rec.after
           willBe == IF rec.branch = rec.from THEN rec.before ELSE refs[rec.from]
           lays == rec.from # rec.to \/ movesTip
           S == UndoEffect(rec)
           tipPart == IF rec.branch = None THEN <<>> ELSE <<WriteTip(rec.branch, rec.before)>>
           headPart == IF rec.from = rec.to THEN <<>> ELSE <<WriteHead(rec.from)>>
           layPart == IF lays THEN <<Lay(willBe)>> ELSE <<>>
           recordPart == <<AppendRecord(rec.to, rec.from, rec.branch, rec.after, rec.before)>>
<1>5. Begin("undo", tipPart \o headPart \o layPart \o recordPart) /\ (lays => willBe # None)
  BY <1>3 DEF Undo
<1>6. lays => Lay(willBe) \in S /\ Lay(willBe).do = "lay"
  <2>1. willBe \in Tip
    BY <1>4 DEF LocalInv, Typed
  <2>2. lays => willBe \in Snapshot \cup {Marked}
    BY <1>5, <2>1 DEF Tip
  <2> HIDE DEF lays, willBe
  <2> QED BY <2>2, EffectsAre DEF UndoEffect
<1>7. rec.branch # None => WriteTip(rec.branch, rec.before) \in S
  BY <1>4, EffectsAre DEF UndoEffect
<1>8. WriteHead(rec.from) \in S /\ WriteHead(rec.from).do = "head"
  BY <1>4, EffectsAre DEF UndoEffect
<1>9. /\ AppendRecord(rec.to, rec.from, rec.branch, rec.after, rec.before) \in S
      /\ AppendRecord(rec.to, rec.from, rec.branch, rec.after, rec.before).do = "record"
  BY <1>4 DEF UndoEffect, AppendRecord, Effect
<1> HIDE DEF lays, willBe, S
<1>10. <<>> \in Seq(S) /\ TipFirst(<<>>) /\ \A i \in DOMAIN <<>> : <<>>[i].do # "tip"
  BY EmptySeq DEF TipFirst
<1>11. \A e \in S : /\ <<e>> \in Seq(S) /\ TipFirst(<<e>>)
                    /\ e.do # "tip" => \A i \in DOMAIN <<e>> : <<e>>[i].do # "tip"
  BY DEF TipFirst
<1>12. tipPart \in Seq(S) /\ TipFirst(tipPart)
  BY <1>7, <1>10, <1>11
<1>13. headPart \in Seq(S) /\ \A i \in DOMAIN headPart : headPart[i].do # "tip"
  BY <1>8, <1>10, <1>11
<1>14. layPart \in Seq(S) /\ \A i \in DOMAIN layPart : layPart[i].do # "tip"
  BY <1>6, <1>10, <1>11
<1>15. recordPart \in Seq(S) /\ \A i \in DOMAIN recordPart : recordPart[i].do # "tip"
  BY <1>9, <1>11
<1>16. recordPart # <<>>
  OBVIOUS
<1> HIDE DEF tipPart, headPart, layPart, recordPart
<1>17. tipPart \o headPart \in Seq(S) /\ TipFirst(tipPart \o headPart)
  BY <1>12, <1>13, PartsJoin
<1>18. tipPart \o headPart \o layPart \in Seq(S) /\ TipFirst(tipPart \o headPart \o layPart)
  BY <1>14, <1>17, PartsJoin
<1>19. tipPart \o headPart \o layPart \o recordPart \in Seq(S) /\ TipFirst(tipPart \o headPart \o layPart \o recordPart)
  BY <1>15, <1>18, PartsJoin
<1>20. tipPart \o headPart \o layPart \o recordPart # <<>>
  BY <1>15, <1>16, <1>18, ConcatEqualIffEmpty
<1> QED BY <1>1, <1>2, <1>3, <1>5, <1>19, <1>20 DEF S

LEMMA UndoKeeps == ASSUME LocalInv, Undo PROVE LocalInv' /\ Begun
<1>1. PICK rec \in Record : rec = LastRecord /\ rec \in Logged
  BY UndoBegins
<1>2. PICK E \in Seq(UndoEffect(rec)) : E # <<>> /\ TipFirst(E) /\ Begin("undo", E)
  BY <1>1, UndoBegins
<1>3. mergeHead = None /\ Grown /\ work' \in Tip \cup {Mixed, Marked}
  BY UndoBegins, Unmade DEF LocalInv, Typed
<1>4. Made(rec.before) /\ Made(rec.after) /\ rec.before \in Tip /\ rec.after \in Tip
  BY <1>1, ReadKnown DEF Logged, Record
<1>5. (rec.before = None \/ rec.before \in anc'[rec.before]) /\ (rec.after = None \/ rec.after \in anc'[rec.after])
  BY <1>4, UndoBegins DEF Made
<1>6. \A i \in DOMAIN E : E[i] \in UndoEffect(rec)
  BY LenProperties, ElementOfSeq
<1>7. E \in Seq(Effect)
  <2>1. UndoEffect(rec) \subseteq Effect
    BY DEF UndoEffect
  <2> QED BY <2>1, SeqMonotonic
<1>8. ProgramSound("undo", E)
  <2>1. \A i \in DOMAIN E : E[i].do \notin GcName /\ E[i].do # "mergeHead"
    BY <1>6 DEF UndoEffect, GcName
  <2>2. \A i \in DOMAIN E : E[i].do = "tip" => i = 1 /\ E[i].id = rec.before
    BY <1>2, <1>6 DEF UndoEffect, TipFirst
  <2>3. \A i \in DOMAIN E : E[i].do = "record" => E[i].before = rec.after /\ E[i].after = rec.before
    BY <1>6 DEF UndoEffect
  <2> QED BY <1>3, <1>5, <2>1, <2>2, <2>3 DEF ProgramSound, GcName
<1>9. KeepInv => ProgramKept(E)
  <2> SUFFICES ASSUME KeepInv PROVE ProgramKept(E)
    OBVIOUS
  <2>1. rec.before \in Roots /\ rec.after \in Roots
    BY <1>1 DEF Roots
  <2>2. \A i : /\ rec.before = None \/ anc'[rec.before] \subseteq PromisedBy(E, i)
               /\ rec.after = None \/ anc'[rec.after] \subseteq PromisedBy(E, i)
    BY <1>3, <2>1, Kept, StoredPromised
  <2>3. \A i \in DOMAIN E : /\ E[i].do \in {"tip", "head", "lay", "record"}
                            /\ E[i].do = "tip" => E[i].id = rec.before
                            /\ E[i].do = "record" => E[i].before = rec.after /\ E[i].after = rec.before
    BY <1>6 DEF UndoEffect
  <2>4. 1 \in DOMAIN E
    BY <1>2, <1>7, EmptySeq, LenProperties
  <2>5. \A i \in DOMAIN E : E[i].do = "tip" => E[i].id = None \/ anc'[E[i].id] \subseteq PromisedBy(E, i)
    BY <2>2, <2>3, Zenon
  <2>6. \A i \in DOMAIN E : E[i].do = "record" =>
           /\ E[i].before = None \/ anc'[E[i].before] \subseteq PromisedBy(E, i)
           /\ E[i].after = None \/ anc'[E[i].after] \subseteq PromisedBy(E, i)
    BY <2>2, <2>3, Zenon
  <2>7. \A i \in DOMAIN E : E[i].do \notin {"decided", "mergeHead", "loose", "packs"}
    BY <2>3
  <2> QED BY <2>4, <2>5, <2>6, <2>7 DEF ProgramKept
<1> QED BY <1>2, <1>3, <1>7, <1>8, <1>9, CommandBegins DEF Kind

-----------------------------------------------------------------------------
(* What holds of every behaviour                                             *)

LEMMA InitHolds == Init => LocalInv
<1> SUFFICES ASSUME Init PROVE LocalInv
  OBVIOUS
<1>1. <<>> \in Seq(Record \cup {Torn}) /\ <<>> \in Seq(Effect) /\ DOMAIN <<>> = {}
  BY EmptySeq
<1>2. Typed
  <2>1. cmd \in CommandRecord
    BY <1>1 DEF Init, NoCommand, CommandRecord
  <2>2. push \in [Pusher -> PushState]
    BY NoPushTyped DEF Init
  <2>3. head \in Branch /\ windows \in 0..MaxWindows
    BY LocalAssumption DEF Init
  <2> QED BY <1>1, <2>1, <2>2, <2>3 DEF Init, Typed, Tip, Idle
<1>3. KnownInv /\ LogInv /\ StopInv /\ CompletionExtendsStop
  BY <1>1, LocalAssumption DEF Init, KnownInv, KnownLog, Made, LogInv, StopInv, CompletionExtendsStop, Object
<1>4. PushInv
  BY DEF Init, PushInv, Pushing, NoPush
<1>5. CommandInv
  BY <1>1 DEF Init, CommandInv, NoCommand
<1> QED BY <1>2, <1>3, <1>4, <1>5 DEF LocalInv

LEMMA NextHolds == LocalInv /\ [Next]_vars => LocalInv'
<1> SUFFICES ASSUME LocalInv, [Next]_vars PROVE LocalInv'
  OBVIOUS
<1>1. CASE Command
  BY <1>1, CommitKeeps, AmendKeeps, CreateBranchKeeps, SwitchKeeps, MergeForwardKeeps, MergeCleanKeeps,
     MergeConflictedKeeps, MergeAbortKeeps, UndoKeeps, GcKeeps DEF Command
<1>2. CASE EffectStep
  BY <1>2, QuietEffects, TipStepKeeps, HeadStepKeeps, MergeHeadStepKeeps, RecordStepKeeps, TrimKeeps, GcEffects
     DEF EffectStep
<1>3. CASE Crash
  BY <1>3, CrashKeeps
<1>4. CASE Tick
  BY <1>4, TickKeeps
<1>5. ASSUME NEW p \in Pusher, PushStep(p) PROVE LocalInv'
  BY <1>5, BeginPushKeeps, ProbeKeeps, PutPackKeeps, UpdateRefKeeps, GiveUpKeeps DEF PushStep
<1>6. CASE UNCHANGED vars
  <2>1. UNCHANGED <<refs, head, mergeHead, decided, oplog, work, loose, fresh, packs, cmd, push, windows, anc, outside, logged, stop>>
    BY <1>6 DEF vars, disk, store, history
  <2>2. Grown
    BY <2>1, SameGrows DEF LocalInv
  <2>3. Typed'
    BY <2>1 DEF LocalInv, Typed, Idle
  <2>4. CommandInv' /\ PushInv' /\ \A s \in outside' : s \in Snapshot /\ s \in anc'[s]
    BY <2>1, <2>2, SoundSame, PushFrame, SameOutside DEF LocalInv
  <2> QED BY <2>1, <2>2, <2>3, <2>4, QuietKeeps
<1> QED BY <1>1, <1>2, <1>3, <1>4, <1>5, <1>6 DEF Next

\* What the command, the pushes and the log say fits the refs, HEAD and the stopped
\* merge in every state of every behaviour.
THEOREM LocalInvariant == Spec => []LocalInv
BY InitHolds, NextHolds, PTL DEF Spec

\* Type correctness: refs, HEAD, the merge state, the log, the objects, the command
\* and the pushes are always of the kinds the code reads and writes; only the last
\* block of the log can be torn (record cuts a torn tail off).
THEOREM LocalTypeCorrect == Spec => []LocalTypeOK
<1>1. LocalInv => LocalTypeOK
  <2> SUFFICES ASSUME LocalInv PROVE LocalTypeOK
    OBVIOUS
  <2>1. \A i \in DOMAIN oplog : oplog[i] \in Record \/ (i = Len(oplog) /\ oplog[i] = Torn)
    <3>1. oplog \in Seq(Record \cup {Torn}) /\ DOMAIN oplog = 1..Len(oplog) /\ Len(oplog) \in Nat
      BY LenProperties DEF LocalInv, Typed
    <3>2. \A i \in DOMAIN oplog : oplog[i] \in Record \cup {Torn}
      BY <3>1, ElementOfSeq
    <3>3. \A i \in DOMAIN oplog : i < Len(oplog) => oplog[i] # Torn
      BY DEF LocalInv, Typed
    <3> QED BY <3>1, <3>2, <3>3
  <2>2. \A i \in DOMAIN cmd.todo : cmd.todo[i] \in Effect
    BY TodoTyped DEF LocalInv
  <2> QED BY <2>1, <2>2 DEF LocalInv, Typed, LocalTypeOK, CommandRecord
<1> QED BY <1>1, LocalInvariant, PTL

\* When no command runs, the record the next undo would read is the one of the last
\* command that ended, whatever gc trimmed and whatever tail a crash tore (record,
\* trim_older_than, read_all).
THEOREM LastIsLogged == Spec => []LastOperationIsLogged
<1>1. LocalInv => LastOperationIsLogged
  BY DEF LocalInv, LogInv, LastOperationIsLogged
<1> QED BY <1>1, LocalInvariant, PTL

\* While a merge is stopped the tip it was decided on is the tip of HEAD, or the
\* completing commit is: no push gets in between (update_ref).
THEOREM StopKeepsItsTip == Spec => []CompletionExtendsStop
<1>1. LocalInv => CompletionExtendsStop
  BY DEF LocalInv
<1> QED BY <1>1, LocalInvariant, PTL

\* No step but one of amend or undo takes a branch anywhere but forward: neither a
\* merge nor a push, which compares the tip again under the lock (update_ref).
THEOREM BranchesMoveForward == Spec => OnlyEditingRewinds
<1> DEFINE Forward ==
      \A b \in Branch : refs[b] # None /\ refs'[b] # refs[b] =>
         \/ refs'[b] # None /\ refs[b] \in anc[refs'[b]]
         \/ cmd.kind \in {"amend", "undo"}
<1>1. LocalInv /\ [Next]_vars => [Forward]_vars
  <2> SUFFICES ASSUME LocalInv, Next, NEW b \in Branch, refs[b] # None, refs'[b] # refs[b],
                      cmd.kind \notin {"amend", "undo"}
               PROVE  refs'[b] # None /\ refs[b] \in anc[refs'[b]]
    OBVIOUS
  <2>1. CASE TipStep
    <3>1. PICK e \in Effect : e = cmd.todo[1] /\ e = Head(cmd.todo) /\ e.do = "tip"
      BY <2>1, HeadFacts DEF TipStep, LocalInv
    <3>2. 1 \in DOMAIN cmd.todo /\ refs' = [refs EXCEPT ![e.branch] = e.id]
      BY <2>1, <3>1, HeadFacts DEF TipStep, LocalInv
    <3>3. refs[e.branch] # None => e.id # None /\ refs[e.branch] \in anc[e.id]
      BY <3>1, <3>2 DEF LocalInv, CommandInv, EffectSound, TipSound
    <3>4. b = e.branch /\ refs'[b] = e.id
      BY <3>2 DEF LocalInv, Typed
    <3> QED BY <3>3, <3>4
  <2>2. ASSUME NEW p \in Pusher, UpdateRef(p) PROVE refs'[b] # None /\ refs[b] \in anc[refs'[b]]
    <3>1. Pushing(p) /\ TipUnmoved(p) /\ refs' = [refs EXCEPT ![push[p].branch] = push[p].new]
      BY <2>2 DEF UpdateRef
    <3>2. /\ push[p].branch \in Branch /\ push[p].new # None
          /\ push[p].old # None => push[p].old \in anc[push[p].new]
      BY <3>1 DEF LocalInv, PushInv, Pushing
    <3>3. b = push[p].branch /\ refs'[b] = push[p].new
      BY <3>1, <3>2 DEF LocalInv, Typed
    <3> QED BY <3>1, <3>2, <3>3 DEF TipUnmoved
  <2>3. ~TipStep /\ (\A p \in Pusher : ~UpdateRef(p)) => refs' = refs
    <3> SUFFICES ASSUME ~TipStep, \A p \in Pusher : ~UpdateRef(p) PROVE refs' = refs
      OBVIOUS
    <3>1. CASE Command
      <4>1. \A kind, E : Begin(kind, E) => refs' = refs
        BY DEF Begin
      <4> QED BY <3>1, <4>1 DEF Command, Commit, Amend, CreateBranch, Switch, MergeForward, MergeClean,
                                MergeConflicted, MergeAbort, Undo, Gc
    <3>2. CASE EffectStep
      BY <3>2 DEF EffectStep, PutStep, LayStep, HeadStep, DecidedStep, MergeHeadStep, RecordStep, Trim, Pack,
                  EndOfList, PruneLoose, DropPack, disk
    <3>3. CASE Crash \/ Tick
      BY <3>3 DEF Crash, Tick, disk
    <3>4. ASSUME NEW p \in Pusher, PushStep(p) PROVE refs' = refs
      BY <3>4 DEF PushStep, BeginPush, Probe, PutPack, GiveUp
    <3> QED BY <3>1, <3>2, <3>3, <3>4 DEF Next
  <2> QED BY <2>1, <2>2, <2>3
<1>2. Spec => [][Next]_vars
  BY PTL DEF Spec
<1> QED BY <1>1, <1>2, LocalInvariant, PTL DEF OnlyEditingRewinds

-----------------------------------------------------------------------------
(* What can be reached stays stored                                          *)

\* Either nobody pushes into the repository, or gc spares what a push counts on.
Undisturbed == Pusher = {} \/ "spared" \in Environment

\* A branch, HEAD, the merge state and the log name what they named: the same can
\* be reached.
LEMMA ReachSame ==
    ASSUME LocalInv, Grown, UNCHANGED <<refs, mergeHead, decided>>, Logged' = Logged
    PROVE  Reachable' = Reachable
<1>1. Roots' = Roots /\ DecidedTree' = DecidedTree
  BY DEF Roots, DecidedTree
<1>2. PICK R : R = Roots
  OBVIOUS
<1>3. \A r \in R \ {None} : anc'[r] = anc[r]
  BY <1>2, Named, MadeStays DEF LocalInv
<1>4. Closure(R)' = Closure(R)
  BY <1>3 DEF Closure
<1> QED BY <1>1, <1>2, <1>4 DEF Reachable

\* A step names no more than it named, and what is in A.
LEMMA ReachGrows ==
    ASSUME LocalInv, UNCHANGED anc, NEW A,
           \A r \in Roots' : r \in Roots \/ r = None \/ anc[r] \subseteq A,
           DecidedTree' \subseteq DecidedTree \cup A
    PROVE  Reachable' \subseteq Reachable \cup A
<1>1. PICK R : R = Roots'
  OBVIOUS
<1>2. PICK old : old = Roots
  OBVIOUS
<1>3. Closure(R) \subseteq Closure(old) \cup A
  <2> SUFFICES ASSUME NEW r \in R \ {None}, NEW a \in anc[r] PROVE a \in Closure(old) \cup A
    BY DEF Closure
  <2>1. r \in old \/ anc[r] \subseteq A
    BY <1>1, <1>2
  <2> QED BY <2>1 DEF Closure
<1>4. Closure(R)' = Closure(R)
  BY DEF Closure
<1>5. Closure(Roots)' = Closure(R)'
  BY <1>1 DEF Closure
<1>6. Reachable' = Closure(Roots)' \cup DecidedTree'
  BY DEF Reachable
<1>7. Reachable = Closure(old) \cup DecidedTree
  BY <1>2 DEF Reachable
<1> QED BY <1>3, <1>4, <1>5, <1>6, <1>7

LEMMA LoggedSame == ReadAll' = ReadAll => Logged' = Logged
BY DEF Logged

\* What the pushes count on, when none of them moves.
LEMMA CountedSame ==
    ASSUME LocalInv, Grown, UNCHANGED push
    PROVE  Counted' = Counted
<1>1. \A p \in Pusher : push[p].new # None => anc'[push[p].new] = anc[push[p].new]
  <2> SUFFICES ASSUME NEW p \in Pusher, push[p].new # None PROVE anc'[push[p].new] = anc[push[p].new]
    OBVIOUS
  <2>1. PICK s \in Tip : s = push[p].new /\ Made(s)
    BY DEF LocalInv, PushInv, Pushing, Typed, PushState
  <2> QED BY <2>1, MadeStays DEF LocalInv
<1> QED BY <1>1 DEF Counted, Pushing

\* What is stored stays so, unless gc deletes.
LEMMA EffectsShift ==
    ASSUME LocalInv, EffectsKept, Shifted, Grown, cmd.todo # <<>>, Stored \subseteq Stored',
           cmd.todo[1].do = "put" => cmd.todo[1].obj \in Stored',
           decided' = IF cmd.todo[1].do = "decided" THEN cmd.todo[1].root ELSE decided,
           mergeHead' = IF cmd.todo[1].do = "mergeHead" THEN cmd.todo[1].id ELSE mergeHead
    PROVE  EffectsKept'
<1> USE DEF LocalInv
<1> SUFFICES ASSUME NEW i \in DOMAIN cmd'.todo PROVE EffectKept(i)'
  BY DEF EffectsKept
<1>0. 1 \in DOMAIN cmd.todo
  <2>1. Len(cmd.todo) \in Nat \ {0}
    BY TailShifts
  <2> QED BY <2>1, TodoTyped
<1>1. /\ i \in Nat \ {0} /\ i + 1 \in DOMAIN cmd.todo /\ cmd'.todo[i] = cmd.todo[i + 1] /\ i + 1 # 1 /\ i = (i + 1) - 1
      /\ \A j \in DOMAIN cmd'.todo : j \in Nat \ {0} /\ j + 1 \in DOMAIN cmd.todo /\ cmd'.todo[j] = cmd.todo[j + 1]
  BY DEF Shifted
<1>e. PICK e \in Effect : e = cmd.todo[i + 1]
  BY <1>1, TodoTyped
<1>f. PICK f \in Effect : f = cmd.todo[1]
  BY <1>0, TodoTyped
<1>2. EffectKept(1) /\ EffectKept(i + 1) /\ EffectSound(i + 1) /\ EffectSound(1)
  BY <1>0, <1>1 DEF EffectsKept, CommandInv
<1>p. PICK todo : todo = cmd'.todo
  OBVIOUS
<1>3. \A k \in 1..i : k # 1 => k - 1 \in 1..(i - 1) /\ cmd.todo[k] = todo[k - 1]
  <2> SUFFICES ASSUME NEW k \in 1..i, k # 1 PROVE k - 1 \in 1..(i - 1) /\ cmd.todo[k] = todo[k - 1]
    OBVIOUS
  <2>1. k \in DOMAIN cmd.todo /\ k - 1 \in 1..(i - 1)
    BY <1>1, TodoTyped
  <2> QED BY <1>p, <2>1 DEF Shifted
<1>4. PromisedBy(cmd.todo, i + 1) \subseteq PromisedBy(todo, i)'
  <2> SUFFICES ASSUME NEW k \in 1..i, cmd.todo[k].do = "put"
               PROVE  cmd.todo[k].obj \in Stored' \cup {todo[j].obj : j \in {m \in 1..(i - 1) : todo[m].do = "put"}}
    BY <1>1 DEF PromisedBy
  <2>1. CASE k = 1
    BY <2>1
  <2>2. CASE k # 1
    BY <1>3, <2>2
  <2> QED BY <2>1, <2>2
<1>5. e.do = "tip" => AncOf(e.id)' \subseteq PromisedBy(todo, i)'
  <2>1. e.do = "tip" => AncOf(e.id)' = AncOf(e.id)
    BY <1>e, <1>2, EffectFields, MadeStays DEF EffectSound, TipSound, AncOf
  <2> QED BY <1>e, <1>2, <1>4, <2>1 DEF EffectKept
<1>6. e.do = "record" => (AncOf(e.before) \cup AncOf(e.after))' \subseteq PromisedBy(todo, i)'
  <2>1. e.do = "record" => AncOf(e.before)' = AncOf(e.before) /\ AncOf(e.after)' = AncOf(e.after)
    BY <1>e, <1>2, EffectFields, MadeStays DEF EffectSound, AncOf
  <2> QED BY <1>e, <1>2, <1>4, <2>1 DEF EffectKept
<1>7. e.do = "decided" /\ e.root # None => e.root \in PromisedBy(todo, i)' /\ mergeHead' = None
  <2> SUFFICES ASSUME e.do = "decided", e.root # None PROVE e.root \in PromisedBy(todo, i)' /\ mergeHead' = None
    OBVIOUS
  <2>1. e.root \in PromisedBy(cmd.todo, i + 1) /\ mergeHead = None
    BY <1>e, <1>2 DEF EffectKept
  <2>2. f.do = "mergeHead" => f.id = None
    BY <1>e, <1>f, <1>1, <1>2 DEF EffectKept
  <2> QED BY <1>f, <1>4, <2>1, <2>2
<1>8. e.do = "decided" /\ e.root = None => mergeHead' = None \/ \E j \in 1..(i - 1) : todo[j].do = "mergeHead"
  <2> SUFFICES ASSUME e.do = "decided", e.root = None PROVE mergeHead' = None \/ \E j \in 1..(i - 1) : todo[j].do = "mergeHead"
    OBVIOUS
  <2>1. mergeHead = None \/ \E k \in 1..i : cmd.todo[k].do = "mergeHead"
    BY <1>e, <1>1, <1>2 DEF EffectKept
  <2>2. f.do = "mergeHead" => f.id = None
    BY <1>e, <1>f, <1>1, <1>2 DEF EffectKept
  <2>3. CASE f.do = "mergeHead"
    BY <1>f, <2>2, <2>3
  <2>4. CASE f.do # "mergeHead"
    <3>1. CASE mergeHead = None
      BY <1>f, <2>4, <3>1
    <3>2. ASSUME NEW k \in 1..i, cmd.todo[k].do = "mergeHead" PROVE \E j \in 1..(i - 1) : todo[j].do = "mergeHead"
      <4>1. k # 1
        BY <1>f, <2>4, <3>2
      <4> QED BY <1>3, <3>2, <4>1
    <3> QED BY <2>1, <3>1, <3>2
  <2> QED BY <2>3, <2>4
<1>9. e.do = "mergeHead" /\ e.id # None =>
          /\ anc'[e.id] \subseteq Stored'
          /\ decided' \in Tree \cap Stored' \/ \E j \in 1..(i - 1) : todo[j].do = "decided"
          /\ \A j \in DOMAIN todo : todo[j].do = "decided" => j < i /\ todo[j].root # None
          /\ \A j \in DOMAIN todo : todo[j].do = "mergeHead" => j = i
  <2> SUFFICES ASSUME e.do = "mergeHead", e.id # None
               PROVE  /\ anc'[e.id] \subseteq Stored'
                      /\ decided' \in Tree \cap Stored' \/ \E j \in 1..(i - 1) : todo[j].do = "decided"
                      /\ \A j \in DOMAIN todo : todo[j].do = "decided" => j < i /\ todo[j].root # None
                      /\ \A j \in DOMAIN todo : todo[j].do = "mergeHead" => j = i
    OBVIOUS
  <2>1. /\ anc[e.id] \subseteq Stored
        /\ decided \in Tree \cap Stored \/ \E k \in 1..i : cmd.todo[k].do = "decided"
        /\ \A j \in DOMAIN cmd.todo : cmd.todo[j].do = "decided" => j < i + 1 /\ cmd.todo[j].root # None
        /\ \A j \in DOMAIN cmd.todo : cmd.todo[j].do = "mergeHead" => j = i + 1
    BY <1>e, <1>1, <1>2 DEF EffectKept
  <2>2. anc'[e.id] = anc[e.id]
    BY <1>e, <1>2, EffectFields, MadeStays DEF EffectSound
  <2>3. \A j \in DOMAIN todo : todo[j].do = "decided" => j < i /\ todo[j].root # None
    BY <1>p, <1>1, <2>1
  <2>4. \A j \in DOMAIN todo : todo[j].do = "mergeHead" => j = i
    BY <1>p, <1>1, <2>1
  <2>5. decided' \in Tree \cap Stored' \/ \E j \in 1..(i - 1) : todo[j].do = "decided"
    <3>1. CASE f.do = "decided"
      <4>1. f.root # None /\ f.root \in Tree \cup {None}
        BY <1>0, <1>f, <2>1, <3>1, EffectFields
      <4>2. f.root \in PromisedBy(cmd.todo, 1)
        BY <1>f, <1>2, <3>1, <4>1 DEF EffectKept
      <4>3. f.root \in Stored
        BY <4>2 DEF PromisedBy
      <4> QED BY <1>f, <3>1, <4>1, <4>3
    <3>2. CASE f.do # "decided"
      <4>1. CASE decided \in Tree \cap Stored
        BY <1>f, <3>2, <4>1
      <4>2. ASSUME NEW k \in 1..i, cmd.todo[k].do = "decided" PROVE \E j \in 1..(i - 1) : todo[j].do = "decided"
        <5>1. k # 1
          BY <1>f, <3>2, <4>2
        <5> QED BY <1>3, <4>2, <5>1
      <4> QED BY <2>1, <4>1, <4>2
    <3> QED BY <3>1, <3>2
  <2> QED BY <2>1, <2>2, <2>3, <2>4, <2>5
<1> QED BY <1>e, <1>p, <1>1, <1>5, <1>6, <1>7, <1>8, <1>9 DEF EffectKept

\* The effect that comes next, after a step.
LEMMA NextEffect ==
    ASSUME Typed', NEW name, At(name)'
    PROVE  1 \in DOMAIN cmd'.todo /\ cmd'.todo[1].do = name
<1>1. PICK todo : todo = cmd'.todo
  OBVIOUS
<1>2. todo \in Seq(Effect) /\ todo # <<>> /\ Head(todo).do = name
  BY <1>1 DEF Typed, CommandRecord, At
<1>3. Len(todo) \in Nat \ {0} /\ DOMAIN todo = 1..Len(todo)
  BY <1>2, EmptySeq, LenProperties
<1>4. Head(todo) = todo[1]
  BY <1>2
<1> QED BY <1>1, <1>2, <1>3, <1>4

\* No effect of another command is one of gc.
LEMMA NotGc ==
    ASSUME LocalInv, LocalInv', cmd.todo # <<>>, cmd.todo[1].do \notin GcName, Shifted
    PROVE  GcKept'
<1> SUFFICES ASSUME NEW name \in {"loose", "packs"}, At(name)' PROVE FALSE
  BY DEF GcKept
<1>1. 1 \in DOMAIN cmd'.todo /\ cmd'.todo[1].do = name
  BY NextEffect DEF LocalInv
<1>2. cmd'.kind = "gc"
  BY <1>1 DEF LocalInv, CommandInv, EffectSound, GcName
<1>3. cmd.kind = "gc"
  BY <1>1, <1>2 DEF Shifted
<1>4. 1 \in DOMAIN cmd.todo
  BY <1>1, TodoTyped DEF Shifted, LocalInv
<1> QED BY <1>3, <1>4 DEF LocalInv, CommandInv, EffectSound

\* An effect of a command that does not delete keeps all that can be reached, if
\* what it names is stored.
LEMMA EffectKeepsAll ==
    ASSUME LocalInv, LocalInv', KeepInv, cmd.todo # <<>>, cmd.todo[1].do \notin GcName, Done,
           UNCHANGED <<push, anc>>, Stored \subseteq Stored', Reachable' \subseteq Stored',
           mergeHead' # None => decided' # None,
           cmd.todo[1].do = "put" => cmd.todo[1].obj \in Stored',
           decided' = IF cmd.todo[1].do = "decided" THEN cmd.todo[1].root ELSE decided,
           mergeHead' = IF cmd.todo[1].do = "mergeHead" THEN cmd.todo[1].id ELSE mergeHead
    PROVE  KeepInv'
<1>1. Shifted /\ Grown
  BY DoneShifts, SameGrows DEF LocalInv
<1>2. EffectsKept'
  BY <1>1, EffectsShift DEF KeepInv
<1>3. GcKept'
  BY <1>1, NotGc
<1>4. Counted' \subseteq Stored'
  BY <1>1, CountedSame DEF KeepInv
<1> QED BY <1>2, <1>3, <1>4 DEF KeepInv

LEMMA PutStepKept == ASSUME LocalInv, LocalInv', KeepInv, PutStep PROVE KeepInv'
<1>1. PICK e \in Effect : e = cmd.todo[1] /\ e = Head(cmd.todo) /\ e.do = "put"
  BY HeadFacts DEF PutStep, LocalInv
<1>2. PutObject(e.obj) /\ Done /\ cmd.todo # <<>> /\ UNCHANGED <<refs, mergeHead, decided, oplog, push, anc>>
  BY <1>1 DEF PutStep, At, disk, ownerFrame
<1>3. Stored \subseteq Stored' /\ e.obj \in Stored'
  BY <1>2 DEF PutObject, Stored
<1>4. Reachable' = Reachable
  BY <1>2, SameGrows, ReachSame, LoggedSame DEF ReadAll, LocalInv
<1> QED BY <1>1, <1>2, <1>3, <1>4, EffectKeepsAll DEF KeepInv, GcName

LEMMA QuietKept == ASSUME LocalInv, LocalInv', KeepInv, LayStep \/ HeadStep PROVE KeepInv'
<1>1. PICK e \in Effect : e = cmd.todo[1] /\ e.do \in {"lay", "head"}
  BY HeadFacts DEF LayStep, HeadStep, LocalInv
<1>2. Done /\ cmd.todo # <<>> /\ UNCHANGED <<refs, mergeHead, decided, oplog, loose, packs, push, anc>>
  BY DEF LayStep, HeadStep, At, store, ownerFrame
<1>3. Stored' = Stored
  BY <1>2 DEF Stored
<1>4. Reachable' = Reachable
  BY <1>2, SameGrows, ReachSame, LoggedSame DEF ReadAll, LocalInv
<1> QED BY <1>1, <1>2, <1>3, <1>4, EffectKeepsAll DEF KeepInv, GcName

LEMMA TipStepKept == ASSUME LocalInv, LocalInv', KeepInv, TipStep PROVE KeepInv'
<1>1. PICK e \in Effect : e = cmd.todo[1] /\ e = Head(cmd.todo) /\ e.do = "tip"
  BY HeadFacts DEF TipStep, LocalInv
<1>2. 1 \in DOMAIN cmd.todo /\ e.branch \in Branch
  BY <1>1, HeadFacts, EffectFields DEF TipStep, LocalInv
<1>3. /\ refs' = [refs EXCEPT ![e.branch] = e.id] /\ Done /\ cmd.todo # <<>>
      /\ UNCHANGED <<mergeHead, decided, oplog, loose, packs, push, anc>>
  BY <1>1 DEF TipStep, At, store, ownerFrame
<1>4. Stored' = Stored /\ Logged' = Logged /\ DecidedTree' = DecidedTree
  BY <1>3, LoggedSame DEF Stored, ReadAll, DecidedTree
<1>5. PICK A : A = AncOf(e.id)
  OBVIOUS
<1>6. A \subseteq Stored
  BY <1>1, <1>2, <1>5 DEF KeepInv, EffectsKept, EffectKept, PromisedBy
<1>7. \A r \in Roots' : r \in Roots \/ r = None \/ anc[r] \subseteq A
  <2>1. \A b \in Branch : refs'[b] = refs[b] \/ refs'[b] = e.id
    BY <1>2, <1>3 DEF LocalInv, Typed
  <2>2. e.id = None \/ anc[e.id] \subseteq A
    BY <1>5 DEF AncOf
  <2>3. \A r \in Roots' : r \in Roots \/ r = e.id
    BY <1>3, <1>4, <2>1 DEF Roots
  <2> QED BY <2>2, <2>3
<1>8. Reachable' \subseteq Reachable \cup A
  BY <1>3, <1>4, <1>7, ReachGrows
<1> QED BY <1>1, <1>3, <1>4, <1>6, <1>8, EffectKeepsAll DEF KeepInv, GcName

LEMMA DecidedStepKept == ASSUME LocalInv, LocalInv', KeepInv, DecidedStep PROVE KeepInv'
<1>1. PICK e \in Effect : e = cmd.todo[1] /\ e = Head(cmd.todo) /\ e.do = "decided"
  BY HeadFacts DEF DecidedStep, LocalInv
<1>2. 1 \in DOMAIN cmd.todo
  BY HeadFacts DEF DecidedStep, LocalInv
<1>3. /\ decided' = e.root /\ Done /\ cmd.todo # <<>>
      /\ UNCHANGED <<refs, mergeHead, oplog, loose, packs, push, anc>>
  BY <1>1 DEF DecidedStep, At, store, ownerFrame
<1>4. Stored' = Stored /\ Logged' = Logged
  BY <1>3, LoggedSame DEF Stored, ReadAll
<1>5. mergeHead = None
  <2>1. EffectKept(1)
    BY <1>2 DEF KeepInv, EffectsKept
  <2>2. 1..(1 - 1) = {}
    OBVIOUS
  <2> QED BY <1>1, <2>1, <2>2 DEF EffectKept
<1>6. DecidedTree' = {}
  BY <1>3, <1>5 DEF DecidedTree
<1>7. Roots' = Roots
  BY <1>3, <1>4 DEF Roots
<1>8. Reachable' \subseteq Reachable \cup {}
  BY <1>3, <1>6, <1>7, ReachGrows
<1> QED BY <1>1, <1>3, <1>4, <1>5, <1>8, EffectKeepsAll DEF KeepInv, GcName

LEMMA MergeHeadStepKept == ASSUME LocalInv, LocalInv', KeepInv, MergeHeadStep PROVE KeepInv'
<1>1. PICK e \in Effect : e = cmd.todo[1] /\ e = Head(cmd.todo) /\ e.do = "mergeHead"
  BY HeadFacts DEF MergeHeadStep, LocalInv
<1>2. 1 \in DOMAIN cmd.todo
  BY HeadFacts DEF MergeHeadStep, LocalInv
<1>3. /\ mergeHead' = e.id /\ Done /\ cmd.todo # <<>>
      /\ UNCHANGED <<refs, decided, oplog, loose, packs, push, anc>>
  BY <1>1 DEF MergeHeadStep, At, store, ownerFrame
<1>4. Stored' = Stored /\ Logged' = Logged
  BY <1>3, LoggedSame DEF Stored, ReadAll
<1>5. PICK A : A = IF e.id = None THEN {} ELSE anc[e.id] \cup {decided}
  OBVIOUS
<1>6. e.id # None => anc[e.id] \subseteq Stored /\ decided \in Tree \cap Stored
  <2>1. EffectKept(1)
    BY <1>2 DEF KeepInv, EffectsKept
  <2>2. 1..(1 - 1) = {}
    OBVIOUS
  <2> QED BY <1>1, <2>1, <2>2 DEF EffectKept
<1>7. DecidedTree' \subseteq DecidedTree \cup A
  BY <1>3, <1>5 DEF DecidedTree
<1>8. \A r \in Roots' : r \in Roots \/ r = None \/ anc[r] \subseteq A
  <2>1. \A r \in Roots' : r \in Roots \/ r = e.id
    BY <1>3, <1>4 DEF Roots
  <2> QED BY <1>5, <2>1
<1>9. Reachable' \subseteq Reachable \cup A
  BY <1>3, <1>7, <1>8, ReachGrows
<1>10. mergeHead' # None => decided' # None
  BY <1>3, <1>6, LocalAssumption DEF Object
<1> QED BY <1>1, <1>3, <1>4, <1>5, <1>6, <1>9, <1>10, EffectKeepsAll DEF KeepInv, GcName

LEMMA RecordStepKept == ASSUME LocalInv, LocalInv', KeepInv, RecordStep PROVE KeepInv'
<1>1. PICK e \in Effect : e = cmd.todo[1] /\ e = Head(cmd.todo) /\ e.do = "record"
  BY HeadFacts DEF RecordStep, LocalInv
<1>2. 1 \in DOMAIN cmd.todo
  BY HeadFacts DEF RecordStep, LocalInv
<1>3. PICK r : r = RecordOf(e)
  OBVIOUS
<1>4. /\ oplog' = Append(ReadAll, r) /\ Done /\ cmd.todo # <<>>
      /\ UNCHANGED <<refs, mergeHead, decided, loose, packs, push, anc>>
  BY <1>1, <1>3 DEF RecordStep, Appended, At, store, ownerFrame
<1>5. r \in Record /\ r.before = e.before /\ r.after = e.after
  BY <1>1, <1>3, EffectFields DEF RecordOf, Record, LocalInv, Typed
<1>6. ReadAll \in Seq(Record)
  BY LogFacts DEF LocalInv
<1>7. /\ oplog' \in Seq(Record) /\ Len(oplog') = Len(ReadAll) + 1
      /\ \A i \in 1..Len(ReadAll) : oplog'[i] = ReadAll[i]
      /\ oplog'[Len(ReadAll) + 1] = r
  BY <1>4, <1>5, <1>6, AppendProperties
<1>8. ReadAll' = oplog'
  <2>1. PICK log : log = oplog'
    OBVIOUS
  <2> QED BY <1>7, <2>1, LogWritten
<1>9. \A x \in Logged' : x \in Logged \/ x = r
  <2>1. DOMAIN oplog' = 1..(Len(ReadAll) + 1) /\ DOMAIN ReadAll = 1..Len(ReadAll) /\ Len(ReadAll) \in Nat
    BY <1>6, <1>7, LenProperties
  <2>2. \A i \in 1..(Len(ReadAll) + 1) : i \in 1..Len(ReadAll) \/ i = Len(ReadAll) + 1
    BY <2>1
  <2>3. Logged' = {oplog'[i] : i \in DOMAIN oplog'}
    BY <1>8 DEF Logged
  <2> QED BY <1>7, <2>1, <2>2, <2>3 DEF Logged
<1>10. PICK A : A = AncOf(e.before) \cup AncOf(e.after)
  OBVIOUS
<1>11. A \subseteq Stored
  BY <1>1, <1>2, <1>10 DEF KeepInv, EffectsKept, EffectKept, PromisedBy
<1>12. Stored' = Stored /\ DecidedTree' = DecidedTree
  BY <1>4 DEF Stored, DecidedTree
<1>13. \A x \in Roots' : x \in Roots \/ x = None \/ anc[x] \subseteq A
  <2>1. \A x \in Roots' : x \in Roots \/ x \in {r.before, r.after}
    BY <1>4, <1>9 DEF Roots
  <2> QED BY <1>5, <1>10, <2>1 DEF AncOf
<1>14. Reachable' \subseteq Reachable \cup A
  BY <1>4, <1>12, <1>13, ReachGrows
<1> QED BY <1>1, <1>4, <1>11, <1>12, <1>14, EffectKeepsAll DEF KeepInv, GcName

\* gc forgets records only, so no more can be reached.
LEMMA TrimKept == ASSUME LocalInv, LocalInv', KeepInv, Trim PROVE KeepInv'
<1>1. /\ 1 \in DOMAIN cmd.todo /\ cmd.todo[1].do = "trim" /\ Done /\ cmd.todo # <<>>
      /\ UNCHANGED <<refs, mergeHead, decided, loose, packs, push, anc>>
  BY HeadFacts DEF Trim, store, ownerFrame, LocalInv
<1>2. Shifted /\ Grown /\ Stored' = Stored /\ DecidedTree' = DecidedTree
  BY <1>1, DoneShifts, SameGrows DEF LocalInv, Stored, DecidedTree
<1>3. Logged' \subseteq Logged
  <2>1. PICK i \in 1..(Len(ReadAll) + 1) : TrimTo(i)
    BY DEF Trim
  <2>2. CASE oplog' = oplog
    BY <2>2, LoggedSame DEF ReadAll
  <2>3. CASE /\ oplog' \in Seq(Record)
             /\ \A k \in DOMAIN oplog' : \E j \in DOMAIN ReadAll : oplog'[k] = ReadAll[j]
    <3>1. PICK log : log = oplog'
      OBVIOUS
    <3>2. ReadAll' = log
      BY <2>3, <3>1, LogWritten
    <3> QED BY <2>3, <3>1, <3>2 DEF Logged
  <2> QED BY <2>1, <2>2, <2>3, TrimLeaves DEF LocalInv
<1>4. Reachable' \subseteq Reachable \cup {}
  <2>1. \A r \in Roots' : r \in Roots
    BY <1>1, <1>3 DEF Roots
  <2> QED BY <1>1, <1>2, <2>1, ReachGrows
<1>5. EffectsKept'
  BY <1>1, <1>2, EffectsShift DEF KeepInv
<1>6. Counted' = Counted
  BY <1>1, <1>2, CountedSame
<1>7. GcKept'
  <2>1. 1 + 1 \in DOMAIN cmd.todo /\ cmd.todo[1 + 1].do = "pack"
    BY <1>1 DEF LocalInv, CommandInv, EffectSound, Follows
  <2>2. 1 \in DOMAIN cmd'.todo => cmd'.todo[1].do = "pack"
    BY <1>2, <2>1 DEF Shifted
  <2>3. \A name \in {"loose", "packs"} : ~At(name)'
    <3> SUFFICES ASSUME NEW name \in {"loose", "packs"}, At(name)' PROVE FALSE
      OBVIOUS
    <3> QED BY <2>2, NextEffect DEF LocalInv
  <2> QED BY <2>3 DEF GcKept
<1> QED BY <1>1, <1>2, <1>4, <1>5, <1>6, <1>7 DEF KeepInv

\* No effect of gc names anything.
LEMMA GcNamesNothing == ASSUME LocalInv', cmd'.kind = "gc" PROVE EffectsKept'
<1> SUFFICES ASSUME NEW i \in DOMAIN cmd'.todo PROVE EffectKept(i)'
  BY DEF EffectsKept
<1>1. cmd'.todo[i].do \in GcName
  BY DEF LocalInv, CommandInv, EffectSound
<1> QED BY <1>1 DEF EffectKept, GcName

LEMMA GcRuns == ASSUME LocalInv, NEW name \in GcName, At(name) PROVE cmd.kind = "gc" /\ cmd.todo # <<>>
BY HeadFacts DEF LocalInv, CommandInv, EffectSound

\* Every step of gc leaves the refs, the log and the pushes alone.
LEMMA GcFrame ==
    ASSUME LocalInv, UNCHANGED <<refs, mergeHead, decided, oplog, push, anc>>
    PROVE  Reachable' = Reachable /\ Counted' = Counted
<1>1. Grown
  BY SameGrows DEF LocalInv
<1>2. Logged' = Logged
  BY LoggedSame DEF ReadAll
<1> QED BY <1>1, <1>2, ReachSame, CountedSame

\* gc's walk has all that can be reached, or gc stops: it goes into one new pack.
LEMMA PackKept == ASSUME LocalInv, LocalInv', KeepInv, Pack PROVE KeepInv'
<1>1. /\ cmd.kind = "gc" /\ UNCHANGED <<refs, mergeHead, decided, oplog, push, anc, loose>>
  BY GcRuns DEF Pack, disk, ownerFrame, GcName
<1>2. Reachable' = Reachable /\ Counted' = Counted
  BY <1>1, GcFrame
<1>3. Reachable \subseteq Stored
  BY DEF KeepInv
<1>4. packs' = Packed
  BY <1>3 DEF Pack
<1>5. PICK reach : reach = Reachable
  OBVIOUS
<1>6. PICK old : old = IF reach = {} THEN {} ELSE packs \ {reach}
  OBVIOUS
<1>7. PICK rest : rest = Tail(cmd.todo)
  OBVIOUS
<1>8. cmd' = [cmd EXCEPT !.todo = rest, !.reach = reach, !.list = loose, !.old = old]
  BY <1>3, <1>5, <1>6, <1>7 DEF Pack
<1>9. cmd'.kind = "gc" /\ cmd'.reach = reach /\ cmd'.old = old
  BY <1>1, <1>8 DEF LocalInv, Typed, CommandRecord
<1>10. Stored' = Stored
  BY <1>1, <1>3, <1>4 DEF Packed, Stored
<1>11. reach # {} => reach \in packs'
  BY <1>4, <1>5 DEF Packed
<1>12. reach \notin old
  BY <1>6
<1>13. GcKept'
  BY <1>2, <1>5, <1>9, <1>11, <1>12 DEF GcKept
<1> QED BY <1>1, <1>2, <1>9, <1>10, <1>13, GcNamesNothing DEF KeepInv

LEMMA EndOfListKept == ASSUME LocalInv, LocalInv', KeepInv, EndOfList PROVE KeepInv'
<1>1. /\ cmd.kind = "gc" /\ cmd.todo # <<>> /\ Done
      /\ UNCHANGED <<refs, mergeHead, decided, oplog, push, anc, loose, packs>>
  BY GcRuns DEF EndOfList, disk, store, ownerFrame, GcName
<1>2. Reachable' = Reachable /\ Counted' = Counted /\ Stored' = Stored
  BY <1>1, GcFrame DEF Stored
<1>3. GcKept
  BY DEF KeepInv
<1>4. CASE Len(cmd.todo) = 1
  <2>1. cmd' = NoCommand
    BY <1>1, <1>4 DEF Done
  <2>2. EffectsKept' /\ GcKept'
    BY <2>1, NoCommandTyped DEF EffectsKept, GcKept, At
  <2> QED BY <1>1, <1>2, <2>2 DEF KeepInv
<1>5. CASE Len(cmd.todo) # 1
  <2>1. PICK rest : rest = Tail(cmd.todo)
    OBVIOUS
  <2>2. cmd' = [cmd EXCEPT !.todo = rest]
    BY <1>1, <1>5, <2>1 DEF Done
  <2>3. cmd'.kind = "gc" /\ cmd'.reach = cmd.reach /\ cmd'.old = cmd.old
    BY <1>1, <2>2 DEF LocalInv, Typed, CommandRecord
  <2>4. At("loose") \/ At("packs")
    BY DEF EndOfList
  <2>5. GcKept'
    BY <1>1, <1>2, <1>3, <2>3, <2>4 DEF GcKept
  <2> QED BY <1>1, <1>2, <2>3, <2>5, GcNamesNothing DEF KeepInv
<1> QED BY <1>4, <1>5

\* A loose object that can be reached is in the new pack; what a push counts on is
\* fresh, or spared.
LEMMA PruneLooseKept ==
    ASSUME Undisturbed, LocalInv, LocalInv', KeepInv, NEW o \in Object, PruneLoose(o)
    PROVE  KeepInv'
<1>1. /\ cmd.kind = "gc" /\ UNCHANGED <<refs, mergeHead, decided, oplog, push, anc, packs>>
      /\ cmd' = [cmd EXCEPT !.list = @ \ {o}]
  BY GcRuns DEF PruneLoose, disk, ownerFrame, GcName
<1>2. Reachable' = Reachable /\ Counted' = Counted
  BY <1>1, GcFrame
<1>3. cmd'.kind = "gc" /\ cmd'.reach = cmd.reach /\ cmd'.old = cmd.old /\ cmd'.todo = cmd.todo
  BY <1>1 DEF LocalInv, Typed, CommandRecord
<1>4. cmd.reach = Reachable /\ (Reachable # {} => Reachable \in packs) /\ Reachable \notin cmd.old
  BY DEF PruneLoose, KeepInv, GcKept
<1>5. Reachable \subseteq UNION packs
  BY <1>4
<1>6. Reachable' \subseteq Stored'
  BY <1>1, <1>2, <1>5 DEF Stored
<1>7. Counted' \subseteq Stored'
  <2> SUFFICES ASSUME NEW x \in Counted PROVE x \in loose' \cup UNION packs
    BY <1>1, <1>2 DEF Stored
  <2>1. x \in Stored
    BY DEF KeepInv
  <2>2. CASE x \notin fresh
    <3>1. "spared" \in Environment
      BY DEF Undisturbed, Counted
    <3> QED BY <2>1, <2>2, <3>1 DEF PruneLoose, Spares
  <2>3. CASE x \in fresh
    <3>1. x \in loose
      BY <2>3 DEF LocalInv, Typed
    <3>2. CASE x \in loose'
      BY <3>2
    <3>3. CASE x \notin loose'
      <4>1. x = o /\ o \in cmd.reach
        BY <2>3, <3>1, <3>3 DEF PruneLoose, Prunes
      <4> QED BY <1>4, <1>5, <4>1
    <3> QED BY <3>2, <3>3
  <2> QED BY <2>2, <2>3
<1>8. GcKept'
  BY <1>1, <1>2, <1>3, <1>4 DEF GcKept
<1> QED BY <1>1, <1>3, <1>6, <1>7, <1>8, GcNamesNothing DEF KeepInv

\* The new pack is none of the superseded ones.
LEMMA DropPackKept ==
    ASSUME Undisturbed, LocalInv, LocalInv', KeepInv, NEW k \in packs, DropPack(k)
    PROVE  KeepInv'
<1>1. /\ cmd.kind = "gc" /\ UNCHANGED <<refs, mergeHead, decided, oplog, push, anc, loose, fresh>>
      /\ cmd' = [cmd EXCEPT !.old = @ \ {k}] /\ packs' = packs \ {k} /\ k \in cmd.old
  BY GcRuns DEF DropPack, disk, ownerFrame, GcName
<1>2. Reachable' = Reachable /\ Counted' = Counted
  BY <1>1, GcFrame
<1>3. cmd'.kind = "gc" /\ cmd'.reach = cmd.reach /\ cmd'.old = cmd.old \ {k} /\ cmd'.todo = cmd.todo
  BY <1>1 DEF LocalInv, Typed, CommandRecord
<1>4. cmd.reach = Reachable /\ (Reachable # {} => Reachable \in packs) /\ Reachable \notin cmd.old
  BY DEF DropPack, KeepInv, GcKept
<1>5. Reachable # {} => Reachable \in packs'
  BY <1>1, <1>4
<1>6. Reachable' \subseteq Stored'
  BY <1>2, <1>5 DEF Stored
<1>7. Counted' \subseteq Stored'
  <2> SUFFICES ASSUME NEW x \in Counted PROVE x \in loose \cup UNION packs'
    BY <1>1, <1>2 DEF Stored
  <2>1. x \in Stored
    BY DEF KeepInv
  <2>2. CASE x \notin fresh
    <3>1. "spared" \in Environment
      BY DEF Undisturbed, Counted
    <3> QED BY <2>1, <2>2, <3>1 DEF DropPack, Spares
  <2>3. CASE x \in fresh
    BY <2>3 DEF LocalInv, Typed
  <2> QED BY <2>2, <2>3
<1>8. GcKept'
  BY <1>2, <1>3, <1>4, <1>5 DEF GcKept
<1> QED BY <1>1, <1>3, <1>6, <1>7, <1>8, GcNamesNothing DEF KeepInv

\* The command goes on as before, whatever snapshot is made and stored meanwhile.
LEMMA EffectsSame ==
    ASSUME LocalInv, EffectsKept, Grown, UNCHANGED <<cmd, mergeHead, decided>>, Stored \subseteq Stored'
    PROVE  EffectsKept'
<1> SUFFICES ASSUME NEW i \in DOMAIN cmd.todo PROVE EffectKept(i)'
  BY DEF EffectsKept
<1>e. PICK e \in Effect : e = cmd.todo[i]
  BY TodoTyped DEF LocalInv
<1>1. EffectKept(i) /\ EffectSound(i)
  BY DEF EffectsKept, LocalInv, CommandInv
<1>p. PICK todo : todo = cmd.todo
  OBVIOUS
<1>2. PromisedBy(todo, i) \subseteq PromisedBy(todo, i)'
  BY DEF PromisedBy
<1>3. e.do = "tip" => AncOf(e.id)' = AncOf(e.id)
  BY <1>e, <1>1, EffectFields, MadeStays DEF EffectSound, TipSound, AncOf, LocalInv
<1>4. e.do = "record" => AncOf(e.before)' = AncOf(e.before) /\ AncOf(e.after)' = AncOf(e.after)
  BY <1>e, <1>1, EffectFields, MadeStays DEF EffectSound, AncOf, LocalInv
<1>5. e.do = "mergeHead" /\ e.id # None => anc'[e.id] = anc[e.id]
  BY <1>e, <1>1, EffectFields, MadeStays DEF EffectSound, LocalInv
<1> QED BY <1>e, <1>p, <1>1, <1>2, <1>3, <1>4, <1>5 DEF EffectKept

LEMMA CrashKept == ASSUME LocalInv, LocalInv', KeepInv, Crash PROVE KeepInv'
<1>1. cmd' = NoCommand /\ UNCHANGED <<refs, mergeHead, decided, loose, packs, push, anc>>
  BY DEF Crash, store
<1>2. Logged' = Logged
  <2>1. ReadAll \in Seq(Record) /\ (oplog = ReadAll \/ oplog = Append(ReadAll, Torn))
    BY LogFacts DEF LocalInv
  <2>2. oplog' \in {oplog, ReadAll, Append(ReadAll, Torn)}
    BY DEF Crash
  <2>3. PICK log \in Seq(Record) : log = ReadAll
    BY <2>1
  <2>4. oplog' \in {log, Append(log, Torn)}
    BY <2>1, <2>2, <2>3
  <2>5. ReadAll' = log
    BY <2>4, LogWritten
  <2> QED BY <2>3, <2>5, LoggedSame
<1>3. Grown
  BY <1>1, SameGrows DEF LocalInv
<1>4. Reachable' = Reachable /\ Counted' = Counted /\ Stored' = Stored
  BY <1>1, <1>2, <1>3, ReachSame, CountedSame DEF Stored
<1>5. EffectsKept' /\ GcKept'
  BY <1>1, NoCommandTyped DEF EffectsKept, GcKept, At
<1> QED BY <1>1, <1>4, <1>5 DEF KeepInv

LEMMA IdleKept == ASSUME LocalInv, KeepInv, UNCHANGED <<refs, mergeHead, decided, oplog, loose, packs, cmd, push, anc>> PROVE KeepInv'
<1>1. Reachable' = Reachable /\ Counted' = Counted /\ Stored' = Stored
  BY GcFrame DEF Stored
<1>2. EffectsKept'
  BY <1>1, EffectsSame, SameGrows DEF KeepInv, LocalInv
<1>3. GcKept'
  BY <1>1 DEF KeepInv, GcKept, At
<1> QED BY <1>1, <1>2, <1>3 DEF KeepInv

\* What the pushes count on when one of them moves.
LEMMA CountedMoves ==
    ASSUME LocalInv, KeepInv, Grown, NEW p \in Pusher, NEW r \in PushState, push' = [push EXCEPT ![p] = r],
           Stored \subseteq Stored',
           r.new # None => (anc'[r.new] \ (r.todo \cup r.send)) \cup (r.todo \cap r.index) \subseteq Stored'
    PROVE  Counted' \subseteq Stored'
<1> SUFFICES ASSUME NEW q \in Pusher, push'[q].new # None
             PROVE  (anc'[push'[q].new] \ (push'[q].todo \cup push'[q].send)) \cup (push'[q].todo \cap push'[q].index)
                       \subseteq Stored'
  BY DEF Counted, Pushing
<1>1. CASE q = p
  BY <1>1 DEF LocalInv, Typed
<1>2. CASE q # p
  <2>1. PICK u \in PushState : u = push[q] /\ u = push'[q]
    BY <1>2 DEF LocalInv, Typed
  <2>2. u.new \in Tip /\ u.new # None /\ Made(u.new)
    BY <2>1 DEF LocalInv, PushInv, Pushing, PushState
  <2>3. anc'[u.new] = anc[u.new]
    BY <2>2, MadeStays DEF LocalInv
  <2>4. (anc[u.new] \ (u.todo \cup u.send)) \cup (u.todo \cap u.index) \subseteq Counted
    BY <2>1, <2>2 DEF Counted, Pushing
  <2> QED BY <2>1, <2>3, <2>4 DEF KeepInv
<1> QED BY <1>1, <1>2

LEMMA PushKept ==
    ASSUME LocalInv, KeepInv, Grown, UNCHANGED <<refs, mergeHead, decided, oplog, cmd, packs>>,
           Stored \subseteq Stored', Counted' \subseteq Stored'
    PROVE  KeepInv'
<1>1. Reachable' = Reachable
  BY ReachSame, LoggedSame DEF ReadAll
<1>2. EffectsKept'
  BY EffectsSame DEF KeepInv
<1>3. GcKept'
  BY <1>1 DEF KeepInv, GcKept, At
<1> QED BY <1>1, <1>2, <1>3 DEF KeepInv

LEMMA BeginPushKept ==
    ASSUME LocalInv, KeepInv, NEW p \in Pusher, NEW b \in Branch, NEW s \in Snapshot, BeginPush(p, b, s)
    PROVE  KeepInv'
<1>1. Grown /\ anc'[s] \in SUBSET Snapshot
  BY BeginPushMakes DEF Grown
<1>2. PICK r : r = [NoPush EXCEPT !.branch = b, !.new = s, !.old = refs[b], !.todo = anc'[s], !.index = UNION packs]
  OBVIOUS
<1>3. r \in PushState /\ r.new = s /\ r.todo = anc'[s] /\ r.send = {} /\ r.index = UNION packs
  BY <1>1, <1>2, NoPushTyped DEF PushState, NoPush, LocalInv, Typed, Tip
<1>4. push' = [push EXCEPT ![p] = r] /\ UNCHANGED <<refs, mergeHead, decided, oplog, cmd, loose, packs>>
  BY <1>2 DEF BeginPush, store, pushFrame
<1>5. Stored' = Stored /\ UNION packs \subseteq Stored
  BY <1>4 DEF Stored
<1>6. Counted' \subseteq Stored'
  BY <1>1, <1>3, <1>4, <1>5, CountedMoves
<1> QED BY <1>1, <1>4, <1>5, <1>6, PushKept

LEMMA ProbeKept == ASSUME LocalInv, KeepInv, NEW p \in Pusher, NEW o \in Snapshot, Probe(p, o) PROVE KeepInv'
<1>1. push[p] \in PushState /\ Grown /\ Stored' = Stored
  BY SameGrows DEF LocalInv, Typed, Probe, Stored, store
<1>2. PICK u \in PushState : u = push[p]
  BY <1>1
<1>3. PICK send : send = IF HasObject(p, o) THEN u.send ELSE u.send \cup {o}
  OBVIOUS
<1>4. PICK r : r = [u EXCEPT !.todo = @ \ {o}, !.send = send]
  OBVIOUS
<1>5. send \in SUBSET Snapshot
  BY <1>3 DEF PushState
<1>6. r \in PushState /\ r.new = u.new /\ r.todo = u.todo \ {o} /\ r.send = send /\ r.index = u.index
  BY <1>4, <1>5 DEF PushState
<1>7. push' = [push EXCEPT ![p] = r] /\ o \in u.todo
  BY <1>2, <1>3, <1>4 DEF Probe, LocalInv, Typed
<1>8. UNCHANGED <<refs, mergeHead, decided, oplog, cmd, packs, anc>>
  BY DEF Probe, store, pushFrame
<1>9. r.new # None => (anc'[r.new] \ (r.todo \cup r.send)) \cup (r.todo \cap r.index) \subseteq Stored'
  <2> SUFFICES ASSUME u.new # None, NEW x \in (anc[u.new] \ (r.todo \cup r.send)) \cup (r.todo \cap r.index)
               PROVE  x \in Stored
    BY <1>1, <1>6, <1>8
  <2>1. (anc[u.new] \ (u.todo \cup u.send)) \cup (u.todo \cap u.index) \subseteq Stored
    BY <1>2 DEF KeepInv, Counted, Pushing
  <2>2. x \in (anc[u.new] \ (u.todo \cup u.send)) \cup (u.todo \cap u.index) \/ (x = o /\ HasObject(p, o))
    BY <1>3, <1>6, <1>7
  <2>3. HasObject(p, o) => o \in Stored
    BY <1>2, <1>7, <2>1 DEF HasObject, Stored
  <2> QED BY <2>1, <2>2, <2>3
<1>10. Counted' \subseteq Stored'
  BY <1>1, <1>6, <1>7, <1>9, CountedMoves
<1> QED BY <1>1, <1>8, <1>10, PushKept

LEMMA PutPackKept == ASSUME LocalInv, KeepInv, NEW p \in Pusher, NEW o \in Snapshot, PutPack(p, o) PROVE KeepInv'
<1>1. Grown /\ Stored \subseteq Stored' /\ o \in Stored'
  BY SameGrows DEF LocalInv, PutPack, PutObject, Stored
<1>2. PICK u \in PushState : u = push[p]
  BY DEF LocalInv, Typed
<1>4. PICK r : r = [u EXCEPT !.send = @ \ {o}]
  OBVIOUS
<1>6. r \in PushState /\ r.new = u.new /\ r.todo = u.todo /\ r.send = u.send \ {o} /\ r.index = u.index
  BY <1>4 DEF PushState
<1>7. push' = [push EXCEPT ![p] = r]
  BY <1>2, <1>4 DEF PutPack, LocalInv, Typed
<1>8. UNCHANGED <<refs, mergeHead, decided, oplog, cmd, packs, anc>>
  BY DEF PutPack, PutObject, pushFrame
<1>9. r.new # None => (anc'[r.new] \ (r.todo \cup r.send)) \cup (r.todo \cap r.index) \subseteq Stored'
  <2> SUFFICES ASSUME u.new # None, NEW x \in (anc[u.new] \ (r.todo \cup r.send)) \cup (r.todo \cap r.index)
               PROVE  x \in Stored'
    BY <1>6, <1>8
  <2>1. (anc[u.new] \ (u.todo \cup u.send)) \cup (u.todo \cap u.index) \subseteq Stored
    BY <1>2 DEF KeepInv, Counted, Pushing
  <2>2. x \in (anc[u.new] \ (u.todo \cup u.send)) \cup (u.todo \cap u.index) \/ x = o
    BY <1>6
  <2> QED BY <1>1, <2>1, <2>2
<1>10. Counted' \subseteq Stored'
  BY <1>1, <1>6, <1>7, <1>9, CountedMoves
<1> QED BY <1>1, <1>8, <1>10, PushKept

LEMMA GiveUpKept == ASSUME LocalInv, KeepInv, NEW p \in Pusher, GiveUp(p) PROVE KeepInv'
<1>1. UNCHANGED <<refs, mergeHead, decided, oplog, cmd, loose, packs, anc>> /\ push' = [push EXCEPT ![p] = NoPush]
  BY DEF GiveUp, store, pushFrame
<1>2. Grown /\ Stored' = Stored /\ NoPush.new = None
  BY <1>1, SameGrows DEF LocalInv, Stored, NoPush
<1>3. Counted' \subseteq Stored'
  BY <1>1, <1>2, NoPushTyped, CountedMoves
<1> QED BY <1>1, <1>2, <1>3, PushKept

\* What the push put forward is stored by the time the ref is written.
LEMMA UpdateRefKept == ASSUME LocalInv, KeepInv, NEW p \in Pusher, UpdateRef(p) PROVE KeepInv'
<1>1. UNCHANGED <<mergeHead, decided, oplog, cmd, loose, packs, anc>> /\ push' = [push EXCEPT ![p] = NoPush] /\ Pushing(p)
  BY DEF UpdateRef, store, pushFrame
<1>2. Grown /\ Stored' = Stored /\ NoPush.new = None /\ Logged' = Logged /\ DecidedTree' = DecidedTree
  BY <1>1, SameGrows, LoggedSame DEF LocalInv, Stored, NoPush, ReadAll, DecidedTree
<1>3. Counted' \subseteq Stored'
  BY <1>1, <1>2, NoPushTyped, CountedMoves
<1>4. CASE UNCHANGED refs
  BY <1>1, <1>2, <1>3, <1>4, PushKept
<1>5. CASE Idle /\ refs' = [refs EXCEPT ![push[p].branch] = push[p].new]
  <2>1. PICK s \in Tip : s = push[p].new /\ s # None
    BY <1>1 DEF LocalInv, Typed, PushState, Pushing
  <2>2. PICK A : A = anc[s]
    OBVIOUS
  <2>3. A \subseteq Stored
    <3>1. push[p].todo = {} /\ push[p].send = {}
      BY DEF UpdateRef
    <3>2. anc[s] \subseteq Counted
      BY <1>1, <2>1, <3>1 DEF Counted
    <3> QED BY <2>2, <3>2 DEF KeepInv
  <2>4. \A b \in Branch : refs'[b] = refs[b] \/ refs'[b] = s
    BY <1>5, <2>1 DEF LocalInv, Typed
  <2>5. \A r \in Roots' : r \in Roots \/ r = s
    BY <1>1, <1>2, <2>4 DEF Roots
  <2>6. Reachable' \subseteq Reachable \cup A
    BY <1>1, <1>2, <2>2, <2>5, ReachGrows
  <2>7. cmd' = NoCommand
    BY <1>1, <1>5 DEF Idle
  <2>8. EffectsKept' /\ GcKept'
    BY <2>7, NoCommandTyped DEF EffectsKept, GcKept, At
  <2> QED BY <1>1, <1>2, <1>3, <2>3, <2>6, <2>8 DEF KeepInv
<1> QED BY <1>4, <1>5 DEF UpdateRef

LEMMA BegunKept == ASSUME LocalInv, LocalInv', KeepInv, Begun PROVE KeepInv'
<1>1. PICK kind \in Kind, E \in Seq(Effect) : E # <<>> /\ Begin(kind, E) /\ Grown /\ ProgramKept(E)
  BY DEF Begun
<1>2. cmd'.todo = E /\ UNCHANGED <<refs, mergeHead, decided, oplog, loose, packs, push>>
  BY <1>1, BeginFacts
<1>3. Stored' = Stored /\ Reachable' = Reachable /\ Counted' = Counted
  BY <1>1, <1>2, ReachSame, CountedSame, LoggedSame DEF Stored, ReadAll
<1>4. EffectsKept'
  <2> SUFFICES ASSUME NEW i \in DOMAIN E PROVE EffectKept(i)'
    BY <1>2 DEF EffectsKept
  <2>1. PromisedBy(E, i)' = PromisedBy(E, i)
    BY <1>3 DEF PromisedBy
  <2>2. E[i].do = "tip" => AncOf(E[i].id)' \subseteq PromisedBy(E, i)
    BY <1>1 DEF ProgramKept, AncOf
  <2>3. E[i].do = "record" => AncOf(E[i].before)' \cup AncOf(E[i].after)' \subseteq PromisedBy(E, i)
    BY <1>1 DEF ProgramKept, AncOf
  <2>4. E[i].do = "decided" =>
          IF E[i].root = None
          THEN mergeHead = None \/ \E j \in 1..(i - 1) : E[j].do = "mergeHead"
          ELSE mergeHead = None /\ E[i].root \in PromisedBy(E, i)
    BY <1>1 DEF ProgramKept
  <2>5. E[i].do = "mergeHead" /\ E[i].id # None =>
          /\ anc'[E[i].id] \subseteq Stored
          /\ \E j \in 1..(i - 1) : E[j].do = "decided"
          /\ \A j \in DOMAIN E : E[j].do = "decided" => j < i /\ E[j].root # None
          /\ \A j \in DOMAIN E : E[j].do = "mergeHead" => j = i
    BY <1>1 DEF ProgramKept
  <2> QED BY <1>2, <1>3, <2>1, <2>2, <2>3, <2>4, <2>5 DEF EffectKept
<1>5. GcKept'
  <2>1. E[1].do \notin {"loose", "packs"}
    BY <1>1 DEF ProgramKept
  <2>2. \A name \in {"loose", "packs"} : ~At(name)'
    <3> SUFFICES ASSUME NEW name \in {"loose", "packs"}, At(name)' PROVE FALSE
      OBVIOUS
    <3> QED BY <1>2, <2>1, NextEffect DEF LocalInv
  <2> QED BY <2>2 DEF GcKept
<1> QED BY <1>2, <1>3, <1>4, <1>5 DEF KeepInv

LEMMA InitKept == Init => KeepInv
<1> SUFFICES ASSUME Init PROVE KeepInv
  OBVIOUS
<1>1. DOMAIN <<>> = {} /\ LocalInv
  BY InitHolds
<1>2. Reachable = {}
  <2>1. Roots \subseteq {None}
    <3>1. ReadAll = <<>>
      <4>1. <<>> \in Seq(Record) /\ oplog = <<>>
        BY EmptySeq DEF Init
      <4>2. ReadOf(<<>>) = <<>>
        BY <4>1, ReadOfWhole
      <4> QED BY <4>1, <4>2 DEF ReadAll, ReadOf
    <3>2. Logged = {}
      BY <1>1, <3>1 DEF Logged
    <3> QED BY <3>2 DEF Init, Roots
  <2>2. Closure(Roots) = {}
    BY <2>1 DEF Closure
  <2> QED BY <2>2 DEF Reachable, DecidedTree, Init
<1>3. Counted = {}
  BY DEF Init, Counted, Pushing, NoPush
<1>4. EffectsKept /\ GcKept
  BY <1>1 DEF Init, EffectsKept, GcKept, At, NoCommand
<1> QED BY <1>2, <1>3, <1>4 DEF Init, KeepInv

LEMMA NextKept == Undisturbed /\ LocalInv /\ KeepInv /\ [Next]_vars => KeepInv'
<1> SUFFICES ASSUME Undisturbed, LocalInv, KeepInv, [Next]_vars PROVE KeepInv'
  OBVIOUS
<1>0. LocalInv'
  BY NextHolds
<1>1. CASE Command
  <2>1. Begun
    BY <1>1, CommitKeeps, AmendKeeps, CreateBranchKeeps, SwitchKeeps, MergeForwardKeeps, MergeCleanKeeps,
       MergeConflictedKeeps, MergeAbortKeeps, UndoKeeps, GcKeeps DEF Command
  <2> QED BY <1>0, <2>1, BegunKept
<1>2. CASE EffectStep
  BY <1>0, <1>2, PutStepKept, QuietKept, TipStepKept, DecidedStepKept, MergeHeadStepKept, RecordStepKept,
     TrimKept, PackKept, EndOfListKept, PruneLooseKept, DropPackKept DEF EffectStep
<1>3. CASE Crash
  BY <1>0, <1>3, CrashKept
<1>4. CASE Tick
  BY <1>4, IdleKept DEF Tick, disk, history
<1>5. ASSUME NEW p \in Pusher, PushStep(p) PROVE KeepInv'
  BY <1>5, BeginPushKept, ProbeKept, PutPackKept, UpdateRefKept, GiveUpKept DEF PushStep
<1>6. CASE UNCHANGED vars
  BY <1>6, IdleKept DEF vars, disk, store, history
<1> QED BY <1>1, <1>2, <1>3, <1>4, <1>5, <1>6 DEF Next

\* As long as nobody pushes, or gc spares what the pushes under way count on, whatever
\* a branch, a stopped merge or the log names is in the store, at every point of gc.
THEOREM NothingNamedIsLost == ASSUME Undisturbed PROVE Spec => []KeepInv
<1>1. Spec => [][Next]_vars /\ Init
  BY PTL DEF Spec
<1>2. LocalInv /\ KeepInv /\ [Next]_vars => KeepInv'
  BY NextKept
<1> QED BY <1>1, <1>2, InitKept, LocalInvariant, PTL

\* Every branch can be read to its root, whatever gc, pushes and crashes did in
\* between, if gc spares what pushes count on, if there are any ("a reachable object is never
\* dropped", gc.rs).
THEOREM BranchesAreReadable == ASSUME Undisturbed PROVE Spec => []TipsReadable
<1>1. KeepInv => TipsReadable
  BY DEF KeepInv, Reachable, Roots, Closure, TipsReadable
<1> QED BY <1>1, NothingNamedIsLost, PTL

\* Whatever a record in the log can restore is stored, so undo never leaves a ref on
\* a snapshot that gc took (ADR-0024: the log is a root).
THEOREM UndoFindsItsObjects == ASSUME Undisturbed PROVE Spec => []UndoNeverDangles
<1>1. KeepInv => UndoNeverDangles
  <2> SUFFICES ASSUME KeepInv, NEW r \in Logged PROVE Closure({r.before, r.after}) \subseteq Stored
    BY DEF UndoNeverDangles
  <2>1. {r.before, r.after} \subseteq Roots
    BY DEF Roots
  <2>2. Closure({r.before, r.after}) \subseteq Closure(Roots)
    BY <2>1 DEF Closure
  <2> QED BY <2>2 DEF KeepInv, Reachable
<1> QED BY <1>1, NothingNamedIsLost, PTL

\* A merge that is stopped finds the other parent's history and the decided tree, and
\* HEAD on the branch it stopped on, whichever write of the merge state a crash hit
\* (merge_state::write, clear: MERGE_HEAD last in, first out).
THEOREM StoppedMergesCanFinish == ASSUME Undisturbed PROVE Spec => []StoppedMergeCanFinish
<1>1. LocalInv /\ KeepInv => StoppedMergeCanFinish
  <2> SUFFICES ASSUME LocalInv, KeepInv, mergeHead # None
               PROVE  Closure({mergeHead}) \subseteq Stored /\ decided \in Stored /\ head = stop.branch
    BY DEF StoppedMergeCanFinish
  <2>1. Closure({mergeHead}) \subseteq Closure(Roots)
    BY DEF Closure, Roots
  <2>2. decided \in DecidedTree
    BY DEF KeepInv, DecidedTree
  <2> QED BY <2>1, <2>2 DEF KeepInv, Reachable, LocalInv, StopInv
<1> QED BY <1>1, LocalInvariant, NothingNamedIsLost, PTL
=============================================================================
