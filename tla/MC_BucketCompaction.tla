------------------------ MODULE MC_BucketCompaction ------------------------
EXTENDS BucketCompaction, TLC

CONSTANTS s1, s2, s3, main

LinearHistory == s1 :> {s1} @@ s2 :> {s1, s2} @@ s3 :> {s1, s2, s3}

\* A bucket to which s1 and then s2 was pushed to main, each in a pack of its
\* own, by clients that are gone; the fold after the second push did or did
\* not land.
After(s) == [refs |-> (main :> s), packs |-> {{x} : x \in Ancestors[s]}]

PushOf(parent, s) == [parent |-> parent, packs |-> {{s}}, branch |-> main, new |-> s]

SeededInit ==
    /\ \E ck \in {1, 2} :
          /\ manifest = [head |-> 2, ck |-> ck, branch |-> main]
          /\ ckpt = [s \in Slot |-> CASE s = 1 -> After(s1)
                                     [] s = 2 /\ ck = 2 -> After(s2)
                                     [] OTHER -> None]
    /\ log = [s \in Slot |-> CASE s = 1 -> PushOf(0, s1)
                               [] s = 2 -> PushOf(1, s2)
                               [] OTHER -> None]
    /\ bodies = {{s1}, {s2}} /\ idxs = bodies
    /\ pc = [c \in Client |-> "idle"]
    /\ view = [c \in Client |-> None]
    /\ rd = [c \in Client |-> NoReading]
    /\ op = [c \in Client |-> NoOp]
    /\ pending = [c \in Client |-> {}]
    /\ staged = [c \in Client |-> {}]
    /\ hist = [s \in 0..MaxSeq |-> CASE s = 0 -> [refs |-> NoRefs, packs |-> {}]
                                     [] s = 1 -> After(s1)
                                     [] s = 2 -> After(s2)
                                     [] OTHER -> None]
    /\ acked = {<<main, s1>>, <<main, s2>>}
    /\ corrupt = {}
    /\ lost = 0
    /\ calls = 0
    /\ cp = [c \in Client |-> NoCompacting]
    /\ aged = {}
    /\ windows = 0

\* Who does what.  "any": every client what the constants let it.  The other two
\* are run together.  "beside": a compactor beside a client that pushes and
\* fetches, no response lost.  "pair": nobody pushes or fetches, compact runs
\* twice, and a response may be lost.
VARIABLE roles

RolesNext ==
    /\ CompactionNext
    /\ roles = "beside" => lost' = 0 /\ \A c \in Pusher : ~BeginCompact(c)
    /\ roles = "pair" => calls' <= 2 /\ \A c \in Pusher : ~BeginPush(c) /\ ~BeginFetch(c)
    /\ UNCHANGED roles

AnyInit == SeededInit /\ roles = "any"

SplitInit == SeededInit /\ roles \in {"beside", "pair"}

SeededSpec == AnyInit /\ [][RolesNext]_<<allVars, roles>>

RolesSpec == SplitInit /\ [][RolesNext]_<<allVars, roles>>
=============================================================================
