---------------------------- MODULE MC_BucketWal ----------------------------
EXTENDS BucketWal, TLC

CONSTANTS s1, s2, s3

\* s2 is a commit on top of s1.
LinearHistory == s1 :> {s1} @@ s2 :> {s1, s2}

\* s2 and s3 are two commits on top of s1.
ForkedHistory == s1 :> {s1} @@ s2 :> {s1, s2} @@ s3 :> {s1, s3}

Symmetry == Permutations(Client) \cup Permutations(Branch)
=============================================================================
