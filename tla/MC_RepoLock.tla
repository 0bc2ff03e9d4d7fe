----------------------------- MODULE MC_RepoLock -----------------------------
EXTENDS RepoLock, TLC

Symm == Permutations(Process)
=============================================================================
