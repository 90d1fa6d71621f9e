------------------------ MODULE MCKernelNamesCache ------------------------
EXTENDS KernelNamesCache, TLC

CONSTANTS t1, t2, k1, k2

MCThreads == {t1, t2}
MCNames == <<k1, k2>>
ThreadSymmetry == Permutations(MCThreads)
=============================================================================
