-------------------------- MODULE MCKernelThreads --------------------------
(* Small instances of KernelThreads.  Threads other than the one that      *)
(* boots the kernel are interchangeable.                                   *)
EXTENDS KernelThreads, TLC

CONSTANTS main, t1, t2, s1

ThreadSymmetry == Permutations({t1, t2})
=============================================================================
