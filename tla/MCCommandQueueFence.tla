------------------------ MODULE MCCommandQueueFence -------------------------
(* Model values for the CommandQueueFence runs. *)
EXTENDS CommandQueueFence

CONSTANTS t1, t2, l1, l2

MCThreads1 == {t1}
MCThreads2 == {t1, t2}
MCLists == {l1, l2}
=============================================================================
