--------------------------- MODULE MCStreamQueue ---------------------------
(***************************************************************************)
(* Small instances of StreamQueue.  Tight is for two listeners on a queue  *)
(* that is trimmed as soon as it holds a block too many; Mixed is for one  *)
(* listener on a queue whose limits grow and shrink while it is in use.    *)
(***************************************************************************)
EXTENDS StreamQueue, TLC

CONSTANTS l1, l2

MCListeners == {l1, l2}
Tight       == {[min |-> 1, limit |-> 2]}
OneListener == {l1}
Mixed       == {[min |-> 1, limit |-> 2], [min |-> 3, limit |-> 6]}
Symmetric   == Permutations(MCListeners)
=============================================================================
