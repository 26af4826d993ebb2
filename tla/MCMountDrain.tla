---------------------------- MODULE MCMountDrain ----------------------------
(***************************************************************************)
(* Small instances of MountDrain.  Mount a falls back to b; b's listeners  *)
(* are called to a when a stream starts there.                             *)
(***************************************************************************)
EXTENDS MountDrain, TLC

CONSTANTS a, b, s1, s2, l1, l2

TwoMounts   == {a, b}
FallBack    == (a :> b) @@ (b :> NoMount)
TwoSources  == {s1, s2}
NameOfTwo   == (s1 :> a) @@ (s2 :> b)
Alike       == Permutations({l1, l2})
=============================================================================
