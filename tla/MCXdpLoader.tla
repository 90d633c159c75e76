---------------------------- MODULE MCXdpLoader ----------------------------
(* Small instances of XdpLoader.  The invocations are interchangeable: each *)
(* may become a load in any mode or an unload.                              *)
EXTENDS XdpLoader, TLC

Symmetry == Permutations(Invocations)
=============================================================================
