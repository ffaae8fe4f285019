---------------------------- MODULE MCMediaLease ----------------------------
(* Instances of MediaLease for TLC; the .cfg file gives the bounds. *)
EXTENDS MediaLease, TLC

\* Airwave asks for too much, and for nothing that is a length.
AnyLength == {99, -1}

Symmetry == Permutations(Requests)
=============================================================================
