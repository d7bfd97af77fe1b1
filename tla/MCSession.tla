------------------------------ MODULE MCSession ------------------------------
(* Instances of AppleMidiSession. *)
EXTENDS AppleMidiSession, TLC

(* Addresses are only compared for equality. *)
MCSymmetry == Permutations(Addrs)
=============================================================================
