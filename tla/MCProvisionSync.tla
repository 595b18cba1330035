--------------------------- MODULE MCProvisionSync ---------------------------
(***************************************************************************)
(* Instances of ProvisionSync for TLC.                                     *)
(***************************************************************************)
EXTENDS ProvisionSync, TLC

\* The manifest URLs are interchangeable.
MCSymmetry == Permutations(URL)
=============================================================================
