----------------------------- MODULE MCNameLoss -----------------------------
(***************************************************************************)
(* Instances of NameLoss for TLC: hubs and devices are interchangeable,    *)
(* personas and names are not, they are ordered.                           *)
(***************************************************************************)
EXTENDS NameLoss, TLC

Symmetry == Permutations(Hubs) \cup Permutations(Devices)
=============================================================================
