----------------------------- MODULE MCPersonas -----------------------------
(***************************************************************************)
(* Instances of Personas for TLC: hubs and devices are interchangeable,    *)
(* personas and names are not, they are ordered.                           *)
(***************************************************************************)
EXTENDS Personas, TLC

Symmetry == Permutations(Hubs) \cup Permutations(Devices)
=============================================================================
