---------------------------- MODULE MCConfigEdit ----------------------------
(* A small instance of ConfigEdit.                                         *)
EXTENDS ConfigEdit, TLC

(* Nothing tells two ids, two terminals or two configurations apart, and   *)
(* the properties checked are invariants.                                  *)
Symmetry == Permutations(Ids) \cup Permutations(Terminals) \cup Permutations(Cfgs)
=============================================================================
