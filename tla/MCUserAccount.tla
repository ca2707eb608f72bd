--------------------------- MODULE MCUserAccount ---------------------------
(* The groups of a user are interchangeable: no action and no property      *)
(* tells one from another.  The order ids are not: they say which element   *)
(* of order_list_ comes first.                                             *)
EXTENDS UserAccount

Symmetry == Permutations(Groups)
=============================================================================
