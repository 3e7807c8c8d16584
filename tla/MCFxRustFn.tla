---------------------------- MODULE MCFxRustFn ----------------------------
(* The callers are interchangeable: safety is checked up to a permutation. *)
EXTENDS FxRustFn, TLC

Symmetry == Permutations(Handles)

=============================================================================
