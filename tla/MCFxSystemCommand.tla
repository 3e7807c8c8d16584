------------------------- MODULE MCFxSystemCommand -------------------------
(* FxSystemCommand on a few effects, which are alike.                      *)
EXTENDS FxSystemCommand, TLC

Symmetry == Permutations(Cmds)

=============================================================================
