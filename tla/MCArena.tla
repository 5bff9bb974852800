------------------------------ MODULE MCArena ------------------------------
(* A chunk of six units holds one to three blocks; sizes beyond it make a   *)
(* chunk of their own.                                                      *)
EXTENDS Arena, TLC

FewSizes == {0, 1, 2, 4}
InHalves == {<<4, 2>>}
AnyHandle == Permutations(Handle)

=============================================================================
