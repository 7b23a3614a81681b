----------------------------- MODULE MCAnnIndex -----------------------------
(* Instances of AnnIndex for TLC.                                          *)
EXTENDS AnnIndex, TLC

VectorsOnALine == {<<0>>, <<1>>, <<3>>, <<0, 0>>}
SymmetricIDs == Permutations(ID)
=============================================================================
