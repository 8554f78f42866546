--------------------------- MODULE MCLuks2Header ---------------------------
EXTENDS Luks2Header, TLC

Symmetry == Permutations(Procs) \cup Permutations(Updates)
=============================================================================
