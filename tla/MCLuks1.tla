------------------------------- MODULE MCLuks1 -------------------------------
EXTENDS Luks1

\* Two keyslots: one for the passphrase a, one for b.
MCInitPass == <<"a", "b">>
Symmetry == Permutations(Procs)
==============================================================================
