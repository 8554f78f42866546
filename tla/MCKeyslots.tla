----------------------------- MODULE MCKeyslots -----------------------------
EXTENDS Keyslots

\* Two keyslots: one for the passphrase a, one for b.
MCInitPass == <<"a", "b">>
Symmetry == Permutations(Procs)
==============================================================================
