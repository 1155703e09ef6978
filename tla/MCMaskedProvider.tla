-------------------------- MODULE MCMaskedProvider --------------------------
EXTENDS MaskedProvider, TLC

AllConfigs == {{"frequency"}, Kinds}

Symmetry == Permutations(Callers)

=============================================================================
