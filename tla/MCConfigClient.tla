--------------------------- MODULE MCConfigClient ---------------------------
EXTENDS ConfigClient, TLC
Symmetry == Permutations(Clients)
=============================================================================
