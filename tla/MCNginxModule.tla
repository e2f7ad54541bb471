--------------------------- MODULE MCNginxModule ---------------------------
EXTENDS NginxModule, TLC

Symmetry == Permutations(Requests)
=============================================================================
