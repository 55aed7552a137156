--------------------------- MODULE MCProvisioning ---------------------------
EXTENDS Provisioning, TLC

\* Run ids are drawn in order, process ids freely.
Symmetry == Permutations(Procs)
=============================================================================
