--------------------------- MODULE MCAutomation ---------------------------
EXTENDS Automation, TLC

Symmetric == Permutations(Pools)
=============================================================================
