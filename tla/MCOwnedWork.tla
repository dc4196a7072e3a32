---------------------------- MODULE MCOwnedWork ----------------------------
\* Small instances of OwnedWork for TLC.
EXTENDS OwnedWork, TLC

Symmetric == Permutations(Agents) \union Permutations(Procs)
=============================================================================
