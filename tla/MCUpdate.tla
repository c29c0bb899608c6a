-------------------------------- MODULE MCUpdate --------------------------------
EXTENDS Update

\* Release 1 has nothing under core/, 2 has both files, and 3 drops one of them.
MCFiles == [core |-> {"a", "b"}]
MCShips == <<{}, {"a", "b"}, {"a"}>>

Symmetries == Permutations(Processes)
=============================================================================
