------------------------------ MODULE MCLogHub ------------------------------
EXTENDS LogHub, TLC

\* Connections are interchangeable.
Symmetry == Permutations(UI) \cup Permutations(Conn)

=============================================================================
