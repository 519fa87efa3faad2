--------------------------- MODULE MCChildRelease ---------------------------
EXTENDS ChildRelease, TLC

CONSTANTS c1, c2

\* Two children free to start together.
Siblings == [c \in Child |-> {}]
\* The second waits on the first.
Chain == [c \in Child |-> IF c = c2 THEN {c1} ELSE {}]

BothGraphs == {Siblings, Chain}

Symmetry == Permutations(Worker)
=============================================================================
