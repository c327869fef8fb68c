------------------------- MODULE MCConnectionNotes -------------------------
EXTENDS ConnectionNotes, TLC

Body(variables, plain) == [vars |-> variables, unknown |-> FALSE, plain |-> plain]

\* A note for everybody, one that names the company, one with a misspelt variable.
MCBodies == {Body({}, 2), Body({"company"}, 1), [Body({}, 2) EXCEPT !.unknown = TRUE]}

\* No company, a short one, one that makes the note too long.
MCValues == [{"company"} -> {0, 1, 3}]

Symmetry == Permutations(Operators)
=============================================================================
