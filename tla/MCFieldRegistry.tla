--------------------------- MODULE MCFieldRegistry ---------------------------
EXTENDS FieldRegistry, TLC

CONSTANTS a, b

\* From a to b the constraints loosen; b to a would tighten them.
MCWidens == {w \in LeafShape \X LeafShape : w = <<a, b>>}

Symm == Permutations(Request)

\* Fields are alike but for the one of NoJob, which no action looks at.
FieldSymm == Permutations(Field)
=============================================================================
