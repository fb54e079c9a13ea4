-------------------------- MODULE MCSchemaRegistry --------------------------
EXTENDS SchemaRegistry, TLC

CONSTANTS s1, s2, o1, o2

Range(lo, hi) == [Unconstrained EXCEPT !.min = lo, !.max = hi]
Number(n) == [size |-> n, chosen |-> {}]

\* Numbers only.
Ints == [s \in Schema |-> "int"]
Ranges == {Range(0, 0), Range(0, 1), Range(1, 1)}
Numbers == {Number(0), Number(1)}

\* A number and a selection: every kind of value for both of them.
Mixed == [s \in Schema |-> IF s = s1 THEN "int" ELSE "select"]
MixedConstraints ==
  {[Range(0, 1) EXCEPT !.options = {o1, o2}], [Range(0, 1) EXCEPT !.options = {o1}],
   [Range(0, 0) EXCEPT !.options = {o1}]}
MixedValues == {[size |-> 0, chosen |-> {o2}], [size |-> 1, chosen |-> {o1}]}

Symm == Permutations(Request)
=============================================================================
