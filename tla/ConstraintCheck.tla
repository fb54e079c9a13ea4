--------------------------- MODULE ConstraintCheck ---------------------------
(***************************************************************************)
(* The rules on constraints, service/constraint_check.go and               *)
(* service/shared/validate.go.  min and max stand for minLength and        *)
(* maxLength of a string, minSelect and maxSelect of a selection.  A bound *)
(* that is null in the JSON is read as 0, one that is not a number as      *)
(* unset.                                                                  *)
(***************************************************************************)
EXTENDS Integers

CONSTANTS
  Unset,        \* a key that the JSON of the constraints does not have
  Option,       \* options of a selection
  Pattern       \* patterns of a string

FieldType == {"int", "float", "string", "bool", "select"}
Bound == Nat \cup {Unset}
Constraint == [min : Bound, max : Bound, precision : Bound,
               options : SUBSET Option, pattern : Pattern \cup {Unset}]
Unconstrained == [min |-> Unset, max |-> Unset, precision |-> Unset,
                  options |-> {}, pattern |-> Unset]

\* A number, or the length of a string; the options chosen.
Value == [size : Nat, chosen : SUBSET Option]

Set(b) == b # Unset
Raised(old, new) == Set(old) /\ Set(new) /\ new > old
Lowered(old, new) == Set(old) /\ Set(new) /\ new < old

\* Mutant: only the lower bound is looked at.
CheckLowerTightened(type, old, new) == type # "bool" /\ Raised(old.min, new.min)

\* TRUE: the edit of a referenced row is refused.
CheckConstraintTightened(type, old, new) ==
  \/ type # "bool" /\ (Raised(old.min, new.min) \/ Lowered(old.max, new.max))
  \/ type = "float" /\ Lowered(old.precision, new.precision)
  \/ type = "string" /\ Set(new.pattern) /\ new.pattern # old.pattern
  \/ type = "select" /\ ~(old.options \subseteq new.options)

ValidateConstraintsSelf(type, c) ==
  /\ type # "bool" /\ Set(c.min) /\ Set(c.max) => c.min <= c.max
  /\ type = "float" /\ Set(c.precision) => c.precision > 0

\* Neither the pattern nor the precision nor the number of options is looked at.
ValidateValue(type, c, v) ==
  /\ type \in {"int", "float", "string"} =>
       /\ Set(c.min) => v.size >= c.min
       /\ Set(c.max) => v.size <= c.max
  /\ type = "select" /\ c.options # {} => v.chosen \subseteq c.options

=============================================================================
