----------------------- MODULE ConstraintCheckProofs -----------------------
(***************************************************************************)
(* What CheckConstraintTightened guarantees, for all constraints.          *)
(***************************************************************************)
EXTENDS ConstraintCheck, TLAPS

\* Constraints that do not change are not tightened.
LEMMA SameIsLoose ==
  ASSUME NEW type, NEW c \in Constraint
  PROVE  ~CheckConstraintTightened(type, c, c)
<1>1. c.min \in Bound /\ c.max \in Bound /\ c.precision \in Bound
  BY DEF Constraint
<1> QED
  BY <1>1 DEF CheckConstraintTightened, Raised, Lowered, Set, Bound

\* A bound, or a set of options, where there was none.
Introduces(old, new) ==
  \/ Set(new.min) /\ ~Set(old.min)
  \/ Set(new.max) /\ ~Set(old.max)
  \/ new.options # {} /\ old.options = {}

\* An edit that the check lets through keeps every legal value legal, unless it
\* introduces a bound or options: that is all the check fails to see of what
\* ValidateValue looks at.
THEOREM LooserKeepsValues ==
  ASSUME NEW type, NEW old \in Constraint, NEW new \in Constraint, NEW v \in Value,
         ~CheckConstraintTightened(type, old, new), ~Introduces(old, new),
         ValidateValue(type, old, v)
  PROVE  ValidateValue(type, new, v)
<1>1. /\ old.min \in Bound /\ old.max \in Bound
      /\ new.min \in Bound /\ new.max \in Bound /\ v.size \in Nat
  BY DEF Constraint, Value
<1>2. ASSUME type \in {"int", "float", "string"}, Set(new.min)
      PROVE  v.size >= new.min
  <2>1. Set(old.min) /\ v.size >= old.min /\ ~(new.min > old.min)
    BY <1>2 DEF ValidateValue, Introduces, CheckConstraintTightened, Raised
  <2> QED
    BY <1>1, <1>2, <2>1 DEF Bound, Set
<1>3. ASSUME type \in {"int", "float", "string"}, Set(new.max)
      PROVE  v.size <= new.max
  <2>1. Set(old.max) /\ v.size <= old.max /\ ~(new.max < old.max)
    BY <1>3 DEF ValidateValue, Introduces, CheckConstraintTightened, Lowered
  <2> QED
    BY <1>1, <1>3, <2>1 DEF Bound, Set
<1>4. ASSUME type = "select", new.options # {}
      PROVE  v.chosen \subseteq new.options
  <2>1. old.options # {} /\ old.options \subseteq new.options
    BY <1>4 DEF Introduces, CheckConstraintTightened
  <2> QED
    BY <1>4, <2>1 DEF ValidateValue
<1> QED
  BY <1>2, <1>3, <1>4 DEF ValidateValue

\* Nor is an edit of the bounds refused for nothing: of constraints that
\* ValidateConstraintsSelf accepts, a bound that is raised or lowered makes a
\* legal number, or length of a string, illegal.
THEOREM TighterLosesValues ==
  ASSUME NEW type \in {"int", "float", "string"},
         NEW old \in Constraint, NEW new \in Constraint,
         ValidateConstraintsSelf(type, old),
         Raised(old.min, new.min) \/ Lowered(old.max, new.max)
  PROVE  \E v \in Value : ValidateValue(type, old, v) /\ ~ValidateValue(type, new, v)
<1>1. /\ old.min \in Bound /\ old.max \in Bound
      /\ new.min \in Bound /\ new.max \in Bound
  BY DEF Constraint
<1>2. Set(old.min) /\ Set(old.max) => old.min <= old.max
  BY DEF ValidateConstraintsSelf
<1>3. ASSUME NEW n \in Nat,
             /\ Set(old.min) => n >= old.min
             /\ Set(old.max) => n <= old.max,
             (Set(new.min) /\ n < new.min) \/ (Set(new.max) /\ n > new.max)
      PROVE  \E v \in Value : ValidateValue(type, old, v) /\ ~ValidateValue(type, new, v)
  <2> DEFINE v == [size |-> n, chosen |-> {}]
  <2>1. v \in Value /\ v.size = n
    BY DEF Value
  <2>2. ValidateValue(type, old, v)
    BY <1>3 DEF ValidateValue
  <2>3. ~ValidateValue(type, new, v)
    BY <1>1, <1>3 DEF ValidateValue, Set, Bound
  <2> QED
    BY <2>1, <2>2, <2>3
<1>4. CASE Raised(old.min, new.min)
  <2>1. /\ old.min \in Nat /\ new.min \in Nat /\ new.min > old.min
        /\ Set(old.min) /\ Set(new.min)
    BY <1>1, <1>4 DEF Raised, Set, Bound
  <2> QED
    BY <1>2, <1>3, <2>1
<1>5. CASE Lowered(old.max, new.max)
  <2>1. /\ old.max \in Nat /\ new.max \in Nat /\ new.max < old.max
        /\ Set(old.max) /\ Set(new.max)
    BY <1>1, <1>5 DEF Lowered, Set, Bound
  <2> QED
    BY <1>1, <1>2, <1>3, <2>1 DEF Set, Bound
<1> QED
  BY <1>4, <1>5
=============================================================================
