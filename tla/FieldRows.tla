----------------------------- MODULE FieldRows -----------------------------
(***************************************************************************)
(* The rows of the tables `fields` and `field_refs`, and the pure rules    *)
(* about them, shared by FieldTable (what the tables promise) and          *)
(* FieldRegistry (how the handlers of service/field.go keep the promise).  *)
(*                                                                         *)
(* A field's type and the constraints in its properties are one "shape":   *)
(* either Reference, whose constraints are the ids in refs, or a leaf      *)
(* shape.  Widens holds the pairs of leaf shapes <<old, new>> that keep    *)
(* the type and do not tighten a constraint.                               *)
(***************************************************************************)
EXTENDS Naturals

CONSTANTS
  Field,        \* ids of the table fields, used or not yet allocated
  Holder,       \* ids of the other referers: templates, FSM configs, trees
  BBHolder,     \* the referers that use the field as a BB key: FSM and BT
  LeafShape,    \* <<type, constraints>> of the non-reference fields
  Reference,    \* the shape of a field of type "reference"
  Widens,       \* old leaf shape -> new leaf shape, same type, not tighter
  MaxVersion    \* bound: no request starts on a row of this version

ASSUME FieldAssumption == Field # {}
ASSUME ShapeAssumption == Reference \notin LeafShape
ASSUME WidensAssumption == Widens \subseteq LeafShape \X LeafShape
ASSUME HolderAssumption == BBHolder \subseteq Holder
ASSUME BoundAssumption == MaxVersion \in Nat

Shape == LeafShape \cup {Reference}

Row == [live : BOOLEAN, enabled : BOOLEAN, ver : Nat,
        shape : Shape, refs : SUBSET Field, expose : BOOLEAN]

\* An id that AUTO_INCREMENT has not handed out: no row, version 0.
NoRow == [live |-> FALSE, enabled |-> FALSE, ver |-> 0,
          shape |-> Reference, refs |-> {}, expose |-> FALSE]

\* INSERT INTO fields: enabled = 0, version = 1, deleted = 0.
NewRow(s, r, e) == [live |-> TRUE, enabled |-> FALSE, ver |-> 1,
                    shape |-> s, refs |-> r, expose |-> e]

\* UPDATE fields SET type, properties, expose_bb, version = version + 1.
EditedRow(row, s, r, e) ==
  [row EXCEPT !.shape = s, !.refs = r, !.expose = e, !.ver = row.ver + 1]

\* Mutant: a toggle that keeps the version.
ToggledRowUnversioned(row, b) == [row EXCEPT !.enabled = b]

\* UPDATE fields SET enabled, version = version + 1.
ToggledRow(row, b) == [row EXCEPT !.enabled = b, !.ver = row.ver + 1]

\* UPDATE fields SET deleted = 1.
DeletedRow(row) == [row EXCEPT !.live = FALSE]

\* Only a reference field has constraints.refs.
RefsFit(s, r) == (s = Reference) <=> (r # {})

\* enforceRefIntegrityOnUpdate, applied to a field that is referenced.
ShapeChangeAllowed(old, new) == old = new \/ <<old, new>> \in Widens
=============================================================================
