----------------------------- MODULE FieldTable -----------------------------
(***************************************************************************)
(* What the field module promises about its two tables: each edit of a     *)
(* field is one atomic step, judged against the row and the references     *)
(* that exist at that very step.  FieldRegistry implements it by requests  *)
(* that read first, check later and write last.                            *)
(***************************************************************************)
EXTENDS FieldRows

VARIABLES
  fields,      \* the table fields
  fieldRefs,   \* fieldRefs[f]: fields x with a row <<f, "field", x>>
  holders      \* holders[f]: holders h with a row <<f, kind of h, h>>

vars == <<fields, fieldRefs, holders>>

Init ==
  /\ fields \in [Field -> {NoRow} \cup
                   {NewRow(s, {}, e) : s \in LeafShape, e \in BOOLEAN}]
  /\ fieldRefs = [f \in Field |-> {}]
  /\ holders = [f \in Field |-> {}]

Referenced(f) == fieldRefs[f] # {} \/ holders[f] # {}

Insert(f, s, r, e) ==
  /\ fields[f].ver = 0
  /\ RefsFit(s, r)
  /\ fields' = [fields EXCEPT ![f] = NewRow(s, r, e)]
  /\ UNCHANGED <<fieldRefs, holders>>

\* Only a disabled field is edited, and while it is referenced its type
\* stays and its constraints do not tighten.
Edit(f, s, r, e) ==
  /\ fields[f].live /\ ~fields[f].enabled
  /\ RefsFit(s, r)
  /\ Referenced(f) => ShapeChangeAllowed(fields[f].shape, s)
  /\ fields' = [fields EXCEPT ![f] = EditedRow(fields[f], s, r, e)]
  /\ UNCHANGED <<fieldRefs, holders>>

Toggle(f, b) ==
  /\ fields[f].live
  /\ fields' = [fields EXCEPT ![f] = ToggledRow(fields[f], b)]
  /\ UNCHANGED <<fieldRefs, holders>>

\* Only an unreferenced field is deleted; its own references go with it or
\* stay, for the rows of a source are kept by another transaction.
Remove(f) ==
  /\ fields[f].live
  /\ ~Referenced(f)
  /\ fields' = [fields EXCEPT ![f] = DeletedRow(fields[f])]
  /\ fieldRefs' \in {fieldRefs, [g \in Field |-> fieldRefs[g] \ {f}]}
  /\ UNCHANGED holders

\* The rows of one source field change, or the row of one holder.
Link(x) ==
  /\ \E add, del \in SUBSET Field :
       fieldRefs' = [g \in Field |-> IF g \in add THEN fieldRefs[g] \cup {x}
                                     ELSE IF g \in del THEN fieldRefs[g] \ {x}
                                     ELSE fieldRefs[g]]
  /\ UNCHANGED <<fields, holders>>

Hold(f, h) ==
  /\ \E hs \in {holders[f] \cup {h}, holders[f] \ {h}} :
       holders' = [holders EXCEPT ![f] = hs]
  /\ UNCHANGED <<fields, fieldRefs>>

Next ==
  \E f \in Field :
    \/ \E s \in Shape, r \in SUBSET Field, e \in BOOLEAN :
         Insert(f, s, r, e) \/ Edit(f, s, r, e)
    \/ \E b \in BOOLEAN : Toggle(f, b)
    \/ Remove(f)
    \/ Link(f)
    \/ \E h \in Holder : Hold(f, h)

Spec == Init /\ [][Next]_vars
=============================================================================
