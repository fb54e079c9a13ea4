------------------------ MODULE FieldRegistryProofs ------------------------
(***************************************************************************)
(* What the field module keeps true for every number of fields, requests,  *)
(* holders and versions.                                                   *)
(***************************************************************************)
EXTENDS FieldRegistry, TLAPS

\* A request that has answered has no body.
LEMMA NoJobType == NoJob \in Job
<1>1. (CHOOSE f \in Field : TRUE) \in Field
  BY FieldAssumption
<1>2. NoRow \in Row
  BY DEF NoRow, Row, Shape
<1> QED
  BY <1>1, <1>2 DEF NoJob, Job, Shape

\* Finish keeps the types of a request's own variables.
LEMMA FinishType ==
  ASSUME NEW p \in Request, TypeOK, Finish(p)
  PROVE  /\ pc' \in [Request -> PC]
         /\ job' \in [Request -> Job]
         /\ todo' \in [Request -> SUBSET Field]
         /\ seen' \in [Request -> SUBSET Field]
BY NoJobType DEF Finish, TypeOK, PC

\* The rows that the statements write are rows.
LEMMA RowTypes ==
  ASSUME NEW s \in Shape, NEW r \in SUBSET Field, NEW e \in BOOLEAN,
         NEW row \in Row, NEW b \in BOOLEAN
  PROVE  /\ NewRow(s, r, e) \in Row
         /\ EditedRow(row, s, r, e) \in Row
         /\ ToggledRow(row, b) \in Row
         /\ DeletedRow(row) \in Row
<1>1. NewRow(s, r, e) \in Row
  BY DEF NewRow, Row
<1>0. row.ver + 1 \in Nat
  BY DEF Row
<1>2. EditedRow(row, s, r, e) \in Row
  <2> DEFINE n == row.ver + 1
  <2>1. n \in Nat
    BY <1>0
  <2> HIDE DEF n
  <2>2. [row EXCEPT !.shape = s, !.refs = r, !.expose = e, !.ver = n] \in Row
    BY <2>1 DEF Row
  <2> QED
    BY <2>2 DEF EditedRow, n
<1>3. ToggledRow(row, b) \in Row
  <2> DEFINE n == row.ver + 1
  <2>1. n \in Nat
    BY <1>0
  <2> HIDE DEF n
  <2>2. [row EXCEPT !.enabled = b, !.ver = n] \in Row
    BY <2>1 DEF Row
  <2> QED
    BY <2>2 DEF n, ToggledRow
<1>4. DeletedRow(row) \in Row
  BY DEF Row, DeletedRow
<1> QED
  BY <1>1, <1>2, <1>3, <1>4

\* Starting a request of service/field.go keeps every type.
LEMMA BeginType ==
  ASSUME TypeOK, NEW p \in Request, Begin(p)
  PROVE  TypeOK'
<1>1. ASSUME NEW f \in Field, NEW s \in Shape, NEW r \in SUBSET Field,
             NEW e \in ExposeInput, BeginCreate(p, f, s, r, e)
      PROVE  TypeOK'
  <2>1. [op |-> "create", id |-> f, ver |-> 0, shape |-> s, refs |-> r,
         expose |-> e, old |-> NoRow] \in Job
    BY InputAssumption DEF Job, NoRow, Row, Shape
  <2> QED
    BY <1>1, <2>1 DEF BeginCreate, Goto, TypeOK, PC, tables
<1>2. ASSUME NEW f \in Field, NEW s \in Shape, NEW r \in SUBSET Field,
             NEW e \in ExposeInput, NEW v \in 1..MaxVersion,
             BeginUpdate(p, f, v, s, r, e)
      PROVE  TypeOK'
  <2>1. [op |-> "update", id |-> f, ver |-> v, shape |-> s, refs |-> r,
         expose |-> e, old |-> fields[f]] \in Job
    BY InputAssumption, BoundAssumption DEF Job, TypeOK
  <2> QED
    BY <1>2, <2>1 DEF BeginUpdate, Goto, TypeOK, PC, tables
<1>3. ASSUME NEW f \in Field, BeginDelete(p, f)
      PROVE  TypeOK'
  <2>1. [NoJob EXCEPT !.op = "delete", !.id = f, !.old = fields[f]] \in Job
    BY NoJobType DEF Job, TypeOK
  <2> QED
    BY <1>3, <2>1 DEF BeginDelete, Goto, TypeOK, PC, tables
<1> QED
  BY <1>1, <1>2, <1>3 DEF Begin

\* The checks of a request write only its own variables, within their types.
LEMMA CheckType ==
  ASSUME TypeOK, NEW p \in Request, Check(p)
  PROVE  TypeOK'
<1>1. CASE CheckExposeBBRevocation(p)
  BY <1>1, FinishType DEF CheckExposeBBRevocation, Goto, TypeOK, PC, tables
<1>2. CASE HasRefsTx(p)
  <2>1. job[p].refs \in SUBSET Field
    BY DEF TypeOK, Job
  <2> QED
    BY <1>2, <2>1, FinishType
    DEF HasRefsTx, ToValidation, ReferencesAllow, Goto, TypeOK, PC, tables
<1>3. ASSUME NEW y \in Field, ValidateRef(p, y)
      PROVE  TypeOK'
  <2>1. job[p].refs \in SUBSET Field /\ job[p].id \in Field
    BY DEF TypeOK, Job
  <2>2. FirstSeen(p) \in SUBSET Field
    BY <2>1 DEF FirstSeen
  <2> QED
    BY <1>3, <2>1, <2>2, FinishType DEF ValidateRef, Goto, TypeOK, PC, tables
<1>4. ASSUME NEW y \in Field, NEW sub \in SUBSET Field, VisitRef(p, y, sub)
      PROVE  TypeOK'
  BY <1>4, FinishType DEF VisitRef, ToVisit, Goto, TypeOK, PC, tables
<1>5. CASE EndVisit(p)
  BY <1>5 DEF EndVisit, Goto, TypeOK, PC, tables
<1> QED
  BY <1>1, <1>2, <1>3, <1>4, <1>5 DEF Check

\* The four writes put rows into the table and references into field_refs.
LEMMA WriteType ==
  ASSUME TypeOK, NEW p \in Request, Write(p)
  PROVE  TypeOK'
<1> DEFINE j == job[p]
<1>0. /\ j.id \in Field /\ j.shape \in Shape /\ j.refs \in SUBSET Field
      /\ j.expose \in BOOLEAN /\ fields[j.id] \in Row
  BY DEF TypeOK, Job
<1>1. CASE InsertField(p)
  <2>1. NewRow(j.shape, j.refs, j.expose) \in Row
    BY <1>0, RowTypes
  <2> QED
    BY <1>1, <1>0, <2>1, FinishType DEF InsertField, Goto, TypeOK, PC
<1>2. CASE UpdateTx(p)
  <2>1. EditedRow(fields[j.id], j.shape, j.refs, j.expose) \in Row
    BY <1>0, RowTypes
  <2> QED
    BY <1>2, <1>0, <2>1, FinishType DEF UpdateTx, Goto, TypeOK, PC
<1>3. CASE SoftDeleteTx(p)
  <2>1. DeletedRow(fields[j.id]) \in Row
    BY <1>0, RowTypes
  <2> QED
    BY <1>3, <1>0, <2>1, FinishType DEF SoftDeleteTx, RemoveBySource, TypeOK
<1>4. CASE SyncFieldRefs(p)
  <2>1. fieldRefs' \in [Field -> SUBSET Field]
    BY <1>4, <1>0 DEF SyncFieldRefs, TypeOK
  <2> QED
    BY <1>4, <2>1, FinishType DEF SyncFieldRefs, TypeOK
<1> QED
  BY <1>1, <1>2, <1>3, <1>4 DEF Write

\* The tables as found, rows of leaf fields without references, have their types.
LEMMA TypeInit ==
  ASSUME Init
  PROVE  TypeOK
<1>1. NoRow \in Row
  BY DEF NoRow, Row, Shape
<1>2. ASSUME NEW s \in LeafShape, NEW e \in ExposeInput
      PROVE  NewRow(s, {}, e) \in Row
  BY InputAssumption DEF NewRow, Row, Shape
<1>3. fields \in [Field -> Row]
  BY <1>1, <1>2 DEF Init
<1> QED
  BY <1>3, NoJobType DEF Init, TypeOK, PC

\* Every step of the field module keeps the type invariant.
LEMMA TypeStep ==
  ASSUME TypeOK, [Next]_vars
  PROVE  TypeOK'
<1>1. ASSUME NEW p \in Request, Begin(p) \/ Check(p) \/ Write(p) \/ Fail(p)
      PROVE  TypeOK'
  <2>1. CASE Fail(p)
    BY <2>1, FinishType DEF Fail, tables, TypeOK
  <2> QED
    BY <1>1, <2>1, BeginType, CheckType, WriteType
<1>2. ASSUME NEW f \in Field, NEW b \in BOOLEAN, ToggleEnabled(f, b)
      PROVE  TypeOK'
  <2>1. ToggledRow(fields[f], b) \in Row
    BY RowTypes DEF TypeOK, Shape
  <2> QED
    BY <1>2, <2>1 DEF ToggleEnabled, TypeOK
<1>3. ASSUME NEW f \in Field, NEW h \in Holder, HolderRef(h, f)
      PROVE  TypeOK'
  BY <1>3 DEF HolderRef, TypeOK
<1>4. CASE UNCHANGED vars
  BY <1>4 DEF vars, TypeOK
<1> QED
  BY <1>1, <1>2, <1>3, <1>4 DEF Next

\* Rows, references and requests have their types at every step.
THEOREM TypeCorrect == Spec => []TypeOK
<1>1. Init => TypeOK
  BY TypeInit
<1>2. TypeOK /\ [Next]_vars => TypeOK'
  BY TypeStep
<1> QED
  BY <1>1, <1>2, PTL DEF Spec

-----------------------------------------------------------------------------
(* The inductive invariant, conjunct by conjunct. *)

\* How a request starts.
LEMMA BeginEffect ==
  ASSUME TypeOK, NEW p \in Request, Begin(p)
  PROVE  /\ UNCHANGED tables
         /\ pc[p] = "idle"
         /\ \A q \in Request \ {p} : /\ pc'[q] = pc[q] /\ job'[q] = job[q]
                                     /\ todo'[q] = todo[q] /\ seen'[q] = seen[q]
         /\ \/ /\ job'[p].op = "create"
               /\ pc'[p] = IF job'[p].shape = Reference THEN "refs" ELSE "write"
               /\ RefsFit(job'[p].shape, job'[p].refs)
               /\ fields[job'[p].id].ver = 0
               /\ \A q \in Request : pc[q] # "idle" => job[q].id # job'[p].id
               /\ todo'[p] = job'[p].refs
            \/ /\ job'[p].op = "update"
               /\ pc'[p] \in {"expose", "lock"}
               /\ RefsFit(job'[p].shape, job'[p].refs)
               /\ job'[p].old = fields[job'[p].id]
               /\ job'[p].old.live /\ ~job'[p].old.enabled
               /\ job'[p].ver <= job'[p].old.ver
            \/ /\ job'[p].op = "delete" /\ pc'[p] = "lock"
               /\ job'[p].old = fields[job'[p].id] /\ job'[p].old.live
<1> USE DEF TypeOK, Goto, tables
<1>1. ASSUME NEW f \in Field, NEW s \in Shape, NEW r \in SUBSET Field,
             NEW e \in ExposeInput, BeginCreate(p, f, s, r, e)
      PROVE  /\ job' = [job EXCEPT ![p] = job'[p]]
             /\ pc' = [pc EXCEPT ![p] = pc'[p]]
             /\ job'[p].op = "create"
             /\ pc'[p] = IF s = Reference THEN "refs" ELSE "write"
             /\ job'[p].shape = s /\ job'[p].refs = r /\ job'[p].id = f
             /\ todo'[p] = r
  BY <1>1 DEF BeginCreate
<1>2. ASSUME NEW f \in Field, NEW s \in Shape, NEW r \in SUBSET Field,
             NEW e \in ExposeInput, NEW v \in 1..MaxVersion,
             BeginUpdate(p, f, v, s, r, e)
      PROVE  /\ job' = [job EXCEPT ![p] = job'[p]]
             /\ pc' = [pc EXCEPT ![p] = pc'[p]]
             /\ job'[p].op = "update"
             /\ pc'[p] \in {"expose", "lock"}
             /\ job'[p].shape = s /\ job'[p].refs = r /\ job'[p].id = f
             /\ job'[p].ver = v /\ job'[p].old = fields[f]
             /\ v <= fields[f].ver
  BY <1>2 DEF BeginUpdate
<1>3. ASSUME NEW f \in Field, BeginDelete(p, f)
      PROVE  /\ job' = [job EXCEPT ![p] = job'[p]]
             /\ pc' = [pc EXCEPT ![p] = pc'[p]]
             /\ job'[p].op = "delete"
             /\ pc'[p] = "lock"
             /\ job'[p].id = f /\ job'[p].old = fields[f]
  BY <1>3, NoJobType DEF BeginDelete, Job
<1> USE DEF Begin
<1>4. CASE \E f \in Field, s \in Shape, r \in SUBSET Field, e \in ExposeInput :
             BeginCreate(p, f, s, r, e)
  BY <1>1, <1>4 DEF BeginCreate
<1>5. CASE \E f \in Field, s \in Shape, r \in SUBSET Field, e \in ExposeInput,
             v \in 1..MaxVersion : BeginUpdate(p, f, v, s, r, e)
  BY <1>2, <1>5 DEF BeginUpdate
<1>6. CASE \E f \in Field : BeginDelete(p, f)
  BY <1>3, <1>6 DEF BeginDelete
<1> QED
  BY <1>4, <1>5, <1>6

\* A step of one request leaves the others where they were.
LEMMA OthersKeep ==
  ASSUME TypeOK, NEW p \in Request, Begin(p) \/ Check(p) \/ Write(p) \/ Fail(p),
         NEW q \in Request, q # p
  PROVE  /\ pc'[q] = pc[q] /\ job'[q] = job[q]
         /\ todo'[q] = todo[q] /\ seen'[q] = seen[q]
<1> USE DEF TypeOK, Goto, Finish
<1>1. CASE Begin(p)
  BY <1>1, BeginEffect
<1>2. CASE Check(p)
  <2>1. CASE CheckExposeBBRevocation(p)
    BY <2>1 DEF CheckExposeBBRevocation
  <2>2. CASE HasRefsTx(p)
    BY <2>2 DEF HasRefsTx, ToValidation, ReferencesAllow
  <2>3. CASE \E y \in Field : ValidateRef(p, y)
    BY <2>3 DEF ValidateRef
  <2>4. CASE \E y \in Field, sub \in SUBSET Field : VisitRef(p, y, sub)
    BY <2>4 DEF VisitRef, ToVisit
  <2>5. CASE EndVisit(p)
    BY <2>5 DEF EndVisit
  <2> QED
    BY <1>2, <2>1, <2>2, <2>3, <2>4, <2>5 DEF Check
<1>3. CASE Write(p)
  BY <1>3 DEF Write, InsertField, UpdateTx, SoftDeleteTx, SyncFieldRefs
<1>4. CASE Fail(p)
  BY <1>4 DEF Fail
<1> QED
  BY <1>1, <1>2, <1>3, <1>4

\* What a request becomes when it answers.
LEMMA FinishEffect ==
  ASSUME TypeOK, NEW p \in Request, Finish(p)
  PROVE  /\ pc'[p] = "idle" /\ job'[p] = NoJob
         /\ todo'[p] = {} /\ seen'[p] = {}
BY DEF Finish, TypeOK

PhasesOf(p) ==
  /\ pc[p] = "expose" => job[p].op = "update"
  /\ pc[p] = "lock" => job[p].op \in {"update", "delete"}
  /\ pc[p] \in {"refs", "cycle"} => /\ job[p].op \in {"create", "update"}
                                   /\ job[p].shape = Reference
  /\ pc[p] = "sync" => job[p].op \in {"create", "update"}
  /\ pc[p] # "idle" /\ job[p].op # "delete" => RefsFit(job[p].shape, job[p].refs)

\* A request stands only where its operation in service/field.go passes, with
\* the body it was sent.
LEMMA PhasesStep ==
  ASSUME TypeOK, Phases, [Next]_vars
  PROVE  Phases'
<1>1. ASSUME NEW p \in Request, Begin(p) \/ Check(p) \/ Write(p) \/ Fail(p)
      PROVE  Phases'
  <2>1. ASSUME NEW q \in Request, q # p
        PROVE  PhasesOf(q)'
    <3>1. pc'[q] = pc[q] /\ job'[q] = job[q]
      BY <1>1, <2>1, OthersKeep
    <3> QED
      BY <3>1 DEF Phases, PhasesOf
  <2>2. PhasesOf(p)'
    <3>0. CASE Finish(p)
      BY <3>0, FinishEffect DEF PhasesOf
    <3> USE DEF TypeOK, Goto, PhasesOf
    <3>1. CASE Begin(p)
      BY <3>1, BeginEffect
    <3>2. CASE CheckExposeBBRevocation(p)
      BY <3>0, <3>2 DEF CheckExposeBBRevocation, Phases
    <3>3. CASE HasRefsTx(p)
      BY <3>0, <3>3 DEF HasRefsTx, ToValidation, ReferencesAllow, Phases
    <3>4. CASE \E y \in Field : ValidateRef(p, y)
      BY <3>0, <3>4 DEF ValidateRef, Phases
    <3>5. CASE \E y \in Field, sub \in SUBSET Field : VisitRef(p, y, sub)
      BY <3>0, <3>5 DEF VisitRef, Phases
    <3>6. CASE EndVisit(p)
      BY <3>6 DEF EndVisit, Phases
    <3>7. CASE Write(p)
      BY <3>0, <3>7 DEF Write, InsertField, UpdateTx, SoftDeleteTx, SyncFieldRefs,
                        Phases
    <3>8. CASE Fail(p)
      BY <3>0, <3>8 DEF Fail
    <3> QED
      BY <1>1, <3>1, <3>2, <3>3, <3>4, <3>5, <3>6, <3>7, <3>8 DEF Check
  <2> QED
    BY <2>1, <2>2 DEF Phases, PhasesOf
<1>2. CASE UNCHANGED <<pc, job>>
  BY <1>2 DEF Phases
<1>3. CASE \E f \in Field, b \in BOOLEAN : ToggleEnabled(f, b)
  BY <1>2, <1>3 DEF ToggleEnabled
<1>4. CASE \E f \in Field, h \in Holder : HolderRef(h, f)
  BY <1>2, <1>4 DEF HolderRef
<1> QED
  BY <1>1, <1>2, <1>3, <1>4 DEF Next, vars

\* What a check does to its request.
LEMMA CheckEffect ==
  ASSUME TypeOK, NEW p \in Request, Check(p)
  PROVE  /\ UNCHANGED tables
         /\ \/ Finish(p)
            \/ /\ job'[p] = job[p]
               /\ \/ pc[p] = "expose" /\ pc'[p] = "lock"
                  \/ /\ pc[p] = "lock" /\ pc'[p] = "write"
                     /\ job[p].op = "delete" /\ ~Referenced(job[p].id)
                  \/ /\ pc[p] = "lock" /\ job[p].op # "delete"
                     /\ Referenced(job[p].id) =>
                          ShapeChangeAllowed(job[p].old.shape, job[p].shape)
                     /\ pc'[p] = IF job[p].shape = Reference THEN "refs" ELSE "write"
                     /\ job[p].shape = Reference => todo'[p] = job[p].refs
                  \/ /\ pc[p] = "refs" /\ pc'[p] \in {"refs", "cycle"}
                     /\ \E y \in Field : /\ TargetOK(p, y)
                                         /\ todo[p] \ {y} = {} \/ pc'[p] = "refs"
                                         /\ pc'[p] = "refs" => todo'[p] = todo[p] \ {y}
                     /\ pc'[p] = "cycle" /\ job[p].op = "update" =>
                          job[p].id \notin job[p].refs
                  \/ pc[p] = "cycle" /\ pc'[p] \in {"cycle", "write"}
<1> USE DEF TypeOK, Goto
<1>1. CASE CheckExposeBBRevocation(p)
  BY <1>1 DEF CheckExposeBBRevocation
<1>2. CASE HasRefsTx(p)
  BY <1>2 DEF HasRefsTx, ToValidation, ReferencesAllow
<1>3. ASSUME NEW y \in Field, ValidateRef(p, y), ~Finish(p)
      PROVE  /\ UNCHANGED tables /\ job'[p] = job[p]
             /\ pc[p] = "refs" /\ pc'[p] \in {"refs", "cycle"}
             /\ TargetOK(p, y)
             /\ todo[p] \ {y} = {} \/ pc'[p] = "refs"
             /\ pc'[p] = "refs" => todo'[p] = todo[p] \ {y}
             /\ pc'[p] = "cycle" /\ job[p].op = "update" =>
                  job[p].id \notin job[p].refs
  BY <1>3 DEF ValidateRef
<1>4. CASE \E y \in Field, sub \in SUBSET Field : VisitRef(p, y, sub)
  BY <1>4 DEF VisitRef, ToVisit
<1>5. CASE EndVisit(p)
  BY <1>5 DEF EndVisit
<1>6. CASE \E y \in Field : ValidateRef(p, y)
  BY <1>3, <1>6 DEF ValidateRef
<1> QED
  BY <1>1, <1>2, <1>4, <1>5, <1>6 DEF Check

\* What a write does to its request.
LEMMA WriteEffect ==
  ASSUME TypeOK, NEW p \in Request, Write(p)
  PROVE  /\ pc[p] \in {"write", "sync"}
         /\ Finish(p) \/ (pc'[p] = "sync" /\ job'[p] = job[p])
BY DEF Write, InsertField, UpdateTx, SoftDeleteTx, SyncFieldRefs, Goto, TypeOK

\* A step does nothing to a request, answers it, starts it or moves it on.
LEMMA RequestStep ==
  ASSUME TypeOK, [Next]_vars, NEW p \in Request
  PROVE  \/ pc'[p] = pc[p] /\ job'[p] = job[p] /\ todo'[p] = todo[p]
         \/ pc'[p] = "idle"
         \/ Begin(p)
         \/ Check(p) /\ ~Finish(p)
         \/ Write(p) /\ pc'[p] = "sync" /\ job'[p] = job[p]
<1>1. ASSUME NEW q \in Request, Begin(q) \/ Check(q) \/ Write(q) \/ Fail(q), q # p
      PROVE  pc'[p] = pc[p] /\ job'[p] = job[p] /\ todo'[p] = todo[p]
  BY <1>1, OthersKeep
<1>2. CASE Begin(p) \/ Check(p) \/ Write(p) \/ Fail(p)
  BY <1>2, FinishEffect, WriteEffect DEF Fail
<1>3. CASE UNCHANGED <<pc, job, todo>>
  BY <1>3
<1>4. CASE \E f \in Field, b \in BOOLEAN : ToggleEnabled(f, b)
  BY <1>4 DEF ToggleEnabled
<1>5. CASE \E f \in Field, h \in Holder : HolderRef(h, f)
  BY <1>5 DEF HolderRef
<1> QED
  BY <1>1, <1>2, <1>3, <1>4, <1>5 DEF Next, vars

\* What a step does to a row.
Inserted(f) == \E p \in Request : /\ Creating(p) /\ job[p].id = f /\ pc[p] = "write"
                                  /\ fields'[f] = NewRow(job[p].shape, job[p].refs,
                                                         job[p].expose)
                                  /\ pc'[p] \in {"sync", "idle"}
Edited(f) == \E p \in Request : /\ pc[p] = "write" /\ job[p].op = "update"
                                /\ job[p].id = f /\ VersionMatches(p)
                                /\ fields'[f] = EditedRow(fields[f], job[p].shape,
                                                    job[p].refs, job[p].expose)
Toggled(f) == \E b \in BOOLEAN : fields[f].live /\ fields'[f] = ToggledRow(fields[f], b)
Deleted(f) == fields[f].live /\ fields'[f] = DeletedRow(fields[f])

\* All that a step can do to one row: nothing, insert it, edit it under its
\* version, toggle it, or mark it deleted.
LEMMA RowStep ==
  ASSUME TypeOK, [Next]_vars, NEW f \in Field
  PROVE  \/ fields'[f] = fields[f]
         \/ Inserted(f) \/ Edited(f) \/ Toggled(f) \/ Deleted(f)
<1> USE DEF TypeOK
<1>1. ASSUME NEW p \in Request, Begin(p) \/ Check(p) \/ Fail(p)
      PROVE  fields' = fields
  BY <1>1, BeginEffect, CheckEffect DEF Fail, tables
<1>2. ASSUME NEW p \in Request, InsertField(p)
      PROVE  fields'[f] = fields[f] \/ Inserted(f)
  <2>1. pc'[p] \in {"sync", "idle"}
    BY <1>2, FinishEffect DEF InsertField, Goto
  <2> QED
    BY <1>2, <2>1 DEF InsertField, Inserted, Creating, Judging
<1>3. ASSUME NEW p \in Request, UpdateTx(p)
      PROVE  fields'[f] = fields[f] \/ Edited(f)
  BY <1>3 DEF UpdateTx, Edited
<1>4. ASSUME NEW p \in Request, SoftDeleteTx(p)
      PROVE  fields'[f] = fields[f] \/ Deleted(f)
  BY <1>4 DEF SoftDeleteTx, RemoveBySource, Deleted
<1>5. ASSUME NEW p \in Request, SyncFieldRefs(p)
      PROVE  fields' = fields
  BY <1>5 DEF SyncFieldRefs
<1>6. ASSUME NEW g \in Field, NEW b \in BOOLEAN, ToggleEnabled(g, b)
      PROVE  fields'[f] = fields[f] \/ Toggled(f)
  BY <1>6 DEF ToggleEnabled, Toggled
<1>7. ASSUME NEW g \in Field, NEW h \in Holder, HolderRef(h, g)
      PROVE  fields' = fields
  BY <1>7 DEF HolderRef
<1> QED
  BY <1>1, <1>2, <1>3, <1>4, <1>5, <1>6, <1>7 DEF Next, Write, vars

\* Versions never go back, and rows that exist stay.
LEMMA RowMonotone ==
  ASSUME TypeOK, Reserved, RowsOK, [Next]_vars, NEW f \in Field
  PROVE  /\ fields'[f].ver \in Nat
         /\ fields'[f].ver >= fields[f].ver
         /\ fields'[f].live => fields'[f].ver > 0
         /\ fields'[f].live /\ fields'[f].ver = fields[f].ver => fields'[f] = fields[f]
<1> DEFINE n == fields[f].ver
<1>0. fields[f] \in Row /\ n \in Nat
  BY DEF TypeOK, Row
<1>1. CASE fields'[f] = fields[f]
  BY <1>0, <1>1 DEF RowsOK
<1>2. CASE Inserted(f)
  <2>1. fields[f].ver = 0
    BY <1>2 DEF Inserted, Reserved
  <2> QED
    BY <1>2, <2>1 DEF Inserted, NewRow
<1>3. CASE Edited(f) \/ Toggled(f)
  <2>1. fields'[f].ver = n + 1
    BY <1>0, <1>3 DEF Edited, Toggled, EditedRow, ToggledRow, Row
  <2> QED
    BY <1>0, <2>1
<1>4. CASE Deleted(f)
  <2>1. fields'[f].ver = n /\ ~fields'[f].live
    BY <1>0, <1>4 DEF Deleted, DeletedRow, Row
  <2> QED
    BY <1>0, <2>1
<1> QED
  BY <1>1, <1>2, <1>3, <1>4, RowStep

\* AUTO_INCREMENT ids: a live row has been inserted, so its version is not 0.
LEMMA RowsOKStep ==
  ASSUME TypeOK, Reserved, RowsOK, [Next]_vars
  PROVE  RowsOK'
BY RowMonotone DEF RowsOK

\* The row that Update read before its transaction stays comparable with the
\* row in the table: with the same version it is the same row.
LEMMA FreshReadStep ==
  ASSUME TypeOK, Phases, Reserved, RowsOK, FreshRead, [Next]_vars
  PROVE  FreshRead'
<1> SUFFICES ASSUME NEW p \in Request,
                    job'[p].op = "update", pc'[p] \notin {"idle", "sync"}
             PROVE  LET old == job'[p].old
                        row == fields'[job'[p].id] IN
                    /\ old.live /\ ~old.enabled
                    /\ job'[p].ver <= old.ver /\ old.ver <= row.ver
                    /\ row.live /\ old.ver = row.ver => old = row
  BY DEF FreshRead
<1>1. CASE Begin(p)
  <2>0. TypeOK'
    BY <1>1, BeginType
  <2>1. /\ job'[p].old = fields[job'[p].id] /\ fields' = fields
        /\ job'[p].old.live /\ ~job'[p].old.enabled
        /\ job'[p].ver <= job'[p].old.ver
    BY <1>1, BeginEffect DEF tables
  <2>2. job'[p].old.ver \in Nat
    BY <2>0 DEF TypeOK, Job, Row
  <2> QED
    BY <2>1, <2>2
<1>2. CASE job'[p] = job[p] /\ pc[p] \notin {"idle", "sync"}
  <2> DEFINE old == job[p].old
             row == fields[job[p].id]
             new == fields'[job[p].id]
  <2>0. job[p].id \in Field /\ old.ver \in Nat /\ row.ver \in Nat
    BY DEF TypeOK, Job, Row
  <2>1. /\ old.live /\ ~old.enabled
        /\ job[p].ver <= old.ver /\ old.ver <= row.ver
        /\ row.live /\ old.ver = row.ver => old = row
    BY <1>2 DEF FreshRead
  <2>2. /\ new.ver \in Nat /\ new.ver >= row.ver
        /\ new.live /\ new.ver = row.ver => new = row
    BY <2>0, RowMonotone
  <2>3. old.ver <= new.ver
    BY <2>0, <2>1, <2>2
  <2>4. ASSUME new.live, old.ver = new.ver PROVE old = new
    <3>1. new.ver = row.ver
      BY <2>0, <2>1, <2>2, <2>4
    <3> QED
      BY <2>1, <2>2, <2>4, <3>1
  <2> QED
    BY <1>2, <2>1, <2>3, <2>4
<1> QED
  <2>1. ASSUME Check(p), ~Finish(p)
        PROVE  job'[p] = job[p] /\ pc[p] \notin {"idle", "sync"}
    BY <2>1, CheckEffect
  <2> QED
    BY <1>1, <1>2, <2>1, RequestStep

\* A create that goes on was going on, and its id is the same.
LEMMA CreatingStep ==
  ASSUME TypeOK, Phases, [Next]_vars, NEW p \in Request, Creating(p)'
  PROVE  Begin(p) \/ (Creating(p) /\ job'[p] = job[p])
<1>1. CASE Check(p) /\ ~Finish(p)
  BY <1>1, CheckEffect DEF Creating, Judging, Phases
<1> QED
  BY <1>1, RequestStep DEF Creating, Judging

\* Two creates never get the same id, and an id is free until its insert.
LEMMA ReservedStep ==
  ASSUME TypeOK, Phases, Reserved, RowsOK, [Next]_vars
  PROVE  Reserved'
<1> SUFFICES ASSUME NEW p \in Request, Creating(p)'
             PROVE  /\ fields'[job'[p].id].ver = 0
                    /\ \A q \in Request \ {p} : Creating(q)' => job'[q].id # job'[p].id
  BY DEF Reserved
<1>1. CASE Begin(p)
  <2>1. /\ fields[job'[p].id].ver = 0 /\ fields' = fields
        /\ \A q \in Request : pc[q] # "idle" => job[q].id # job'[p].id
        /\ \A q \in Request \ {p} : pc'[q] = pc[q] /\ job'[q] = job[q]
    BY <1>1, BeginEffect DEF tables, Creating
  <2> QED
    BY <2>1 DEF Creating, Judging
<1>2. CASE Creating(p) /\ job'[p] = job[p] /\ ~Begin(p)
  <2> DEFINE f == job[p].id
  <2>0. f \in Field /\ fields[f].ver = 0
    BY <1>2 DEF TypeOK, Job, Reserved
  <2>1. ~Inserted(f)
    BY <1>2 DEF Inserted, Reserved, Creating, Judging
  <2>2. ~fields[f].live
    BY <2>0 DEF RowsOK
  <2>3. ~Edited(f)
    BY <2>2 DEF Edited, VersionMatches
  <2>4. fields'[f] = fields[f]
    BY <2>0, <2>1, <2>2, <2>3, RowStep DEF Toggled, Deleted
  <2>5. ASSUME NEW q \in Request \ {p}, Creating(q)'
        PROVE  job'[q].id # job'[p].id
    <3>1. CASE Begin(q)
      BY <1>2, <2>5, <3>1, BeginEffect DEF Creating, Judging
    <3>2. CASE Creating(q) /\ job'[q] = job[q]
      BY <1>2, <2>5, <3>2 DEF Reserved
    <3> QED
      BY <2>5, <3>1, <3>2, CreatingStep
  <2> QED
    BY <1>2, <2>0, <2>4, <2>5
<1> QED
  BY <1>1, <1>2, CreatingStep

\* A row that exists goes on existing.
LEMMA RowsStay ==
  ASSUME TypeOK, Reserved, RowsOK, [Next]_vars, NEW f \in Field, fields[f].ver > 0
  PROVE  fields'[f].ver > 0
<1>1. fields[f].ver \in Nat
  BY DEF TypeOK, Row
<1> QED
  BY <1>1, RowMonotone

\* The references that a step adds are those of an update or a create.
LEMMA NewRefers ==
  ASSUME TypeOK, [Next]_vars, NEW x \in Field, NEW y \in Field,
         Refers(x, y)', ~Refers(x, y)
  PROVE  \E p \in Request : /\ pc[p] = "write" /\ job[p].id = x
                            /\ job[p].shape = Reference /\ y \in job[p].refs
                            /\ \/ Creating(p)
                               \/ job[p].op = "update" /\ VersionMatches(p)
<1> USE DEF TypeOK, Row
<1>1. CASE fields'[x] = fields[x]
  BY <1>1 DEF Refers
<1>2. CASE Inserted(x)
  BY <1>2 DEF Inserted, NewRow, Refers
<1>3. CASE Edited(x)
  BY <1>3 DEF Edited, EditedRow, Refers
<1>4. CASE Toggled(x)
  BY <1>4 DEF Toggled, ToggledRow, Refers
<1>5. CASE Deleted(x)
  BY <1>5 DEF Deleted, DeletedRow, Refers
<1> QED
  BY <1>1, <1>2, <1>3, <1>4, <1>5, RowStep

\* What a step adds to the judged targets of a request has just been checked.
LEMMA JudgedStep ==
  ASSUME TypeOK, Phases, [Next]_vars, NEW p \in Request,
         pc'[p] \in Judging, job'[p].op \in {"create", "update"},
         NEW y \in Field, y \in Judged(p)'
  PROVE  \/ pc[p] \in Judging /\ y \in Judged(p) /\ job'[p] = job[p]
         \/ /\ pc[p] = "refs" /\ job'[p] = job[p] /\ UNCHANGED tables
            /\ TargetOK(p, y)
<1>1. CASE pc'[p] = pc[p] /\ job'[p] = job[p] /\ todo'[p] = todo[p]
  BY <1>1 DEF Judged
<1>2. CASE Begin(p)
  <2>1. /\ RefsFit(job'[p].shape, job'[p].refs) /\ todo'[p] = job'[p].refs
        /\ pc'[p] = IF job'[p].shape = Reference THEN "refs" ELSE "write"
    BY <1>2, BeginEffect DEF Judging
  <2> QED
    BY <2>1 DEF Judged, RefsFit
<1>3. CASE Check(p) /\ ~Finish(p)
  <2>0. UNCHANGED tables /\ job'[p] = job[p]
    BY <1>3, CheckEffect
  <2>1. CASE pc[p] = "lock"
    <3>1. RefsFit(job[p].shape, job[p].refs)
      BY <2>0, <2>1 DEF Phases
    <3>2. /\ pc'[p] = IF job[p].shape = Reference THEN "refs" ELSE "write"
          /\ job[p].shape = Reference => todo'[p] = job[p].refs
      BY <1>3, <2>0, <2>1, CheckEffect
    <3> QED
      BY <2>0, <3>1, <3>2 DEF Judged, RefsFit
  <2>2. CASE pc[p] = "refs"
    <3>1. PICK z \in Field : /\ TargetOK(p, z)
                             /\ pc'[p] \in {"refs", "cycle"}
                             /\ todo[p] \ {z} = {} \/ pc'[p] = "refs"
                             /\ pc'[p] = "refs" => todo'[p] = todo[p] \ {z}
      BY <1>3, <2>2, CheckEffect
    <3>2. y = z \/ y \in Judged(p)
      BY <2>0, <2>2, <3>1 DEF Judged
    <3> QED
      BY <2>0, <2>2, <3>1, <3>2 DEF Judging
  <2>3. CASE pc[p] = "cycle"
    BY <1>3, <2>0, <2>3, CheckEffect DEF Judged, Judging
  <2> QED
    BY <1>3, <2>0, <2>1, <2>2, <2>3, CheckEffect DEF Judging
<1> QED
  BY <1>1, <1>2, <1>3, RequestStep DEF Judging

\* What validateReferenceRefs has let through has a row, deleted or not.
LEMMA TargetsExistStep ==
  ASSUME TypeOK, Phases, Reserved, RowsOK, TargetsExist, [Next]_vars
  PROVE  TargetsExist'
<1>1. ASSUME NEW x \in Field, NEW y \in Field, Refers(x, y)'
      PROVE  fields'[y].ver > 0
  <2>1. fields[y].ver > 0
    BY <1>1, NewRefers DEF TargetsExist, Judging, Creating, Judged
  <2> QED
    BY <2>1, RowsStay
<1>2. ASSUME NEW p \in Request, pc'[p] \in Judging,
             job'[p].op \in {"create", "update"},
             NEW y \in Field, y \in Judged(p)'
      PROVE  fields'[y].ver > 0
  <2>1. fields[y].ver > 0
    BY <1>2, JudgedStep DEF TargetsExist, TargetOK, RowsOK
  <2> QED
    BY <2>1, RowsStay
<1>3. ASSUME NEW p \in Request, pc'[p] \in Judging,
             job'[p].op \in {"create", "update"}, NEW y \in Judged(p)'
      PROVE  y \in Field
  <2>1. TypeOK'
    BY TypeStep
  <2> QED
    BY <1>3, <2>1 DEF TypeOK, Job, Judged
<1> QED
  BY <1>1, <1>2, <1>3 DEF TargetsExist

\* A field under a share lock gets no new reference.
LEMMA LockedStep ==
  ASSUME TypeOK, [Next]_vars, NEW f \in Field, ShareLocked(f),
         fieldRefs'[f] # {} \/ holders'[f] # {}
  PROVE  Referenced(f)
<1> USE DEF TypeOK, Referenced
<1>1. ASSUME NEW p \in Request, Begin(p) \/ Check(p) \/ Fail(p)
      PROVE  Referenced(f)
  BY <1>1, BeginEffect, CheckEffect DEF Fail, tables
<1>2. ASSUME NEW p \in Request, InsertField(p) \/ UpdateTx(p)
      PROVE  Referenced(f)
  BY <1>2 DEF InsertField, UpdateTx
<1>3. ASSUME NEW p \in Request, SoftDeleteTx(p)
      PROVE  Referenced(f)
  BY <1>3 DEF SoftDeleteTx, RemoveBySource
<1>4. ASSUME NEW p \in Request, SyncFieldRefs(p)
      PROVE  Referenced(f)
  BY <1>4 DEF SyncFieldRefs
<1>5. ASSUME NEW g \in Field, NEW b \in BOOLEAN, ToggleEnabled(g, b)
      PROVE  Referenced(f)
  BY <1>5 DEF ToggleEnabled
<1>6. ASSUME NEW g \in Field, NEW h \in Holder, HolderRef(h, g)
      PROVE  Referenced(f)
  BY <1>6 DEF HolderRef
<1> QED
  BY <1>1, <1>2, <1>3, <1>4, <1>5, <1>6 DEF Next, Write, vars

\* What HasRefsTx found stays true until the commit: its share lock keeps
\* other transactions from adding a reference to the field.
LEMMA LockKeepsStep ==
  ASSUME TypeOK, Phases, LockKeeps, [Next]_vars
  PROVE  LockKeeps'
<1> SUFFICES ASSUME NEW p \in Request, pc'[p] \in Judging,
                    job'[p].op \in {"update", "delete"}
             PROVE  LET j == job'[p]
                        referenced == fieldRefs'[j.id] # {} \/ holders'[j.id] # {} IN
                    /\ j.op = "update" /\ referenced =>
                         ShapeChangeAllowed(j.old.shape, j.shape)
                    /\ j.op = "delete" => ~referenced
  BY DEF LockKeeps, Referenced, ShapeChangeAllowed
<1> DEFINE f == job[p].id
           referenced == fieldRefs'[f] # {} \/ holders'[f] # {}
<1>1. CASE pc[p] \in Judging /\ job'[p] = job[p]
  <2>1. f \in Field /\ ShareLocked(f)
    BY <1>1 DEF TypeOK, Job, ShareLocked, Judging
  <2>2. referenced => Referenced(f)
    BY <2>1, LockedStep
  <2> QED
    BY <1>1, <2>2 DEF LockKeeps
<1>2. CASE Check(p) /\ ~Finish(p) /\ pc[p] = "lock"
  <2>1. UNCHANGED tables /\ job'[p] = job[p]
    BY <1>2, CheckEffect
  <2>2. referenced = Referenced(f)
    BY <2>1 DEF Referenced, tables
  <2> QED
    BY <1>2, <2>1, <2>2, CheckEffect
<1>3. CASE Begin(p)
  BY <1>3, BeginEffect DEF Judging
<1> QED
  BY <1>1, <1>2, <1>3, RequestStep, CheckEffect DEF Judging

-----------------------------------------------------------------------------
(* No cycles: each new edge ends in a field without edges out, or starts in *)
(* a field without edges in.                                                *)

\* Edges into fields without edges out close no cycle.
LEMMA HarmlessEdges ==
  ASSUME AcyclicEdges,
         \A x, y \in Field : Edge(x, y)' /\ ~Edge(x, y) =>
           \/ \A z \in Field : ~Edge(y, z)'
           \/ \A z \in Field : ~Edge(z, x)'
  PROVE  AcyclicEdges'
<1> SUFFICES ASSUME NEW S \in (SUBSET Field) \ {{}}
             PROVE  \E x \in S : \A y \in S : ~Edge(x, y)'
  BY DEF AcyclicEdges
<1> DEFINE T == {x \in S : \E z \in Field : Edge(z, x)'}
<1>1. CASE \E x \in S : \A z \in Field : ~Edge(x, z)'
  BY <1>1
<1>2. CASE T = {}
  <2>1. PICK x \in S : TRUE
    OBVIOUS
  <2>2. ASSUME NEW y \in S, Edge(x, y)'
        PROVE  FALSE
    <3>1. y \in T
      BY <2>1, <2>2
    <3> QED
      BY <1>2, <3>1
  <2> QED
    BY <2>1, <2>2
<1>3. CASE T # {} /\ \A x \in S : \E z \in Field : Edge(x, z)'
  <2>1. T \in (SUBSET Field) \ {{}}
    BY <1>3
  <2>2. PICK x \in T : \A y \in T : ~Edge(x, y)
    BY <2>1 DEF AcyclicEdges
  <2> QED
    BY <1>3, <2>2
<1> QED
  BY <1>1, <1>2, <1>3

\* A pending update that was pending before has at most one new judged target;
\* if it was not pending, it has none.
LEMMA PendingStep ==
  ASSUME TypeOK, Phases, Reserved, RowsOK, FreshRead, [Next]_vars,
         NEW p \in Request, Pending(p)', NEW y \in Field, y \in Judged(p)'
  PROVE  /\ job'[p] = job[p]
         /\ \/ Pending(p) /\ y \in Judged(p)
            \/ pc[p] = "refs" /\ Pending(p) /\ UNCHANGED tables /\ TargetOK(p, y)
<1> DEFINE f == job[p].id
<1>1. /\ job'[p] = job[p] /\ pc[p] \in Judging
      /\ \/ y \in Judged(p)
         \/ pc[p] = "refs" /\ UNCHANGED tables /\ TargetOK(p, y)
  BY JudgedStep DEF Pending, Judging
<1>2. job[p].op = "update" /\ job[p].shape = Reference /\ job[p].old = fields'[f]
  BY <1>1 DEF Pending
<1>3. /\ f \in Field /\ fields[f].ver \in Nat /\ job[p].old.ver \in Nat
      /\ job[p].old.live /\ job[p].old.ver <= fields[f].ver
  BY <1>1, <1>2 DEF TypeOK, Job, Row, FreshRead, Judging
<1>4. fields'[f].ver >= fields[f].ver /\ fields'[f].live
  BY <1>2, <1>3, RowMonotone
<1>5. fields'[f].ver = fields[f].ver
  BY <1>2, <1>3, <1>4
<1>6. fields'[f] = fields[f]
  BY <1>3, <1>4, <1>5, RowMonotone
<1> QED
  BY <1>1, <1>2, <1>6 DEF Pending

\* A target that is about to be judged good, unless it is already referred to,
\* has no edges out: it is enabled, and what is updated is disabled.
LEMMA TargetIsSink ==
  ASSUME TypeOK, FreshRead, NEW p \in Request, Pending(p), NEW y \in Field,
         TargetOK(p, y)
  PROVE  \/ Edge(job[p].id, y)
         \/ /\ fields[y].enabled /\ job[p].id # y
            /\ \A z \in Field : ~Edge(y, z)
<1>1. ASSUME y \in OldRefs(p)
      PROVE  Edge(job[p].id, y)
  BY <1>1 DEF OldRefs, Pending, Edge, Refers, FreshRead, Judging
<1>2. ASSUME y \notin OldRefs(p)
      PROVE  /\ fields[y].enabled /\ job[p].id # y
             /\ \A z \in Field : ~Edge(y, z)
  <2>1. fields[y].enabled /\ fields[y].shape # Reference
    BY <1>2 DEF TargetOK
  <2>2. ASSUME NEW q \in Request, Pending(q)
        PROVE  job[q].id # y
    BY <2>1, <2>2 DEF Pending, FreshRead, Judging
  <2> QED
    BY <2>1, <2>2 DEF Edge, Refers
<1> QED
  BY <1>1, <1>2

\* An edge that is new is the newly judged target of an update or a reference
\* of the field that is created.
LEMMA NewEdge ==
  ASSUME TypeOK, Phases, Reserved, RowsOK, FreshRead, [Next]_vars,
         NEW x \in Field, NEW y \in Field, Edge(x, y)', ~Edge(x, y)
  PROVE  \/ \E p \in Request : /\ Pending(p) /\ job[p].id = x
                               /\ UNCHANGED tables /\ TargetOK(p, y)
         \/ \E p \in Request : Creating(p) /\ job[p].id = x /\ y \in job[p].refs
                               /\ pc[p] = "write"
<1>1. CASE Refers(x, y)'
  <2>0. ~Refers(x, y)
    BY DEF Edge
  <2>1. PICK p \in Request : /\ pc[p] = "write" /\ job[p].id = x
                             /\ job[p].shape = Reference /\ y \in job[p].refs
                             /\ \/ Creating(p)
                                \/ job[p].op = "update" /\ VersionMatches(p)
    BY <1>1, <2>0, NewRefers
  <2>2. CASE job[p].op = "update" /\ VersionMatches(p)
    <3>0. job[p].old.ver \in Nat /\ fields[x].ver \in Nat /\ job[p].ver \in Nat
      BY <2>1 DEF TypeOK, Job, Row
    <3>1. /\ fields[x].live /\ fields[x].ver = job[p].ver
          /\ job[p].ver <= job[p].old.ver /\ job[p].old.ver <= fields[x].ver
          /\ fields[x].live /\ job[p].old.ver = fields[x].ver => job[p].old = fields[x]
      BY <2>1, <2>2 DEF VersionMatches, FreshRead
    <3>2. job[p].old = fields[x]
      BY <3>0, <3>1
    <3> QED
      BY <2>1, <2>2, <3>2 DEF Edge, Pending, Judged, Judging
  <2> QED
    BY <2>1, <2>2
<1>2. ASSUME NEW p \in Request, Pending(p)', job'[p].id = x, y \in Judged(p)'
      PROVE  Pending(p) /\ job[p].id = x /\ UNCHANGED tables /\ TargetOK(p, y)
  BY <1>2, PendingStep DEF Edge
<1> QED
  BY <1>1, <1>2 DEF Edge

\* Neither a reference written by an update or a create, nor a target that
\* detectCyclicRef has still to follow, closes a cycle.
LEMMA AcyclicEdgesStep ==
  ASSUME TypeOK, Phases, Reserved, RowsOK, FreshRead, TargetsExist, AcyclicEdges,
         [Next]_vars
  PROVE  AcyclicEdges'
<1>1. ASSUME NEW p \in Request, Pending(p), UNCHANGED tables,
             NEW x \in Field, NEW y \in Field, job[p].id = x, TargetOK(p, y),
             ~Edge(x, y)
      PROVE  \A z \in Field : ~Edge(y, z)'
  <2>1. fields[y].enabled /\ fields[y].ver > 0 /\ \A z \in Field : ~Edge(y, z)
    BY <1>1, TargetIsSink DEF TargetOK, RowsOK
  <2>2. ASSUME NEW z \in Field, Edge(y, z)'
        PROVE  FALSE
    <3>1. CASE \E q \in Request : Pending(q) /\ job[q].id = y
      BY <2>1, <3>1 DEF Pending, FreshRead, Judging
    <3>2. CASE \E q \in Request : Creating(q) /\ job[q].id = y
      BY <2>1, <3>2 DEF Reserved
    <3> QED
      BY <2>1, <2>2, <3>1, <3>2, NewEdge
  <2> QED
    BY <2>2
<1>2. ASSUME NEW p \in Request, Creating(p), NEW x \in Field, job[p].id = x
      PROVE  \A z \in Field : ~Edge(z, x)'
  <2>1. fields[x].ver = 0 /\ ~fields[x].live
    BY <1>2 DEF Reserved, RowsOK
  <2>2. ASSUME NEW z \in Field
        PROVE  ~Edge(z, x)
    BY <2>1 DEF Edge, TargetsExist, Pending
  <2>3. ASSUME NEW z \in Field, Edge(z, x)'
        PROVE  FALSE
    <3>1. CASE \E q \in Request : TargetOK(q, x)
      BY <2>1, <3>1 DEF TargetOK
    <3>2. CASE \E q \in Request : Creating(q) /\ x \in job[q].refs /\ pc[q] = "write"
      BY <2>1, <3>2 DEF TargetsExist, Creating, Judged
    <3> QED
      BY <2>2, <2>3, <3>1, <3>2, NewEdge
  <2> QED
    BY <2>3
<1> QED
  BY <1>1, <1>2, NewEdge, HarmlessEdges

\* The inductive invariant holds of the tables as found.
LEMMA InitIInv == Init => IInv
<1> SUFFICES ASSUME Init PROVE IInv
  OBVIOUS
<1>1. TypeOK
  BY TypeInit
<1>2. Phases /\ FreshRead /\ Reserved /\ LockKeeps
  BY DEF Init, Phases, FreshRead, Reserved, Creating, LockKeeps, Judging
<1>3. RowsOK
  BY DEF Init, RowsOK, NoRow, NewRow
<1>4. \A x, y \in Field : ~Edge(x, y)
  BY DEF Init, Edge, Refers, NoRow, NewRow, Pending, Judging
<1>5. TargetsExist
  BY <1>4 DEF Init, TargetsExist, Edge, Judging
<1>6. AcyclicEdges
  <2> SUFFICES ASSUME NEW S \in (SUBSET Field) \ {{}}
               PROVE  \E x \in S : \A y \in S : ~Edge(x, y)
    BY DEF AcyclicEdges
  <2> QED
    BY <1>4
<1> QED
  BY <1>1, <1>2, <1>3, <1>5, <1>6 DEF IInv

\* Every step of the field module keeps the inductive invariant.
LEMMA StepIInv == IInv /\ [Next]_vars => IInv'
BY TypeStep, PhasesStep, RowsOKStep, FreshReadStep, ReservedStep,
   TargetsExistStep, LockKeepsStep, AcyclicEdgesStep DEF IInv

\* The inductive invariant of the field module.
THEOREM Invariance == Spec => []IInv
BY InitIInv, StepIInv, PTL DEF Spec

\* An update whose version matches was judged on the row it overwrites.
LEMMA MatchIsFresh ==
  ASSUME TypeOK, FreshRead, NEW p \in Request, job[p].op = "update",
         pc[p] \notin {"idle", "sync"}, VersionMatches(p)
  PROVE  job[p].old = fields[job[p].id]
<1>1. /\ job[p].old.ver \in Nat /\ fields[job[p].id].ver \in Nat
      /\ job[p].ver \in Nat
  BY DEF TypeOK, Job, Row
<1>2. /\ job[p].ver <= job[p].old.ver /\ job[p].old.ver <= fields[job[p].id].ver
      /\ fields[job[p].id].live /\ job[p].ver = fields[job[p].id].ver
  BY DEF FreshRead, VersionMatches
<1>3. job[p].old.ver = fields[job[p].id].ver
  BY <1>1, <1>2
<1> QED
  BY <1>2, <1>3 DEF FreshRead

\* No edit of any number of clients is written over a row it was not judged
\* on, although Update reads the row outside the transaction that writes it.
THEOREM NoBlindWriteHolds == Spec => []NoBlindWrite
<1>1. IInv => NoBlindWrite
  BY MatchIsFresh DEF IInv, NoBlindWrite
<1> QED
  BY <1>1, Invariance, PTL

\* No interleaving of creates, edits, toggles and deletes of any number of
\* fields makes a cycle of references, lost sync transactions included.
THEOREM AcyclicHolds == Spec => []Acyclic
<1>1. IInv => Acyclic
  <2> SUFFICES ASSUME IInv, NEW S \in (SUBSET Field) \ {{}}
               PROVE  \E x \in S : \A y \in S : ~Refers(x, y)
    BY DEF Acyclic
  <2> QED
    BY DEF IInv, AcyclicEdges, Edge
<1> QED
  BY <1>1, Invariance, PTL

-----------------------------------------------------------------------------
(* The field module implements FieldTable. *)

\* Both modules judge and write rows by the rules of FieldRows.
LEMMA SameRules ==
  /\ Table!NoRow = NoRow /\ Table!Shape = Shape
  /\ \A s, r, e : Table!NewRow(s, r, e) = NewRow(s, r, e)
  /\ \A row, s, r, e : Table!EditedRow(row, s, r, e) = EditedRow(row, s, r, e)
  /\ \A row, b : Table!ToggledRow(row, b) = ToggledRow(row, b)
  /\ \A row : Table!DeletedRow(row) = DeletedRow(row)
  /\ \A s, r : Table!RefsFit(s, r) <=> RefsFit(s, r)
  /\ \A s, t : Table!ShapeChangeAllowed(s, t) <=> ShapeChangeAllowed(s, t)
BY DEF Table!NoRow, NoRow, Table!Shape, Shape, Table!NewRow, NewRow,
       Table!EditedRow, EditedRow, Table!ToggledRow, ToggledRow,
       Table!DeletedRow, DeletedRow, Table!RefsFit, RefsFit,
       Table!ShapeChangeAllowed, ShapeChangeAllowed

\* The commit of a request is a step of FieldTable: what it judged before is
\* still true of the row and the references at the commit.
LEMMA WriteImplements ==
  ASSUME IInv, NEW p \in Request, Write(p)
  PROVE  [Table!Next]_Table!vars
<1> DEFINE j == job[p]
<1> USE DEF IInv
<1>0. /\ j.id \in Field /\ j.shape \in Shape /\ j.refs \in SUBSET Field
      /\ j.expose \in BOOLEAN
  BY DEF TypeOK, Job
<1>1. CASE InsertField(p)
  <2>1. fields[j.id].ver = 0 /\ RefsFit(j.shape, j.refs)
    BY <1>1 DEF InsertField, Reserved, Creating, Judging, Phases
  <2>2. Table!Insert(j.id, j.shape, j.refs, j.expose)
    BY <1>1, <2>1, SameRules DEF InsertField, Table!Insert
  <2> QED
    BY <1>0, <2>2, SameRules DEF Table!Next
<1>2. CASE UpdateTx(p)
  <2>1. CASE ~VersionMatches(p)
    BY <1>2, <2>1 DEF UpdateTx, Table!vars
  <2>2. CASE VersionMatches(p)
    <3>1. j.old = fields[j.id] /\ ~j.old.enabled /\ fields[j.id].live
      BY <1>2, <2>2, MatchIsFresh DEF UpdateTx, FreshRead, VersionMatches
    <3>2. RefsFit(j.shape, j.refs)
      BY <1>2 DEF UpdateTx, Phases
    <3>3. Referenced(j.id) => ShapeChangeAllowed(j.old.shape, j.shape)
      BY <1>2 DEF UpdateTx, LockKeeps, Judging
    <3>4. Table!Edit(j.id, j.shape, j.refs, j.expose)
      BY <1>2, <2>2, <3>1, <3>2, <3>3, SameRules
      DEF UpdateTx, Table!Edit, Referenced, Table!Referenced
    <3> QED
      BY <1>0, <3>4, SameRules DEF Table!Next
  <2> QED
    BY <2>1, <2>2
<1>3. CASE SoftDeleteTx(p)
  <2>1. CASE ~fields[j.id].live
    BY <1>3, <2>1 DEF SoftDeleteTx, RemoveBySource, Table!vars
  <2>2. CASE fields[j.id].live
    <3>1. ~Referenced(j.id)
      BY <1>3 DEF SoftDeleteTx, RemoveBySource, LockKeeps, Judging
    <3>2. Table!Remove(j.id)
      BY <1>3, <2>2, <3>1, SameRules
      DEF SoftDeleteTx, RemoveBySource, Table!Remove, Referenced, Table!Referenced
    <3> QED
      BY <1>0, <3>2 DEF Table!Next
  <2> QED
    BY <2>1, <2>2
<1>4. CASE SyncFieldRefs(p)
  <2>1. /\ j.refs \ OldRefs(p) \in SUBSET Field
        /\ OldRefs(p) \ j.refs \in SUBSET Field
    BY <1>0 DEF OldRefs, TypeOK, Job, Row
  <2>2. Table!Link(j.id)
    BY <1>4, <2>1 DEF SyncFieldRefs, Table!Link
  <2> QED
    BY <1>0, <2>2, SameRules DEF Table!Next
<1> QED
  BY <1>1, <1>2, <1>3, <1>4 DEF Write

\* Each edit, delete and toggle is as good as one atomic step judged on the
\* row and the references of that moment.
THEOREM Implements == Spec => TableSpec
<1>1. Init => Table!Init
  BY InputAssumption, SameRules DEF Init, Table!Init
<1>2. IInv /\ [Next]_vars => [Table!Next]_Table!vars
  <2> SUFFICES ASSUME IInv, [Next]_vars PROVE [Table!Next]_Table!vars
    OBVIOUS
  <2>1. ASSUME NEW p \in Request, Begin(p) \/ Check(p) \/ Fail(p)
        PROVE  UNCHANGED Table!vars
    BY <2>1, BeginEffect, CheckEffect DEF IInv, Fail, tables, Table!vars
  <2>2. ASSUME NEW f \in Field, NEW b \in BOOLEAN, ToggleEnabled(f, b)
        PROVE  Table!Next
    <3>1. Table!Toggle(f, b)
      BY <2>2, SameRules DEF ToggleEnabled, Table!Toggle
    <3> QED
      BY <3>1 DEF Table!Next
  <2>3. ASSUME NEW f \in Field, NEW h \in Holder, HolderRef(h, f)
        PROVE  Table!Next
    <3>1. Table!Hold(f, h)
      BY <2>3 DEF HolderRef, Table!Hold, IInv, TypeOK
    <3> QED
      BY <3>1 DEF Table!Next
  <2>4. CASE UNCHANGED vars
    BY <2>4 DEF vars, Table!vars
  <2> QED
    BY <2>1, <2>2, <2>3, <2>4, WriteImplements DEF Next
<1> QED
  BY <1>1, <1>2, Invariance, PTL DEF Spec, TableSpec, Table!Spec

-----------------------------------------------------------------------------
(* One request at a time, without failures *)

\* What other rows and the references mean does not change when a row is toggled.
RowKept(f) == /\ fields'[f].live = fields[f].live /\ fields'[f].shape = fields[f].shape
              /\ fields'[f].refs = fields[f].refs

LEMMA SerialBeside ==
  ASSUME SerialInv, UNCHANGED <<fieldRefs, pc, job, todo>>, TypeOK,
         \A f \in Field : RowKept(f)
  PROVE  SerialInv'
<1>1. \A x, y \in Field : Refers(x, y)' <=> Refers(x, y)
  BY DEF Refers, RowKept
<1>2. \A y \in Field : Leaf(y)' <=> Leaf(y)
  BY DEF Leaf, RowKept
<1>3. RefsInStep'
  BY <1>1 DEF SerialInv, RefsInStep
<1>4. SyncAhead'
  <2>1. \A p \in Request : OldRefs(p)' = OldRefs(p) /\ job[p].id \in Field
    BY DEF OldRefs, TypeOK, Job
  <2> QED
    BY <1>1, <2>1 DEF SerialInv, SyncAhead
<1>5. TargetsAreLeaves'
  BY <1>1, <1>2 DEF SerialInv, TargetsAreLeaves
<1>6. JudgedAreLeaves'
  <2>1. \A p \in Request : Judged(p)' = Judged(p) /\ Judged(p) \subseteq Field
    BY DEF Judged, TypeOK, Job
  <2> QED
    BY <1>2, <2>1 DEF SerialInv, JudgedAreLeaves
<1>7. ReadStays'
  <2>1. \A p \in Request : job[p].id \in Field
    BY DEF TypeOK, Job
  <2> QED
    BY <2>1 DEF SerialInv, ReadStays, RowKept
<1> QED
  BY <1>3, <1>4, <1>5, <1>6, <1>7 DEF SerialInv

\* A step that moves the request, before it writes, and changes no table.
LEMMA SerialMove ==
  ASSUME Serial, IInv, SerialInv, NEW p \in Request, UNCHANGED tables,
         pc[p] # "sync", pc'[p] # "sync", JudgedAreLeaves', ReadStays'
  PROVE  SerialInv'
<1>1. \A q \in Request : q = p
  BY DEF Serial
<1>2. RefsInStep' /\ SyncAhead'
  BY <1>1 DEF SerialInv, RefsInStep, SyncAhead, Refers, tables
<1>3. TargetsAreLeaves'
  BY DEF SerialInv, TargetsAreLeaves, Leaf, Refers, tables
<1> QED
  BY <1>2, <1>3 DEF SerialInv

\* A target that validateReferenceRefs lets through is a leaf: if it is an old
\* one, it is the target of a reference that stands.
LEMMA TargetIsLeaf ==
  ASSUME IInv, SerialInv, NEW p \in Request, pc[p] = "refs", NEW y \in Field,
         TargetOK(p, y)
  PROVE  Leaf(y)
<1>1. CASE y \notin OldRefs(p)
  BY <1>1 DEF TargetOK, Leaf
<1>2. CASE y \in OldRefs(p)
  <2>1. job[p].op = "update" /\ job[p].old.shape = Reference /\ y \in job[p].old.refs
    BY <1>2 DEF OldRefs
  <2>2. Refers(job[p].id, y) /\ job[p].id \in Field
    BY <2>1 DEF SerialInv, ReadStays, Refers, IInv, TypeOK, Job
  <2> QED
    BY <2>2 DEF SerialInv, TargetsAreLeaves
<1> QED
  BY <1>1, <1>2

LEMMA SerialBegin ==
  ASSUME Serial, IInv, IInv', SerialInv, [Next]_vars, NEW p \in Request, Begin(p)
  PROVE  SerialInv'
<1>0. /\ TypeOK /\ TypeOK' /\ Phases /\ \A q \in Request : q = p
      /\ UNCHANGED tables /\ pc[p] = "idle"
  BY BeginEffect DEF Serial, IInv
<1>1. pc'[p] # "sync"
  BY <1>0, BeginEffect
<1>2. JudgedAreLeaves'
  <2> SUFFICES ASSUME pc'[p] \in Judging, job'[p].op \in {"create", "update"}
               PROVE  /\ \A y \in Judged(p)' : Leaf(y)'
                      /\ pc'[p] = "refs" \/ job'[p].op # "update"
    BY <1>0 DEF JudgedAreLeaves
  <2>1. pc'[p] = "refs" \/ job'[p].op # "update"
    BY <1>0, BeginEffect DEF Judging
  <2>2. ASSUME NEW y \in Judged(p)' PROVE FALSE
    <3>1. y \in Field
      BY <1>0, <2>2 DEF Judged, TypeOK, Job
    <3> QED
      BY <1>0, <2>2, <3>1, JudgedStep DEF Judging
  <2> QED
    BY <2>1, <2>2
<1>3. ReadStays'
  <2> SUFFICES ASSUME pc'[p] # "idle", job'[p].op \in {"update", "delete"}
               PROVE  /\ fields[job'[p].id].live
                      /\ fields[job'[p].id] = job'[p].old
    BY <1>0 DEF ReadStays, tables
  <2> QED
    BY <1>0, BeginEffect
<1> QED
  BY <1>0, <1>1, <1>2, <1>3, SerialMove

LEMMA SerialCheck ==
  ASSUME Serial, IInv, IInv', SerialInv, [Next]_vars, NEW p \in Request, Check(p)
  PROVE  SerialInv'
<1>0. /\ TypeOK /\ TypeOK' /\ Phases /\ \A q \in Request : q = p
      /\ UNCHANGED tables
  BY CheckEffect DEF Serial, IInv
<1>1. pc[p] \notin {"idle", "sync"} /\ pc'[p] # "sync"
  BY <1>0, CheckEffect, FinishEffect
  DEF Check, CheckExposeBBRevocation, HasRefsTx, ValidateRef, VisitRef, EndVisit
<1>2. CASE pc'[p] = "idle"
  BY <1>0, <1>1, <1>2, SerialMove DEF JudgedAreLeaves, ReadStays, Judging
<1>3. CASE pc'[p] # "idle"
  <2>0. ~Finish(p) /\ job'[p] = job[p]
    BY <1>0, <1>3, CheckEffect, FinishEffect
  <2>1. JudgedAreLeaves'
    <3> SUFFICES ASSUME pc'[p] \in Judging, job[p].op \in {"create", "update"}
                 PROVE  /\ \A y \in Judged(p)' : Leaf(y)
                        /\ pc'[p] # "refs" /\ job[p].op = "update" =>
                             job[p].id \notin job[p].refs
      BY <1>0, <2>0 DEF JudgedAreLeaves, Leaf, tables
    <3>1. ASSUME NEW y \in Judged(p)' PROVE Leaf(y)
      <4>1. y \in Field
        BY <1>0, <3>1 DEF Judged, TypeOK, Job
      <4>2. \/ pc[p] \in Judging /\ y \in Judged(p)
            \/ pc[p] = "refs" /\ TargetOK(p, y)
        BY <1>0, <2>0, <3>1, <4>1, JudgedStep
      <4> QED
        BY <4>1, <4>2, TargetIsLeaf DEF SerialInv, JudgedAreLeaves
    <3>2. ASSUME pc'[p] # "refs", job[p].op = "update"
          PROVE  job[p].id \notin job[p].refs
      <4>1. CASE pc[p] = "lock"
        BY <1>0, <2>0, <3>2, <4>1, CheckEffect DEF Phases, RefsFit
      <4>2. CASE pc[p] = "refs"
        BY <1>0, <2>0, <3>2, <4>2, CheckEffect
      <4>3. CASE pc[p] = "cycle"
        BY <3>2, <4>3 DEF SerialInv, JudgedAreLeaves, Judging
      <4> QED
        BY <1>0, <2>0, <4>1, <4>2, <4>3, CheckEffect DEF Judging
    <3> QED
      BY <3>1, <3>2
  <2>2. ReadStays'
    BY <1>0, <1>1, <2>0 DEF SerialInv, ReadStays, tables
  <2> QED
    BY <1>0, <1>1, <2>1, <2>2, SerialMove
<1> QED
  BY <1>2, <1>3

\* After a write the request has nothing judged or read that counts any more.
LEMMA SerialWritten ==
  ASSUME Serial, NEW p \in Request, pc'[p] \in {"idle", "sync"},
         RefsInStep', SyncAhead', TargetsAreLeaves'
  PROVE  SerialInv'
<1>1. \A q \in Request : q = p
  BY DEF Serial
<1>2. JudgedAreLeaves' /\ ReadStays'
  BY <1>1 DEF JudgedAreLeaves, ReadStays, Judging
<1> QED
  BY <1>2 DEF SerialInv

\* A row is written whose references, if it has any, are leaves other than
\* itself, and no row refers to it unless it is a leaf before and after.
LEMMA SerialRow ==
  ASSUME Serial, IInv, IInv', SerialInv, NEW p \in Request, pc[p] = "write",
         UNCHANGED fieldRefs,
         \A f \in Field \ {job[p].id} : fields'[f] = fields[f],
         LET j == job[p] IN
         /\ fields'[j.id].live /\ fields'[j.id].shape = j.shape
         /\ fields'[j.id].refs = j.refs /\ RefsFit(j.shape, j.refs)
         /\ \A y \in j.refs : Leaf(y) /\ y # j.id
         /\ \A x \in Field : Refers(x, j.id) => j.shape # Reference
         /\ \A y \in Field : y \in OldRefs(p) <=> Refers(j.id, y)
         /\ \/ pc'[p] = "sync" /\ job'[p] = j
            \/ pc'[p] = "idle" /\ OldRefs(p) = j.refs
  PROVE  SerialInv'
<1> DEFINE j == job[p]
<1>0. /\ j.id \in Field /\ j.refs \subseteq Field /\ \A q \in Request : q = p
      /\ TypeOK'
  BY DEF Serial, IInv, TypeOK, Job
<1>1. \A x, y \in Field : Refers(x, y)' <=> IF x = j.id THEN y \in j.refs ELSE Refers(x, y)
  BY <1>0 DEF Refers, RefsFit
<1>2. \A x, y \in Field : Refers(x, y) <=> x \in fieldRefs[y]
  BY <1>0 DEF SerialInv, RefsInStep
<1>3. TargetsAreLeaves'
  <2> SUFFICES ASSUME NEW x \in Field, NEW y \in Field, Refers(x, y)'
               PROVE  Leaf(y)'
    BY DEF TargetsAreLeaves
  <2>1. CASE x = j.id
    BY <1>0, <1>1, <2>1 DEF Leaf
  <2>2. CASE x # j.id
    <3>1. Refers(x, y) /\ Leaf(y)
      BY <1>1, <2>2 DEF SerialInv, TargetsAreLeaves
    <3> QED
      BY <1>0, <3>1 DEF Leaf
  <2> QED
    BY <2>1, <2>2
<1>4. CASE pc'[p] = "sync" /\ job'[p] = j
  <2>1. OldRefs(p)' = OldRefs(p)
    BY <1>4 DEF OldRefs
  <2>2. SyncAhead'
    BY <1>0, <1>1, <1>2, <1>4, <2>1 DEF SyncAhead
  <2>3. RefsInStep'
    BY <1>0, <1>1, <1>2, <1>4 DEF RefsInStep
  <2> QED
    BY <1>3, <1>4, <2>2, <2>3, SerialWritten
<1>5. CASE pc'[p] = "idle" /\ OldRefs(p) = j.refs
  <2>1. SyncAhead'
    BY <1>0, <1>5 DEF SyncAhead
  <2>2. RefsInStep'
    BY <1>0, <1>1, <1>2, <1>5 DEF RefsInStep
  <2> QED
    BY <1>3, <1>5, <2>1, <2>2, SerialWritten
<1> QED
  BY <1>4, <1>5

LEMMA SerialInsert ==
  ASSUME Serial, IInv, IInv', SerialInv, NEW p \in Request, InsertField(p)
  PROVE  SerialInv'
<1> DEFINE j == job[p]
<1>0. /\ j \in Job /\ j.id \in Field /\ pc[p] = "write" /\ j.op = "create"
      /\ UNCHANGED fieldRefs /\ TypeOK /\ OldRefs(p) = {}
  BY DEF InsertField, IInv, TypeOK, Job, OldRefs
<1>1. ~fields[j.id].live
  BY <1>0 DEF IInv, Reserved, Creating, Judging, RowsOK
<1>2. /\ fields'[j.id] = NewRow(j.shape, j.refs, j.expose)
      /\ \A f \in Field \ {j.id} : fields'[f] = fields[f]
  BY <1>0 DEF InsertField, TypeOK
<1>3. RefsFit(j.shape, j.refs)
  BY <1>0 DEF IInv, Phases
<1>4. \A y \in j.refs : Leaf(y)
  BY <1>0 DEF SerialInv, JudgedAreLeaves, Judging, Judged
<1>5. \A y \in j.refs : y # j.id
  BY <1>1, <1>4 DEF Leaf
<1>6. \A x \in Field : ~Refers(x, j.id) /\ ~Refers(j.id, x)
  BY <1>0, <1>1 DEF SerialInv, TargetsAreLeaves, Leaf, Refers
<1>7. \/ pc'[p] = "sync" /\ job'[p] = j
      \/ pc'[p] = "idle" /\ OldRefs(p) = j.refs
  BY <1>0, FinishEffect DEF InsertField, Goto, TypeOK
<1>8. /\ fields'[j.id].live /\ fields'[j.id].shape = j.shape
      /\ fields'[j.id].refs = j.refs
  BY <1>2 DEF NewRow
<1>9. /\ \A x \in Field : Refers(x, j.id) => j.shape # Reference
      /\ \A y \in Field : y \in OldRefs(p) <=> Refers(j.id, y)
  BY <1>0, <1>6
<1> QED
  BY <1>0, <1>2, <1>3, <1>4, <1>5, <1>7, <1>8, <1>9, SerialRow

\* Nothing refers to a field whose type changes: its rows of field_refs are those
\* of the properties, and they were counted.
LEMMA SerialUpdate ==
  ASSUME Serial, IInv, IInv', SerialInv, NEW p \in Request, UpdateTx(p)
  PROVE  SerialInv'
<1> DEFINE j == job[p]
<1>0. /\ j \in Job /\ j.id \in Field /\ pc[p] = "write" /\ j.op = "update"
      /\ UNCHANGED fieldRefs /\ TypeOK /\ fields[j.id] \in Row
      /\ \A q \in Request : q = p
  BY DEF UpdateTx, IInv, TypeOK, Job, Serial
<1>1. CASE ~VersionMatches(p)
  <2>1. UNCHANGED tables /\ Finish(p)
    BY <1>0, <1>1 DEF UpdateTx, tables
  <2>2. pc'[p] = "idle"
    BY <1>0, <2>1, FinishEffect
  <2> QED
    BY <1>0, <2>1, <2>2, SerialMove DEF JudgedAreLeaves, ReadStays, Judging
<1>2. CASE VersionMatches(p)
  <2>1. /\ fields'[j.id] = EditedRow(fields[j.id], j.shape, j.refs, j.expose)
        /\ \A f \in Field \ {j.id} : fields'[f] = fields[f]
    BY <1>0, <1>2 DEF UpdateTx, TypeOK
  <2>2. /\ fields'[j.id].live /\ fields'[j.id].shape = j.shape
        /\ fields'[j.id].refs = j.refs
    BY <1>0, <1>2, <2>1 DEF EditedRow, Row, VersionMatches
  <2>3. RefsFit(j.shape, j.refs)
    BY <1>0 DEF IInv, Phases
  <2>4. \A y \in j.refs : Leaf(y) /\ y # j.id
    BY <1>0 DEF SerialInv, JudgedAreLeaves, Judging, Judged
  <2>5. /\ fields[j.id].live /\ fields[j.id].shape = j.old.shape
        /\ fields[j.id].refs = j.old.refs
    BY <1>0 DEF SerialInv, ReadStays
  <2>6. ASSUME NEW x \in Field, Refers(x, j.id)
        PROVE  j.shape # Reference
    <3>1. x \in fieldRefs[j.id] /\ Leaf(j.id)
      BY <1>0, <2>6 DEF SerialInv, RefsInStep, TargetsAreLeaves
    <3>2. ShapeChangeAllowed(j.old.shape, j.shape)
      BY <1>0, <3>1 DEF IInv, LockKeeps, Judging, Referenced
    <3> QED
      BY <2>5, <3>1, <3>2, ShapeAssumption, WidensAssumption DEF ShapeChangeAllowed, Leaf
  <2>7. \A y \in Field : y \in OldRefs(p) <=> Refers(j.id, y)
    BY <1>0, <2>5 DEF OldRefs, Refers
  <2>8. \/ pc'[p] = "sync" /\ job'[p] = j
        \/ pc'[p] = "idle" /\ OldRefs(p) = j.refs
    BY <1>0, <1>2, FinishEffect DEF UpdateTx, Goto, TypeOK
  <2> QED
    BY <1>0, <2>1, <2>2, <2>3, <2>4, <2>6, <2>7, <2>8, SerialRow
<1> QED
  BY <1>1, <1>2

\* Nothing refers to a field that is deleted.
LEMMA SerialUnreferred ==
  ASSUME Serial, IInv, SerialInv, NEW p \in Request, pc[p] = "write",
         job[p].op = "delete", NEW x \in Field
  PROVE  ~Refers(x, job[p].id)
<1>1. fieldRefs[job[p].id] = {}
  BY DEF IInv, LockKeeps, Judging, Referenced
<1>2. job[p].id \in Field /\ \A q \in Request : q = p
  BY DEF IInv, TypeOK, Job, Serial
<1> QED
  BY <1>1, <1>2 DEF SerialInv, RefsInStep

LEMMA SerialDelete ==
  ASSUME Serial, IInv, IInv', SerialInv, NEW p \in Request, SoftDeleteTx(p)
  PROVE  SerialInv'
<1> DEFINE f == job[p].id
<1>0. /\ job[p] \in Job /\ f \in Field /\ pc[p] = "write" /\ job[p].op = "delete"
      /\ TypeOK /\ fields[f] \in Row /\ \A q \in Request : q = p
      /\ Finish(p) /\ pc'[p] = "idle"
  BY FinishEffect DEF SoftDeleteTx, IInv, TypeOK, Job, Serial
<1>1. /\ fields[f].live /\ fields[f].shape = job[p].old.shape
  BY <1>0 DEF SerialInv, ReadStays
<1>2. fields' = [fields EXCEPT ![f] = DeletedRow(fields[f])]
  BY <1>0, <1>1 DEF SoftDeleteTx
<1>3. ~fields'[f].live /\ \A x \in Field \ {f} : fields'[x] = fields[x]
  BY <1>0, <1>2 DEF TypeOK, DeletedRow, Row
<1>4. \A x, y \in Field : Refers(x, y)' <=> x # f /\ Refers(x, y)
  BY <1>3 DEF Refers
<1>5. \A x, y \in Field : Refers(x, y) <=> x \in fieldRefs[y]
  BY <1>0 DEF SerialInv, RefsInStep
<1>6. \A x, y \in Field : x \in fieldRefs'[y] <=> x # f /\ x \in fieldRefs[y]
  <2>1. CASE job[p].old.shape # Reference
    <3>1. UNCHANGED fieldRefs /\ \A y \in Field : ~Refers(f, y)
      BY <1>0, <1>1, <2>1 DEF SoftDeleteTx, Refers
    <3> QED
      BY <1>0, <1>5, <3>1
  <2>2. CASE job[p].old.shape = Reference
    BY <1>0, <1>1, <2>2 DEF SoftDeleteTx, RemoveBySource
  <2> QED
    BY <2>1, <2>2
<1>7. RefsInStep' /\ SyncAhead'
  BY <1>0, <1>4, <1>5, <1>6 DEF RefsInStep, SyncAhead
<1>8. TargetsAreLeaves'
  <2> SUFFICES ASSUME NEW x \in Field, NEW y \in Field, Refers(x, y)
               PROVE  Leaf(y)'
    BY <1>4 DEF TargetsAreLeaves
  <2>1. y # f /\ Leaf(y)
    BY <1>0, SerialUnreferred DEF SerialInv, TargetsAreLeaves
  <2> QED
    BY <1>3, <2>1 DEF Leaf
<1> QED
  BY <1>0, <1>7, <1>8, SerialWritten

LEMMA SerialSync ==
  ASSUME Serial, IInv, IInv', SerialInv, NEW p \in Request, SyncFieldRefs(p)
  PROVE  SerialInv'
<1> DEFINE j == job[p]
<1>0. /\ j \in Job /\ j.id \in Field /\ j.refs \subseteq Field /\ pc[p] = "sync"
      /\ TypeOK /\ \A q \in Request : q = p
      /\ Finish(p) /\ pc'[p] = "idle" /\ UNCHANGED fields
  BY FinishEffect DEF SyncFieldRefs, IInv, TypeOK, Job, Serial
<1>1. \A y \in Field : /\ j.id \in fieldRefs[y] <=> y \in OldRefs(p)
                       /\ Refers(j.id, y) <=> y \in j.refs
  BY <1>0 DEF SerialInv, SyncAhead
<1>2. \A y \in Field : fieldRefs'[y] = IF y \in j.refs \ OldRefs(p)
                                       THEN fieldRefs[y] \cup {j.id}
                                       ELSE IF y \in OldRefs(p) \ j.refs
                                       THEN fieldRefs[y] \ {j.id}
                                       ELSE fieldRefs[y]
  BY DEF SyncFieldRefs
<1>3. \A x, y \in Field : Refers(x, y) <=> x \in fieldRefs'[y]
  <2> SUFFICES ASSUME NEW x \in Field, NEW y \in Field
               PROVE  Refers(x, y) <=> x \in fieldRefs'[y]
    OBVIOUS
  <2>1. CASE x = j.id
    BY <1>1, <1>2, <2>1
  <2>2. CASE x # j.id
    <3>1. Refers(x, y) <=> x \in fieldRefs[y]
      BY <1>0, <2>2 DEF SerialInv, RefsInStep
    <3> QED
      BY <1>2, <2>2, <3>1
  <2> QED
    BY <2>1, <2>2
<1>4. RefsInStep' /\ SyncAhead'
  BY <1>0, <1>3 DEF RefsInStep, SyncAhead, Refers
<1>5. TargetsAreLeaves'
  BY <1>0 DEF SerialInv, TargetsAreLeaves, Leaf, Refers
<1> QED
  BY <1>0, <1>4, <1>5, SerialWritten

LEMMA SerialStep ==
  ASSUME Serial
  PROVE  IInv /\ IInv' /\ SerialInv /\ [Next]_vars => SerialInv'
<1> SUFFICES ASSUME IInv, IInv', SerialInv, [Next]_vars PROVE SerialInv'
  OBVIOUS
<1>0. TypeOK
  BY DEF IInv
<1>1. CASE UNCHANGED vars
  BY <1>0, <1>1, SerialBeside DEF vars, RowKept
<1>2. ASSUME NEW f \in Field, NEW b \in BOOLEAN, ToggleEnabled(f, b)
      PROVE  SerialInv'
  <2>1. \A g \in Field : RowKept(g)
    BY <1>0, <1>2 DEF ToggleEnabled, ToggledRow, RowKept, TypeOK, Row
  <2> QED
    BY <1>0, <1>2, <2>1, SerialBeside DEF ToggleEnabled
<1>3. ASSUME NEW f \in Field, NEW h \in Holder, HolderRef(h, f)
      PROVE  SerialInv'
  BY <1>0, <1>3, SerialBeside DEF HolderRef, RowKept
<1>4. \A p \in Request : ~Fail(p)
  BY DEF Serial, Fail
<1> QED
  BY <1>1, <1>2, <1>3, <1>4, SerialBegin, SerialCheck, SerialInsert, SerialUpdate,
     SerialDelete, SerialSync DEF Next, Write

LEMMA SerialStart == Init => SerialInv
<1> SUFFICES ASSUME Init PROVE SerialInv
  OBVIOUS
<1>1. \A x, y \in Field : ~Refers(x, y)
  BY DEF Init, Refers, NoRow, NewRow
<1>2. \A p \in Request : pc[p] = "idle"
  BY DEF Init
<1> QED
  BY <1>1, <1>2 DEF Init, SerialInv, RefsInStep, SyncAhead, TargetsAreLeaves,
                    JudgedAreLeaves, ReadStays, Judging

\* One request at a time, without failures: between an edit and its second
\* transaction only the edited field is behind in field_refs, and what the request
\* has read of it is what it overwrites.
THEOREM SerialInvariance ==
  ASSUME Serial
  PROVE  Spec => []SerialInv
<1>1. IInv /\ IInv' /\ SerialInv /\ [Next]_vars => SerialInv'
  BY SerialStep
<1> QED
  BY <1>1, SerialStart, Invariance, PTL DEF Spec

\* One request at a time, without failures: between requests field_refs holds the
\* references of the properties and no others, and every target is a live field
\* that refers to nothing.
THEOREM SerialIntegrityHolds ==
  ASSUME Serial
  PROVE  Spec => []SerialIntegrity
<1>1. SerialInv => SerialIntegrity
  BY DEF SerialInv, SerialIntegrity, RefsInStep, TargetsAreLeaves, Leaf
<1> QED
  BY <1>1, SerialInvariance, PTL

\* What races refute holds of one request at a time: a field that a field refers to
\* is not deleted.
THEOREM DeletesUnreferred ==
  ASSUME Serial
  PROVE  Spec => DeletesOnlyUnreferred
<1> DEFINE Unreferred == \A f \in Field : fields[f].live /\ ~fields'[f].live =>
                           ~\E x \in Field \ {f} : Refers(x, f)
<1>1. IInv /\ SerialInv /\ [Next]_vars => [Unreferred]_vars
  <2> SUFFICES ASSUME IInv, SerialInv, Next, NEW f \in Field, NEW x \in Field,
                      fields[f].live, ~fields'[f].live
               PROVE  ~Refers(x, f)
    OBVIOUS
  <2>1. PICK p \in Request : SoftDeleteTx(p) /\ job[p].id = f
    <3>0. TypeOK /\ fields[f] \in Row /\ \A p \in Request : job[p].id \in Field
      BY DEF IInv, TypeOK, Job
    <3>1. \A p \in Request : ~Begin(p) /\ ~Check(p) /\ ~Fail(p)
      BY <3>0, BeginEffect, CheckEffect DEF Fail, tables
    <3>2. ASSUME NEW p \in Request, InsertField(p)
          PROVE  FALSE
      <4>1. fields'[f] = NewRow(job[p].shape, job[p].refs, job[p].expose)
              \/ fields'[f] = fields[f]
        BY <3>0, <3>2 DEF InsertField, TypeOK
      <4> QED
        BY <4>1 DEF NewRow
    <3>3. ASSUME NEW p \in Request, UpdateTx(p)
          PROVE  FALSE
      <4>1. fields'[f] = EditedRow(fields[f], job[p].shape, job[p].refs, job[p].expose)
              \/ fields'[f] = fields[f]
        BY <3>0, <3>3 DEF UpdateTx, TypeOK
      <4> QED
        BY <3>0, <4>1 DEF EditedRow, Row
    <3>4. ASSUME NEW p \in Request, SoftDeleteTx(p)
          PROVE  job[p].id = f
      BY <3>0, <3>4 DEF SoftDeleteTx, TypeOK
    <3>5. \A p \in Request : ~SyncFieldRefs(p)
      BY DEF SyncFieldRefs
    <3>6. ASSUME NEW g \in Field, NEW b \in BOOLEAN, ToggleEnabled(g, b)
          PROVE  FALSE
      <4>1. fields'[f] = ToggledRow(fields[f], b) \/ fields'[f] = fields[f]
        BY <3>0, <3>6 DEF ToggleEnabled, TypeOK
      <4> QED
        BY <3>0, <4>1 DEF ToggledRow, Row
    <3>7. \A g \in Field, h \in Holder : ~HolderRef(h, g)
      BY DEF HolderRef
    <3> QED
      BY <3>1, <3>2, <3>3, <3>4, <3>5, <3>6, <3>7 DEF Next, Write
  <2> QED
    BY <2>1, SerialUnreferred DEF SoftDeleteTx
<1>2. Spec => [][Unreferred]_vars
  BY <1>1, Invariance, SerialInvariance, PTL DEF Spec
<1> QED
  BY <1>2 DEF DeletesOnlyUnreferred
=============================================================================
