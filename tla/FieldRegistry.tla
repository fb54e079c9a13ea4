--------------------------- MODULE FieldRegistry ---------------------------
(***************************************************************************)
(* The field module, backend/internal/service/field.go, as concurrent HTTP *)
(* requests over the tables `fields` and `field_refs`.                     *)
(*                                                                         *)
(* A request is a goroutine.  Each SQL statement it runs outside a         *)
(* transaction is a step of its own, so the row it judges (job.old) may be *)
(* gone by the time it writes.  The transaction of Update and Delete opens *)
(* with SELECT COUNT(1) ... FOR SHARE on field_refs, whose lock lasts until *)
(* the commit; the write, the cache invalidation and the commit are one    *)
(* step, because no other request can see a state between them here (what  *)
(* a reader of the cache can see there is DetailCache's subject).          *)
(***************************************************************************)
EXTENDS FieldRows

CONSTANTS
  Request,      \* request goroutines, each serves one request at a time
  ExposeInput,  \* values of expose_bb the requests carry
  Faults        \* may a step fail (SQL error, context cancelled, crash)?

ASSUME InputAssumption == ExposeInput \subseteq BOOLEAN /\ Faults \in BOOLEAN

VARIABLES
  fields,       \* the table fields
  fieldRefs,    \* field_refs rows with ref_type = 'field', by field_id
  holders,      \* field_refs rows with ref_type 'template', 'fsm', 'bt'
  pc,           \* where each request stands
  job,          \* its body, and the row it has read
  todo,         \* the ids it has still to look up
  seen          \* the visited set of the search for cycles

tables == <<fields, fieldRefs, holders>>
vars == <<fields, fieldRefs, holders, pc, job, todo, seen>>

PC == {"idle", "expose", "lock", "refs", "cycle", "write", "sync"}

Job == [op : {"none", "create", "update", "delete"}, id : Field, ver : Nat,
        shape : Shape, refs : SUBSET Field, expose : BOOLEAN, old : Row]

NoJob == [op |-> "none", id |-> CHOOSE f \in Field : TRUE, ver |-> 0,
          shape |-> Reference, refs |-> {}, expose |-> FALSE, old |-> NoRow]

TypeOK ==
  /\ fields \in [Field -> Row]
  /\ fieldRefs \in [Field -> SUBSET Field]
  /\ holders \in [Field -> SUBSET Holder]
  /\ pc \in [Request -> PC]
  /\ job \in [Request -> Job]
  /\ todo \in [Request -> SUBSET Field]
  /\ seen \in [Request -> SUBSET Field]

Referenced(f) == fieldRefs[f] # {} \/ holders[f] # {}

\* Mutant: the count of the references without FOR SHARE.
ShareLockedNever(f) == FALSE

\* The requests whose transaction holds the FOR SHARE lock on the rows of f.
ShareLocked(f) ==
  \E p \in Request : /\ job[p].op \in {"update", "delete"}
                     /\ job[p].id = f
                     /\ pc[p] \in {"refs", "cycle", "write"}

\* The old references of an update: refs it keeps are not judged again.
OldRefs(p) == IF job[p].op = "update" /\ job[p].old.shape = Reference
              THEN job[p].old.refs ELSE {}

Init ==
  /\ fields \in [Field -> {NoRow} \cup
                   {NewRow(s, {}, e) : s \in LeafShape, e \in ExposeInput}]
  /\ fieldRefs = [f \in Field |-> {}]
  /\ holders = [f \in Field |-> {}]
  /\ pc = [p \in Request |-> "idle"]
  /\ job = [p \in Request |-> NoJob]
  /\ todo = [p \in Request |-> {}]
  /\ seen = [p \in Request |-> {}]

-----------------------------------------------------------------------------
(* Moves of a request *)

Goto(p, label) == pc' = [pc EXCEPT ![p] = label]

\* The request answers and its locals are gone.
Finish(p) ==
  /\ pc' = [pc EXCEPT ![p] = "idle"]
  /\ job' = [job EXCEPT ![p] = NoJob]
  /\ todo' = [todo EXCEPT ![p] = {}]
  /\ seen' = [seen EXCEPT ![p] = {}]

\* To the checks of a reference's targets, or past them for a leaf.
ToValidation(p) ==
  IF job[p].shape = Reference
  THEN Goto(p, "refs") /\ todo' = [todo EXCEPT ![p] = job[p].refs]
  ELSE Goto(p, "write") /\ UNCHANGED todo

\* Create: dictionary and name checks passed; the id is the one that
\* AUTO_INCREMENT will give to the insert.
BeginCreate(p, f, s, r, e) ==
  /\ pc[p] = "idle"
  /\ fields[f].ver = 0 /\ MaxVersion > 0
  /\ \A q \in Request : pc[q] # "idle" => job[q].id # f
  /\ RefsFit(s, r)
  /\ job' = [job EXCEPT ![p] = [op |-> "create", id |-> f, ver |-> 0,
                shape |-> s, refs |-> r, expose |-> e, old |-> NoRow]]
  /\ Goto(p, IF s = Reference THEN "refs" ELSE "write")
  /\ todo' = [todo EXCEPT ![p] = r]
  /\ UNCHANGED <<tables, seen>>

\* Update: getFieldOrNotFound, then the row must be disabled.  The request
\* carries a version the server has once shown the client.
BeginUpdate(p, f, v, s, r, e) ==
  /\ pc[p] = "idle"
  /\ fields[f].live /\ ~fields[f].enabled
  /\ fields[f].ver < MaxVersion
  /\ v \in 1..fields[f].ver
  /\ RefsFit(s, r)
  /\ job' = [job EXCEPT ![p] = [op |-> "update", id |-> f, ver |-> v,
                shape |-> s, refs |-> r, expose |-> e, old |-> fields[f]]]
  /\ Goto(p, IF fields[f].expose /\ ~e THEN "expose" ELSE "lock")
  /\ UNCHANGED <<tables, todo, seen>>

\* Delete: getFieldOrNotFound, then the row must be disabled.
BeginDelete(p, f) ==
  /\ pc[p] = "idle"
  /\ fields[f].live /\ ~fields[f].enabled
  /\ job' = [job EXCEPT ![p] = [NoJob EXCEPT !.op = "delete", !.id = f,
                                             !.old = fields[f]]]
  /\ Goto(p, "lock")
  /\ UNCHANGED <<tables, todo, seen>>

\* A plain read, before the transaction: expose_bb may be revoked when no
\* FSM or tree uses the field as a BB key.
CheckExposeBBRevocation(p) ==
  /\ pc[p] = "expose"
  /\ IF holders[job[p].id] \cap BBHolder = {}
     THEN Goto(p, "lock") /\ UNCHANGED <<job, todo, seen>>
     ELSE Finish(p)
  /\ UNCHANGED tables

\* Mutant: the delete of a referenced field goes through.
ReferencesAllowDelete(p) ==
  \/ job[p].op = "delete" \/ ~Referenced(job[p].id)
  \/ ShapeChangeAllowed(job[p].old.shape, job[p].shape)

\* A referenced field is not deleted; its type stays and its constraints do not
\* tighten.
ReferencesAllow(p) ==
  \/ ~Referenced(job[p].id)
  \/ /\ job[p].op # "delete"
     /\ ShapeChangeAllowed(job[p].old.shape, job[p].shape)

\* The transaction begins: the references of the field are counted under a
\* share lock, and the rule for a referenced field is applied.
HasRefsTx(p) ==
  /\ pc[p] = "lock"
  /\ IF ~ReferencesAllow(p) THEN Finish(p)
     ELSE /\ IF job[p].op = "delete" THEN Goto(p, "write") /\ UNCHANGED todo
             ELSE ToValidation(p)
          /\ UNCHANGED <<job, seen>>
  /\ UNCHANGED tables

\* Mutant: a new target may be disabled.
TargetOKDisabled(p, y) ==
  /\ fields[y].live
  /\ y \in OldRefs(p) \/ fields[y].shape # Reference

\* validateReferenceRefsImpl reads one target: it must exist, and a target
\* that is new in this edit must be enabled and must not be a reference.
TargetOK(p, y) ==
  /\ fields[y].live
  /\ y \in OldRefs(p) \/ (fields[y].enabled /\ fields[y].shape # Reference)

\* Mutant: currentID is put into the visited set without looking whether it is 0.
FirstSeenZero(p) == job[p].refs \cup
                    {IF job[p].op = "update" THEN job[p].id ELSE 0}

\* The ids that detectCyclicRef has visited before it looks up a target: the
\* field itself (a field being created has no id yet) and the targets.
FirstSeen(p) == job[p].refs \cup
                (IF job[p].op = "update" THEN {job[p].id} ELSE {})

ValidateRef(p, y) ==
  /\ pc[p] = "refs"
  /\ y \in todo[p]
  /\ IF ~TargetOK(p, y) THEN Finish(p)
     ELSE IF todo[p] # {y}
     THEN /\ todo' = [todo EXCEPT ![p] = @ \ {y}]
          /\ UNCHANGED <<pc, job, seen>>
     ELSE IF job[p].op = "update" /\ job[p].id \in job[p].refs THEN Finish(p)
     ELSE /\ Goto(p, "cycle")
          /\ todo' = [todo EXCEPT ![p] = job[p].refs]
          /\ seen' = [seen EXCEPT ![p] = FirstSeen(p)]
          /\ UNCHANGED job
  /\ UNCHANGED tables

\* Mutant: a visited id stays in the worklist.
ToVisitAgain(p, y, sub) == todo[p] \cup sub

\* What the search has still to look up after y, which refers to sub.
ToVisit(p, y, sub) == (todo[p] \ {y}) \cup sub

\* One lookup of detectCyclicRefImpl.  The visited set is shared by the whole
\* search, so an id met twice is refused, cycle or not.  A lookup that fails
\* is passed over.
VisitRef(p, y, sub) ==
  /\ pc[p] = "cycle"
  /\ y \in todo[p]
  /\ \/ sub = IF fields[y].live /\ fields[y].shape = Reference
              THEN fields[y].refs ELSE {}
     \/ Faults /\ sub = {}
  /\ IF sub \cap seen[p] # {} THEN Finish(p)
     ELSE /\ todo' = [todo EXCEPT ![p] = ToVisit(p, y, sub)]
          /\ seen' = [seen EXCEPT ![p] = @ \cup sub]
          /\ UNCHANGED <<pc, job>>
  /\ UNCHANGED tables

EndVisit(p) ==
  /\ pc[p] = "cycle"
  /\ todo[p] = {}
  /\ Goto(p, "write")
  /\ UNCHANGED <<tables, job, todo, seen>>

-----------------------------------------------------------------------------
(* Writes *)

InsertField(p) ==
  LET j == job[p] IN
  /\ pc[p] = "write" /\ j.op = "create"
  /\ fields' = [fields EXCEPT ![j.id] = NewRow(j.shape, j.refs, j.expose)]
  /\ IF j.refs # {} THEN Goto(p, "sync") /\ UNCHANGED <<job, todo, seen>>
     ELSE Finish(p)
  /\ UNCHANGED <<fieldRefs, holders>>

\* WHERE id = ? AND version = ? AND deleted = 0
VersionMatches(p) == LET row == fields[job[p].id] IN
                     row.live /\ row.ver = job[p].ver

\* UPDATE ... WHERE id = ? AND version = ? AND deleted = 0, and the commit.
\* Enabled is not in the SET list.
UpdateTx(p) ==
  LET j == job[p] IN
  /\ pc[p] = "write" /\ j.op = "update"
  /\ IF VersionMatches(p)
     THEN /\ fields' = [fields EXCEPT ![j.id] =
                          EditedRow(fields[j.id], j.shape, j.refs, j.expose)]
          /\ IF OldRefs(p) # j.refs
             THEN Goto(p, "sync") /\ UNCHANGED <<job, todo, seen>>
             ELSE Finish(p)
     ELSE Finish(p) /\ UNCHANGED fields
  /\ UNCHANGED <<fieldRefs, holders>>

\* Mutant: the references of a deleted field stay.
RemoveBySourceNothing(f) == fieldRefs

\* DELETE FROM field_refs WHERE ref_type = 'field' AND ref_id = f
RemoveBySource(f) == [y \in Field |-> fieldRefs[y] \ {f}]

\* UPDATE ... SET deleted = 1 WHERE id = ? AND deleted = 0: neither the
\* version nor enabled is looked at again.  The references of a field that was
\* of type reference when it was read go in the same transaction, which waits
\* for the requests that hold a share lock on them.
SoftDeleteTx(p) ==
  LET f == job[p].id
      mine == {y \in Field : f \in fieldRefs[y]} IN
  /\ pc[p] = "write" /\ job[p].op = "delete"
  /\ IF ~fields[f].live THEN UNCHANGED <<fields, fieldRefs>>
     ELSE /\ fields' = [fields EXCEPT ![f] = DeletedRow(fields[f])]
          /\ IF job[p].old.shape # Reference THEN UNCHANGED fieldRefs
             ELSE /\ \A y \in mine : ~ShareLocked(y)
                  /\ fieldRefs' = RemoveBySource(f)
  /\ Finish(p)
  /\ UNCHANGED holders

\* syncFieldRefs: a second transaction, after the commit of the first, writes
\* the difference between the refs the request read and those it wrote.  An
\* insert or delete that changes a row waits for the share locks on it.
SyncFieldRefs(p) ==
  LET j == job[p]
      add == j.refs \ OldRefs(p)
      del == OldRefs(p) \ j.refs
      changed == {y \in add : j.id \notin fieldRefs[y]} \cup
                 {y \in del : j.id \in fieldRefs[y]} IN
  /\ pc[p] = "sync"
  /\ \A y \in changed : ~ShareLocked(y)
  /\ fieldRefs' = [y \in Field |-> IF y \in add THEN fieldRefs[y] \cup {j.id}
                                   ELSE IF y \in del
                                   THEN fieldRefs[y] \ {j.id}
                                   ELSE fieldRefs[y]]
  /\ Finish(p)
  /\ UNCHANGED <<fields, holders>>

\* A statement fails or the process dies: the open transaction is rolled
\* back, what was committed before stays.
Fail(p) ==
  /\ Faults
  /\ pc[p] # "idle"
  /\ Finish(p)
  /\ UNCHANGED tables

\* ToggleEnabled is a read for existence and one UPDATE under the version.
ToggleEnabled(f, b) ==
  /\ fields[f].live
  /\ fields[f].ver < MaxVersion
  /\ fields' = [fields EXCEPT ![f] = ToggledRow(fields[f], b)]
  /\ UNCHANGED <<fieldRefs, holders, pc, job, todo, seen>>

\* A template, FSM or tree transaction attaches the field or detaches it.  It
\* chose the field from an earlier read, so all that is known of it here is
\* that it has existed.
HolderRef(h, f) ==
  /\ fields[f].ver > 0
  /\ ~ShareLocked(f)
  /\ holders' = [holders EXCEPT ![f] = IF h \in @ THEN @ \ {h} ELSE @ \cup {h}]
  /\ UNCHANGED <<fields, fieldRefs, pc, job, todo, seen>>

-----------------------------------------------------------------------------
Begin(p) ==
  \E f \in Field :
    \/ \E s \in Shape, r \in SUBSET Field, e \in ExposeInput :
         \/ BeginCreate(p, f, s, r, e)
         \/ \E v \in 1..MaxVersion : BeginUpdate(p, f, v, s, r, e)
    \/ BeginDelete(p, f)

Check(p) ==
  \/ CheckExposeBBRevocation(p)
  \/ HasRefsTx(p)
  \/ \E y \in Field : ValidateRef(p, y)
  \/ \E y \in Field, sub \in SUBSET Field : VisitRef(p, y, sub)
  \/ EndVisit(p)

Write(p) == InsertField(p) \/ UpdateTx(p) \/ SoftDeleteTx(p) \/ SyncFieldRefs(p)

Next ==
  \/ \E p \in Request : Begin(p) \/ Check(p) \/ Write(p) \/ Fail(p)
  \/ \E f \in Field, b \in BOOLEAN : ToggleEnabled(f, b)
  \/ \E f \in Field, h \in Holder : HolderRef(h, f)

Spec == Init /\ [][Next]_vars

\* A running goroutine runs on; a transaction waiting for a share lock gets
\* its turn if the lock is free again and again.  Nobody has to send requests.
Fairness == \A p \in Request : WF_vars(Check(p)) /\ SF_vars(Write(p))

FairSpec == Spec /\ Fairness

-----------------------------------------------------------------------------
(* Properties *)

Refers(x, y) == /\ fields[x].live
                /\ fields[x].shape = Reference
                /\ y \in fields[x].refs

\* No cycle of references, however the edits of several fields interleave and
\* although each search for cycles reads the graph while it changes: every set
\* of fields has a member that refers to none of them.
Acyclic ==
  \A S \in (SUBSET Field) \ {{}} : \E x \in S : \A y \in S : ~Refers(x, y)

\* Update never compares the version of the request with the row it judged,
\* only with the row it overwrites.  Still no edit is judged against one row and
\* written over another: when the version matches, the rows are the same.
NoBlindWrite ==
  \A p \in Request :
    /\ pc[p] \in {"expose", "lock", "refs", "cycle", "write"}
    /\ job[p].op = "update"
    /\ VersionMatches(p)
    => job[p].old = fields[job[p].id]

\* What the field module promises (FieldTable): every edit, delete and toggle
\* is as good as one atomic step judged on the row and the references of that
\* moment.  The share lock on field_refs and the version are what make it so.
Table == INSTANCE FieldTable
TableSpec == Table!Spec

\* One request at a time and no failure: between requests field_refs holds
\* exactly the references stored in the fields' properties, and every target
\* exists and is a leaf.
SerialIntegrity ==
  (\A p \in Request : pc[p] = "idle") =>
    \A x, y \in Field :
      /\ Refers(x, y) <=> x \in fieldRefs[y]
      /\ Refers(x, y) => fields[y].live /\ fields[y].shape # Reference

\* Every request is answered: the transactions never wait for each other's
\* share locks in a circle.
RequestsFinish == \A p \in Request : pc[p] # "idle" ~> pc[p] = "idle"

\* What the sources say and races refute.
\* admin/red-lines.md, 2.1: a field that a field refers to is not deleted.
DeletesOnlyUnreferred ==
  [][\A f \in Field : fields[f].live /\ ~fields'[f].live =>
       ~\E x \in Field \ {f} : Refers(x, f)]_vars
-----------------------------------------------------------------------------
(* The inductive invariant *)

Judging == {"refs", "cycle", "write"}

\* The targets of a request that have passed ValidateRef.
Judged(p) == IF pc[p] = "refs" THEN job[p].refs \ todo[p] ELSE job[p].refs

\* An update to a reference that can still succeed.
Pending(p) == /\ pc[p] \in Judging
              /\ job[p].op = "update" /\ job[p].shape = Reference
              /\ job[p].old = fields[job[p].id]

\* The references that exist, and those that a pending update has judged and
\* may yet write.
Edge(x, y) == \/ Refers(x, y)
              \/ \E p \in Request : Pending(p) /\ job[p].id = x /\ y \in Judged(p)

\* Which operation can stand where, with which body.
Phases ==
  \A p \in Request :
    /\ pc[p] = "expose" => job[p].op = "update"
    /\ pc[p] = "lock" => job[p].op \in {"update", "delete"}
    /\ pc[p] \in {"refs", "cycle"} => /\ job[p].op \in {"create", "update"}
                                     /\ job[p].shape = Reference
    /\ pc[p] = "sync" => job[p].op \in {"create", "update"}
    /\ pc[p] # "idle" /\ job[p].op # "delete" => RefsFit(job[p].shape, job[p].refs)

RowsOK == \A f \in Field : fields[f].live => fields[f].ver > 0

\* The row an update has read was disabled, the client had not seen a later
\* one, and the row with that version is still the same row.
FreshRead ==
  \A p \in Request :
    job[p].op = "update" /\ pc[p] \notin {"idle", "sync"} =>
      LET old == job[p].old
          row == fields[job[p].id] IN
      /\ old.live /\ ~old.enabled
      /\ job[p].ver <= old.ver /\ old.ver <= row.ver
      /\ row.live /\ old.ver = row.ver => old = row

\* The id of a create stays free until its insert.
Creating(p) == pc[p] \in Judging /\ job[p].op = "create"
Reserved ==
  \A p \in Request : Creating(p) =>
    /\ fields[job[p].id].ver = 0
    /\ \A q \in Request \ {p} : Creating(q) => job[q].id # job[p].id

\* Whatever is referred to, or judged, has a row.
TargetsExist ==
  /\ \A x, y \in Field : Refers(x, y) => fields[y].ver > 0
  /\ \A p \in Request : pc[p] \in Judging /\ job[p].op \in {"create", "update"} =>
       \A y \in Judged(p) : fields[y].ver > 0

\* What the share lock keeps true until the commit.
LockKeeps ==
  \A p \in Request : pc[p] \in Judging =>
    LET j == job[p] IN
    /\ j.op = "update" /\ Referenced(j.id) => ShapeChangeAllowed(j.old.shape, j.shape)
    /\ j.op = "delete" => ~Referenced(j.id)

AcyclicEdges ==
  \A S \in (SUBSET Field) \ {{}} : \E x \in S : \A y \in S : ~Edge(x, y)

IInv == /\ TypeOK /\ Phases /\ RowsOK /\ FreshRead /\ Reserved
        /\ TargetsExist /\ LockKeeps /\ AcyclicEdges

-----------------------------------------------------------------------------
(* One request at a time, without failures *)

Serial == ~Faults /\ \A p, q \in Request : p = q

\* field_refs has what the properties say, but for a field to be synchronised.
RefsInStep ==
  \A x \in Field : (\A p \in Request : pc[p] = "sync" => job[p].id # x) =>
    \A y \in Field : Refers(x, y) <=> x \in fieldRefs[y]

\* That one's rows are those of the references it had.
SyncAhead ==
  \A p \in Request : pc[p] = "sync" => LET f == job[p].id IN
    \A y \in Field : /\ f \in fieldRefs[y] <=> y \in OldRefs(p)
                     /\ Refers(f, y) <=> y \in job[p].refs

Leaf(y) == fields[y].live /\ fields[y].shape # Reference
TargetsAreLeaves == \A x, y \in Field : Refers(x, y) => Leaf(y)

\* The targets a request has judged, itself never among them.
JudgedAreLeaves ==
  \A p \in Request : pc[p] \in Judging /\ job[p].op \in {"create", "update"} =>
    /\ \A y \in Judged(p) : Leaf(y)
    /\ pc[p] # "refs" /\ job[p].op = "update" => job[p].id \notin job[p].refs

\* Beside the request a row is toggled at most: its references stay as read.
ReadStays ==
  \A p \in Request :
    pc[p] \notin {"idle", "sync"} /\ job[p].op \in {"update", "delete"} =>
      LET row == fields[job[p].id] IN
      /\ row.live
      /\ row.shape = job[p].old.shape /\ row.refs = job[p].old.refs

SerialInv == /\ RefsInStep /\ SyncAhead /\ TargetsAreLeaves
             /\ JudgedAreLeaves /\ ReadStays
=============================================================================
