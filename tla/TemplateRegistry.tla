-------------------------- MODULE TemplateRegistry --------------------------
(***************************************************************************)
(* Templates and the NPCs made from them: handler/template.go, which       *)
(* composes the template, field and NPC services in one transaction, and   *)
(* the creation of NPCs in handler/npc.go.                                 *)
(*                                                                         *)
(* Requests load the template through its cache (GetByID), check the       *)
(* fields and the NPCs by plain reads and only then open the transaction.  *)
(* Of the field module there is what FieldTable promises: a field is       *)
(* removed in one step, and only while field_refs has no row of it.        *)
(***************************************************************************)
EXTENDS Naturals

CONSTANTS
  Field,        \* ids of fields
  Template,     \* ids of the table templates, used or not yet allocated
  NPC,          \* ids of the table npcs
  Request,      \* request goroutines
  CacheOn,      \* is Redis there?  Without it every GetByID reads MySQL
  Miss,         \* no such key in Redis
  MaxVersion,   \* bound: no request starts on a row of this version
  Faults        \* may a step fail (SQL error, context cancelled, crash)?

ASSUME TemplateAssumption == Template # {} /\ Miss \notin Field
ASSUME LimitAssumption ==
  MaxVersion \in Nat /\ CacheOn \in BOOLEAN /\ Faults \in BOOLEAN

VARIABLES
  templates,    \* the table templates
  cache,        \* templates:detail:<id>, a row that is not live is NullMarker
  held,         \* held[f]: templates t with a row <<f, "template", t>>
  usable,       \* the fields that are live, enabled and not of type reference
  gone,         \* the fields that are deleted
  npcs,         \* the table npcs: template and fields of the snapshot
  shown,        \* the latest version of a template that a client has been shown
  pc,           \* where each request stands
  job           \* its body, and the template it has loaded

mysql == <<templates, held, usable, gone, npcs>>
vars == <<mysql, cache, shown, pc, job>>

Row == [live : BOOLEAN, enabled : BOOLEAN, ver : Nat, fields : SUBSET Field]
NoRow == [live |-> FALSE, enabled |-> FALSE, ver |-> 0, fields |-> {}]

Op == {"none", "get", "create", "update", "delete", "toggle", "npc"}
Job == [op : Op, id : Template, ver : Nat, fields : SUBSET Field, old : Row]
NoJob == [op |-> "none", id |-> CHOOSE t \in Template : TRUE, ver |-> 0,
          fields |-> {}, old |-> NoRow]

NPCRow == [tpl : Template, fields : SUBSET Field]
NoNPC == [tpl |-> NoJob.id, fields |-> {}]

PC == {"idle", "load", "read", "fill", "validate", "count", "tx", "delete",
       "commit", "insert", "clear"}

TypeOK ==
  /\ templates \in [Template -> Row]
  /\ cache \in [Template -> Row \cup {Miss}]
  /\ held \in [Field -> SUBSET Template]
  /\ usable \subseteq Field /\ gone \subseteq Field
  /\ npcs \in [NPC -> NPCRow]
  /\ shown \in [Template -> Nat]
  /\ pc \in [Request -> PC]
  /\ job \in [Request -> Job]

Init ==
  /\ templates = [t \in Template |-> NoRow]
  /\ cache = [t \in Template |-> Miss]
  /\ held = [f \in Field |-> {}]
  /\ usable = Field /\ gone = {}
  /\ npcs = [n \in NPC |-> NoNPC]
  /\ shown = [t \in Template |-> 0]
  /\ pc = [p \in Request |-> "idle"]
  /\ job = [p \in Request |-> NoJob]

Goto(p, label) == pc' = [pc EXCEPT ![p] = label]
Finish(p) == Goto(p, "idle") /\ job' = [job EXCEPT ![p] = NoJob]

\* A check that lets the request go on, or answers it with an error.
Proceed(p, ok, label) == IF ok THEN Goto(p, label) /\ UNCHANGED job ELSE Finish(p)

\* The NPCs that exist: a snapshot is never empty, templates have fields.
Made(n) == npcs[n].fields # {}
CountByTemplateID(t) == {n \in NPC : Made(n) /\ npcs[n].tpl = t}

-----------------------------------------------------------------------------
(* Loading a template *)

\* An update carries the version that its client was shown.
Begin(p, op, t, F) ==
  /\ pc[p] = "idle"
  /\ IF op = "update" THEN F # {} /\ shown[t] \in 1..(MaxVersion - 1) ELSE F = {}
  /\ job' = [job EXCEPT ![p] = [op |-> op, id |-> t, fields |-> F, old |-> NoRow,
                 ver |-> IF op = "update" THEN shown[t] ELSE 0]]
  /\ Goto(p, "load")
  /\ UNCHANGED <<mysql, cache, shown>>

AfterLoad(op) == IF op = "update" THEN "validate"
                 ELSE IF op = "delete" THEN "count" ELSE "insert"

\* Where a request goes with the row it has loaded.
Loaded(p, row) ==
  LET op == job[p].op
      t == job[p].id IN
  /\ shown' = IF op = "get" /\ row.ver > shown[t]
              THEN [shown EXCEPT ![t] = row.ver] ELSE shown
  /\ IF \/ ~row.live \/ op = "get"
        \/ op = "delete" /\ row.enabled
        \/ op = "npc" /\ ~row.enabled
     THEN Finish(p)
     ELSE /\ Goto(p, AfterLoad(op))
          /\ job' = [job EXCEPT ![p].old = row]

Lookup(p) ==
  /\ pc[p] = "load"
  /\ IF cache[job[p].id] # Miss THEN Loaded(p, cache[job[p].id])
     ELSE Goto(p, "read") /\ UNCHANGED <<job, shown>>
  /\ UNCHANGED <<mysql, cache>>

\* Mutant: no row is returned as a cache miss.
FoundMiss(row) == IF row.live THEN row ELSE Miss

\* SELECT ... AND deleted = 0
Found(row) == IF row.live THEN row ELSE NoRow

ReadRow(p) ==
  /\ pc[p] = "read"
  /\ job' = [job EXCEPT ![p].old = Found(templates[job[p].id])]
  /\ Goto(p, "fill")
  /\ UNCHANGED <<mysql, cache, shown>>

SetDetail(p) ==
  /\ pc[p] = "fill"
  /\ cache' = IF CacheOn THEN [cache EXCEPT ![job[p].id] = job[p].old] ELSE cache
  /\ Loaded(p, job[p].old)
  /\ UNCHANGED mysql

-----------------------------------------------------------------------------
(* Checks, by plain reads *)

\* Create: the id is the one that AUTO_INCREMENT will give to the insert.
BeginCreate(p, t, F) ==
  /\ pc[p] = "idle"
  /\ templates[t].ver = 0 /\ MaxVersion > 0 /\ F # {}
  /\ \A q \in Request : job[q].op = "create" => job[q].id # t
  /\ job' = [job EXCEPT ![p] = [op |-> "create", id |-> t, ver |-> 0,
                                fields |-> F, old |-> NoRow]]
  /\ Goto(p, "validate")
  /\ UNCHANGED <<mysql, cache, shown>>

\* DiffFieldIDs, of the row that was loaded and the row to be written; of a
\* delete nothing is written.
ToAdd(p) == job[p].fields \ job[p].old.fields
ToRemove(p) == job[p].old.fields \ job[p].fields

\* ValidateFieldsForTemplate, one SELECT for the added fields.
PreValidate(p) ==
  /\ pc[p] = "validate"
  /\ Proceed(p, ToAdd(p) \subseteq usable,
             IF job[p].op = "create" THEN "tx" ELSE "count")
  /\ UNCHANGED <<mysql, cache, shown>>

\* Mutant: NPCs are not counted.
FieldsFreeAlways(p) == TRUE

\* No NPC was made from the template, or the update keeps its fields.
FieldsFree(p) == \/ CountByTemplateID(job[p].id) = {}
                 \/ job[p].op = "update" /\ job[p].fields = job[p].old.fields

EnsureNoNPCRefs(p) ==
  /\ pc[p] = "count"
  /\ Proceed(p, FieldsFree(p), "tx")
  /\ UNCHANGED <<mysql, cache, shown>>

-----------------------------------------------------------------------------
(* Transactions.  The UPDATE of the row locks it until the commit; DelDetail *)
(* comes between them, and so can a reader that fills the cache again.     *)

\* Mutant: the UPDATE does not wait for another one.
RowLockedNever(t) == FALSE

RowLocked(t) == \E q \in Request : pc[q] = "commit" /\ job[q].id = t

\* Mutant: UPDATE without AND version = ?
VersionMatchesAny(p) == templates[job[p].id].live

\* WHERE id = ? AND version = ? AND deleted = 0
VersionMatches(p) == LET row == templates[job[p].id] IN
                     row.live /\ row.ver = job[p].ver

CreateTx(p) ==
  LET t == job[p].id IN
  /\ pc[p] = "tx" /\ job[p].op = "create"
  /\ templates' = [templates EXCEPT ![t] = [live |-> TRUE, enabled |-> FALSE,
                                            ver |-> 1, fields |-> job[p].fields]]
  /\ held' = [f \in Field |-> IF f \in job[p].fields THEN held[f] \cup {t}
                              ELSE held[f]]
  /\ Finish(p)
  /\ UNCHANGED <<usable, gone, npcs, cache, shown>>

\* Mutant: an enabled template is edited.
EditableAlways(p) == TRUE

Editable(p) == ~job[p].old.enabled

\* The UPDATE statement, and then DelDetail.
Overwrite(p, ok) ==
  /\ ~RowLocked(job[p].id)
  /\ Proceed(p, ok, "commit")
  /\ cache' = IF ok THEN [cache EXCEPT ![job[p].id] = Miss] ELSE cache
  /\ UNCHANGED <<mysql, shown>>

UpdateTx(p) == /\ pc[p] = "tx" /\ job[p].op = "update"
               /\ Overwrite(p, Editable(p) /\ VersionMatches(p))

\* SoftDeleteTx reads the row once more, outside its transaction, before the
\* UPDATE, which looks neither at the version nor at enabled.
RecheckDelete(p) ==
  LET row == templates[job[p].id] IN
  /\ pc[p] = "tx" /\ job[p].op = "delete"
  /\ Proceed(p, row.live /\ ~row.enabled, "delete")
  /\ UNCHANGED <<mysql, cache, shown>>

SoftDeleteTx(p) == pc[p] = "delete" /\ Overwrite(p, templates[job[p].id].live)

\* Mutant: field_refs is attached to but not detached from.
DetachedNot(p, f) == FALSE

\* DELETE FROM field_refs for the fields that went.
Detached(p, f) == f \in ToRemove(p)

\* SET deleted = 1, or the new fields and the next version.
Written(row, j) ==
  IF j.op = "delete" THEN [row EXCEPT !.live = FALSE]
  ELSE [row EXCEPT !.fields = j.fields, !.ver = row.ver + 1]

Commit(p) ==
  LET j == job[p] IN
  /\ pc[p] = "commit"
  /\ templates' = [templates EXCEPT ![j.id] = Written(@, j)]
  /\ held' = [f \in Field |-> IF f \in ToAdd(p) THEN held[f] \cup {j.id}
                              ELSE IF Detached(p, f) THEN held[f] \ {j.id}
                              ELSE held[f]]
  /\ Finish(p)
  /\ UNCHANGED <<usable, gone, npcs, cache, shown>>

\* NPC creation: the snapshot is built from the loaded template, fields that are
\* gone included, and inserted in a transaction of its own; the name may be taken.
CreateNPC(p, n) ==
  /\ pc[p] = "insert"
  /\ npcs' = IF Made(n) THEN npcs
             ELSE [npcs EXCEPT ![n] = [tpl |-> job[p].id,
                                       fields |-> job[p].old.fields]]
  /\ Finish(p)
  /\ UNCHANGED <<templates, held, usable, gone, cache, shown>>

\* ToggleEnabled: UPDATE ... WHERE version = ?, with the cache cleared after it.
ToggleEnabled(p, t, b) ==
  /\ pc[p] = "idle"
  /\ templates[t].live /\ ~RowLocked(t)
  /\ templates[t].ver = shown[t] /\ shown[t] < MaxVersion
  /\ templates' = [templates EXCEPT ![t].enabled = b, ![t].ver = @ + 1]
  /\ job' = [job EXCEPT ![p] = [NoJob EXCEPT !.op = "toggle", !.id = t]]
  /\ Goto(p, "clear")
  /\ UNCHANGED <<held, usable, gone, npcs, cache, shown>>

ClearDetail(p) ==
  /\ pc[p] = "clear"
  /\ cache' = [cache EXCEPT ![job[p].id] = Miss]
  /\ Finish(p)
  /\ UNCHANGED <<mysql, shown>>

\* A statement fails or the process dies: the open transaction is rolled back.
Fail(p) ==
  /\ Faults
  /\ pc[p] # "idle"
  /\ Finish(p)
  /\ UNCHANGED <<mysql, cache, shown>>

-----------------------------------------------------------------------------
(* The neighbours *)

\* ToggleEnabled or Update of a field.
ChangeField(f) ==
  /\ f \notin gone
  /\ usable' = IF f \in usable THEN usable \ {f} ELSE usable \cup {f}
  /\ UNCHANGED <<templates, held, gone, npcs, cache, shown, pc, job>>

\* Delete of a field: HasRefsTx waits for a transaction that has inserted or
\* deleted a row of the field and finds none (FieldTable!Remove).
RemoveField(f) ==
  /\ f \notin gone
  /\ held[f] = {}
  /\ \A q \in Request : pc[q] = "commit" => f \notin ToAdd(q) \cup ToRemove(q)
  /\ gone' = gone \cup {f}
  /\ usable' = usable \ {f}
  /\ UNCHANGED <<templates, held, npcs, cache, shown, pc, job>>

RemoveNPC(n) ==
  /\ Made(n)
  /\ npcs' = [npcs EXCEPT ![n] = NoNPC]
  /\ UNCHANGED <<templates, held, usable, gone, cache, shown, pc, job>>

ExpireDetail(t) ==
  /\ cache[t] # Miss
  /\ cache' = [cache EXCEPT ![t] = Miss]
  /\ UNCHANGED <<mysql, shown, pc, job>>

-----------------------------------------------------------------------------
Serve(p) ==
  \/ \E t \in Template, F \in SUBSET Field :
       \/ BeginCreate(p, t, F)
       \/ \E op \in {"get", "update", "delete", "npc"} : Begin(p, op, t, F)
  \/ Lookup(p) \/ ReadRow(p) \/ SetDetail(p)
  \/ PreValidate(p) \/ EnsureNoNPCRefs(p)
  \/ CreateTx(p) \/ UpdateTx(p) \/ RecheckDelete(p) \/ SoftDeleteTx(p)
  \/ Commit(p)
  \/ \E n \in NPC : CreateNPC(p, n)
  \/ \E t \in Template, b \in BOOLEAN : ToggleEnabled(p, t, b)
  \/ ClearDetail(p)
  \/ Fail(p)

Next ==
  \/ \E p \in Request : Serve(p)
  \/ \E f \in Field : ChangeField(f) \/ RemoveField(f)
  \/ \E n \in NPC : RemoveNPC(n)
  \/ \E t \in Template : ExpireDetail(t)

Spec == Init /\ [][Next]_vars

-----------------------------------------------------------------------------
(* Properties *)

\* While the cache is not in the way, the rows of a template in field_refs are
\* exactly the fields of the template, although each update writes only the
\* difference to a row it has read before its transaction.
LiveRefsMatch ==
  \A t \in Template, f \in Field :
    templates[t].live => (f \in templates[t].fields <=> t \in held[f])

\* An enabled template keeps its fields.  The check is made on the row that was
\* loaded; it is the version that makes it hold of the row that is written.
EditsOnlyDisabled ==
  [][\A t \in Template : templates[t].enabled =>
       templates'[t].fields = templates[t].fields]_vars

\* One request at a time, cache and null markers included: every NPC was made
\* from a template that is still there with the same fields, and a deleted
\* template refers to no field.
SerialIntegrity ==
  (\A p \in Request : pc[p] = "idle") =>
    /\ \A n \in NPC : Made(n) => LET row == templates[npcs[n].tpl] IN
                                row.live /\ row.fields = npcs[n].fields
    /\ \A t \in Template, f \in Field : t \in held[f] => templates[t].live
-----------------------------------------------------------------------------
(* The inductive invariant, for CacheOn = FALSE *)

CacheEmpty == \A t \in Template : cache[t] = Miss

\* Which operation can stand where.
Phases ==
  \A p \in Request :
    /\ pc[p] \in {"load", "read", "fill"} =>
         job[p].op \in {"get", "update", "delete", "npc"}
    /\ pc[p] = "delete" => job[p].op = "delete"

\* An id not yet given out has no row, and no row in field_refs.
RowsOK ==
  \A t \in Template : templates[t].ver = 0 =>
    templates[t] = NoRow /\ \A f \in Field : t \notin held[f]

\* No client knows a version that the table has not reached.
ShownOK ==
  /\ \A t \in Template : shown[t] <= templates[t].ver
  /\ \A p \in Request : job[p].op = "update" => job[p].ver <= templates[job[p].id].ver

Past == {"validate", "count", "tx", "delete", "commit", "insert"}

\* The row a request has read is at most as late as the row that is there, and
\* the same one if it has the same version; an update read it no earlier than
\* its client was shown it.
FreshRead ==
  \A p \in Request : pc[p] \in Past \cup {"fill"} =>
    LET old == job[p].old
        row == templates[job[p].id] IN
    /\ old.ver <= row.ver
    /\ row.live /\ old.ver = row.ver => old = row
    /\ old.live \/ job[p].op = "create" \/ pc[p] = "fill"
    /\ job[p].op = "update" /\ old.live => job[p].ver <= old.ver

\* The id of a create is its own until the insert.
Reserved ==
  \A p \in Request : job[p].op = "create" =>
    /\ pc[p] \in {"validate", "tx"} /\ job[p].old = NoRow
    /\ templates[job[p].id].ver = 0
    /\ \A q \in Request \ {p} : job[q].op = "create" => job[q].id # job[p].id

\* The row lock: what the UPDATE has matched is still there at the commit.
LockKeeps ==
  \A p \in Request : pc[p] = "commit" =>
    /\ job[p].op \in {"update", "delete"}
    /\ templates[job[p].id].live
    /\ job[p].op = "update" => /\ templates[job[p].id].ver = job[p].ver
                               /\ ~job[p].old.enabled
    /\ \A q \in Request \ {p} : pc[q] = "commit" => job[q].id # job[p].id

IInv == /\ TypeOK /\ Phases /\ CacheEmpty /\ RowsOK /\ ShownOK /\ FreshRead
        /\ Reserved /\ LockKeeps /\ LiveRefsMatch
-----------------------------------------------------------------------------
(* One request at a time, without failures, with Redis or without *)

Serial == ~Faults /\ \A p, q \in Request : p = q

\* What SerialIntegrity says of idle requests, which also holds between steps.
RefsOfLive ==
  \A t \in Template, f \in Field :
    t \in held[f] <=> templates[t].live /\ f \in templates[t].fields

NPCsOfLive ==
  \A n \in NPC : Made(n) => LET row == templates[npcs[n].tpl] IN
                            row.live /\ row.fields = npcs[n].fields

\* Which operation can stand behind its load.
Stands ==
  \A p \in Request : LET op == job[p].op IN
    /\ pc[p] = "validate" => op \in {"create", "update"}
    /\ pc[p] \in {"count", "commit"} => op \in {"update", "delete"}
    /\ pc[p] = "tx" => op \in {"create", "update", "delete"}
    /\ pc[p] = "insert" => op = "npc"
    /\ op = "delete" => job[p].fields = {}
    /\ pc[p] = "commit" /\ op = "update" => ~job[p].old.enabled

\* The row in hand is the row of the table, were it read from the cache or not.
RowInHand ==
  \A p \in Request :
    LET row == templates[job[p].id]
        old == job[p].old IN
    /\ pc[p] = "fill" => old = Found(row)
    /\ pc[p] \in Past => old = row /\ (IF job[p].op = "create" THEN row = NoRow
                                                               ELSE row.live)

\* A cached row is the row of the table, but for a null marker, which may be
\* late, and for the row of a toggle that has yet to clear it.
CacheOfRow ==
  /\ \A t \in Template : cache[t] # Miss /\ cache[t].live =>
       \/ cache[t] = templates[t]
       \/ \E p \in Request : pc[p] = "clear" /\ job[p].id = t
  /\ \A p \in Request : pc[p] = "commit" => cache[job[p].id] = Miss

\* The NPCs that were counted are still all there are.
CountStays ==
  \A p \in Request : pc[p] \in {"tx", "delete", "commit"} /\ job[p].op # "create" =>
    FieldsFree(p)

SerialInv == /\ Phases /\ RowsOK /\ RefsOfLive /\ NPCsOfLive
             /\ Stands /\ RowInHand /\ CacheOfRow /\ CountStays
=============================================================================
