--------------------------- MODULE SchemaRegistry ---------------------------
(***************************************************************************)
(* Extension schemas and the event types that have values of them:         *)
(* service/event_type_schema.go, service/event_type.go, the table          *)
(* schema_refs and the memory cache of the enabled schemas.                *)
(*                                                                         *)
(* The values of an event type are judged by the memory cache, which is    *)
(* loaded anew after each write of a schema, by the request that wrote it; *)
(* a schema that is referred to may be loosened but not tightened.         *)
(***************************************************************************)
EXTENDS ConstraintCheck

CONSTANTS
  Schema,       \* ids of event_type_schema, in use or not; each has its own name
  EventType,    \* ids of event_types, in use or not
  Holder,       \* FSMs and trees that use an extension field as a BB key
  Request,      \* request goroutines
  Type,         \* Type[s], the field_type: no request can change it
  Constraints,  \* bound: the constraints that requests carry
  Values,       \* bound: the values that requests carry
  Absent,       \* a key that a map does not have
  MaxVersion,   \* bound: no request starts on a row of this version
  Faults        \* may a step fail, may the process restart?

ASSUME TypeAssumption == Type \in [Schema -> FieldType]
ASSUME InputAssumption ==
  Constraints \subseteq Constraint /\ Values \subseteq Value /\ Absent \notin Value
ASSUME IdAssumption ==      \* ref_type tells event types from FSMs and trees
  Schema # {} /\ EventType # {} /\ EventType \cap Holder = {}
ASSUME LimitAssumption == MaxVersion \in Nat /\ Faults \in BOOLEAN

VARIABLES
  schemas,      \* the table event_type_schema
  events,       \* the table event_types, ext being the values in config_json
  refs,         \* schema_refs: refs[s] are the referrers of s
  memory,       \* byName of the memory cache
  pc,           \* where each request stands
  job           \* its body and what it has read

mysql == <<schemas, events, refs>>
vars == <<mysql, memory, pc, job>>

SchemaRow == [live : BOOLEAN, enabled : BOOLEAN, ver : Nat, c : Constraint]
NoSchema == [live |-> FALSE, enabled |-> FALSE, ver |-> 0, c |-> Unconstrained]

Extensions == [Schema -> Value \cup {Absent}]
NoExtensions == [s \in Schema |-> Absent]
\* Mutant: the system keys of config_json are not left out.
KeysAndSystem(ext) == {s \in Schema : ext[s] # Absent} \cup {"range"}

Keys(ext) == {s \in Schema : ext[s] # Absent}

EventRow == [live : BOOLEAN, enabled : BOOLEAN, ver : Nat, ext : Extensions]
NoEvent == [live |-> FALSE, enabled |-> FALSE, ver |-> 0, ext |-> NoExtensions]

Memory == [Schema -> Constraint \cup {Absent}]
NoMemory == [s \in Schema |-> Absent]

\* c and old are the constraints of an edit of a schema and those it has read,
\* ext and oldExt the same of an event type; todo are keys, copy a loaded map.
Op == {"none", "schema", "update", "delete", "createEvent", "updateEvent",
       "deleteEvent"}
Job == [op : Op, schema : Schema, event : EventType, ver : Nat,
        c : Constraint, old : Constraint, ext : Extensions, oldExt : Extensions,
        todo : SUBSET Schema, copy : Memory]
NoJob == [op |-> "none", schema |-> CHOOSE s \in Schema : TRUE,
          event |-> CHOOSE e \in EventType : TRUE, ver |-> 0,
          c |-> Unconstrained, old |-> Unconstrained,
          ext |-> NoExtensions, oldExt |-> NoExtensions,
          todo |-> {}, copy |-> NoMemory]

PC == {"idle", "refs", "write", "reload", "install", "validate", "lookup",
       "commit", "remove"}

TypeOK ==
  /\ schemas \in [Schema -> SchemaRow]
  /\ events \in [EventType -> EventRow]
  /\ refs \in [Schema -> SUBSET (EventType \cup Holder)]
  /\ memory \in Memory
  /\ pc \in [Request -> PC]
  /\ job \in [Request -> Job]

Init ==
  /\ schemas = [s \in Schema |-> NoSchema]
  /\ events = [e \in EventType |-> NoEvent]
  /\ refs = [s \in Schema |-> {}]
  /\ memory = NoMemory
  /\ pc = [p \in Request |-> "idle"]
  /\ job = [p \in Request |-> NoJob]

Goto(p, label) == pc' = [pc EXCEPT ![p] = label]
Finish(p) == Goto(p, "idle") /\ job' = [job EXCEPT ![p] = NoJob]
Begin(p, label, j) ==
  /\ pc[p] = "idle"
  /\ Goto(p, label)
  /\ job' = [job EXCEPT ![p] = j]

-----------------------------------------------------------------------------
(* Extension schemas *)

\* Mutant: the count of the references without FOR SHARE.
SharedNever(s) == FALSE

\* A transaction has counted the rows of s in schema_refs FOR SHARE.
Shared(s) ==
  \E q \in Request : pc[q] = "write" /\ job[q].schema = s

\* INSERT: a schema is enabled from the start.
CreateSchema(p, s, c) ==
  /\ schemas[s].ver = 0 /\ MaxVersion > 0
  /\ ValidateConstraintsSelf(Type[s], c)
  /\ Begin(p, "reload", [NoJob EXCEPT !.op = "schema"])
  /\ schemas' = [schemas EXCEPT ![s] =
                   [live |-> TRUE, enabled |-> TRUE, ver |-> 1, c |-> c]]
  /\ UNCHANGED <<events, refs, memory>>

\* UPDATE ... WHERE version = ?
ToggleSchema(p, s, b) ==
  /\ schemas[s].live /\ schemas[s].ver < MaxVersion
  /\ Begin(p, "reload", [NoJob EXCEPT !.op = "schema"])
  /\ schemas' = [schemas EXCEPT ![s].enabled = b, ![s].ver = @ + 1]
  /\ UNCHANGED <<events, refs, memory>>

\* Update and Delete read the row before their transaction.  A request that
\* carries another version than that of the row read cannot match later.
BeginUpdateSchema(p, s, c) ==
  /\ schemas[s].live /\ schemas[s].ver < MaxVersion
  /\ ValidateConstraintsSelf(Type[s], c)
  /\ Begin(p, "refs", [NoJob EXCEPT !.op = "update", !.schema = s, !.c = c,
                       !.ver = schemas[s].ver, !.old = schemas[s].c])
  /\ UNCHANGED <<mysql, memory>>

BeginDeleteSchema(p, s) ==
  /\ schemas[s].live /\ ~schemas[s].enabled
  /\ Begin(p, "refs", [NoJob EXCEPT !.op = "delete", !.schema = s])
  /\ UNCHANGED <<mysql, memory>>

Refused(p) == LET j == job[p] IN
  refs[j.schema] # {} /\
    (j.op = "delete" \/ CheckConstraintTightened(Type[j.schema], j.old, j.c))

HasRefsTx(p) ==
  /\ pc[p] = "refs"
  /\ IF Refused(p) THEN Finish(p) ELSE Goto(p, "write") /\ UNCHANGED job
  /\ UNCHANGED <<mysql, memory>>

SchemaMatches(p) == LET row == schemas[job[p].schema] IN
                    row.live /\ (job[p].op = "update" => row.ver = job[p].ver)

Rewritten(row, j) == IF j.op = "delete" THEN [row EXCEPT !.live = FALSE]
                     ELSE [row EXCEPT !.c = j.c, !.ver = j.ver + 1]

\* The UPDATE statement of an edit or a delete, and the commit.
WriteSchema(p) ==
  LET j == job[p]
      s == job[p].schema IN
  /\ pc[p] = "write"
  /\ IF SchemaMatches(p)
     THEN /\ schemas' = [schemas EXCEPT ![s] = Rewritten(schemas[s], j)]
          /\ Goto(p, "reload") /\ UNCHANGED job
     ELSE Finish(p) /\ UNCHANGED schemas
  /\ UNCHANGED <<events, refs, memory>>

-----------------------------------------------------------------------------
(* The memory cache *)

ListEnabled == [s \in Schema |-> IF schemas[s].live /\ schemas[s].enabled
                                 THEN schemas[s].c ELSE Absent]

\* Load: the SELECT, and then the maps are replaced under the lock.
LoadRows(p) ==
  /\ pc[p] = "reload"
  /\ job' = [job EXCEPT ![p].copy = ListEnabled]
  /\ Goto(p, "install")
  /\ UNCHANGED <<mysql, memory>>

\* Mutant: the maps are filled and not replaced.
InstallOver(p) ==
  /\ pc[p] = "install"
  /\ memory' = [s \in Schema |-> IF job[p].copy[s] # Absent THEN job[p].copy[s]
                                 ELSE memory[s]]
  /\ Finish(p)
  /\ UNCHANGED mysql

InstallMaps(p) ==
  /\ pc[p] = "install"
  /\ memory' = job[p].copy
  /\ Finish(p)
  /\ UNCHANGED mysql

-----------------------------------------------------------------------------
(* Event types *)

\* The id is the one that AUTO_INCREMENT will give to the insert.
BeginCreateEvent(p, e, ext) ==
  /\ events[e].ver = 0 /\ MaxVersion > 0
  /\ \A q \in Request : job[q].op = "createEvent" => job[q].event # e
  /\ Begin(p, "validate", [NoJob EXCEPT !.op = "createEvent", !.event = e,
                           !.ext = ext, !.todo = Keys(ext)])
  /\ UNCHANGED <<mysql, memory>>

\* Update: the row is read, and must be disabled.
BeginUpdateEvent(p, e, ext) ==
  /\ events[e].live /\ ~events[e].enabled /\ events[e].ver < MaxVersion
  /\ Begin(p, "validate", [NoJob EXCEPT !.op = "updateEvent", !.event = e,
                           !.ver = events[e].ver, !.ext = ext,
                           !.oldExt = events[e].ext, !.todo = Keys(ext)])
  /\ UNCHANGED <<mysql, memory>>

\* Mutant: a key without a schema is passed over.
ValidInMemorySkip(p, s) ==
  memory[s] = Absent \/ ValidateValue(Type[s], memory[s], job[p].ext[s])

ValidInMemory(p, s) ==
  memory[s] # Absent /\ ValidateValue(Type[s], memory[s], job[p].ext[s])

\* validateExtensions, one key at a time: another request may replace the maps
\* between two keys.
ValidateExtension(p, s) ==
  /\ pc[p] = "validate" /\ s \in job[p].todo
  /\ IF ValidInMemory(p, s)
     THEN job' = [job EXCEPT ![p].todo = @ \ {s}] /\ UNCHANGED pc
     ELSE Finish(p)
  /\ UNCHANGED <<mysql, memory>>

\* Mutant: the references of the keys that go are kept.
DiffKeysAdded(p, missed) == Keys(job[p].ext) \ Keys(job[p].oldExt)

\* The keys that come and those that go, without the ones whose look-up failed.
DiffKeys(p, missed) ==
  LET new == Keys(job[p].ext)
      old == Keys(job[p].oldExt) IN
  (new \ old) \cup ((old \ new) \ missed)

\* GetIDByFieldNameTx in the transaction: a schema that is deleted has no id.
\* An error ends the request, but for a key that goes it is only logged.
LookupSchemas(p, missed) ==
  /\ missed # {} => Faults
  /\ pc[p] = "validate" /\ job[p].todo = {}
  /\ job' = [job EXCEPT ![p].todo = {s \in DiffKeys(p, missed) : schemas[s].live}]
  /\ Goto(p, "commit")
  /\ UNCHANGED <<mysql, memory>>

\* Mutant: UPDATE without AND version = ?
EventMatchesAny(p) == LET row == events[job[p].event] IN
                      row.live \/ job[p].op = "createEvent"

\* An insert always finds room; an UPDATE matches the row that was read.
EventMatches(p) ==
  LET row == events[job[p].event] IN
  job[p].op = "updateEvent" => row.live /\ row.ver = job[p].ver

\* The rows of schema_refs that are inserted and deleted wait for FOR SHARE
\* locks on them; then the commit.
CommitEvent(p) ==
  LET j == job[p]
      e == job[p].event
      added == j.todo \cap Keys(j.ext) IN
  /\ pc[p] = "commit"
  /\ \A s \in j.todo : ~Shared(s)
  /\ IF EventMatches(p)
     THEN /\ events' = [events EXCEPT ![e] =
               [live |-> TRUE, enabled |-> FALSE, ver |-> j.ver + 1, ext |-> j.ext]]
          /\ refs' = [s \in Schema |-> IF s \in added THEN refs[s] \cup {e}
                                       ELSE IF s \in j.todo THEN refs[s] \ {e}
                                       ELSE refs[s]]
     ELSE UNCHANGED <<events, refs>>
  /\ Finish(p)
  /\ UNCHANGED <<schemas, memory>>

BeginDeleteEvent(p, e) ==
  /\ events[e].live /\ ~events[e].enabled
  /\ Begin(p, "remove", [NoJob EXCEPT !.op = "deleteEvent", !.event = e])
  /\ UNCHANGED <<mysql, memory>>

\* SoftDeleteTx, RemoveByRef and the commit.
RemoveEvent(p) ==
  LET e == job[p].event IN
  /\ pc[p] = "remove"
  /\ IF events[e].live
     THEN /\ \A s \in Schema : e \in refs[s] => ~Shared(s)
          /\ events' = [events EXCEPT ![e].live = FALSE]
          /\ refs' = [s \in Schema |-> refs[s] \ {e}]
     ELSE UNCHANGED <<events, refs>>
  /\ Finish(p)
  /\ UNCHANGED <<schemas, memory>>

\* UPDATE ... WHERE version = ?
ToggleEvent(e, b) ==
  /\ events[e].live /\ events[e].ver < MaxVersion
  /\ events' = [events EXCEPT ![e].enabled = b, ![e].ver = @ + 1]
  /\ UNCHANGED <<schemas, refs, memory, pc, job>>

-----------------------------------------------------------------------------
(* The neighbours, and failures *)

\* An FSM or a tree begins or ceases to use an extension field as a BB key.
SyncHolderRef(h, s) ==
  /\ schemas[s].live /\ ~Shared(s)
  /\ refs' = [refs EXCEPT ![s] = IF h \in @ THEN @ \ {h} ELSE @ \cup {h}]
  /\ UNCHANGED <<schemas, events, memory, pc, job>>

\* A statement fails: a transaction is rolled back, a reload only logged.
Fail(p) ==
  /\ Faults
  /\ pc[p] # "idle"
  /\ Finish(p)
  /\ UNCHANGED <<mysql, memory>>

\* The process dies and loads the cache when it starts again.
Restart ==
  /\ Faults
  /\ \E p \in Request : pc[p] # "idle"
  /\ pc' = [p \in Request |-> "idle"]
  /\ job' = [p \in Request |-> NoJob]
  /\ memory' = ListEnabled
  /\ UNCHANGED mysql

-----------------------------------------------------------------------------
\* Of each key a request carries nothing or one of Values.
ExtensionInput == [Schema -> Values \cup {Absent}]

ServeSchema(p) ==
  \/ \E s \in Schema, c \in Constraints :
       CreateSchema(p, s, c) \/ BeginUpdateSchema(p, s, c)
  \/ \E s \in Schema, b \in BOOLEAN : ToggleSchema(p, s, b)
  \/ \E s \in Schema : BeginDeleteSchema(p, s)
  \/ HasRefsTx(p) \/ WriteSchema(p)
  \/ LoadRows(p) \/ InstallMaps(p)

ServeEvent(p) ==
  \/ \E e \in EventType, ext \in ExtensionInput :
       BeginCreateEvent(p, e, ext) \/ BeginUpdateEvent(p, e, ext)
  \/ \E e \in EventType : BeginDeleteEvent(p, e)
  \/ \E s \in Schema : ValidateExtension(p, s)
  \/ \E missed \in SUBSET Schema : LookupSchemas(p, missed)
  \/ CommitEvent(p) \/ RemoveEvent(p)

Next ==
  \/ \E p \in Request : ServeSchema(p) \/ ServeEvent(p) \/ Fail(p)
  \/ \E e \in EventType, b \in BOOLEAN : ToggleEvent(e, b)
  \/ \E h \in Holder, s \in Schema : SyncHolderRef(h, s)
  \/ Restart

Spec == Init /\ [][Next]_vars

-----------------------------------------------------------------------------
(* Properties *)

Quiet == \A p \in Request : pc[p] = "idle"

\* Every key of an event type whose schema is there has its row in schema_refs,
\* although an update writes only the difference to a row it has read before its
\* transaction, skips schemas it cannot find and passes over look-ups that fail.
ConfigIsReferred ==
  \A e \in EventType, s \in Schema :
    events[e].live /\ schemas[s].live /\ events[e].ext[s] # Absent => e \in refs[s]

\* One request at a time, without failures: the rows of the event types in
\* schema_refs are the keys of their config_json and no others.
RefsMatchConfig ==
  \A e \in EventType, s \in Schema :
    schemas[s].live =>
      (e \in refs[s] <=> events[e].live /\ events[e].ext[s] # Absent)

\* A schema that is referred to is not deleted and not tightened: the old
\* constraints are read before the transaction, the references in it, and the
\* row is written without a lock that was taken before.
ReferredOnlyLoosens ==
  [][\A s \in Schema : schemas[s].live /\ refs[s] # {} =>
       /\ schemas'[s].live
       /\ ~CheckConstraintTightened(Type[s], schemas[s].c, schemas'[s].c)]_vars

\* One request at a time: the memory cache has the enabled schemas as they are.
CacheCurrent == Quiet => memory = ListEnabled

\* One request at a time: what an event type has stored still fits the schemas,
\* disabled ones included, and none of its schemas is gone.
StoredValuesFit ==
  Quiet => \A e \in EventType, s \in Schema :
    events[e].live /\ events[e].ext[s] # Absent =>
      schemas[s].live /\ ValidateValue(Type[s], schemas[s].c, events[e].ext[s])

-----------------------------------------------------------------------------
(* The inductive invariant *)

\* Which operation can stand where.
Phases ==
  \A p \in Request :
    /\ pc[p] \in {"refs", "write"} => job[p].op \in {"update", "delete"}
    /\ pc[p] \in {"validate", "commit"} <=> job[p].op \in {"createEvent", "updateEvent"}

RowsOK ==
  /\ \A s \in Schema : schemas[s].live => schemas[s].ver > 0
  /\ \A e \in EventType : events[e].live => events[e].ver > 0

\* The constraints an edit is judged on are those of the version it will match.
SchemaRead ==
  \A p \in Request : pc[p] \in {"refs", "write"} /\ job[p].op = "update" =>
    LET row == schemas[job[p].schema] IN
    /\ job[p].ver <= row.ver
    /\ job[p].ver = row.ver => job[p].old = row.c

\* What the share lock keeps true until the commit.
LockKeeps == \A p \in Request : pc[p] = "write" => ~Refused(p)

\* The same of an event type; the id of a new one is its own until the commit.
EventRead ==
  \A p \in Request :
    LET row == events[job[p].event] IN
    /\ job[p].op = "updateEvent" =>
         /\ job[p].ver <= row.ver
         /\ row.live /\ job[p].ver = row.ver => job[p].oldExt = row.ext
    /\ job[p].op = "createEvent" =>
         /\ row.ver = 0 /\ job[p].ver = 0 /\ job[p].oldExt = NoExtensions
         /\ \A q \in Request \ {p} :
              job[q].op = "createEvent" => job[q].event # job[p].event

\* A key that was once found in the memory cache has a row: it cannot be created
\* between the look-up of its id and the commit.
KeysKnown ==
  \A s \in Schema : schemas[s].ver = 0 =>
    /\ memory[s] = Absent
    /\ \A e \in EventType : events[e].ext[s] = Absent
    /\ \A p \in Request :
         /\ job[p].copy[s] = Absent
         /\ pc[p] = "validate" => s \notin Keys(job[p].ext) \ job[p].todo
         /\ pc[p] = "commit" => s \notin Keys(job[p].ext)

\* The keys that come are looked up, unless their schema is gone for good.
LookedUp ==
  \A p \in Request : pc[p] = "commit" =>
    \A s \in Keys(job[p].ext) \ Keys(job[p].oldExt) :
      schemas[s].live => s \in job[p].todo

IInv == /\ TypeOK /\ Phases /\ RowsOK /\ SchemaRead /\ LockKeeps
        /\ EventRead /\ KeysKnown /\ LookedUp /\ ConfigIsReferred

-----------------------------------------------------------------------------
(* One request at a time, without failures *)

Serial == ~Faults /\ \A p, q \in Request : p = q

\* Only a schema that has been created has references of event types.
ReferredExist == \A s \in Schema : schemas[s].ver = 0 => refs[s] \cap EventType = {}

\* Nothing is deleted between the look-up of the ids and the commit.
DifferenceInHand ==
  \A p \in Request : pc[p] = "commit" =>
    job[p].todo = {s \in DiffKeys(p, {}) : schemas[s].live}

\* A request that has written a schema, and it alone, has yet to load the cache.
CacheInHand ==
  /\ (\A p \in Request : pc[p] \notin {"reload", "install"}) => memory = ListEnabled
  /\ \A p \in Request : pc[p] = "install" => job[p].copy = ListEnabled

SerialInv == RefsMatchConfig /\ ReferredExist /\ DifferenceInHand /\ CacheInHand

\* The constraints of a schema come from a request.
FromRequests ==
  /\ \A s \in Schema : schemas[s].ver > 0 => schemas[s].c \in Constraints
  /\ \A p \in Request : pc[p] \in {"refs", "write"} /\ job[p].op = "update" =>
       job[p].c \in Constraints

FitsSchema(s, v) == schemas[s].live /\ ValidateValue(Type[s], schemas[s].c, v)

\* A key that has been validated fits its schema until the commit.
ValidatedFit ==
  \A p \in Request : pc[p] \in {"validate", "commit"} =>
    \A s \in Keys(job[p].ext) :
      pc[p] = "commit" \/ s \notin job[p].todo => FitsSchema(s, job[p].ext[s])

AllStoredFit ==
  \A e \in EventType, s \in Schema :
    events[e].live /\ events[e].ext[s] # Absent => FitsSchema(s, events[e].ext[s])

FitInv == FromRequests /\ ValidatedFit /\ AllStoredFit
=============================================================================
