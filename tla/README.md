# A verification development of the NPC configuration admin

The repository is the back office of a game's NPC configuration: a Go service
(`backend/`) over MySQL and Redis, and a Vue client (`frontend/`). Editors define
*fields*, group them into *templates*, make *NPCs* from templates, and attach state
machines (FSM), behaviour trees (BT), event types and regions. This directory holds
TLA+ models of its concurrent core, the TLC configurations that check them on small
instances, and theorems proved with TLAPS for every instance.

## 1. Inventory

Every HTTP request is a goroutine: handler -> service -> store. There is no lock
in the process but the one of the memory caches; requests meet in MySQL (InnoDB, rows
with `version` and `deleted`) and in Redis. The same five operations recur in every
module: create, get/list, update (optimistic lock on `version`), delete (soft), toggle
`enabled`.

| Component | State | Operations, and whom they touch | What is hard, what makes it correct |
|---|---|---|---|
| Field (`service/field.go`) | `fields`, `field_refs` | create, update, delete, toggle; a field of type *reference* refers to leaf fields; templates, FSMs and trees attach themselves in their own transactions | rows read before the transaction, a share lock on `field_refs`, `field_refs` synced after the commit; references acyclic, referenced fields neither deleted nor tightened, edits judged on the row they overwrite |
| Detail cache (`store/redis/*_cache.go`) | one key and one lock key per row | `GetDetail`, `TryLock`, `SetDetail`, `DelDetail`, `Unlock` | cleared before the commit, refilled by slow readers, null markers, lock expiry; in the end fresh, locks released by their owner |
| List cache | one version counter, keys per version and query | `GetList`, `SetList`, `InvalidateList` | the version is read twice; lists of old versions left to their TTL |
| Template (`handler/template.go`) | `templates`, rows in `field_refs` | create, update, delete, toggle across three services in one transaction | judged on a cached row; fields and NPCs checked before the transaction; `field_refs` written by difference |
| NPC (`handler/npc.go`) | `npcs`, `npc_bt_refs` | create from a template (snapshot of its fields), update, delete, toggle, export | reads template, FSM and trees before its own transaction; no name of a machine or tree dangles |
| FSM configuration, behaviour tree | `fsm_configs`, `bt_trees`, rows in `field_refs`, `schema_refs`, `runtime_bb_key_refs`, `bt_node_type_refs` | the five, in a transaction of the handler | black-board keys resolved to ids by name on each edit; deletion checked against NPCs before the transaction |
| FSM state dictionary, BT node type | one table each, two caches | the five | uses counted before the transaction, which looks at no version; nothing named is deleted |
| Event type, extension schema | `event_types`, `event_type_schema`, `schema_refs`, a memory cache | the five; a schema is used by event types, FSMs and trees | memory cache reloaded after each commit by concurrent requests, values validated against the cache |
| Constraint checks (`service/constraint_check.go`) | none | pure functions | what counts as tightening |
| Runtime black-board key (`service/runtime_bb_key.go`) | `runtime_bb_keys`, `runtime_bb_key_refs` | the five; machines and trees attach themselves in their own transactions | names shared with fields, no unique key across the two tables; names resolved to ids beside the transaction; a key that is referred to is not deleted |
| Connection pool (`setup/stores.go`) | the connections in use | every statement takes one, a transaction keeps one until it ends | a transaction reads through a second connection while it holds the first |
| Seed (`cmd/seed`) | none; it writes every table but one | a list of statements, each committed by itself, run again after a failure | stops anywhere, rows deleted since keep their names, operators work beside it; what it has written is closed, a run that ends well is complete |
| Region | `regions` | the five, export | names NPCs, checked beforehand; deleting an NPC asks no region |
| Dictionary | a memory cache | loaded at start | none |
| Export (`handler/export.go`) | none | the rows that are enabled, and a check of what they name | several statements, no transaction; what is delivered is complete and names nothing that is missing |
| Wrapper, router, configuration, client | none that lasts | | formatting, wiring; the client sends back the version it was shown |

`PROJECT.json` lists the hazards of the code at their lines, with the properties that would
fail if the code went wrong there. Where there is none, the code mostly *has* the race: the
model has it too, no property asks for its absence, and the note says what holds instead (of
one request at a time, without Redis, or once a TTL has passed).

## 2. Modules

| Module | Models | State and actions |
|---|---|---|
| `FieldRows` | the rows of `fields` and the pure rules about them | `NewRow`, `EditedRow`, `ToggledRow`, `DeletedRow` are the SQL statements; `RefsFit`, `ShapeChangeAllowed` are the request rules |
| `FieldTable` | what the field module promises: an abstract specification | `Insert`, `Edit`, `Toggle`, `Remove`, `Link`, `Hold`, each one atomic and judged on the rows of that moment |
| `FieldRegistry` | `service/field.go` as concurrent requests | one action per statement: begin (plain read), `CheckExposeBBRevocation`, `HasRefsTx`, `ValidateRef`, `VisitRef`, `InsertField`, `UpdateTx`, `SoftDeleteTx`, `SyncFieldRefs`; `Fail` stops a request anywhere |
| `DetailCache` | `GetByID` over the detail cache, one row | one action per Redis command or SQL statement of readers and writers, plus expiry |
| `ListCache` | `List` over the versioned list cache, one query | the same |
| `ConstraintCheck` | `constraint_check.go`, `shared/validate.go` | no state: `CheckConstraintTightened`, `ValidateConstraintsSelf`, `ValidateValue` |
| `SchemaRegistry` | extension schemas, event types, `schema_refs` and the memory cache of the schemas | `BeginUpdateSchema`, `HasRefsTx`, `WriteSchema` are an edit or a delete; `LoadRows`, `InstallMaps` the reload that follows each write; `BeginCreateEvent` / `BeginUpdateEvent`, `ValidateExtension` (one per key), `LookupSchemas`, `CommitEvent` an event type's; `SyncHolderRef` is an FSM or a tree; `Restart` the process |
| `TemplateRegistry` | `handler/template.go`, and the creation of NPCs | `Lookup`, `ReadRow`, `SetDetail` load through the cache; `PreValidate`, `EnsureNoNPCRefs` are the plain checks; `UpdateTx`, `SoftDeleteTx`, `Commit` the transaction |
| `ConfigRegistry` | machines, trees, node types, the state dictionary, the behaviour of NPCs, regions and the exports | rows of six tables in one function, `links` the indexed copies of names; `Create...` / `Update...` begin a request, `GetStateNames`, `CheckBtTrees`, `ValidateNodes`, `LookupByNames` are the plain checks, `Insert` / `Overwrite` the transaction; `CountUsers`, `Recheck`, `Remove` a delete; `ExportNPCs`, `ExportRegions` and the checks that follow them an export |
| `BBKeyTable` | what the tables of keys promise to those who delete a key: an abstract specification | `Insert`, `Remove`, `Rewrite` (a machine), `RewriteTree`, `Release`, each one atomic |
| `BBKeyRegistry` | the names shared by fields and runtime keys, the references of machines and trees, and the pool | `CheckOther`, `InsertKey`, `ToggleKey`, `EditKey`, `HasRefsTx`, `SoftDeleteTx` are requests on a key; `ReadHolder`, `WriteHolder`, `ExtractOld`, `ExtractNew`, `CheckDisabledRefs`, `ResolveFields`, `SyncFieldRefs`, `ResolveKeys`, `Commit` an edit of a machine or tree, in the order of the handler, `RemoveHolder` its delete; `ToggleType` switches a node type; `Free` is the pool, `Locked` the row and share locks |
| `Seed` | `cmd/seed` beside operators | `Start`, one action per statement, `NextStage`, `Crash`; `Operate` is what an operator does to one row |

`TemplateRegistry` does not repeat the field module: of it there is what `FieldTable`
promises, that a field is removed in one step and only while `field_refs` has no row of
it. `FieldRegistry` is shown to implement `FieldTable` (below), so the two levels meet.
`SchemaRegistry` extends `ConstraintCheck` and asks its rules at the places where the
services ask them. Proofs are in modules of their own, named `...Proofs`; the `MC...`
modules only give the constants of the runs their values, and `MCCaches` puts the two caches,
which share no key, into one run. `BBKeyRegistry` is shown to implement `BBKeyTable` as
`FieldRegistry` is shown to implement `FieldTable`. What the modules share is the row of a field: how it is edited
is in `FieldRegistry`, that it is removed only while nobody refers to it is what both abstract
specifications say.

### What is abstracted

* A field's type and constraints are one *shape*; `Widens` says which change of shape
  loosens. Names, labels, descriptions and the dictionary checks are left out: they
  only refuse requests.
* The content of a cached row is the number of the commit that wrote it; the content
  of a list likewise.
* A template's `fields` JSON is the set of its field ids. Order and `required`, which
  only widen the edits that `ensureNoNPCRefsForFieldChange` refuses, are left out.
* A value is its size (a number, or the length of a string) and the options it chooses;
  bounds are naturals, those of a string or of a selection under the names `min` and
  `max`. A bound that is `null` counts as 0, as `GetFloat` reads it. The default value
  of a schema, labels, order and the limit on the number of schemas are left out.
* In `ConfigRegistry` a configuration is the set of names in it. The names of states in an
  FSM's bindings, priorities, conditions and parameters of nodes are left out: they only
  refuse requests. The black-board keys are in `BBKeyRegistry`. `Blank` is the empty string, which
  a binding may hold. The six tables share one set of actions because the code repeats them;
  where they differ (who is enabled from the start, who may be edited while enabled, what
  is checked, which count is allowed to fail) the kind of the item decides.
  The reads go to the tables: handlers that take a row from the cache have the service read
  it again from MySQL before it is written.
* `has_refs`, which the cached details carry, is left out of `DetailCache`: a hit
  answers with the value marshalled when the row was stored, without any interleaving.
* Ids come from AUTO_INCREMENT: version 0 marks an id not yet given out, which is how
  a deleted row (version > 0, not live) differs from one that never was.
* A transaction's writes take effect at its commit. Between them and the commit only
  locks can be seen: the share lock of `HasRefsTx`, the row lock of an UPDATE. Where a
  reader of Redis can see something in between (`DelDetail` before the commit) the two
  are separate steps.
* `FieldRegistry` lets a client send any version up to the current one. In
  `TemplateRegistry` a client sends the latest version it was *shown*; a client that
  invents a version the server never sent is not modelled.
* With `CacheOn = FALSE` Redis is not there and `GetByID` falls through to MySQL, as the
  code does when Redis fails.
* `Faults` lets any request stop at any step: an SQL error, a cancelled context and the
  death of the process are the same to the tables, an open transaction is rolled back.
* In `BBKeyRegistry` a configuration is a set of pairs: the place a name is used in (a
  condition of a machine, or a node type) and the name. A name has one row per table for ever,
  since its unique key covers deleted rows. Who may edit an enabled machine or delete one that an
  NPC names is in `ConfigRegistry`; the references to extension schemas, which the same
  handlers write, are in `SchemaRegistry`; edits of a field are in `FieldRegistry`.
  A connection is free or held by a transaction; a statement outside a transaction needs a free one
  and gives it back at once.
* In `Seed` a fixture is a name and the fixtures it names; what else is in it is left out. The
  30 seconds the command gives itself (`main.go:36`), a lost connection and a kill are one
  `Crash`. Of operators there is what changes which rows are live and which references they have.

## 3. Runs

Passing runs (the bound on versions or commits stops new requests only):

| Run | Instance | Shows |
|---|---|---|
| `field_races` | 2 fields, 2 requests, an FSM as holder, 2 leaf shapes of which one loosens the other, versions to 2, faults, fairness | `TypeOK` and `IInv` (the invariant of the proofs); `Acyclic`; `NoBlindWrite`; `FieldRegistry` implements `FieldTable`; every request is answered |
| `field_serial` | 3 fields, 1 request, `expose_bb` given and revoked, versions to 3, no faults | between requests `field_refs` is exactly what the rows say |
| `caches` | a detail with 2 readers, 2 writers and 2 commits; a list with 2 readers and 1 writer (`ListWriter`); both orders of commit and delete, faults | locks go by their owner or by expiry; neither cache is behind the table in the end |
| `template_races` | 2 fields, 1 template, 1 NPC, 2 requests, versions to 3, no Redis, faults | `TypeOK` and `IInv` (of the proofs); `field_refs` equals the live template's fields although each update writes a difference to a row read earlier; enabled templates keep their fields |
| `template_serial` | 2 fields, 2 templates, 1 NPC, 1 request, versions to 3, Redis | between requests every NPC has a live template with its fields; deleted templates hold no field |
| `schema_races` | 1 schema (a number), 1 event type, an FSM as holder, 2 requests, versions to 3, faults and restarts | `TypeOK` and `IInv` (of the proofs); no key of an event type is without its row in `schema_refs`; a schema that is referred to is neither deleted nor tightened |
| `schema_serial` | 2 schemas (a number, a selection), 1 event type, 1 request, versions to 3, no faults | between requests the memory cache is what the table says, `schema_refs` is the keys in use, and stored values fit schemas that were loosened since; bounds that were never set are not among the constraints of this run (see `LooserKeepsValues`) |
| `config_races` | 2 words without rows of their own, 1 node type (seeded), 1 machine, 1 tree, 1 NPC, 2 requests, versions to 3 (NPC 2), faults, counts that fail | `TypeOK` and `IInv` (of the proofs): `links` is what the rows say; what an enabled machine or tree names does not change |
| `config_serial` | one item of each of the six kinds, 1 request, versions to 3 (word, type and region 2) | no NPC names a deleted machine or tree, no tree a deleted type; nothing named is deleted; a delivered export is complete and closed; `SerialInv` (of the proofs) |
| `bb_keys` | 1 name, 1 machine, 1 tree, 1 node type, 2 requests, 3 connections, keys to version 3, machines and trees to 2, faults | `IInv` (of the proofs); `BBKeyRegistry` implements `BBKeyTable`; only the pool can stop everybody; requests that never overlapped leave no shared name, no dangling and no missing reference (`SoloIntegrity`, `SoloAttaches`) |
| `seed_rerun` | one fixture of each group, two fields and two trees, one old category, 1 crash, 2 edits of operators, any number of failed runs, fairness | wherever it stops, what the seed wrote names no row that never was; a run that ends well is complete; repeating ends well unless a fixture that is looked up again was deleted |

Two requests are enough for the races: each hazard is one request's check against
another request's write. Two fields close a cycle between two concurrent edits, which is
the one a search per edit could miss; three fields allow a target shared by two sources.
In `field_races` fields exist from the start, so that version 2 allows each to be toggled or
edited under a request that has read it; version 3 allows a row to be created, toggled and
edited. `config_serial` has one item of each kind, since an integrity of names needs no more than
one name and one row that holds it, and room for each to be created, disabled, edited or
deleted. In `bb_keys` one name is enough, since the two tables meet in a
name; the 3 connections let both requests hold a transaction while one reads beside it. With 2 the
pool itself would rule out most of the races between two transactions. Exhaustion needs as many transactions as
connections: there `LocksStopNobody` and `EnoughConnections` (below) say for any number of both
that this is the only way to stop. `solo` is a history variable: it turns false when two requests have ever
overlapped, so that one run asks for what holds always and for what holds of requests one at a
time. In `seed_rerun` a second crash finds nothing new, since a run keeps no state but the
tables; the second edit allows an operator to write and then delete. Symmetry is declared where no property tells the values apart: the fields
of `field_serial`, the requests, fields and NPCs of the two template runs, the requests of
`schema_races`, `config_races` and `bb_keys`. `CHECK_DEADLOCK FALSE` appears in the runs of the field,
template, schema and configuration modules because a model whose rows are all deleted or at the
bound stops, and in the run that searches for a violation.

The violating run checks a sentence of the sources, which the code's interleavings refute;
`PROJECT.json` quotes it under `findings`.

| Run | The sentence that does not hold | How it fails |
|---|---|---|
| `delete_referred` | a field that a field refers to is not deleted | `Create` inserts the row of the source before its `field_refs`, and the UPDATE of the delete comes between |

In full: `Delete` finds the target disabled and without references, and holds the share lock on
them; a toggle enables the target, so that `Create` accepts it and inserts its row; before
`Create` writes `field_refs`, which would wait for the lock, `Delete` executes its UPDATE. The
two transactions of `Create` are what it takes. That the UPDATE does not ask for `enabled`
only makes the trace shorter: if it did, a second toggle, which disables the target again, would
lead to the same end. `Update` has the same two transactions, by a longer way.

The same models have more races, for which no run is kept. A reader between the deletion of
a cached row and the commit reads the old row and caches it, where it stays until it expires or the
next write, although `service/field.go:491` says of this order that it removes the dirty
reads (`EventuallyFresh` therefore rests on the TTL). With Redis, a template's `enabled`
is judged on a cached row that may be older than the version of the request, and an enabled
template is edited (`EditsOnlyDisabled` of `template_races` is checked, and proved, without
Redis). A bound is compared only where both constraints have it, so one that is added where there
was none counts as no tightening. A tree that an NPC was checked against may be deleted before the
NPC is written, and so may the count of a delete miss an NPC that is written a
moment later (`config_serial` and the theorems of `ConfigRegistryProofs` show that it takes two
requests, or a count whose error is dropped). The words of a machine are not looked up at all
when it is written, and no delete of an NPC asks the regions: names dangle there with a
single request. A blank tree name is legal in an NPC and unknown to the export, which then refuses
everything while that NPC is enabled. An FSM may attach itself to a field
between the plain read of its references and the UPDATE that revokes `expose_bb` (so
`FieldTable!Edit` allows it). A field may be deleted between the check of a template's
fields and the transaction that attaches them. Two reloads of the memory cache may
install what they read in the opposite order, and the older rows stay until the next write
of a schema (`schema_serial` shows that it takes two requests). `Delete` of a field does not
look at `enabled` again, so a field enabled in between is deleted (which is why
`FieldTable!Remove` has no such guard); an NPC may be inserted after the template it was
made from was deleted or changed (`template_serial` shows that it takes two requests); a
list read before a commit may be stored under the version after it until it expires.

Of the black-board keys, beyond what two tables without a common key must allow:

* A field and a runtime key of one name are created side by side: each looks for the other
  before either is inserted. `service/runtime_bb_key.go:213` expects the unique key of MySQL
  to catch it (“真冲突时 MySQL 唯一键兜底”), but there is one per table and none across them.
* A machine resolves a name to a key, the key is deleted, the machine inserts its reference: it dangles in
  spite of `FOR SHARE`, which only keeps others from inserting until the delete has ended.
* A reference is removed by the id its name resolves to; if the row has been deleted meanwhile
  it resolves to nothing and the reference stays (`BBKeyTable!Rewrite` asks only live rows to go).
* A runtime key may be disabled between `CheckDisabledRefs` and the insert of the reference.
* A configuration that names a key which is created later never gets a reference to it, so that
  nothing keeps the key from being deleted; `CheckByNames`, which would ask, is not called.
* The keys of a tree are those of the node types enabled when it is edited: a type that was disabled
  meanwhile hides the old names too, and their references stay.
* A transaction of a handler asks for a second connection (its reads go to the pool): as many such
  requests as `max_open_conns` (50) wait for one another until a context is cancelled.

Of the seed, which promises to be repeatable (`field_template_npc_seed.go:79`: “每步幂等，冲突跳过不报错”,
and `docs/specs/external-contract-admin-shape-alignment/ops-runbook.md:44`: a rerun is the only way
to rebuild): a template or NPC that was deleted keeps its name, the INSERT is passed over, the
look-up of live rows then fails, and the stages after it never run, however often the
command is repeated; a deleted field stops the templates the same way, a deleted node type fails
the plain INSERT (`Completes` excepts exactly these). A rerun also restores
references that an operator has removed, which its comments intend, without looking at whether the
referred row is still there. Two names, `group_id` and `social_role`, are fixtures of both
`fields` and `runtime_bb_keys`, which the seed writes without the look across that the services
make. The machines and trees it writes name keys but get no rows of references.

### Fairness

`FairSpec` of `FieldRegistry`: weak fairness of a request's own steps (a goroutine that
can run is run) and strong fairness of its writes (InnoDB queues lock waits, so a waiter is
served when the lock is free again and again). Of the caches: weak fairness of the
goroutines and of the expiry of keys, each of which is stored with a TTL
(`store/redis/shared/common.go`). Of the seed: weak fairness of its statements, and of starting it
again as long as it has not ended well; whoever installs the system repeats it until then. No fairness is assumed of clients: no request need
ever arrive.

## 4. Proofs

`FieldRegistryProofs` proves, for any sets of fields, holders and requests, any
`Widens` and any bound:

* `TypeCorrect`: the type invariant.
* `Invariance`: `Spec => []IInv`. `Acyclic` alone is not inductive: an edit whose search
  for cycles is over writes edges that the table does not have yet. `IInv` therefore counts
  as edges also those that a pending update, one whose row is still the row it has read,
  has judged and may yet write (`AcyclicEdges`). That a new edge closes no cycle rests on the
  check of the targets and not on the search: a new target is enabled and no reference
  when it is judged, only a disabled field can be edited, and an enabled field has no pending
  update, so the target is a sink when the edge appears (`TargetIsSink`). The
  version ties the row judged to the row written (`FreshRead`), the share lock keeps
  the count of the references (`LockKeeps`), an id being created belongs to one request
  (`Reserved`), and a target has a row (`TargetsExist`).
* `NoBlindWriteHolds`, `AcyclicHolds`: consequences of `IInv`.
* `Implements`: `Spec => TableSpec`. Plain reads, checks and failures stutter;
  `UpdateTx` maps to `Edit` since by `FreshRead` the row it overwrites is the row it judged and
  by `LockKeeps` the count of references still stands; `SoftDeleteTx` maps to `Remove`.

and, under the hypothesis `Serial` (no two requests, no failures):

* `SerialInvariance`: `Spec => []SerialInv`. `SerialIntegrity` speaks of idle requests only.
  `SerialInv` says what holds on the way: `field_refs` is what the properties say but for a
  field that waits for its second transaction (`RefsInStep`), whose rows are those of the references
  it had (`SyncAhead`: the difference that is written is the right one); the targets that
  were judged are still leaves (`JudgedAreLeaves`) and the references that were read are those
  that are overwritten (`ReadStays`). That targets stay leaves also needs that a field that is referred
  to does not become a reference, which the count under the lock refuses.
* `SerialIntegrityHolds`: its consequence.
* `DeletesUnreferred`: `Spec => DeletesOnlyUnreferred`. The very property that
  `delete_referred` violates with two requests holds of one at a time.

`TemplateRegistryProofs` proves, for any templates, fields, NPCs and requests, `TypesHold`: the type
invariant, with Redis or without. Under the hypothesis `~CacheOn` (with Redis they are false,
see above) it proves:

* `InvariantHolds`: `Spec => []IInv`. Of a request that has read a row, `IInv` says that its
  version is not above the table's, and that it is the very row if the versions are equal.
* `RefsMatch`: `Spec => []LiveRefsMatch`. The difference written to `field_refs` is that
  between the row *read* and the new fields; it is the right one because the UPDATE that
  precedes it matches the version of the request, which is at most that of the row read, so
  the row read is the row overwritten.
* `EnabledKeepsFields`: the action property `EditsOnlyDisabled`, by the same argument: the row
  overwritten is the row whose `enabled` was tested.

and, under the hypothesis `Serial` (no two requests, no failures), with Redis or without:

* `SerialInvariance`: `Spec => []SerialInv`. The cache may be behind the table in two ways even
  then: between a toggle and its `DelDetail`, and where a null marker has outlived the creation
  of its row (`CacheOfRow`). Neither reaches a request that writes: the first is over
  before the next one starts, the second answers that there is no such template. So the row in hand
  is the row of the table (`RowInHand`), and the NPCs that were counted are all (`CountStays`).
* `SerialIntegrityHolds`: `Spec => []SerialIntegrity`.
* `SerialRefsMatch`, `SerialKeepsFields`: `LiveRefsMatch` and `EditsOnlyDisabled` again, now
  with Redis too. What Redis breaks, it breaks by races and failures.

`ConstraintCheckProofs` proves, for any two constraints:

* `LooserKeepsValues`: an edit that `CheckConstraintTightened` lets through keeps every legal
  value legal, unless it introduces a bound or options where there were none. That hole is the
  only one of its kind.
* `TighterLosesValues`: conversely, of constraints of numbers and strings that
  `ValidateConstraintsSelf` accepts, a bound that is refused as tightened does make a legal value
  illegal: the check of bounds refuses nothing it need not.

`SchemaRegistryProofs` proves, for any schemas, event types, holders, requests, constraints
and values, with failures and restarts:

* `SchemaInvariance`, `SchemaTypes`: `Spec => []IInv` and its type conjunct. Each action is
  first summed up by what it does to the place of each request and to each table (`Steps`,
  `Tables`); that these summaries preserve `IInv` is proved once (`Preserved`).
* `ConfigReferred`: `Spec => []ConfigIsReferred`. It is not inductive: `LookupSchemas` drops
  keys whose schema it cannot find, and such a schema might appear before the commit.
  `KeysKnown` rules it out (a key that was found in the memory cache has had a row, and a
  deleted row does not come back), `LookedUp` then says that what was dropped is gone for
  good, and `EventRead` that the difference is taken to the row that is overwritten.
* `ReferredLoosens`: `Spec => ReferredOnlyLoosens`. The constraints judged are those of the
  version that the UPDATE matches (`SchemaRead`), and the share lock of `HasRefsTx` keeps
  the count of the references until then (`LockKeeps`).

and, under the hypothesis `Serial` (no two requests, no failures):

* `SerialInvariance`: `Spec => []SerialInv`: besides `RefsMatchConfig`, that the ids looked up are
  the difference to the row as it is, less the schemas that are gone (`DifferenceInHand`), and
  that the memory cache is behind only on account of the request that has yet to load it
  (`CacheInHand`).
* `RefsMatch`, `CacheIsCurrent`: `Spec => []RefsMatchConfig` and `Spec => []CacheCurrent`.
* `StoredFit`: `Spec => []StoredValuesFit`, with the further hypothesis `NothingIntroduced` (no
  constraints among those of the requests bring a bound or options that others lack). It is the
  exception of `LooserKeepsValues`; without it the property is false, since the check lets such
  an edit through. A value that is stored was validated against the cache, which is the table's
  (`CacheInHand`); from then on its schema is referred to, by `RefsMatchConfig`, and so only
  loosens, by `ReferredOnlyLoosens`.

`ConfigRegistryProofs` proves, for any words, node types, machines, trees, NPCs, regions and
requests, any faults:

* `ConfigInvariance`, `ConfigTypes`: `Spec => []IInv` and its first conjunct. Each step is either
  quiet (it moves a request and writes no table) or one write of one row (`RowWrite`); both
  are shown to keep `IInv` once. Besides the types, `IInv` says that an unused name has no row
  (`RowsOK`), that a row names only what its kind may (`Shape`), that the tables of
  names are what the rows say (`LinksMatch`), and that an update is pending on a row that may
  be edited or has moved on (`Pending`).
* `EnabledKeepNames`: `Spec => EditsOnlyDisabled`, from `Pending`: the version that the UPDATE
  matches is that of a row that was disabled when it was judged.

and, under the hypothesis `One` (no two requests, no count that fails):

* `ConfigSerialInvariance`: `Spec => []SerialInv`. `SerialIntegrity` is not inductive; `SerialInv`
  adds what each check, count or export query has found and that it still holds (`Found`,
  `Unnamed`, `Exporting`). `NoUsers` is where the counts are shown to see every row: it
  rests on `Shape` (only these kinds can name the item) and `LinksMatch` (the copies are right).
* `ConfigIntegrity`, `ExportsClosed`, `NamedAreKept`: its consequences.

`CachesProofs` proves, for any readers and writers (of the list: any finite set of writers)
and any bounds:

* `DetailTypes`: the types of the detail cache. They are not inductive, because commits are
  bounded: a transaction that has executed its UPDATE has still to commit. `RowLockHeld` says
  that it holds the row lock until then, so that nobody else commits in between.
* `ReleasedByOwner`: `Spec => LockReleasedByOwner`, from where each goroutine may stand.
* `ListTypes`: the types of the list cache, that is that neither its content nor its version
  leaves its bound, and no key of a version that never was is read or filled. `RoomLeft` counts
  the writers that have still to commit or to INCR; it is kept in either order of the two.

`BBKeyRegistryProofs` proves, for any names, machines, trees, node types, requests, size of the
pool and bounds:

* `InvariantHolds`, `Types`: `Spec => []IInv` and its first conjunct. The strengthening says that
  the row of a machine that is being written is the one that was read (`HolderRead`: the version ties
  the two, the row lock keeps it), that what was resolved covers the references that are to
  go (`Resolved`), that a row whose references were counted has none and nobody is about
  to show one (`Unreferred`), and that one transaction at a time writes a machine or tree (`OneWriter`).
* `KeyTableImplemented`: `Spec => ImplementsTable`. Every step but `InsertKey`, `SoftDeleteTx`, `Commit`
  and `RemoveHolder` is a stutter of `BBKeyTable`; `SoftDeleteTx` maps to `Remove` by `Unreferred`, the `Commit` of a machine to
  `Rewrite` by `Resolved`.
* `LocksStopNobody`: `Spec => []StuckOnlyByPool`. A waiter waits for one that has written the row,
  or holds the share lock, or is about to commit; those wait for no lock but that of a delete, which waits for none
  once it has counted. So without the pool somebody can always go on.
* `EnoughConnections`: under the hypothesis that there are fewer requests than connections, no exhaustion.
* `SoloHolds`: `Spec => []SoloIntegrity`, from `SoloInv`: of a request that is alone, what it has found still
  holds when it writes.
* `AttachesAlone`: `Spec => SoloAttaches`. `SoloKnows` adds what such a request has computed: the
  names of the old and the new row under the node types as they are, and that every name with a
  row has been found.

`SeedProofs` proves, for any fixtures, names among them, crashes and edits:

* `InvariantHolds`, `Types`: `Spec => []IInv` and its type conjunct: whatever the run has
  passed is written (`PassedWritten`) and, if it is still the seed's, linked (`PassedLinked`); old categories are gone behind it
  (`OldGone`); rows it has looked up have been there.
* `ClosedWherever` and `CompleteWhenDone`: `PrefixClosed` and `DoneComplete`, its consequences. The
  order of `Stages` enters the first through `Columns`: each column leads to an earlier group.

The assumptions are those named in the modules: non-empty sets of ids, bounds that are
naturals, inputs within their sets, `NameAssumption` and the like (a marker is no value), `KindAssumption` (six disjoint
kinds of names),
`WidensAssumption` (a relation on leaf shapes), `HolderAssumption`, `PoolAssumption` (a finite set of requests, at least one
connection), `FixtureAssumption` (fixtures name along the columns) and `IdAssumption` (`ref_type` tells event types
from FSMs and trees). TLC evaluates each in the runs of its module.

Only model-checked: the liveness properties (`RequestsFinish`, `EventuallyFresh`,
`ListsEventuallyFresh`, `Completes`), which need fairness and ENABLED and are out of the prover's
reach. Every invariant and every action property of the passing runs is a theorem; those that
only hold of one request at a time, or without Redis, under that hypothesis. The property of
`delete_referred` is TLC's to refute.

## 5. Done, left and not modelled

Done: the field module and its abstract specification, the two caches, templates,
extension schemas with event types, the configurations that name one another with their
exports, the black-board keys with their abstract specification and the connection pool, the
seed, and the theorems above.

Left: the validation of FSM conditions and of trees as pure functions against a reference
definition (they are recursive on nested JSON, and only refuse requests: no other state depends
on what they let through but the names, which are modelled).

Not modelled:

* Dictionary: loaded into memory at the start and read only; no request writes it.
* Wrapper, router, configuration, error codes, start-up: formatting and wiring, no state that lasts.
* The client: it sends back the version it was shown, which is what the models let it do.
* Lists and searches over the tables (`List`, `GetReferences`, the `CheckName` handlers): reads
  without a follow-up write; those whose result is cached are in `ListCache`.
