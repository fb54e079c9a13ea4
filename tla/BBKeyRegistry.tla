--------------------------- MODULE BBKeyRegistry ---------------------------
(***************************************************************************)
(* The black-board keys: the names of fields and of runtime keys, which    *)
(* share one namespace but no unique key, and the references that state    *)
(* machines and behaviour trees keep to the rows of both tables.  Machines *)
(* and trees hold names; each write of one resolves the names that came    *)
(* and those that went to ids, by plain reads beside its transaction, and  *)
(* writes the difference to field_refs and runtime_bb_key_refs.            *)
(*                                                                         *)
(* A transaction keeps one connection of the pool until it ends, and every *)
(* plain read or write beside it needs another one.                        *)
(***************************************************************************)
EXTENDS Naturals, FiniteSets

CONSTANTS
  Name,           \* names of fields and of runtime keys
  Fsm, Tree,      \* rows of fsm_configs and bt_trees
  NodeType,       \* node types with a parameter that holds a key
  Cond,           \* stands where a tree has a node type: a condition of a machine
  Request,        \* request goroutines
  MaxOpenConns,   \* max_open_conns of config.yaml
  MaxVersion,     \* bound, by table: no request writes a row of this version
  MaxRevision,    \* the same for machines and trees
  Faults          \* may a step fail (SQL error, context cancelled, crash)?

Table == {"fields", "runtime_bb_keys"}
Holder == Fsm \cup Tree
Use == (NodeType \cup {Cond}) \X Name
Key == Table \X Name

ASSUME HolderAssumption == Fsm \cap Tree = {} /\ Holder # {} /\ Name # {} /\ Cond \notin NodeType
ASSUME PoolAssumption ==
  IsFiniteSet(Request) /\ MaxOpenConns \in Nat \ {0} /\ Faults \in BOOLEAN
ASSUME BoundAssumption == MaxVersion \in [Table -> Nat] /\ MaxRevision \in Nat

VARIABLES
  rows,      \* the tables fields and runtime_bb_keys
  holders,   \* fsm_configs and bt_trees: the names in their configurations
  typeOn,    \* the node types that are enabled
  refs,      \* field_refs and runtime_bb_key_refs: refs[h] are the keys h refers to
  pc,        \* where each request stands
  job,       \* what it is about, and what it has read
  solo       \* history: has no request ever run beside another?

vars == <<rows, holders, typeOn, refs, pc, job, solo>>

KeyRow == [live : BOOLEAN, enabled : BOOLEAN, ver : Nat]
HolderRow == [live : BOOLEAN, ver : Nat, uses : SUBSET Use]
NoKeyRow == [live |-> FALSE, enabled |-> FALSE, ver |-> 0]
NoHolderRow == [live |-> FALSE, ver |-> 0, uses |-> {}]

\* deleted = 1: no statement reads the other columns again, only that the name is taken.
DeadKeyRow == [live |-> FALSE, enabled |-> FALSE, ver |-> 1]
DeadHolderRow == [live |-> FALSE, ver |-> 1, uses |-> {}]

Op == {"none", "create", "toggle", "edit", "delete"}

\* key is what a request on a table is about, holder what one on a machine or tree is;
\* uses is the new configuration and old the one read, before and after are the names
\* taken from them, found the rows that these were resolved to.
Job == [op : Op, key : Key, holder : Holder, ver : Nat, uses : SUBSET Use,
        old : SUBSET Use, before : SUBSET Name, after : SUBSET Name, found : SUBSET Key]
NoJob == [op |-> "none", key |-> CHOOSE k \in Key : TRUE, holder |-> CHOOSE h \in Holder : TRUE,
          ver |-> 0, uses |-> {}, old |-> {}, before |-> {}, after |-> {}, found |-> {}]

\* With the row of the machine or tree written, and so locked, until the end.
Writing == {"old", "new", "disabled", "fields", "link", "keys", "commit"}
InTx == Writing \cup {"row", "write", "remove", "refs", "delete"}
PC == InTx \cup {"idle", "other", "insert", "toggle", "edit"}

TypeOK == /\ rows \in [Key -> KeyRow]
          /\ holders \in [Holder -> HolderRow]
          /\ typeOn \subseteq NodeType
          /\ refs \in [Holder -> SUBSET Key]
          /\ pc \in [Request -> PC]
          /\ job \in [Request -> Job]
          /\ solo \in BOOLEAN

Init == /\ rows = [k \in Key |-> NoKeyRow]
        /\ holders = [h \in Holder |-> NoHolderRow]
        /\ typeOn = NodeType
        /\ refs = [h \in Holder |-> {}]
        /\ pc = [p \in Request |-> "idle"]
        /\ job = [p \in Request |-> NoJob]
        /\ solo = TRUE

-----------------------------------------------------------------------------
(* The names of a configuration *)

KeysOf(C) == {u[2] : u \in C}

\* Mutant: every string of a node is taken for a key, its type too.
ExtractAll(C, on) == {u[1] : u \in C} \cup KeysOf(C)

\* ListBBKeyParamNames has the enabled types only: nodes of others hold no key.
Extract(C, on) == KeysOf({u \in C : u[1] \in on \cup {Cond}})

\* What a configuration may be: the conditions of a machine, the nodes of a tree.
Configs(h) == SUBSET ((IF h \in Fsm THEN {Cond} ELSE NodeType) \X Name)
TypesOf(C) == {u[1] : u \in C} \ {Cond}

\* toAdd and toRemove of the three syncs.
Added(p) == job[p].after \ job[p].before
Removed(p) == job[p].before \ job[p].after
Diff(p) == Added(p) \cup Removed(p)

-----------------------------------------------------------------------------
(* The pool and the locks *)

Free == Cardinality({p \in Request : pc[p] \in InTx}) < MaxOpenConns

\* The statements that go to the pool; the syncs ask nothing for no names.
Reads(p) ==
  \/ pc[p] \in {"other", "insert", "toggle", "edit", "row", "old", "new"}
  \/ pc[p] = "disabled" /\ Added(p) # {}
  \/ pc[p] \in {"fields", "keys"} /\ Diff(p) # {}

\* The UPDATE of a machine or tree waits for another that has written it.
RowLocked(p) == \E q \in Request \ {p} : pc[q] \in Writing /\ job[q].holder = job[p].holder

\* Rows of field_refs inserted or deleted by a transaction that is open.
Pending(q) == IF pc[q] \in {"keys", "commit"} THEN job[q].found \cap ({"fields"} \X Name) ELSE {}

\* HasRefsTx ... FOR SHARE, until the delete has ended: no other transaction
\* writes references of this key.
Shared(p, K) == \E q \in Request \ {p} : pc[q] = "delete" /\ job[q].key \in K

\* Mutant: the row is read FOR SHARE, and the UPDATE must upgrade the lock.
LockedUpgrade(p) ==
  \/ pc[p] = "write" /\ \E q \in Request \ {p} :
       pc[q] \in Writing \cup {"write"} /\ job[q].holder = job[p].holder
  \/ pc[p] = "remove" /\ (RowLocked(p) \/ Shared(p, refs[job[p].holder]))
  \/ pc[p] \in {"link", "commit"} /\ Shared(p, job[p].found)
  \/ pc[p] = "refs" /\ \E q \in Request \ {p} : job[p].key \in Pending(q)

\* Mutant: the references are counted without FOR SHARE.
LockedNoShare(p) == pc[p] \in {"write", "remove"} /\ RowLocked(p)

Locked(p) ==
  \/ pc[p] \in {"write", "remove"} /\ RowLocked(p)
  \/ pc[p] = "remove" /\ Shared(p, refs[job[p].holder])
  \/ pc[p] \in {"link", "commit"} /\ Shared(p, job[p].found)
  \/ pc[p] = "refs" /\ \E q \in Request \ {p} : job[p].key \in Pending(q)

\* May the next statement of p run?
CanGo(p) == (Reads(p) => Free) /\ ~Locked(p)

-----------------------------------------------------------------------------
(* Steps *)

Goto(p, label) == pc' = [pc EXCEPT ![p] = label]
Finish(p) == Goto(p, "idle") /\ job' = [job EXCEPT ![p] = NoJob]
Check(p, ok, label) == IF ok THEN Goto(p, label) /\ UNCHANGED job ELSE Finish(p)

Alone == \A q \in Request : pc[q] = "idle"

\* A request starts with a statement of its own: a plain read, or BEGIN.
Begin(p, j, label) ==
  /\ pc[p] = "idle" /\ Free
  /\ job' = [job EXCEPT ![p] = j]
  /\ Goto(p, label)
  /\ solo' = (solo /\ Alone)
  /\ UNCHANGED <<rows, holders, typeOn, refs>>

At(p, label) == pc[p] = label /\ CanGo(p) /\ UNCHANGED <<typeOn, solo>>

Unused(k) == rows[k].ver = 0
Live(k) == rows[k].live

Other(k) == <<IF k[1] = "fields" THEN "runtime_bb_keys" ELSE "fields", k[2]>>

\* FieldService.Create and RuntimeBbKeyService.Create: ExistsByName counts deleted
\* rows, as the unique key does.
BeginCreate(p, k) ==
  /\ Unused(k) /\ MaxVersion[k[1]] > 0
  /\ Begin(p, [NoJob EXCEPT !.op = "create", !.key = k], "other")

\* Mutant: a field takes the name of a runtime key.
FreeInKeys(p) == job[p].key[1] = "fields" \/ ~Live(Other(job[p].key))

\* GetByName in the other table, where deleted rows do not count.
FreeInOther(p) == ~Live(Other(job[p].key))

CheckOther(p) ==
  /\ At(p, "other")
  /\ Check(p, FreeInOther(p), "insert")
  /\ UNCHANGED <<rows, holders, refs>>

\* INSERT, enabled = 0; the unique key answers for a name that has come meanwhile.
InsertKey(p) ==
  LET k == job[p].key IN
  /\ At(p, "insert")
  /\ rows' = IF Unused(k)
             THEN [rows EXCEPT ![k] = [live |-> TRUE, enabled |-> FALSE, ver |-> 1]]
             ELSE rows
  /\ Finish(p)
  /\ UNCHANGED <<holders, refs>>

\* A client sends a version it was shown: any up to the one of the row.
BeginToggle(p, k, v) ==
  /\ Live(k) /\ v <= rows[k].ver /\ rows[k].ver < MaxVersion[k[1]]
  /\ Begin(p, [NoJob EXCEPT !.op = "toggle", !.key = k, !.ver = v], "toggle")

\* Only a runtime key; the edits of fields are in FieldRegistry.
BeginEdit(p, k, v) ==
  /\ k[1] = "runtime_bb_keys"
  /\ Live(k) /\ ~rows[k].enabled /\ v <= rows[k].ver /\ rows[k].ver < MaxVersion[k[1]]
  /\ Begin(p, [NoJob EXCEPT !.op = "edit", !.key = k, !.ver = v], "edit")

\* WHERE id = ? AND version = ? AND deleted = 0
KeyMatches(p) == Live(job[p].key) /\ rows[job[p].key].ver = job[p].ver

ToggleKey(p, b) ==
  /\ At(p, "toggle")
  /\ rows' = IF KeyMatches(p)
             THEN [rows EXCEPT ![job[p].key] = [live |-> TRUE, enabled |-> b, ver |-> job[p].ver + 1]]
             ELSE rows
  /\ Finish(p)
  /\ UNCHANGED <<holders, refs>>

EditKey(p) ==
  /\ At(p, "edit")
  /\ rows' = IF KeyMatches(p) THEN [rows EXCEPT ![job[p].key].ver = job[p].ver + 1] ELSE rows
  /\ Finish(p)
  /\ UNCHANGED <<holders, refs>>

\* The plain read, then the transaction.
BeginDelete(p, k) ==
  /\ Live(k) /\ ~rows[k].enabled
  /\ Begin(p, [NoJob EXCEPT !.op = "delete", !.key = k], "refs")

Referred(k) == \E h \in Holder : k \in refs[h]

HasRefsTx(p) ==
  /\ At(p, "refs")
  /\ Check(p, ~Referred(job[p].key), "delete")
  /\ UNCHANGED <<rows, holders, refs>>

\* UPDATE ... SET deleted = 1 WHERE id = ? AND deleted = 0, and COMMIT.
SoftDeleteTx(p) ==
  /\ At(p, "delete")
  /\ rows' = [rows EXCEPT ![job[p].key] = DeadKeyRow]
  /\ Finish(p)
  /\ UNCHANGED <<holders, refs>>

-----------------------------------------------------------------------------
(* Machines and trees; who may edit an enabled one, or delete one that an NPC
   names, is in ConfigRegistry. *)

\* AUTO_INCREMENT gives each insert an id of its own.
BeginCreateHolder(p, h, C) ==
  /\ holders[h].ver = 0 /\ MaxRevision > 0
  /\ \A q \in Request : pc[q] \in Writing \cup {"row", "write"} => job[q].holder # h
  /\ Begin(p, [NoJob EXCEPT !.op = "create", !.holder = h, !.uses = C], "row")

BeginUpdateHolder(p, h, v, C) ==
  /\ holders[h].live /\ v <= holders[h].ver /\ holders[h].ver < MaxRevision
  /\ Begin(p, [NoJob EXCEPT !.op = "edit", !.holder = h, !.ver = v, !.uses = C], "row")

BeginDeleteHolder(p, h) ==
  /\ holders[h].live
  /\ Begin(p, [NoJob EXCEPT !.op = "delete", !.holder = h], "row")

\* getOrNotFound beside the transaction, and the types of the nodes.
ReadHolder(p) ==
  LET h == holders[job[p].holder] IN
  /\ At(p, "row")
  /\ IF /\ job[p].op # "create" => h.live
        /\ TypesOf(job[p].uses) \subseteq typeOn
     THEN /\ Goto(p, IF job[p].op = "delete" THEN "remove" ELSE "write")
          /\ job' = [job EXCEPT ![p].old = IF job[p].op = "create" THEN {} ELSE h.uses]
     ELSE Finish(p)
  /\ UNCHANGED <<rows, holders, refs>>

\* INSERT, or UPDATE ... WHERE id = ? AND version = ? AND deleted = 0
HolderMatches(p) ==
  \/ job[p].op = "create"
  \/ holders[job[p].holder].live /\ holders[job[p].holder].ver = job[p].ver

\* The names of a machine are taken from the request and the row read; those of
\* a tree need the node types.
WriteHolder(p) ==
  /\ At(p, "write")
  /\ IF ~HolderMatches(p) THEN Finish(p)
     ELSE IF job[p].holder \in Fsm
     THEN /\ job' = [job EXCEPT ![p].before = Extract(job[p].old, {}),
                                ![p].after = Extract(job[p].uses, {})]
          /\ Goto(p, "disabled")
     ELSE /\ Goto(p, IF job[p].op = "create" THEN "new" ELSE "old")
          /\ UNCHANGED job
  /\ UNCHANGED <<rows, holders, refs>>

ExtractOld(p) ==
  /\ At(p, "old")
  /\ job' = [job EXCEPT ![p].before = Extract(job[p].old, typeOn)]
  /\ Goto(p, "new")
  /\ UNCHANGED <<rows, holders, refs>>

ExtractNew(p) ==
  /\ At(p, "new")
  /\ job' = [job EXCEPT ![p].after = Extract(job[p].uses, typeOn)]
  /\ Goto(p, "disabled")
  /\ UNCHANGED <<rows, holders, refs>>

\* Mutant: the check is left out.
NoneDisabledSkip(p) == TRUE

NoneDisabled(p) ==
  \A n \in Added(p) : LET k == <<"runtime_bb_keys", n>> IN Live(k) => rows[k].enabled

CheckDisabledRefs(p) ==
  /\ At(p, "disabled")
  /\ Check(p, NoneDisabled(p), "fields")
  /\ UNCHANGED <<rows, holders, refs>>

\* GetByNames: the live rows with the names that come or go.
GetByNames(p, t) == {k \in {t} \X Diff(p) : Live(k)}

Resolve(p, label, t, next) ==
  /\ At(p, label)
  /\ job' = [job EXCEPT ![p].found = job[p].found \cup GetByNames(p, t)]
  /\ Goto(p, next)
  /\ UNCHANGED <<rows, holders, refs>>

ResolveFields(p) == Resolve(p, "fields", "fields", "link")

\* Add and Remove of SyncFsmBBKeyRefs / SyncBtBBKeyRefs; the rows show at the commit.
SyncFieldRefs(p) ==
  /\ At(p, "link")
  /\ Goto(p, "keys")
  /\ UNCHANGED <<rows, holders, refs, job>>

ResolveKeys(p) == Resolve(p, "keys", "runtime_bb_keys", "commit")

\* Mutant: the references that are no longer needed stay.
SyncedAddOnly(p) == refs[job[p].holder] \cup {k \in job[p].found : k[2] \in Added(p)}

\* The references of the holder when the transaction ends.
Synced(p) == (refs[job[p].holder] \ {k \in job[p].found : k[2] \in Removed(p)})
               \cup {k \in job[p].found : k[2] \in Added(p)}

\* AddBatch and DeleteByRefAndKeyIDs of syncRefs, and COMMIT.
Commit(p) ==
  LET h == job[p].holder IN
  /\ At(p, "commit")
  /\ refs' = [refs EXCEPT ![h] = Synced(p)]
  /\ holders' = [holders EXCEPT ![h] =
                   [live |-> TRUE, ver |-> job[p].ver + 1, uses |-> job[p].uses]]
  /\ Finish(p)
  /\ UNCHANGED rows

\* SoftDeleteInTx, CleanFsmBBKeyRefs / CleanBtBBKeyRefs, DeleteRefsBy..., COMMIT.
RemoveHolder(p) ==
  LET h == job[p].holder IN
  /\ At(p, "remove")
  /\ IF holders[h].live
     THEN /\ refs' = [refs EXCEPT ![h] = {}]
          /\ holders' = [holders EXCEPT ![h] = DeadHolderRow]
     ELSE UNCHANGED <<refs, holders>>
  /\ Finish(p)
  /\ UNCHANGED rows

\* A node type is switched, by a request of its own.
ToggleType(t) ==
  /\ Free
  /\ typeOn' = IF t \in typeOn THEN typeOn \ {t} ELSE typeOn \cup {t}
  /\ solo' = (solo /\ Alone)
  /\ UNCHANGED <<rows, holders, refs, pc, job>>

\* A request stops; an open transaction is rolled back.
Fail(p) ==
  /\ Faults /\ pc[p] # "idle"
  /\ Finish(p)
  /\ UNCHANGED <<rows, holders, typeOn, refs, solo>>

StartKey(p) ==
  \E k \in Key :
    \/ BeginCreate(p, k) \/ BeginDelete(p, k)
    \/ \E v \in 1..MaxVersion[k[1]] : BeginToggle(p, k, v) \/ BeginEdit(p, k, v)

StartHolder(p) ==
  \E h \in Holder :
    \/ BeginDeleteHolder(p, h)
    \/ \E C \in Configs(h) :
         \/ BeginCreateHolder(p, h, C)
         \/ \E v \in 1..MaxRevision : BeginUpdateHolder(p, h, v, C)

KeyStep(p) ==
  \/ CheckOther(p) \/ InsertKey(p) \/ EditKey(p)
  \/ \E b \in BOOLEAN : ToggleKey(p, b)
  \/ HasRefsTx(p) \/ SoftDeleteTx(p)

HolderStep(p) ==
  \/ ReadHolder(p) \/ WriteHolder(p) \/ ExtractOld(p) \/ ExtractNew(p)
  \/ CheckDisabledRefs(p) \/ ResolveFields(p) \/ SyncFieldRefs(p) \/ ResolveKeys(p)
  \/ Commit(p) \/ RemoveHolder(p)

Step(p) == KeyStep(p) \/ HolderStep(p)

Next ==
  \/ \E p \in Request : StartKey(p) \/ StartHolder(p) \/ Step(p) \/ Fail(p)
  \/ \E t \in NodeType : ToggleType(t)

Spec == Init /\ [][Next]_vars

-----------------------------------------------------------------------------
(* Properties *)

\* Requests wait for locks and for connections.  The locks alone stop nobody for
\* ever: when no request can go on, every connection is taken and one that has
\* a connection waits for another (BeginTxx, the plain reads beside it, HasRefsTx).
StuckOnlyByPool ==
  \/ Alone
  \/ \E p \in Request : pc[p] # "idle" /\ CanGo(p)
  \/ ~Free /\ \E p \in Request : pc[p] \in InTx /\ Reads(p)

NamesDisjoint == \A n \in Name : ~(Live(<<"fields", n>>) /\ Live(<<"runtime_bb_keys", n>>))
RefsLive == \A h \in Holder : \A k \in refs[h] : Live(k)

\* Of requests that never ran beside one another: no name is that of a field and of
\* a runtime key, and no reference is to a deleted row (Create, Delete and the
\* syncs of both services, taken together).
SoloIntegrity == solo => NamesDisjoint /\ RefsLive

Named(h) == Extract(holders[h].uses, typeOn)

\* Of such requests: when a machine or tree is written, the references that come are
\* to fields and to enabled runtime keys, each name that is new in it gets its
\* reference if there is a row, and none of a name that it keeps is lost
\* (CheckDisabledRefs, SyncFsmBBKeyRefs, SyncBtBBKeyRefs, syncRefs).
SoloAttaches ==
  [][solo' => \A h \in Holder : holders'[h].live /\ holders'[h].ver # holders[h].ver =>
       /\ \A k \in refs'[h] \ refs[h] : k[1] = "fields" \/ rows[k].enabled
       /\ \A k \in Key : Live(k) /\ k[2] \in Named(h)' \ Named(h) => k \in refs'[h]
       /\ \A k \in refs[h] : k[2] \in Named(h)' => k \in refs'[h]]_vars

\* The invariant of the proofs.

RowsOK == \A k \in Key : Unused(k) => ~Live(k)

HoldersOK == \A h \in Holder : LET r == holders[h] IN
               /\ r.uses \in Configs(h)
               /\ r.ver = 0 => ~r.live
               /\ ~r.live => r.uses = {} /\ refs[h] = {}

\* A reference is to a row that was there, and of a machine, to one it names
\* unless the row has been deleted.
RefsOK == \A h \in Holder : \A k \in refs[h] :
            ~Unused(k) /\ (h \in Fsm /\ Live(k) => k[2] \in KeysOf(holders[h].uses))

OnHolder == Writing \cup {"row", "write", "remove"}

OneWriter == \A p, q \in Request :
  p # q /\ pc[p] \in OnHolder /\ pc[q] \in OnHolder /\ job[p].holder = job[q].holder
    => ~(pc[p] \in Writing /\ pc[q] \in Writing) /\ job[p].op # "create"

\* What a request knows of its row: from the read on if the version is still that
\* of the client, and from the UPDATE on whatever happens.
HolderRead(p) ==
  LET r == holders[job[p].holder] IN
  pc[p] \in OnHolder =>
    /\ job[p].op \in {"create", "edit", "delete"}
    /\ job[p].uses \in Configs(job[p].holder) /\ job[p].old \in Configs(job[p].holder)
    /\ job[p].op = "create" => r.ver = 0 /\ job[p].ver = 0 /\ job[p].old = {}
    /\ job[p].op # "create" => r.ver > 0 /\ (r.live => job[p].ver <= r.ver)
    /\ job[p].op = "edit" /\ (pc[p] \in Writing \/ (pc[p] = "write" /\ r.live /\ r.ver = job[p].ver))
         => r.live /\ r.ver = job[p].ver /\ r.uses = job[p].old
    /\ pc[p] = "remove" <=> (job[p].op = "delete" /\ pc[p] # "row")

\* The names of a machine are those of its two configurations, and what was found
\* covers the references that are to go.
Resolved(p) ==
  LET h == job[p].holder IN
  /\ pc[p] \in {"fields", "link", "keys", "commit", "disabled"} /\ h \in Fsm =>
       job[p].before = KeysOf(job[p].old) /\ job[p].after = KeysOf(job[p].uses)
  /\ pc[p] \in {"old", "new"} => h \in Tree
  /\ pc[p] \in OnHolder \ {"link", "keys", "commit"} => job[p].found = {}
  /\ pc[p] \in OnHolder => \A k \in job[p].found : ~Unused(k) /\ k[2] \in Diff(p)
  /\ pc[p] \in {"link", "keys", "commit"} =>
       \A k \in refs[h] : k[1] = "fields" /\ k[2] \in Diff(p) /\ Live(k) => k \in job[p].found
  /\ pc[p] = "commit" =>
       \A k \in refs[h] : k[2] \in Diff(p) /\ Live(k) => k \in job[p].found

\* What is deleted was there; the share lock keeps it without references.
Unreferred(p) ==
  /\ pc[p] \in {"refs", "delete"} => ~Unused(job[p].key)
  /\ pc[p] = "delete" =>
       ~Referred(job[p].key) /\ \A q \in Request : job[p].key \notin Pending(q)

IInv == /\ TypeOK
        /\ RowsOK
        /\ HoldersOK
        /\ RefsOK
        /\ OneWriter
        /\ \A p \in Request : HolderRead(p) /\ Resolved(p) /\ Unreferred(p)

\* What a request that is alone has found, still holds.
SoloInv == solo =>
  /\ \A p, q \in Request : pc[p] # "idle" /\ pc[q] # "idle" => p = q
  /\ NamesDisjoint
  /\ RefsLive
  /\ \A p \in Request :
       /\ pc[p] = "insert" => FreeInOther(p)
       /\ pc[p] \in OnHolder => \A k \in job[p].found : Live(k)

\* What it has taken from the node types and looked up, still holds too.
SoloKnows == solo => \A p \in Request :
  /\ pc[p] \in {"row", "write"} => job[p].before = {}
  /\ pc[p] \in Writing \ {"old"} => job[p].before = Extract(job[p].old, typeOn)
  /\ pc[p] \in Writing \ {"old", "new"} => job[p].after = Extract(job[p].uses, typeOn)
  /\ pc[p] \in {"fields", "link", "keys", "commit"} => NoneDisabled(p)
  /\ pc[p] \in {"link", "keys", "commit"} => GetByNames(p, "fields") \subseteq job[p].found
  /\ pc[p] = "commit" => GetByNames(p, "runtime_bb_keys") \subseteq job[p].found

Status(k) == IF Unused(k) THEN "unused" ELSE IF Live(k) THEN "live" ELSE "deleted"

KeyTable == INSTANCE BBKeyTable
  WITH status <- [k \in Key |-> Status(k)],
       names <- [f \in Fsm |-> KeysOf(holders[f].uses)],
       refs <- refs

\* In every interleaving and with failures, the requests do what BBKeyTable promises:
\* a row that is referred to is not deleted, and the references of a machine
\* follow the names in its conditions.
ImplementsTable == KeyTable!Spec
=============================================================================
