--------------------------- MODULE ConfigRegistry ---------------------------
(***************************************************************************)
(* The configurations that name one another: state machines (FSM) name     *)
(* entries of the state dictionary, behaviour trees name node types, NPCs  *)
(* name a state machine and trees, regions name NPCs; and the exports,     *)
(* which follow those names.  The names are strings, and no foreign key    *)
(* holds them: each handler checks the neighbours by plain reads, before   *)
(* its own transaction, as concurrent requests.                            *)
(*                                                                         *)
(* The template and the fields of an NPC are in TemplateRegistry, the      *)
(* black-board keys of machines and trees are left out.                    *)
(***************************************************************************)
EXTENDS Naturals

CONSTANTS
  Word,           \* names of the state dictionary
  NodeType,       \* type_names of bt_node_types
  FSM, Tree, NPC, Region,   \* names in the other four tables
  Blank,          \* the empty string where the name of a tree is due
  Seeded,         \* the words and node types that cmd/seed has written
  Request,        \* request goroutines
  MaxVersion,     \* bound, by name: no request writes a row of this version
  Faults,         \* may a step fail (SQL error, context cancelled, crash)?
  CountMayFail    \* may the count of NPCs in a delete fail?

Item == Word \cup NodeType \cup FSM \cup Tree \cup NPC \cup Region
Name == Item \cup {Blank}

ASSUME KindAssumption ==
  /\ Word \cap (NodeType \cup FSM \cup Tree \cup NPC \cup Region) = {}
  /\ NodeType \cap (FSM \cup Tree \cup NPC \cup Region) = {}
  /\ FSM \cap (Tree \cup NPC \cup Region) = {}
  /\ Tree \cap (NPC \cup Region) = {} /\ NPC \cap Region = {}
  /\ Item # {} /\ Blank \notin Item
ASSUME SeedAssumption == Seeded \subseteq Word \cup NodeType
ASSUME BoundAssumption ==
  MaxVersion \in [Item -> Nat] /\ Faults \in BOOLEAN /\ CountMayFail \in BOOLEAN

VARIABLES
  rows,     \* the six tables; refs are the names in config_json, bt_refs, ...
  links,    \* npc_bt_refs and bt_node_type_refs, the copies of refs with an index
  pc,       \* where each request stands
  job       \* what it is about

vars == <<rows, links, pc, job>>

Row == [live : BOOLEAN, enabled : BOOLEAN, ver : Nat, refs : SUBSET Name]
NoRow == [live |-> FALSE, enabled |-> FALSE, ver |-> 0, refs |-> {}]

Op == {"none", "create", "update", "delete", "export"}
Job == [op : Op, id : Item, ver : Nat, refs : SUBSET Name]
NoJob == [op |-> "none", id |-> CHOOSE i \in Item : TRUE, ver |-> 0, refs |-> {}]

PC == {"idle", "fsm", "trees", "types", "npcs", "write", "count", "recheck",
       "remove", "export_fsm", "export_trees", "export_npcs", "deliver"}

TypeOK == /\ rows \in [Item -> Row]
          /\ links \in [Item -> SUBSET Item]
          /\ pc \in [Request -> PC]
          /\ job \in [Request -> Job]

SeedRow == [live |-> TRUE, enabled |-> TRUE, ver |-> 1, refs |-> {}]

Init == /\ rows = [i \in Item |-> IF i \in Seeded THEN SeedRow ELSE NoRow]
        /\ links = [i \in Item |-> {}]
        /\ pc = [p \in Request |-> "idle"]
        /\ job = [p \in Request |-> NoJob]

Goto(p, label) == pc' = [pc EXCEPT ![p] = label]
Finish(p) == Goto(p, "idle") /\ job' = [job EXCEPT ![p] = NoJob]

\* A check that lets the request go on, or answers it with an error.
Check(p, ok, label) == IF ok THEN Goto(p, label) /\ UNCHANGED job ELSE Finish(p)

Begin(p, op, i, v, R, label) ==
  /\ pc[p] = "idle"
  /\ job' = [job EXCEPT ![p] = [op |-> op, id |-> i, ver |-> v, refs |-> R]]
  /\ Goto(p, label)
  /\ UNCHANGED <<rows, links>>

Live(i) == rows[i].live
Usable(i) == i \in Item /\ rows[i].live /\ rows[i].enabled

-----------------------------------------------------------------------------
(* What a request may carry *)

\* validateConfig of a machine: at least one state, each with a name.  That the
\* name is in the dictionary is not asked.
Machines == SUBSET Word \ {{}}

\* A tree has a root, and each node a type.
Trees == SUBSET NodeType \ {{}}

\* ValidateBehaviorRefs: a binding of a state to a tree needs a machine.  The
\* names of the states are left out, they only refuse requests.
Behaviors == {R \in SUBSET (FSM \cup Tree \cup {Blank}) :
                /\ \A f, g \in R \cap FSM : f = g
                /\ R \subseteq FSM \/ R \cap FSM # {}}

SpawnTables == SUBSET NPC

-----------------------------------------------------------------------------
(* Creating and editing *)

\* ExistsByName and the unique key: a name is used once, deleted rows included.
Unused(i) == rows[i].ver = 0

\* Mutant: enabled rows are edited.
EditableAny(i) == Live(i)

\* getOrNotFound, and what the service refuses of the row it finds.
Editable(i) ==
  /\ Live(i)
  /\ i \in Word \cup NPC \/ ~rows[i].enabled
  /\ i \in NodeType => i \notin Seeded

Create(p, i, R, label) == Unused(i) /\ MaxVersion[i] > 0 /\ Begin(p, "create", i, 0, R, label)

\* A client sends a version it was shown: any up to the one of the row.
Update(p, i, v, R, label) ==
  /\ Editable(i)
  /\ v <= rows[i].ver /\ rows[i].ver < MaxVersion[i]
  /\ Begin(p, "update", i, v, R, label)

CreateWord(p, w) == Create(p, w, {}, "write")
UpdateWord(p, w, v) == Update(p, w, v, {}, "write")
CreateNodeType(p, t) == Create(p, t, {}, "write")
UpdateNodeType(p, t, v) == Update(p, t, v, {}, "write")
CreateFSM(p, f, R) == Create(p, f, R, "write")
UpdateFSM(p, f, v, R) == Update(p, f, v, R, "write")
CreateTree(p, b, R) == Create(p, b, R, "types")
UpdateTree(p, b, v, R) == Update(p, b, v, R, "types")
CreateNPC(p, n, R) == Create(p, n, R, "fsm")
UpdateNPC(p, n, v, R) == Update(p, n, v, R, "fsm")
CreateRegion(p, g, R) == Create(p, g, R, "npcs")
UpdateRegion(p, g, v, R) == Update(p, g, v, R, "npcs")

\* GetStateNames: the machine of an NPC is there and enabled.
GetStateNames(p) ==
  /\ pc[p] = "fsm"
  /\ Check(p, \A f \in job[p].refs \cap FSM : Usable(f), "trees")
  /\ UNCHANGED <<rows, links>>

\* Mutant: a tree need not be there.
BtTreesAny(p) == TRUE

\* CheckEnabledByNames, of the names that are not blank.
BtTreesOK(p) == \A b \in job[p].refs \cap Tree : Usable(b)

CheckBtTrees(p) ==
  /\ pc[p] = "trees"
  /\ Check(p, BtTreesOK(p), "write")
  /\ UNCHANGED <<rows, links>>

\* Mutant: a node of any type will do.
NodeTypesAny(p) == TRUE

\* ListEnabledTypes, against which each node is judged.
NodeTypesOK(p) == \A t \in job[p].refs : Usable(t)

ValidateNodes(p) ==
  /\ pc[p] = "types"
  /\ Check(p, NodeTypesOK(p), "write")
  /\ UNCHANGED <<rows, links>>

\* validateSpawnTable: the NPCs that a region spawns.
LookupByNames(p) ==
  /\ pc[p] = "npcs"
  /\ Check(p, \A n \in job[p].refs : Usable(n), "write")
  /\ UNCHANGED <<rows, links>>

\* Mutant: blank names are written too.
LinksOfAll(i, R) == IF i \in NPC THEN R \ FSM
                    ELSE IF i \in Tree THEN R \cap NodeType ELSE {}

\* What InsertBtRefsInTx and SyncNodeTypeRefsTx write: blank names left out.
LinksOf(i, R) == IF i \in NPC THEN R \cap Tree
                 ELSE IF i \in Tree THEN R \cap NodeType ELSE {}

\* Mutant: UPDATE without AND version = ?
VersionMatchesAny(p) == Live(job[p].id)

\* WHERE id = ? AND version = ? AND deleted = 0
VersionMatches(p) == Live(job[p].id) /\ rows[job[p].id].ver = job[p].ver

\* The transaction of the row and of its links.  Words, node types and NPCs are
\* enabled from the start.
Insert(p) ==
  LET i == job[p].id IN
  /\ pc[p] = "write" /\ job[p].op = "create"
  /\ IF Unused(i)
     THEN /\ rows' = [rows EXCEPT ![i] =
                        [live |-> TRUE, enabled |-> i \in Word \cup NodeType \cup NPC,
                         ver |-> 1, refs |-> job[p].refs]]
          /\ links' = [links EXCEPT ![i] = LinksOf(i, job[p].refs)]
     ELSE UNCHANGED <<rows, links>>
  /\ Finish(p)

Overwrite(p) ==
  LET i == job[p].id IN
  /\ pc[p] = "write" /\ job[p].op = "update"
  /\ IF VersionMatches(p)
     THEN /\ rows' = [rows EXCEPT ![i].refs = job[p].refs, ![i].ver = @ + 1]
          /\ links' = [links EXCEPT ![i] = LinksOf(i, job[p].refs)]
     ELSE UNCHANGED <<rows, links>>
  /\ Finish(p)

\* One UPDATE by version, of any kind; nobody that names the item is asked.
ToggleEnabled(p, i, b) ==
  /\ pc[p] = "idle"
  /\ Live(i) /\ rows[i].ver < MaxVersion[i]
  /\ rows' = [rows EXCEPT ![i].enabled = b, ![i].ver = @ + 1]
  /\ UNCHANGED <<links, pc, job>>

-----------------------------------------------------------------------------
(* Deleting *)

Removable(i) == Live(i) /\ ~rows[i].enabled /\ (i \in NodeType => i \notin Seeded)

Delete(p, i, label) == Removable(i) /\ Begin(p, "delete", i, 0, {}, label)

DeleteWord(p, w) == Delete(p, w, "count")
DeleteNodeType(p, t) == Delete(p, t, "count")
DeleteFSM(p, f) == Delete(p, f, "count")
DeleteTree(p, b) == Delete(p, b, "count")
\* Nobody asks which regions spawn the NPC.
DeleteNPC(p, n) == Delete(p, n, "recheck")
DeleteRegion(p, g) == Delete(p, g, "remove")

\* Mutant: only the machines that are enabled are looked at.
EnabledFsmConfigs(w) == {f \in FSM : Usable(f) /\ w \in rows[f].refs}

ListFsmConfigsReferencingState(w) == {f \in FSM : Live(f) /\ w \in rows[f].refs}
CountByFsmRef(f) == {n \in NPC : Live(n) /\ f \in rows[n].refs}

CountByBtTreeName(b) == {n \in NPC : Live(n) /\ b \in links[n]}
GetNodeTypeUsages(t) == {b \in Tree : Live(b) /\ t \in links[b]}

Users(i) == IF i \in Word THEN ListFsmConfigsReferencingState(i)
            ELSE IF i \in NodeType THEN GetNodeTypeUsages(i)
            ELSE IF i \in FSM THEN CountByFsmRef(i) ELSE CountByBtTreeName(i)

\* The handlers of machines and trees drop the error of the count, and read 0.
CountUsers(p) ==
  LET i == job[p].id IN
  /\ pc[p] = "count"
  /\ \/ Check(p, Users(i) = {}, IF i \in Word \cup NodeType THEN "remove" ELSE "recheck")
     \/ CountMayFail /\ i \in FSM \cup Tree /\ Goto(p, "recheck") /\ UNCHANGED job
  /\ UNCHANGED <<rows, links>>

\* SoftDelete(InTx) reads the row again.
Recheck(p) ==
  /\ pc[p] = "recheck"
  /\ Check(p, Removable(job[p].id), "remove")
  /\ UNCHANGED <<rows, links>>

\* WHERE id = ? AND deleted = 0, whatever the version, enabled or not.
Remove(p) ==
  LET i == job[p].id IN
  /\ pc[p] = "remove"
  /\ IF Live(i) THEN /\ rows' = [rows EXCEPT ![i].live = FALSE]
                     /\ links' = [links EXCEPT ![i] = {}]
     ELSE UNCHANGED <<rows, links>>
  /\ Finish(p)

-----------------------------------------------------------------------------
(* Exports, each query a statement of its own *)

\* ExportRows and CollectExportRefs: the names in the rows that are enabled.
NamesIn(Kind) == UNION {rows[i].refs : i \in {j \in Kind : Usable(j)}}

ExportNPCs(p) == Begin(p, "export", NoJob.id, 0, NamesIn(NPC), "export_fsm")
ExportRegions(p) == Begin(p, "export", NoJob.id, 0, NamesIn(Region), "export_npcs")

ExportCheckFSM(p) ==
  /\ pc[p] = "export_fsm"
  /\ Check(p, \A f \in job[p].refs \cap FSM : Usable(f), "export_trees")
  /\ UNCHANGED <<rows, links>>

\* Mutant: a tree need only be there.
ExportTreesLive(p) == \A b \in job[p].refs \ FSM : b \in Tree /\ Live(b)

\* A blank name is asked for like any other, and no tree has it.
ExportTreesOK(p) == \A b \in job[p].refs \ FSM : Usable(b)

ExportCheckTrees(p) ==
  /\ pc[p] = "export_trees"
  /\ Check(p, ExportTreesOK(p), "deliver")
  /\ UNCHANGED <<rows, links>>

ExportCheckNPCs(p) ==
  /\ pc[p] = "export_npcs"
  /\ Check(p, \A n \in job[p].refs : Usable(n), "deliver")
  /\ UNCHANGED <<rows, links>>

Deliver(p) == pc[p] = "deliver" /\ Finish(p) /\ UNCHANGED <<rows, links>>

\* A statement fails or the process dies: the open transaction is rolled back.
Fail(p) == /\ Faults /\ pc[p] # "idle"
           /\ Finish(p)
           /\ UNCHANGED <<rows, links>>

-----------------------------------------------------------------------------
Versions(i) == 1..MaxVersion[i]

Write(p) ==
  \/ \E w \in Word : CreateWord(p, w) \/ \E v \in Versions(w) : UpdateWord(p, w, v)
  \/ \E t \in NodeType :
       CreateNodeType(p, t) \/ \E v \in Versions(t) : UpdateNodeType(p, t, v)
  \/ \E f \in FSM, R \in Machines :
       CreateFSM(p, f, R) \/ \E v \in Versions(f) : UpdateFSM(p, f, v, R)
  \/ \E b \in Tree, R \in Trees :
       CreateTree(p, b, R) \/ \E v \in Versions(b) : UpdateTree(p, b, v, R)
  \/ \E n \in NPC, R \in Behaviors :
       CreateNPC(p, n, R) \/ \E v \in Versions(n) : UpdateNPC(p, n, v, R)
  \/ \E g \in Region, R \in SpawnTables :
       CreateRegion(p, g, R) \/ \E v \in Versions(g) : UpdateRegion(p, g, v, R)
  \/ GetStateNames(p) \/ CheckBtTrees(p) \/ ValidateNodes(p) \/ LookupByNames(p)
  \/ Insert(p) \/ Overwrite(p)
  \/ \E i \in Item, b \in BOOLEAN : ToggleEnabled(p, i, b)

Drop(p) ==
  \/ \E w \in Word : DeleteWord(p, w)
  \/ \E t \in NodeType : DeleteNodeType(p, t)
  \/ \E f \in FSM : DeleteFSM(p, f)
  \/ \E b \in Tree : DeleteTree(p, b)
  \/ \E n \in NPC : DeleteNPC(p, n)
  \/ \E g \in Region : DeleteRegion(p, g)
  \/ CountUsers(p) \/ Recheck(p) \/ Remove(p)

Export(p) ==
  \/ ExportNPCs(p) \/ ExportRegions(p)
  \/ ExportCheckFSM(p) \/ ExportCheckTrees(p) \/ ExportCheckNPCs(p)
  \/ Deliver(p)

Next == \E p \in Request : Write(p) \/ Drop(p) \/ Export(p) \/ Fail(p)

Spec == Init /\ [][Next]_vars

-----------------------------------------------------------------------------
(* Properties *)

\* What an enabled machine, tree or region names does not change, although
\* enabled is tested on a row that is read long before the row is written.
EditsOnlyDisabled ==
  [][\A i \in FSM \cup Tree \cup Region :
       Usable(i) => rows'[i].refs = rows[i].refs]_vars

\* One request at a time and no error dropped: the machine and the trees of an
\* NPC, and the node types of a tree, are not deleted.  The words of a machine
\* and the NPCs of a region may be: nobody checks the former when the machine is
\* written, nor the latter when the NPC is deleted.
SerialIntegrity ==
  /\ \A n \in NPC : Live(n) => \A x \in rows[n].refs \ {Blank} : Live(x)
  /\ \A b \in Tree : Live(b) => \A t \in rows[b].refs : Live(t)

\* One request at a time and no error dropped: a word, a node type, a machine or
\* a tree is deleted only while no row that is not deleted names it.
DeletesOnlyUnnamed ==
  [][\A i \in Word \cup NodeType \cup FSM \cup Tree :
       Live(i) /\ ~rows'[i].live => \A j \in Item : Live(j) => i \notin rows[j].refs]_vars

\* One request at a time: an export that is delivered is complete, and whatever it
\* names is there and enabled, so that the game server finds it.
ExportSound ==
  \A p \in Request : pc[p] = "deliver" =>
    /\ job[p].refs \in {NamesIn(NPC), NamesIn(Region)}
    /\ \A x \in job[p].refs : Usable(x)

-----------------------------------------------------------------------------
(* The inductive invariant of any number of requests *)

\* A name not yet used has no row.
RowsOK == \A i \in Item : rows[i].ver = 0 => rows[i] = NoRow

\* Which row may name what.
MayName(i) == IF i \in FSM THEN Word ELSE IF i \in Tree THEN NodeType
              ELSE IF i \in NPC THEN FSM \cup Tree \cup {Blank}
              ELSE IF i \in Region THEN NPC ELSE {}

Shape == /\ \A i \in Item : rows[i].refs \subseteq MayName(i)
         /\ \A p \in Request : job[p].op \in {"create", "update"} =>
              job[p].refs \subseteq MayName(job[p].id)

\* npc_bt_refs and bt_node_type_refs are what the rows say.
LinksMatch ==
  \A i \in Item : links[i] = IF Live(i) THEN LinksOf(i, rows[i].refs) ELSE {}

\* An update is pending on the row it was judged on, or on a later version.
Pending ==
  \A p \in Request : job[p].op = "update" =>
    LET i == job[p].id IN
    /\ job[p].ver <= rows[i].ver
    /\ i \in FSM \cup Tree \cup Region /\ job[p].ver = rows[i].ver => ~rows[i].enabled

IInv == TypeOK /\ RowsOK /\ Shape /\ LinksMatch /\ Pending

-----------------------------------------------------------------------------
(* The inductive invariant of one request at a time *)

\* What the checks of a request that writes have found, and still holds.
Found(p) ==
  LET j == job[p] IN
  /\ pc[p] \in {"fsm", "trees", "types", "npcs", "write"} => j.op \in {"create", "update"}
  /\ pc[p] \in {"fsm", "trees"} => j.id \in NPC
  /\ pc[p] = "types" => j.id \in Tree
  /\ pc[p] = "trees" => \A f \in j.refs \cap FSM : Live(f)
  /\ pc[p] = "write" /\ j.id \in NPC => \A x \in j.refs \ {Blank} : Live(x)
  /\ pc[p] = "write" /\ j.id \in Tree => \A t \in j.refs : Live(t)

\* What the count of a delete has found, and still holds.
Unnamed(p) ==
  LET i == job[p].id IN
  pc[p] \in {"recheck", "remove"} /\ i \in Word \cup NodeType \cup FSM \cup Tree =>
    \A j \in Item : Live(j) => i \notin rows[j].refs

\* What an export has read, and still holds.
Exporting(p) ==
  LET R == job[p].refs IN
  /\ pc[p] \in {"export_fsm", "export_trees"} => R = NamesIn(NPC)
  /\ pc[p] = "export_npcs" => R = NamesIn(Region)
  /\ pc[p] = "export_trees" => \A f \in R \cap FSM : Usable(f)

SerialInv ==
  /\ SerialIntegrity /\ ExportSound
  /\ \A p \in Request : Found(p) /\ Unnamed(p) /\ Exporting(p)
=============================================================================
