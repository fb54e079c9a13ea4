-------------------------------- MODULE Seed --------------------------------
(***************************************************************************)
(* The seed command: one statement after another, each committed by        *)
(* itself, writes the fixtures of an installation, and is run again when   *)
(* it stops half-way, while operators work on the same tables.             *)
(*                                                                         *)
(* A fixture is a name.  The unique key of its table covers deleted rows,  *)
(* so a name stands for one row for ever.  Names[r] has the fixtures that  *)
(* row r names; the black-board keys in machines and trees are not among   *)
(* them, since nothing here resolves those to rows (and the seed writes    *)
(* the keys after the machines), nor the category of a state, which is     *)
(* free text.  The order inside a group is any.                            *)
(***************************************************************************)
EXTENDS Naturals, Sequences, FiniteSets

CONSTANTS
  Row,         \* the fixtures
  StageOf,     \* the statement group that writes each
  Names,       \* the fixtures that each names
  Category,    \* categories of states that had a Chinese name once
  MaxCrashes,  \* bound on runs that are cut off: timeout, lost connection, crash
  MaxEdits     \* bound on what operators do

\* Mutant: the trees are written after the NPCs.
StagesTreesLate == <<"dictionaries", "fsm_state_dicts", "old_dictionaries", "old_states",
                     "bt_node_types", "fsm_configs", "event_types", "fields", "templates", "npcs",
                     "bt_trees", "runtime_bb_keys", "region_types", "regions">>

\* The order of main.
Stages == <<"dictionaries", "fsm_state_dicts", "old_dictionaries", "old_states", "bt_node_types",
            "fsm_configs", "bt_trees", "event_types", "fields", "templates", "npcs",
            "runtime_bb_keys", "region_types", "regions">>

\* Which columns name rows of which group.
Columns == {<<"fields", "dictionaries">>, <<"bt_trees", "bt_node_types">>,
            <<"templates", "fields">>, <<"npcs", "fields">>, <<"npcs", "templates">>,
            <<"npcs", "fsm_configs">>, <<"npcs", "bt_trees">>,
            <<"regions", "npcs">>, <<"regions", "region_types">>}

Group == {"dictionaries", "fsm_state_dicts", "bt_node_types", "fsm_configs", "bt_trees",
          "event_types", "fields", "templates", "npcs", "runtime_bb_keys", "region_types", "regions"}

ASSUME FixtureAssumption ==
  /\ StageOf \in [Row -> Group]
  /\ Names \in [Row -> SUBSET Row]
  /\ \A r \in Row : \A x \in Names[r] : <<StageOf[r], StageOf[x]>> \in Columns
  /\ Row \cap Category = {}
ASSUME BoundAssumption == MaxCrashes \in Nat /\ MaxEdits \in Nat

VARIABLES
  status,   \* of each fixture: not there, live, or deleted = 1
  byHand,   \* the rows an operator has written
  links,    \* field_refs of templates and npc_bt_refs: <<r, x>> for the row x that r refers to
  oldDict,  \* the categories whose Chinese entry is in dictionaries
  oldState, \* the categories that states have by their Chinese name
  run,      \* the seed command: not started or cut off, running, ended with an error, or well
  stage,    \* the group it writes
  todo,     \* what of the group is not written yet
  maps,     \* the id maps it has read for this group
  ids,      \* what they hold
  at,       \* the statement that comes next for row cur
  cur,
  left,     \* the references of that row that are not inserted yet
  crashes, edits

tables == <<status, byHand, links, oldDict, oldState>>
command == <<run, stage, todo, maps, ids, at, cur, left>>
vars == <<tables, command, crashes, edits>>

In(g) == {r \in Row : StageOf[r] = g}
Live(r) == status[r] = "live"
Deleted(r) == status[r] = "deleted"

TypeOK ==
  /\ status \in [Row -> {"none", "live", "deleted"}]
  /\ byHand \subseteq Row
  /\ links \subseteq Row \X Row
  /\ oldDict \subseteq Category /\ oldState \subseteq Category
  /\ run \in {"off", "on", "failed", "done"}
  /\ stage \in 1..Len(Stages)
  /\ todo \subseteq Row \cup Category
  /\ maps \subseteq {"fields", "templates"}
  /\ ids \subseteq Row
  /\ at \in {"next", "insert", "select", "link"}
  /\ cur \subseteq Row
  /\ left \subseteq Row
  /\ crashes \in 0..MaxCrashes /\ edits \in 0..MaxEdits

\* The rows whose references the seed keeps in a table of their own: a
\* template's fields, an NPC's trees.
Linked == {<<"templates", "fields">>, <<"npcs", "bt_trees">>}
Links(r) == {x \in Names[r] : <<StageOf[r], StageOf[x]>> \in Linked}
\* The rows it looks up by name before it writes one.
LookedUp(r) == {x \in Names[r] : StageOf[x] \in {"fields", "templates"}}

Work(g) == IF g \in {"old_dictionaries", "old_states"} THEN Category ELSE In(g)

\* A new installation, or one seeded when categories had Chinese names.
Init == /\ \E old \in SUBSET In("fsm_state_dicts") :
             /\ status = [r \in Row |-> IF r \in old THEN "live" ELSE "none"]
             /\ oldState \in SUBSET (IF old = {} THEN {} ELSE Category)
        /\ oldDict \in SUBSET Category
        /\ byHand = {} /\ links = {}
        /\ run = "off" /\ stage = 1 /\ todo = {} /\ maps = {} /\ ids = {}
        /\ at = "next" /\ cur = {} /\ left = {}
        /\ crashes = 0 /\ edits = 0

-----------------------------------------------------------------------------
(* The seed command *)

Doing(g) == run = "on" /\ Stages[stage] = g

Enter(i) == /\ stage' = i /\ todo' = Work(Stages[i]) /\ maps' = {} /\ ids' = {}
            /\ at' = "next" /\ cur' = {} /\ left' = {}

\* os.Exit: what was written stays.
Stop(result) == /\ run' = result /\ stage' = 1 /\ todo' = {} /\ maps' = {} /\ ids' = {}
                /\ at' = "next" /\ cur' = {} /\ left' = {}

Start == /\ run # "on" /\ run' = "on" /\ Enter(1)
         /\ UNCHANGED <<tables, crashes, edits>>

NextStage == /\ run = "on" /\ todo = {} /\ at = "next"
             /\ IF stage = Len(Stages) THEN Stop("done")
                ELSE Enter(stage + 1) /\ UNCHANGED run
             /\ UNCHANGED <<tables, crashes, edits>>

\* INSERT IGNORE: a name that is taken, by a deleted row too, is passed over.
InsertIgnore(rows) == status' = [r \in Row |-> IF r \in rows /\ status[r] = "none" THEN "live"
                                               ELSE status[r]]

\* One statement writes all entries.
BatchCreate == /\ Doing("dictionaries") /\ todo # {}
               /\ InsertIgnore(In("dictionaries")) /\ todo' = {}
               /\ UNCHANGED <<byHand, links, oldDict, oldState, run, stage, maps, ids, at, cur, left,
                              crashes, edits>>

\* A loop of INSERT IGNOREs.
Insert(g) == /\ Doing(g)
             /\ \E r \in todo : InsertIgnore({r}) /\ todo' = todo \ {r}
             /\ UNCHANGED <<byHand, links, oldDict, oldState, run, stage, maps, ids, at, cur, left,
                            crashes, edits>>

seedFsmStateDicts == Insert("fsm_state_dicts")
seedFsmConfigs == Insert("fsm_configs")
seedBtTrees == Insert("bt_trees")
seedEventTypes == Insert("event_types")
seedFields == Insert("fields")
seedRuntimeBbKeys == Insert("runtime_bb_keys")
seedRegionTypeDict == Insert("region_types")
seedRegions == Insert("regions")

\* migrateFsmStateCategoryToEnglish: its two loops.
DeleteOldDict == /\ Doing("old_dictionaries")
                 /\ \E c \in todo : oldDict' = oldDict \ {c} /\ todo' = todo \ {c}
                 /\ UNCHANGED <<status, byHand, links, oldState, run, stage, maps, ids, at, cur, left,
                                crashes, edits>>
RenameOldState == /\ Doing("old_states")
                  /\ \E c \in todo : oldState' = oldState \ {c} /\ todo' = todo \ {c}
                  /\ UNCHANGED <<status, byHand, links, oldDict, run, stage, maps, ids, at, cur, left,
                                 crashes, edits>>

\* Mutant: no check before the plain INSERT of a node type.
CountNothing == /\ Doing("bt_node_types") /\ at = "next"
                /\ \E r \in todo : todo' = todo \ {r} /\ at' = "insert" /\ cur' = {r}
                /\ UNCHANGED <<tables, run, stage, maps, ids, left, crashes, edits>>

\* seedBtNodeTypes: a plain INSERT of a type that no live row has.
CountNodeType == /\ Doing("bt_node_types") /\ at = "next"
                 /\ \E r \in todo :
                      /\ todo' = todo \ {r}
                      /\ IF Live(r) THEN UNCHANGED <<at, cur>> ELSE at' = "insert" /\ cur' = {r}
                 /\ UNCHANGED <<tables, run, stage, maps, ids, left, crashes, edits>>

InsertNodeType == /\ Doing("bt_node_types") /\ at = "insert"
                  /\ \E r \in cur :
                       IF status[r] = "none"
                       THEN /\ InsertIgnore({r}) /\ at' = "next" /\ cur' = {}
                            /\ UNCHANGED <<run, stage, todo, maps, ids, left>>
                       ELSE Stop("failed") /\ UNCHANGED status
                  /\ UNCHANGED <<byHand, links, oldDict, oldState, crashes, edits>>

\* The ids of the live rows, read once for the group.
LoadMap(g) == /\ g \notin maps /\ maps' = maps \cup {g}
              /\ ids' = ids \cup {r \in In(g) : Live(r)}
              /\ UNCHANGED <<tables, run, stage, todo, at, cur, left, crashes, edits>>

loadFieldIDMap == (Doing("templates") \/ Doing("npcs")) /\ LoadMap("fields")
loadTemplateIDMap == Doing("npcs") /\ "fields" \in maps /\ LoadMap("templates")

Loaded == maps = IF Stages[stage] = "npcs" THEN {"fields", "templates"} ELSE {"fields"}

\* Mutant: the references are written with a new row only.
InsertNamedOnce(g) == /\ Doing(g) /\ Loaded /\ at = "next"
                      /\ \E r \in todo :
                           IF LookedUp(r) \subseteq ids
                           THEN /\ InsertIgnore({r}) /\ todo' = todo \ {r}
                                /\ IF status[r] = "none" THEN at' = "select" /\ cur' = {r}
                                   ELSE UNCHANGED <<at, cur>>
                                /\ UNCHANGED <<run, stage, maps, ids, left>>
                           ELSE Stop("failed") /\ UNCHANGED status
                      /\ UNCHANGED <<byHand, links, oldDict, oldState, crashes, edits>>

InsertNamed(g) == /\ Doing(g) /\ Loaded /\ at = "next"
                  /\ \E r \in todo :
                       IF LookedUp(r) \subseteq ids
                       THEN /\ InsertIgnore({r}) /\ at' = "select" /\ cur' = {r}
                            /\ todo' = todo \ {r}
                            /\ UNCHANGED <<run, stage, maps, ids, left>>
                       ELSE Stop("failed") /\ UNCHANGED status
                  /\ UNCHANGED <<byHand, links, oldDict, oldState, crashes, edits>>

\* The id of the row, new or not: a deleted one is not found, and that is an error.
SelectNamed(g) == /\ Doing(g) /\ at = "select"
                  /\ \E r \in cur :
                       IF Live(r)
                       THEN /\ left' = Links(r)
                            /\ IF Links(r) = {} THEN at' = "next" /\ cur' = {}
                               ELSE at' = "link" /\ UNCHANGED cur
                            /\ UNCHANGED <<run, stage, todo, maps, ids>>
                       ELSE Stop("failed")
                  /\ UNCHANGED <<tables, crashes, edits>>

\* One reference after another, whether the row is new or not.
LinkNamed(g) == /\ Doing(g) /\ at = "link"
                /\ \E r \in cur, x \in left :
                     /\ links' = links \cup {<<r, x>>} /\ left' = left \ {x}
                     /\ IF left = {x} THEN at' = "next" /\ cur' = {} ELSE UNCHANGED <<at, cur>>
                /\ UNCHANGED <<status, byHand, oldDict, oldState, run, stage, todo, maps, ids,
                               crashes, edits>>

seedTemplates == InsertNamed("templates") \/ SelectNamed("templates") \/ LinkNamed("templates")
seedNPCs == InsertNamed("npcs") \/ SelectNamed("npcs") \/ LinkNamed("npcs")

seedFieldsTemplatesNPCs == \/ seedFields
                           \/ loadFieldIDMap \/ seedTemplates
                           \/ loadTemplateIDMap \/ seedNPCs

Statement == \/ BatchCreate \/ seedFsmStateDicts \/ DeleteOldDict \/ RenameOldState
             \/ CountNodeType \/ InsertNodeType
             \/ seedFsmConfigs \/ seedBtTrees \/ seedEventTypes
             \/ seedFieldsTemplatesNPCs
             \/ seedRuntimeBbKeys \/ seedRegionTypeDict \/ seedRegions
             \/ NextStage

Crash == /\ run = "on" /\ crashes < MaxCrashes
         /\ Stop("off") /\ crashes' = crashes + 1
         /\ UNCHANGED <<tables, edits>>

-----------------------------------------------------------------------------
(* Operators at the back end *)

\* dictionaries has no handler that writes it.
Editable(r) == StageOf[r] \notin {"dictionaries", "region_types"}

\* Creating a row, or changing one: it holds what the operator chose, and so do
\* its references, among the rows there are.
Write(r) == /\ Editable(r) /\ ~Deleted(r)
            /\ StageOf[r] = "bt_node_types" => status[r] = "none"
            /\ status' = [status EXCEPT ![r] = "live"]
            /\ byHand' = byHand \cup {r}
            /\ \E X \in SUBSET {x \in Links(r) : Live(x)} :
                 links' = {l \in links : l[1] # r} \cup {r} \X X
            /\ IF StageOf[r] = "fsm_state_dicts"
               THEN oldState' \in {oldState} \cup {oldState \cup {c} : c \in Category}
               ELSE UNCHANGED oldState
            /\ UNCHANGED oldDict

\* Nothing that the back end keeps a record of may name the row.
Delete(r) == /\ Editable(r) /\ Live(r)
             /\ StageOf[r] = "bt_node_types" => r \in byHand
             /\ ~ \E l \in links : l[2] = r
             /\ \A n \in Row : Live(n) /\ r \in Names[n] =>
                  n \in byHand \/ StageOf[r] \notin {"templates", "fsm_configs", "bt_node_types"}
             /\ status' = [status EXCEPT ![r] = "deleted"]
             /\ links' = {l \in links : l[1] # r}
             /\ UNCHANGED <<byHand, oldDict, oldState>>

Operate == \E r \in Row : /\ edits < MaxEdits /\ edits' = edits + 1
                          /\ Write(r) \/ Delete(r)
                          /\ UNCHANGED <<command, crashes>>

Next == Start \/ Statement \/ Crash \/ Operate

Spec == Init /\ [][Next]_vars

\* A run that has begun goes on, and one that did not end well is repeated.
FairSpec == Spec /\ WF_vars(Statement) /\ WF_vars(run # "done" /\ Start)

-----------------------------------------------------------------------------
(* Properties *)

Untouched(r) == Live(r) /\ r \notin byHand
StateByHand == \E r \in byHand : StageOf[r] = "fsm_state_dicts"

\* What the seed wrote names only rows that are there or were deleted since, at
\* every point where the command can stop: the order in main and the look-ups of
\* seedTemplates and seedNPCs ("seedFields must run first").
PrefixClosed == \A r \in Row : Untouched(r) => \A x \in Names[r] : status[x] # "none"

\* However often it was cut off before and whatever operators did meanwhile, a run
\* that ends well has left every fixture written, every reference of the rows that
\* are still the seed's, and no category by its Chinese name except where an
\* operator typed it.
DoneComplete ==
  run = "done" =>
    /\ \A r \in Row : status[r] # "none"
    /\ \A r \in Row : Untouched(r) => \A x \in Links(r) : <<r, x>> \in links
    /\ oldDict = {}
    /\ oldState = {} \/ StateByHand

\* Repeating the command ends well, unless an operator deleted a fixture of a group
\* that the seed looks up again.
Completes == []<>(run = "done" \/ \E r \in Row : /\ Deleted(r)
                                               /\ StageOf[r] \in {"bt_node_types", "fields", "templates", "npcs"})

\* The run is past the INSERT of row r.
Passed(r) ==
  \/ run = "done"
  \/ /\ run = "on"
     /\ \/ \E i \in 1..(stage - 1) : Stages[i] = StageOf[r]
        \/ Stages[stage] = StageOf[r] /\ r \notin todo /\ ~(at = "insert" /\ r \in cur)

InGroup == run = "on" => todo \subseteq Work(Stages[stage])

OneRow == \/ at = "next" /\ cur = {}
          \/ at # "next" /\ run = "on" /\ \E r \in Row : cur = {r} /\ StageOf[r] = Stages[stage]

PassedWritten == \A r \in Row : Passed(r) => status[r] # "none"

PassedLinked ==
  \A r \in Row : Passed(r) /\ Untouched(r) /\ ~(at = "select" /\ r \in cur) =>
    \A x \in Links(r) : <<r, x>> \in links \/ (at = "link" /\ r \in cur /\ x \in left)

OldGone ==
  /\ run = "done" \/ (run = "on" /\ stage > 3) => oldDict = {}
  /\ run = "on" /\ stage = 3 => oldDict \subseteq todo
  /\ run = "done" \/ (run = "on" /\ stage > 4) => oldState = {} \/ StateByHand
  /\ run = "on" /\ stage = 4 => oldState \subseteq todo \/ StateByHand

\* The inductive invariant, and why a finished run is complete: rows are there from
\* the point on where the command is past them, and so are their references.
IInv == /\ TypeOK /\ InGroup /\ OneRow /\ PassedWritten /\ PassedLinked
        /\ PrefixClosed /\ OldGone
=============================================================================
