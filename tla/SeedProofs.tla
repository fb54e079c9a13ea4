----------------------------- MODULE SeedProofs -----------------------------
(***************************************************************************)
(* Every set of fixtures, any number of crashes and of operators' edits:   *)
(* where the seed command stops, what it wrote is closed under the names   *)
(* it holds, and when it ends well nothing is missing.                     *)
(***************************************************************************)
EXTENDS Seed, TLAPS

LEMMA StagesValues ==
  /\ Len(Stages) = 14
  /\ Stages[1] = "dictionaries" /\ Stages[2] = "fsm_state_dicts" /\ Stages[3] = "old_dictionaries"
  /\ Stages[4] = "old_states" /\ Stages[5] = "bt_node_types"
  /\ Stages[6] = "fsm_configs" /\ Stages[7] = "bt_trees" /\ Stages[8] = "event_types"
  /\ Stages[9] = "fields" /\ Stages[10] = "templates" /\ Stages[11] = "npcs"
  /\ Stages[12] = "runtime_bb_keys" /\ Stages[13] = "region_types" /\ Stages[14] = "regions"
  BY DEF Stages

\* Every group has its place in the order.
LEMMA GroupsStaged == \A g \in Group : \E i \in 1..14 : Stages[i] = g
  BY StagesValues, SMTT(30) DEF Group

\* A group comes after the groups that its columns name.
LEMMA NamesEarlier ==
  ASSUME NEW i \in 1..14, NEW c \in Columns, Stages[i] = c[1]
  PROVE  \E j \in 1..(i - 1) : Stages[j] = c[2]
<1>1. i = 1 \/ i = 2 \/ i = 3 \/ i = 4 \/ i = 5 \/ i = 6 \/ i = 7 \/ i = 8 \/ i = 9 \/ i = 10
      \/ i = 11 \/ i = 12 \/ i = 13 \/ i = 14
  OBVIOUS
<1>2. \/ i = 9 /\ c[2] = "dictionaries"
      \/ i = 7 /\ c[2] = "bt_node_types"
      \/ i = 10 /\ c[2] = "fields"
      \/ i = 11 /\ c[2] \in {"fields", "templates", "fsm_configs", "bt_trees"}
      \/ i = 14 /\ c[2] \in {"npcs", "region_types"}
  BY <1>1, StagesValues, SMTT(60) DEF Columns
<1> QED  BY <1>2, StagesValues, SMTT(60)

\* While the command writes the group of r, it is past what r names.
LEMMA NamesPassed ==
  ASSUME TypeOK, run = "on", NEW r \in Row, StageOf[r] = Stages[stage], NEW x \in Names[r]
  PROVE  x \in Row /\ Passed(x)
<1>1. x \in Row /\ <<StageOf[r], StageOf[x]>> \in Columns
  BY FixtureAssumption
<1>2. stage \in 1..14
  BY StagesValues DEF TypeOK
<1>3. \E j \in 1..(stage - 1) : Stages[j] = StageOf[x]
  BY <1>1, <1>2, NamesEarlier
<1> QED  BY <1>1, <1>3 DEF Passed

\* Only templates and NPCs have references of their own.
LEMMA NoLinks ==
  ASSUME NEW r \in Row, StageOf[r] \notin {"templates", "npcs"}
  PROVE  Links(r) = {}
  BY DEF Links, Linked

LEMMA LinksNamed ==
  ASSUME NEW r \in Row
  PROVE  Links(r) \subseteq Names[r] /\ Links(r) \subseteq Row
  BY FixtureAssumption DEF Links

\* INSERT IGNORE writes every row it is given and changes no other.
LEMMA InsertIgnored ==
  ASSUME TypeOK, NEW rows, InsertIgnore(rows)
  PROVE  /\ status' \in [Row -> {"none", "live", "deleted"}]
         /\ \A r \in Row : /\ r \in rows => status'[r] # "none"
                           /\ status[r] # "none" \/ r \notin rows => status'[r] = status[r]
  BY DEF TypeOK, InsertIgnore

-----------------------------------------------------------------------------
\* Inserting rows of the group that the command is at keeps what it wrote closed.
LEMMA InsertClosed ==
  ASSUME IInv, run = "on", NEW rows, rows \cap Row \subseteq In(Stages[stage]), InsertIgnore(rows),
         UNCHANGED byHand
  PROVE  PrefixClosed'
<1> SUFFICES ASSUME NEW r \in Row, Untouched(r)', NEW x \in Names[r]
             PROVE  status'[x] # "none"
  BY DEF PrefixClosed
<1>1. x \in Row
  BY FixtureAssumption
<1>2. CASE status'[r] = status[r]
  <2>1. status[x] # "none"
    BY <1>2 DEF IInv, PrefixClosed, Untouched, Live
  <2> QED  BY <2>1, <1>1, InsertIgnored DEF IInv
<1>3. CASE status'[r] # status[r]
  <2>1. StageOf[r] = Stages[stage]
    BY <1>3, InsertIgnored DEF IInv, In
  <2>2. Passed(x)
    BY <2>1, NamesPassed DEF IInv
  <2>3. status[x] # "none"
    BY <2>2, <1>1 DEF IInv, PassedWritten
  <2> QED  BY <2>3, <1>1, InsertIgnored DEF IInv
<1> QED  BY <1>2, <1>3

\* So does anything that writes no row.
LEMMA ClosedSame ==
  ASSUME IInv, UNCHANGED <<status, byHand>>
  PROVE  PrefixClosed'
  BY DEF IInv, PrefixClosed, Untouched, Live

\* The two migrations are behind the groups after them.
LEMMA OldSame ==
  ASSUME IInv, UNCHANGED <<run, stage, oldDict, oldState, byHand>>,
         stage \in {3, 4} => UNCHANGED todo
  PROVE  OldGone'
  BY DEF IInv, OldGone, StateByHand

-----------------------------------------------------------------------------
(* Steps *)

LEMMA InitHolds == Init => IInv
<1> SUFFICES ASSUME Init PROVE IInv
  OBVIOUS
<1>1. TypeOK
  BY BoundAssumption, StagesValues DEF Init, TypeOK, In
<1>2. InGroup /\ OneRow /\ PassedWritten /\ PassedLinked /\ OldGone
  BY DEF Init, InGroup, OneRow, PassedWritten, PassedLinked, Passed, OldGone
<1>3. PrefixClosed
  <2> SUFFICES ASSUME NEW r \in Row, Untouched(r), NEW x \in Names[r] PROVE FALSE
    BY DEF PrefixClosed
  <2>1. StageOf[r] = "fsm_state_dicts"
    BY DEF Init, Untouched, Live, In
  <2> QED  BY <2>1, FixtureAssumption DEF Columns
<1> QED  BY <1>1, <1>2, <1>3 DEF IInv

\* Nothing is known of a run that has not begun, stopped, or is about to begin.
LEMMA StopHolds ==
  ASSUME IInv, NEW result \in {"off", "failed"}, Stop(result), UNCHANGED tables,
         crashes' \in 0..MaxCrashes, UNCHANGED edits
  PROVE  IInv'
<1>1. TypeOK'
  BY StagesValues DEF IInv, TypeOK, Stop, tables
<1>2. InGroup' /\ OneRow' /\ PassedWritten' /\ PassedLinked' /\ OldGone'
  BY DEF Stop, InGroup, OneRow, PassedWritten, PassedLinked, Passed, OldGone
<1> QED  BY <1>1, <1>2, ClosedSame DEF IInv, tables

LEMMA EnterTypes ==
  ASSUME TypeOK, NEW i \in 1..14, Enter(i), run' \in {"off", "on", "failed", "done"},
         UNCHANGED <<tables, crashes, edits>>
  PROVE  TypeOK'
<1>1. stage' = i /\ todo' \subseteq Row \cup Category
  BY DEF Enter, Work, In
<1>2. maps' = {} /\ ids' = {} /\ at' = "next" /\ cur' = {} /\ left' = {}
  BY DEF Enter
<1>3. UNCHANGED <<status, byHand, links, oldDict, oldState, crashes, edits>>
  BY DEF tables
<1>4. i \in 1..Len(Stages)
  BY StagesValues
<1>5. (status \in [Row -> {"none", "live", "deleted"}] /\ byHand \subseteq Row
       /\ links \subseteq Row \X Row)'
  BY <1>3 DEF TypeOK
<1>6. (oldDict \subseteq Category /\ oldState \subseteq Category /\ crashes \in 0..MaxCrashes
       /\ edits \in 0..MaxEdits)'
  BY <1>3 DEF TypeOK
<1>7. (stage \in 1..Len(Stages) /\ todo \subseteq Row \cup Category
       /\ maps \subseteq {"fields", "templates"})'
  BY <1>1, <1>2, <1>4
<1>8. (ids \subseteq Row /\ at \in {"next", "insert", "select", "link"} /\ cur \subseteq Row
       /\ left \subseteq Row)'
  BY <1>2
<1> QED  BY <1>5, <1>6, <1>7, <1>8 DEF TypeOK

LEMMA StartHolds ==
  ASSUME IInv, Start
  PROVE  IInv'
<1>1. TypeOK'
  BY EnterTypes DEF IInv, Start
<1>2. \A r \in Row : ~Passed(r)'
  BY StagesValues DEF Start, Enter, Passed, Work, In
<1>3. InGroup' /\ OneRow' /\ PassedWritten' /\ PassedLinked' /\ OldGone'
  BY <1>2 DEF Start, Enter, InGroup, OneRow, PassedWritten, PassedLinked, OldGone
<1> QED  BY <1>1, <1>3, ClosedSame DEF IInv, Start, tables

LEMMA NextStageHolds ==
  ASSUME IInv, NextStage
  PROVE  IInv'
<1>0. stage \in 1..14 /\ run = "on" /\ todo = {} /\ at = "next" /\ cur = {}
  BY StagesValues DEF IInv, TypeOK, NextStage, OneRow
<1>1. CASE stage = Len(Stages)
  <2>0. Stop("done") /\ UNCHANGED <<status, byHand, links, oldDict, oldState, crashes, edits>>
    BY <1>1 DEF NextStage, tables
  <2>1. TypeOK'
    BY <2>0, StagesValues DEF IInv, TypeOK, Stop
  <2>2. \A r \in Row : Passed(r)
    <3> SUFFICES ASSUME NEW r \in Row PROVE Passed(r)
      OBVIOUS
    <3>1. PICK i \in 1..14 : Stages[i] = StageOf[r]
      BY GroupsStaged, FixtureAssumption
    <3> QED  BY <3>1, <1>0, <1>1, StagesValues DEF Passed
  <2>3. PassedWritten'
    BY <2>2 DEF IInv, PassedWritten, NextStage, tables
  <2>4. PassedLinked'
    BY <2>0, <2>2, <1>0 DEF IInv, PassedLinked, Untouched, Live
  <2>5. InGroup' /\ OneRow' /\ OldGone'
    BY <2>0, <1>0, <1>1, StagesValues DEF IInv, Stop, InGroup, OneRow, OldGone, StateByHand
  <2> QED  BY <2>1, <2>3, <2>4, <2>5, ClosedSame DEF IInv, NextStage, tables
<1>2. CASE stage # Len(Stages)
  <2>0. stage + 1 \in 1..14 /\ Enter(stage + 1) /\ run' = "on"
    BY <1>0, <1>2, StagesValues DEF NextStage
  <2>1. TypeOK'
    BY <2>0, EnterTypes DEF IInv, NextStage
  <2>2. \A r \in Row : Passed(r)' => Passed(r)
    <3> SUFFICES ASSUME NEW r \in Row, Passed(r)' PROVE Passed(r)
      OBVIOUS
    <3>0. stage' = stage + 1 /\ todo' = Work(Stages[stage + 1]) /\ StageOf[r] \in Group
      BY <2>0, FixtureAssumption DEF Enter
    <3>1. StageOf[r] = Stages[stage + 1] => r \in todo'
      BY <3>0 DEF Work, In, Group
    <3>2. PICK i \in 1..(stage + 1 - 1) : Stages[i] = StageOf[r]
      <4>1. run' # "done" /\ ~(Stages[stage'] = StageOf[r] /\ r \notin todo')
        BY <3>0, <3>1, <2>0
      <4>2. \E i \in 1..(stage' - 1) : Stages[i] = StageOf[r]
        BY <4>1 DEF Passed
      <4> QED  BY <4>2, <3>0, <1>0
    <3>3. i = stage \/ i \in 1..(stage - 1)
      BY <1>0
    <3> QED  BY <3>2, <3>3, <1>0 DEF Passed
  <2>3. PassedWritten'
    BY <2>2 DEF IInv, PassedWritten, NextStage, tables
  <2>4. PassedLinked'
    BY <2>2, <1>0 DEF IInv, PassedLinked, NextStage, tables, Untouched, Live
  <2>5. InGroup' /\ OneRow'
    BY <2>0 DEF Enter, InGroup, OneRow
  <2>6. OldGone'
    <3>1. stage' = stage + 1 /\ todo' = Work(Stages[stage + 1]) /\ UNCHANGED <<oldDict, oldState, byHand>>
      BY <2>0 DEF Enter, NextStage, tables
    <3>2. oldDict \subseteq Category /\ oldState \subseteq Category
      BY DEF IInv, TypeOK
    <3>3. stage + 1 \in {3, 4} => todo' = Category
      BY <3>1, StagesValues, <1>0 DEF Work
    <3> QED  BY <3>1, <3>2, <3>3, <1>0, <2>0 DEF IInv, OldGone, StateByHand
  <2> QED  BY <2>1, <2>3, <2>4, <2>5, <2>6, ClosedSame DEF IInv, NextStage, tables
<1> QED  BY <1>1, <1>2

\* A statement that inserts rows of the group, if only those are newly behind it.
LEMMA WrittenKept ==
  ASSUME IInv, NEW rows, InsertIgnore(rows), \A r \in Row : Passed(r)' => Passed(r) \/ r \in rows
  PROVE  PassedWritten'
  BY InsertIgnored DEF IInv, PassedWritten

LEMMA WrittenSame ==
  ASSUME IInv, UNCHANGED status, \A r \in Row : Passed(r)' => Passed(r)
  PROVE  PassedWritten'
  BY DEF IInv, PassedWritten

\* Neither statement touches the references of rows that were behind it.
LEMMA LinkedKept ==
  ASSUME IInv, NEW rows, InsertIgnore(rows), UNCHANGED <<byHand, links>>, at' # "link", at # "link",
         \A r \in Row : Passed(r)' /\ ~(at' = "select" /\ r \in cur') /\ Links(r) # {}
                          => Passed(r) /\ ~(at = "select" /\ r \in cur)
  PROVE  PassedLinked'
<1> SUFFICES ASSUME NEW r \in Row, Passed(r)', Untouched(r)', ~(at' = "select" /\ r \in cur'),
                    NEW x \in Links(r)
             PROVE  <<r, x>> \in links'
  BY DEF PassedLinked
<1>1. Passed(r) /\ ~(at = "select" /\ r \in cur)
  OBVIOUS
<1>2. status'[r] = status[r]
  BY <1>1, InsertIgnored DEF IInv, PassedWritten
<1>3. Untouched(r)
  BY <1>2 DEF Untouched, Live
<1> QED  BY <1>1, <1>3 DEF IInv, PassedLinked

LEMMA InsertHolds ==
  ASSUME IInv, NEW g \in {"fsm_state_dicts", "fsm_configs", "bt_trees", "event_types", "fields",
                          "runtime_bb_keys", "region_types", "regions"}, Insert(g)
  PROVE  IInv'
<1>1. PICK r \in todo : InsertIgnore({r}) /\ todo' = todo \ {r}
  BY DEF Insert
<1>2. /\ run = "on" /\ Stages[stage] = g
      /\ UNCHANGED <<byHand, links, oldDict, oldState, run, stage, maps, ids, at, cur, left,
                     crashes, edits>>
  BY DEF Insert, Doing
<1>3. TypeOK'
  BY <1>1, <1>2, InsertIgnored DEF IInv, TypeOK
<1>4. \A x \in Row : Passed(x)' => Passed(x) \/ (x = r /\ StageOf[x] = g)
  BY <1>1, <1>2 DEF Passed
<1>5. PassedWritten'
  BY <1>1, <1>4, WrittenKept
<1>6. PassedLinked'
  <2> SUFFICES ASSUME NEW x \in Row, Passed(x)', Untouched(x)', ~(at = "select" /\ x \in cur),
                      NEW y \in Links(x)
               PROVE  <<x, y>> \in links \/ (at = "link" /\ x \in cur /\ y \in left)
    BY <1>2 DEF PassedLinked
  <2>1. Passed(x)
    BY <1>4, NoLinks
  <2>2. status'[x] = status[x]
    BY <2>1, <1>1, InsertIgnored DEF IInv, PassedWritten
  <2> QED  BY <1>2, <2>1, <2>2 DEF IInv, PassedLinked, Untouched, Live
<1>7. PrefixClosed'
  <2>1. r \in In(Stages[stage])
    BY <1>2 DEF IInv, InGroup, Work
  <2> QED  BY <2>1, <1>1, <1>2, InsertClosed
<1>8. InGroup' /\ OneRow'
  BY <1>1, <1>2 DEF IInv, InGroup, OneRow
<1>9. OldGone'
  <2>1. stage \notin {3, 4}
    BY <1>2, StagesValues
  <2> QED  BY <2>1, <1>2, OldSame
<1> QED  BY <1>3, <1>5, <1>6, <1>7, <1>8, <1>9 DEF IInv

LEMMA BatchCreateHolds ==
  ASSUME IInv, BatchCreate
  PROVE  IInv'
<1>1. /\ run = "on" /\ Stages[stage] = "dictionaries" /\ InsertIgnore(In("dictionaries")) /\ todo' = {}
      /\ UNCHANGED <<byHand, links, oldDict, oldState, run, stage, maps, ids, at, cur, left,
                     crashes, edits>>
  BY DEF BatchCreate, Doing
<1>2. TypeOK'
  BY <1>1, InsertIgnored DEF IInv, TypeOK
<1>3. \A x \in Row : Passed(x)' => Passed(x) \/ x \in In("dictionaries")
  BY <1>1 DEF Passed, In
<1>4. PassedWritten'
  BY <1>1, <1>3, WrittenKept
<1>5. PassedLinked'
  <2> SUFFICES ASSUME NEW x \in Row, Passed(x)', Untouched(x)', ~(at = "select" /\ x \in cur),
                      NEW y \in Links(x)
               PROVE  <<x, y>> \in links \/ (at = "link" /\ x \in cur /\ y \in left)
    BY <1>1 DEF PassedLinked
  <2>1. Passed(x)
    BY <1>3, NoLinks DEF In
  <2>2. status'[x] = status[x]
    BY <2>1, <1>1, InsertIgnored DEF IInv, PassedWritten
  <2> QED  BY <1>1, <2>1, <2>2 DEF IInv, PassedLinked, Untouched, Live
<1>6. PrefixClosed'
  BY <1>1, InsertClosed
<1>7. InGroup' /\ OneRow'
  BY <1>1 DEF IInv, InGroup, OneRow
<1>8. OldGone'
  BY <1>1, StagesValues, OldSame
<1> QED  BY <1>2, <1>4, <1>5, <1>6, <1>7, <1>8 DEF IInv

\* The migrations write no row.
LEMMA MigrateHolds ==
  ASSUME IInv, DeleteOldDict \/ RenameOldState
  PROVE  IInv'
<1>0. PICK c \in todo : /\ todo' = todo \ {c}
                        /\ \/ Doing("old_dictionaries") /\ oldDict' = oldDict \ {c} /\ UNCHANGED oldState
                           \/ Doing("old_states") /\ oldState' = oldState \ {c} /\ UNCHANGED oldDict
  BY DEF DeleteOldDict, RenameOldState
<1>1. /\ run = "on" /\ Stages[stage] \in {"old_dictionaries", "old_states"}
      /\ UNCHANGED <<status, byHand, links, run, stage, maps, ids, at, cur, left, crashes, edits>>
  BY DEF DeleteOldDict, RenameOldState, Doing
<1>2. TypeOK'
  BY <1>0, <1>1 DEF IInv, TypeOK
<1>3. \A x \in Row : Passed(x)' => Passed(x)
  <2>1. \A x \in Row : StageOf[x] # Stages[stage]
    BY <1>1, FixtureAssumption DEF Group
  <2> QED  BY <2>1, <1>1 DEF Passed
<1>4. PassedWritten' /\ PassedLinked'
  BY <1>1, <1>3 DEF IInv, PassedWritten, PassedLinked, Untouched, Live
<1>5. InGroup' /\ OneRow'
  BY <1>0, <1>1 DEF IInv, InGroup, OneRow
<1>6. OldGone'
  <2>1. Doing("old_dictionaries") => stage = 3
    <3>1. stage \in 1..14
      BY StagesValues DEF IInv, TypeOK
    <3> QED  BY <3>1, StagesValues DEF Doing
  <2>2. Doing("old_states") => stage = 4
    <3>1. stage \in 1..14
      BY StagesValues DEF IInv, TypeOK
    <3> QED  BY <3>1, StagesValues DEF Doing
  <2> QED  BY <1>0, <1>1, <2>1, <2>2 DEF IInv, OldGone, StateByHand
<1> QED  BY <1>2, <1>4, <1>5, <1>6, <1>1, ClosedSame DEF IInv

LEMMA CountNodeTypeHolds ==
  ASSUME IInv, CountNodeType
  PROVE  IInv'
<1>0. PICK r \in todo : /\ todo' = todo \ {r}
                        /\ IF Live(r) THEN UNCHANGED <<at, cur>> ELSE at' = "insert" /\ cur' = {r}
  BY DEF CountNodeType
<1>1. /\ run = "on" /\ Stages[stage] = "bt_node_types" /\ at = "next"
      /\ UNCHANGED <<status, byHand, links, oldDict, oldState, run, stage, maps, ids, left, crashes,
                     edits>>
  BY DEF CountNodeType, Doing, tables
<1>2. r \in Row /\ StageOf[r] = "bt_node_types"
  BY <1>1 DEF IInv, InGroup, Work, In
<1>3. TypeOK'
  BY <1>0, <1>1, <1>2 DEF IInv, TypeOK
<1>4. \A x \in Row : Passed(x)' => Passed(x) \/ (x = r /\ Live(r))
  BY <1>0, <1>1 DEF Passed
<1>5. PassedWritten'
  BY <1>1, <1>4 DEF IInv, PassedWritten, Live
<1>6. PassedLinked'
  BY <1>0, <1>1, <1>2, <1>4, NoLinks DEF IInv, PassedLinked, Untouched, Live
<1>7. InGroup' /\ OneRow'
  BY <1>0, <1>1, <1>2 DEF IInv, InGroup, OneRow
<1>8. OldGone'
  BY <1>1, StagesValues, OldSame
<1> QED  BY <1>3, <1>5, <1>6, <1>7, <1>8, <1>1, ClosedSame DEF IInv

LEMMA InsertNodeTypeHolds ==
  ASSUME IInv, InsertNodeType
  PROVE  IInv'
<1>0. PICK r \in cur : IF status[r] = "none"
                       THEN /\ InsertIgnore({r}) /\ at' = "next" /\ cur' = {}
                            /\ UNCHANGED <<run, stage, todo, maps, ids, left>>
                       ELSE Stop("failed") /\ UNCHANGED status
  BY DEF InsertNodeType
<1>1. /\ run = "on" /\ Stages[stage] = "bt_node_types" /\ at = "insert"
      /\ UNCHANGED <<byHand, links, oldDict, oldState, crashes, edits>>
  BY DEF InsertNodeType, Doing
<1>2. r \in Row /\ cur = {r} /\ StageOf[r] = Stages[stage]
  BY <1>1 DEF IInv, OneRow
<1>3. CASE status[r] # "none"
  BY <1>0, <1>1, <1>3, StopHolds DEF IInv, TypeOK, tables
<1>4. CASE status[r] = "none"
  <2>1. /\ InsertIgnore({r}) /\ at' = "next" /\ cur' = {}
        /\ UNCHANGED <<run, stage, todo, maps, ids, left>>
    BY <1>0, <1>4
  <2>2. TypeOK'
    BY <2>1, <1>1, InsertIgnored DEF IInv, TypeOK
  <2>3. \A x \in Row : Passed(x)' => Passed(x) \/ x = r
    BY <2>1, <1>1, <1>2 DEF Passed
  <2>4. PassedWritten'
    BY <2>1, <2>3, WrittenKept
  <2>5. PassedLinked'
    <3>1. Links(r) = {}
      BY <1>1, <1>2, NoLinks
    <3> QED  BY <2>1, <2>3, <3>1, <1>1, LinkedKept
  <2>6. PrefixClosed'
    BY <2>1, <1>1, <1>2, InsertClosed DEF In
  <2>7. InGroup' /\ OneRow'
    BY <2>1, <1>1 DEF IInv, InGroup, OneRow
  <2>8. OldGone'
    BY <2>1, <1>1, StagesValues, OldSame
  <2> QED  BY <2>2, <2>4, <2>5, <2>6, <2>7, <2>8 DEF IInv
<1> QED  BY <1>3, <1>4

LEMMA LoadMapHolds ==
  ASSUME IInv, loadFieldIDMap \/ loadTemplateIDMap
  PROVE  IInv'
<1>0. PICK g \in {"fields", "templates"} :
        /\ maps' = maps \cup {g} /\ ids' = ids \cup {r \in In(g) : Live(r)}
        /\ UNCHANGED <<tables, run, stage, todo, at, cur, left, crashes, edits>>
  BY DEF loadFieldIDMap, loadTemplateIDMap, LoadMap
<1>1. UNCHANGED <<status, byHand, links, oldDict, oldState, run, stage, todo, at, cur, left, crashes,
                  edits>>
  BY <1>0 DEF tables
<1>2. TypeOK'
  BY <1>0, <1>1 DEF IInv, TypeOK, In
<1>3. \A x \in Row : Passed(x)' => Passed(x)
  BY <1>1 DEF Passed
<1>4. PassedWritten' /\ PassedLinked'
  BY <1>1, <1>3 DEF IInv, PassedWritten, PassedLinked, Untouched, Live
<1>5. InGroup' /\ OneRow'
  BY <1>1 DEF IInv, InGroup, OneRow
<1> QED  BY <1>1, <1>2, <1>4, <1>5, OldSame, ClosedSame DEF IInv

LEMMA InsertNamedHolds ==
  ASSUME IInv, NEW g \in {"templates", "npcs"}, InsertNamed(g)
  PROVE  IInv'
<1>0. PICK r \in todo : IF LookedUp(r) \subseteq ids
                        THEN /\ InsertIgnore({r}) /\ at' = "select" /\ cur' = {r}
                             /\ todo' = todo \ {r}
                             /\ UNCHANGED <<run, stage, maps, ids, left>>
                        ELSE Stop("failed") /\ UNCHANGED status
  BY DEF InsertNamed
<1>1. /\ run = "on" /\ Stages[stage] = g /\ at = "next"
      /\ UNCHANGED <<byHand, links, oldDict, oldState, crashes, edits>>
  BY DEF InsertNamed, Doing
<1>2. r \in Row /\ StageOf[r] = g
  BY <1>1 DEF IInv, InGroup, Work, In
<1>3. CASE ~(LookedUp(r) \subseteq ids)
  BY <1>0, <1>1, <1>3, StopHolds DEF IInv, TypeOK, tables
<1>4. CASE LookedUp(r) \subseteq ids
  <2>1. /\ InsertIgnore({r}) /\ at' = "select" /\ cur' = {r} /\ todo' = todo \ {r}
        /\ UNCHANGED <<run, stage, maps, ids, left>>
    BY <1>0, <1>4
  <2>2. TypeOK'
    BY <2>1, <1>1, <1>2, InsertIgnored DEF IInv, TypeOK
  <2>3. \A x \in Row : Passed(x)' => Passed(x) \/ x = r
    BY <2>1, <1>1 DEF Passed
  <2>4. PassedWritten'
    BY <2>1, <2>3, WrittenKept
  <2>5. PassedLinked'
    BY <2>1, <2>3, <1>1, LinkedKept
  <2>6. PrefixClosed'
    BY <2>1, <1>1, <1>2, InsertClosed DEF In
  <2>7. InGroup' /\ OneRow'
    BY <2>1, <1>1, <1>2 DEF IInv, InGroup, OneRow
  <2>8. OldGone'
    BY <2>1, <1>1, StagesValues, OldSame
  <2> QED  BY <2>2, <2>4, <2>5, <2>6, <2>7, <2>8 DEF IInv
<1> QED  BY <1>3, <1>4

LEMMA SelectNamedHolds ==
  ASSUME IInv, NEW g \in {"templates", "npcs"}, SelectNamed(g)
  PROVE  IInv'
<1>0. PICK r \in cur : IF Live(r)
                       THEN /\ left' = Links(r)
                            /\ IF Links(r) = {} THEN at' = "next" /\ cur' = {}
                               ELSE at' = "link" /\ UNCHANGED cur
                            /\ UNCHANGED <<run, stage, todo, maps, ids>>
                       ELSE Stop("failed")
  BY DEF SelectNamed
<1>1. /\ run = "on" /\ Stages[stage] = g /\ at = "select"
      /\ UNCHANGED <<status, byHand, links, oldDict, oldState, crashes, edits>>
  BY DEF SelectNamed, Doing, tables
<1>2. r \in Row /\ cur = {r} /\ StageOf[r] = Stages[stage]
  BY <1>1 DEF IInv, OneRow
<1>3. CASE ~Live(r)
  BY <1>0, <1>1, <1>3, StopHolds DEF IInv, TypeOK, tables
<1>4. CASE Live(r)
  <2>1. /\ left' = Links(r)
        /\ Links(r) = {} => at' = "next" /\ cur' = {}
        /\ Links(r) # {} => at' = "link" /\ cur' = cur
        /\ UNCHANGED <<run, stage, todo, maps, ids>>
    BY <1>0, <1>4
  <2>2. TypeOK'
    BY <2>1, <1>1, <1>2, LinksNamed DEF IInv, TypeOK
  <2>3. \A x \in Row : Passed(x)' => Passed(x)
    BY <2>1, <1>1 DEF Passed
  <2>4. PassedWritten'
    BY <1>1, <2>3, WrittenSame
  <2>5. PassedLinked'
    <3> SUFFICES ASSUME NEW x \in Row, Passed(x)', Untouched(x)', ~(at' = "select" /\ x \in cur'),
                        NEW y \in Links(x)
                 PROVE  <<x, y>> \in links' \/ (at' = "link" /\ x \in cur' /\ y \in left')
      BY DEF PassedLinked
    <3>1. CASE x = r
      BY <3>1, <2>1, <1>2
    <3>2. CASE x # r
      BY <3>2, <2>3, <1>1, <1>2 DEF IInv, PassedLinked, Untouched, Live
    <3> QED  BY <3>1, <3>2
  <2>6. InGroup' /\ OneRow'
    BY <2>1, <1>1, <1>2 DEF IInv, InGroup, OneRow
  <2>7. OldGone'
    BY <2>1, <1>1, OldSame
  <2> QED  BY <2>2, <2>4, <2>5, <2>6, <2>7, <1>1, ClosedSame DEF IInv
<1> QED  BY <1>3, <1>4

LEMMA LinkNamedHolds ==
  ASSUME IInv, NEW g \in {"templates", "npcs"}, LinkNamed(g)
  PROVE  IInv'
<1>0. PICK r \in cur, x \in left :
        /\ links' = links \cup {<<r, x>>} /\ left' = left \ {x}
        /\ IF left = {x} THEN at' = "next" /\ cur' = {} ELSE UNCHANGED <<at, cur>>
  BY DEF LinkNamed
<1>1. /\ run = "on" /\ Stages[stage] = g /\ at = "link"
      /\ UNCHANGED <<status, byHand, oldDict, oldState, run, stage, todo, maps, ids, crashes, edits>>
  BY DEF LinkNamed, Doing
<1>2. r \in Row /\ x \in Row /\ cur = {r} /\ StageOf[r] = Stages[stage]
  BY <1>1 DEF IInv, OneRow, TypeOK
<1>3. TypeOK'
  BY <1>0, <1>1, <1>2 DEF IInv, TypeOK
<1>4. \A y \in Row : Passed(y)' => Passed(y)
  BY <1>0, <1>1 DEF Passed
<1>5. PassedWritten'
  BY <1>1, <1>4, WrittenSame
<1>6. PassedLinked'
  <2> SUFFICES ASSUME NEW y \in Row, Passed(y)', Untouched(y)', ~(at' = "select" /\ y \in cur'),
                      NEW z \in Links(y)
               PROVE  <<y, z>> \in links' \/ (at' = "link" /\ y \in cur' /\ z \in left')
    BY DEF PassedLinked
  <2>1. <<y, z>> \in links \/ (y \in cur /\ z \in left)
    BY <1>4, <1>1 DEF IInv, PassedLinked, Untouched, Live
  <2>2. CASE <<y, z>> \in links
    BY <2>2, <1>0
  <2>3. CASE y = r /\ z = x
    BY <2>3, <1>0
  <2>4. CASE y = r /\ z \in left /\ z # x
    BY <2>4, <1>0, <1>1, <1>2
  <2> QED  BY <2>1, <2>2, <2>3, <2>4, <1>2
<1>7. InGroup' /\ OneRow'
  BY <1>0, <1>1, <1>2 DEF IInv, InGroup, OneRow
<1>8. OldGone'
  BY <1>1, OldSame
<1> QED  BY <1>3, <1>5, <1>6, <1>7, <1>8, <1>1, ClosedSame DEF IInv

\* What an operator does is to one row, which is then not the seed's.
LEMMA OperateHolds ==
  ASSUME IInv, Operate
  PROVE  IInv'
<1>0. PICK r \in Row : Write(r) \/ Delete(r)
  BY DEF Operate
<1>1. /\ edits < MaxEdits /\ edits' = edits + 1
      /\ UNCHANGED <<run, stage, todo, maps, ids, at, cur, left, crashes>>
  BY DEF Operate, command
<1>2. /\ status' \in [Row -> {"none", "live", "deleted"}] /\ status'[r] \in {"live", "deleted"}
      /\ \A x \in Row \ {r} : status'[x] = status[x]
  BY <1>0 DEF IInv, TypeOK, Write, Delete
<1>3. byHand' \subseteq Row /\ byHand \subseteq byHand'
  BY <1>0 DEF IInv, TypeOK, Write, Delete
<1>4. links' \subseteq Row \X Row
  <2>1. CASE Write(r)
    <3>1. PICK X \in SUBSET {x \in Links(r) : Live(x)} :
            links' = {l \in links : l[1] # r} \cup {r} \X X
      BY <2>1 DEF Write
    <3>2. X \subseteq Row
      BY LinksNamed
    <3> QED  BY <3>1, <3>2 DEF IInv, TypeOK
  <2>2. CASE Delete(r)
    BY <2>2 DEF Delete, IInv, TypeOK
  <2> QED  BY <1>0, <2>1, <2>2
<1>5. oldDict' = oldDict /\ oldState' \subseteq Category
  BY <1>0 DEF IInv, TypeOK, Write, Delete
<1>6. TypeOK'
  <2>1. edits' \in 0..MaxEdits
    BY <1>1, BoundAssumption DEF IInv, TypeOK
  <2> QED  BY <2>1, <1>1, <1>2, <1>3, <1>4, <1>5 DEF IInv, TypeOK
<1>7. \A x \in Row : Passed(x)' => Passed(x)
  BY <1>1 DEF Passed
<1>8. \A x \in Row : Untouched(x)' => x # r /\ Untouched(x)
  <2>1. Write(r) => r \in byHand'
    BY DEF Write
  <2>2. Delete(r) => status'[r] = "deleted"
    BY DEF Delete, IInv, TypeOK
  <2> QED  BY <1>0, <1>2, <1>3, <2>1, <2>2 DEF Untouched, Live
<1>9. PassedWritten'
  BY <1>2, <1>7 DEF IInv, PassedWritten
<1>10. PassedLinked'
  <2> SUFFICES ASSUME NEW y \in Row, Passed(y)', Untouched(y)', ~(at = "select" /\ y \in cur),
                      NEW z \in Links(y)
               PROVE  <<y, z>> \in links' \/ (at = "link" /\ y \in cur /\ z \in left)
    BY <1>1 DEF PassedLinked
  <2>1. y # r /\ (<<y, z>> \in links \/ (at = "link" /\ y \in cur /\ z \in left))
    BY <1>7, <1>8 DEF IInv, PassedLinked
  <2>2. <<y, z>> \in links => <<y, z>> \in links'
    BY <2>1, <1>0 DEF Write, Delete
  <2> QED  BY <2>1, <2>2
<1>11. PrefixClosed'
  <2> SUFFICES ASSUME NEW y \in Row, Untouched(y)', NEW z \in Names[y] PROVE status'[z] # "none"
    BY DEF PrefixClosed
  <2>1. z \in Row /\ status[z] # "none"
    BY <1>8, FixtureAssumption DEF IInv, PrefixClosed
  <2> QED  BY <2>1, <1>2
<1>12. InGroup' /\ OneRow'
  BY <1>1 DEF IInv, InGroup, OneRow
<1>13. OldGone'
  <2>1. CASE oldState' = oldState
    BY <2>1, <1>1, <1>3, <1>5 DEF IInv, OldGone, StateByHand
  <2>2. CASE oldState' # oldState
    <3>1. StateByHand'
      BY <2>2, <1>0 DEF Write, Delete, StateByHand
    <3> QED  BY <3>1, <1>1, <1>5 DEF IInv, OldGone
  <2> QED  BY <2>1, <2>2
<1> QED  BY <1>6, <1>9, <1>10, <1>11, <1>12, <1>13 DEF IInv

-----------------------------------------------------------------------------
(* Theorems *)

LEMMA StepHolds ==
  ASSUME IInv, [Next]_vars
  PROVE  IInv'
<1>1. CASE Start
  BY <1>1, StartHolds
<1>2. CASE NextStage
  BY <1>2, NextStageHolds
<1>3. CASE BatchCreate
  BY <1>3, BatchCreateHolds
<1>4. CASE \/ seedFsmStateDicts \/ seedFsmConfigs \/ seedBtTrees \/ seedEventTypes \/ seedFields
           \/ seedRuntimeBbKeys \/ seedRegionTypeDict \/ seedRegions
  BY <1>4, InsertHolds DEF seedFsmStateDicts, seedFsmConfigs, seedBtTrees, seedEventTypes, seedFields,
     seedRuntimeBbKeys, seedRegionTypeDict, seedRegions
<1>5. CASE DeleteOldDict \/ RenameOldState
  BY <1>5, MigrateHolds
<1>6. CASE CountNodeType
  BY <1>6, CountNodeTypeHolds
<1>7. CASE InsertNodeType
  BY <1>7, InsertNodeTypeHolds
<1>8. CASE loadFieldIDMap \/ loadTemplateIDMap
  BY <1>8, LoadMapHolds
<1>9. CASE seedTemplates \/ seedNPCs
  BY <1>9, InsertNamedHolds, SelectNamedHolds, LinkNamedHolds DEF seedTemplates, seedNPCs
<1>10. CASE Crash
  <2>1. Stop("off") /\ UNCHANGED <<tables, edits>>
    BY <1>10 DEF Crash
  <2>2. crashes' \in 0..MaxCrashes
    BY <1>10, BoundAssumption DEF Crash, IInv, TypeOK
  <2> QED  BY <2>1, <2>2, StopHolds
<1>11. CASE Operate
  BY <1>11, OperateHolds
<1>12. CASE UNCHANGED vars
  <2>1. UNCHANGED <<status, byHand, links, oldDict, oldState, run, stage, todo, maps, ids, at, cur, left,
                    crashes, edits>>
    BY <1>12 DEF vars, tables, command
  <2>2. TypeOK' /\ InGroup' /\ OneRow'
    BY <2>1 DEF IInv, TypeOK, InGroup, OneRow
  <2>3. PassedWritten' /\ PassedLinked'
    BY <2>1 DEF IInv, PassedWritten, PassedLinked, Passed, Untouched, Live
  <2> QED  BY <2>1, <2>2, <2>3, ClosedSame, OldSame DEF IInv
<1> QED
  BY <1>1, <1>2, <1>3, <1>4, <1>5, <1>6, <1>7, <1>8, <1>9, <1>10, <1>11, <1>12
     DEF Next, Statement, seedFieldsTemplatesNPCs

\* The inductive invariant, for any fixtures whose names follow the columns.
THEOREM InvariantHolds == Spec => []IInv
<1>1. Init => IInv
  BY InitHolds
<1>2. IInv /\ [Next]_vars => IInv'
  BY StepHolds
<1> QED  BY <1>1, <1>2, PTL DEF Spec

\* Wherever the command stops, no row it wrote names one that was never there.
THEOREM ClosedWherever == Spec => []PrefixClosed
<1>1. IInv => PrefixClosed
  BY DEF IInv
<1> QED  BY <1>1, InvariantHolds, PTL

\* A run that ends well leaves nothing out, whatever came before it.
THEOREM CompleteWhenDone == Spec => []DoneComplete
<1>1. IInv => DoneComplete
  <2> SUFFICES ASSUME IInv, run = "done" PROVE DoneComplete
    BY DEF DoneComplete
  <2>1. \A r \in Row : Passed(r)
    BY DEF Passed
  <2>2. cur = {}
    BY DEF IInv, OneRow
  <2> QED  BY <2>1, <2>2 DEF IInv, DoneComplete, PassedWritten, PassedLinked, OldGone
<1> QED  BY <1>1, InvariantHolds, PTL

\* The types of the command's state.
THEOREM Types == Spec => []TypeOK
<1>1. IInv => TypeOK
  BY DEF IInv
<1> QED  BY <1>1, InvariantHolds, PTL
=============================================================================
