------------------------ MODULE ConfigRegistryProofs ------------------------
(***************************************************************************)
(* Proofs about ConfigRegistry: what holds of any number of requests, and  *)
(* what holds of one request at a time.                                    *)
(***************************************************************************)
EXTENDS ConfigRegistry, TLAPS

-----------------------------------------------------------------------------
(* What a step that writes no table does *)

\* A request that begins to create or edit carries what its row may name, and the
\* version of a row that may be edited.
Sound(j) ==
  j.op \in {"create", "update"} =>
    /\ j.refs \subseteq MayName(j.id)
    /\ j.op = "update" =>
         /\ j.ver <= rows[j.id].ver
         /\ j.id \in FSM \cup Tree \cup Region /\ j.ver = rows[j.id].ver =>
              ~rows[j.id].enabled

\* p goes to l with the job j.
Goes(p, l, j) == pc' = [pc EXCEPT ![p] = l] /\ job' = [job EXCEPT ![p] = j]

\* p begins, goes on or ends, and no table is written.
Quiet(p) == /\ UNCHANGED <<rows, links>>
            /\ \E l \in PC, j \in Job : Goes(p, l, j) /\ (j = job[p] \/ Sound(j))

\* p writes a table, or toggles.
Writes(p) == \/ Insert(p) \/ Overwrite(p) \/ Remove(p)
             \/ \E i \in Item, b \in BOOLEAN : ToggleEnabled(p, i, b)

\* The job of an idle request is a job, an export's id included.
LEMMA NoJobType == NoJob \in Job /\ NoJob.id \in Item /\ NoRow \in Row
<1>1. (CHOOSE i \in Item : TRUE) \in Item
  BY KindAssumption
<1> QED
  BY <1>1 DEF NoJob, Job, Op, NoRow, Row

LEMMA FinishQuiet ==
  ASSUME NEW p \in Request, Finish(p), UNCHANGED <<rows, links>>
  PROVE  Quiet(p)
<1>1. Goes(p, "idle", NoJob) /\ NoJob.op = "none"
  BY DEF Finish, Goto, Goes, NoJob
<1> QED
  BY <1>1, NoJobType DEF Quiet, Sound, PC

LEMMA CheckQuiet ==
  ASSUME TypeOK, NEW p \in Request, NEW ok, NEW l \in PC,
         Check(p, ok, l), UNCHANGED <<rows, links>>
  PROVE  Quiet(p)
<1>1. CASE Finish(p)
  BY <1>1, FinishQuiet
<1>2. CASE Goto(p, l) /\ UNCHANGED job
  <2>1. Goes(p, l, job[p]) /\ job[p] \in Job
    BY <1>2 DEF TypeOK, Goto, Goes
  <2> QED
    BY <2>1 DEF Quiet
<1> QED
  BY <1>1, <1>2 DEF Check

LEMMA BeginQuiet ==
  ASSUME NEW p \in Request, NEW op \in Op, NEW i \in Item, NEW v \in Nat,
         NEW R \in SUBSET Name, NEW l \in PC, Begin(p, op, i, v, R, l),
         Sound([op |-> op, id |-> i, ver |-> v, refs |-> R])
  PROVE  Quiet(p)
<1>1. Goes(p, l, [op |-> op, id |-> i, ver |-> v, refs |-> R])
  BY DEF Begin, Goto, Goes
<1>2. [op |-> op, id |-> i, ver |-> v, refs |-> R] \in Job
  BY DEF Job
<1> QED
  BY <1>1, <1>2 DEF Begin, Quiet

LEMMA CreateQuiet ==
  ASSUME NEW p \in Request, NEW i \in Item, NEW R \in SUBSET Name, NEW l \in PC,
         R \subseteq MayName(i), Create(p, i, R, l)
  PROVE  Quiet(p)
BY BeginQuiet DEF Create, Sound, Op

LEMMA UpdateQuiet ==
  ASSUME NEW p \in Request, NEW i \in Item, NEW v \in Nat, NEW R \in SUBSET Name,
         NEW l \in PC, R \subseteq MayName(i), Update(p, i, v, R, l)
  PROVE  Quiet(p)
<1>1. i \in FSM \cup Tree \cup Region => ~rows[i].enabled
  BY KindAssumption DEF Update, Editable
<1> QED
  BY <1>1, BeginQuiet DEF Update, Sound, Op

LEMMA DeleteQuiet ==
  ASSUME NEW p \in Request, NEW i \in Item, NEW l \in PC, Delete(p, i, l)
  PROVE  Quiet(p)
BY BeginQuiet DEF Delete, Sound, Op

\* What each kind of request carries.
LEMMA Inputs ==
  /\ \A w \in Word \cup NodeType : {} \subseteq MayName(w) /\ w \in Item
  /\ \A f \in FSM, R \in Machines : R \subseteq MayName(f) /\ R \in SUBSET Name /\ f \in Item
  /\ \A b \in Tree, R \in Trees : R \subseteq MayName(b) /\ R \in SUBSET Name /\ b \in Item
  /\ \A n \in NPC, R \in Behaviors :
       R \subseteq MayName(n) /\ R \in SUBSET Name /\ n \in Item
  /\ \A g \in Region, R \in SpawnTables :
       R \subseteq MayName(g) /\ R \in SUBSET Name /\ g \in Item
<1>1. \A f \in FSM : MayName(f) = Word
  BY DEF MayName
<1>2. \A b \in Tree : MayName(b) = NodeType
  BY KindAssumption DEF MayName
<1>3. \A n \in NPC : MayName(n) = FSM \cup Tree \cup {Blank}
  BY KindAssumption DEF MayName
<1>4. \A g \in Region : MayName(g) = NPC
  BY KindAssumption DEF MayName
<1> QED
  BY <1>1, <1>2, <1>3, <1>4 DEF Machines, Trees, Behaviors, SpawnTables, Name, Item

\* The versions a client may send.
LEMMA VersionsNat == \A i \in Item : Versions(i) \subseteq Nat
BY BoundAssumption DEF Versions

LEMMA WriteStep ==
  ASSUME TypeOK, NEW p \in Request, Write(p)
  PROVE  Quiet(p) \/ Writes(p)
<1>0. {"write", "types", "fsm", "npcs", "trees"} \subseteq PC
  BY DEF PC
<1>1. CASE \E w \in Word : CreateWord(p, w) \/ \E v \in Versions(w) : UpdateWord(p, w, v)
  BY <1>0, <1>1, Inputs, VersionsNat, CreateQuiet, UpdateQuiet DEF CreateWord, UpdateWord
<1>2. CASE \E t \in NodeType :
             CreateNodeType(p, t) \/ \E v \in Versions(t) : UpdateNodeType(p, t, v)
  BY <1>0, <1>2, Inputs, VersionsNat, CreateQuiet, UpdateQuiet
     DEF CreateNodeType, UpdateNodeType
<1>3. CASE \E f \in FSM, R \in Machines :
             CreateFSM(p, f, R) \/ \E v \in Versions(f) : UpdateFSM(p, f, v, R)
  BY <1>0, <1>3, Inputs, VersionsNat, CreateQuiet, UpdateQuiet DEF CreateFSM, UpdateFSM
<1>4. CASE \E b \in Tree, R \in Trees :
             CreateTree(p, b, R) \/ \E v \in Versions(b) : UpdateTree(p, b, v, R)
  BY <1>0, <1>4, Inputs, VersionsNat, CreateQuiet, UpdateQuiet DEF CreateTree, UpdateTree
<1>5. CASE \E n \in NPC, R \in Behaviors :
             CreateNPC(p, n, R) \/ \E v \in Versions(n) : UpdateNPC(p, n, v, R)
  BY <1>0, <1>5, Inputs, VersionsNat, CreateQuiet, UpdateQuiet DEF CreateNPC, UpdateNPC
<1>6. CASE \E g \in Region, R \in SpawnTables :
             CreateRegion(p, g, R) \/ \E v \in Versions(g) : UpdateRegion(p, g, v, R)
  BY <1>0, <1>6, Inputs, VersionsNat, CreateQuiet, UpdateQuiet
     DEF CreateRegion, UpdateRegion
<1>7. CASE GetStateNames(p) \/ CheckBtTrees(p) \/ ValidateNodes(p) \/ LookupByNames(p)
  BY <1>0, <1>7, CheckQuiet DEF GetStateNames, CheckBtTrees, ValidateNodes, LookupByNames
<1>8. CASE Insert(p) \/ Overwrite(p) \/ \E i \in Item, b \in BOOLEAN : ToggleEnabled(p, i, b)
  BY <1>8 DEF Writes
<1> QED
  BY <1>1, <1>2, <1>3, <1>4, <1>5, <1>6, <1>7, <1>8 DEF Write

LEMMA DropStep ==
  ASSUME TypeOK, NEW p \in Request, Drop(p)
  PROVE  Quiet(p) \/ Writes(p)
<1>0. {"count", "recheck", "remove"} \subseteq PC
  BY DEF PC
<1>1. CASE \/ \E w \in Word : DeleteWord(p, w)
           \/ \E t \in NodeType : DeleteNodeType(p, t)
           \/ \E f \in FSM : DeleteFSM(p, f)
           \/ \E b \in Tree : DeleteTree(p, b)
           \/ \E n \in NPC : DeleteNPC(p, n)
           \/ \E g \in Region : DeleteRegion(p, g)
  BY <1>0, <1>1, DeleteQuiet DEF DeleteWord, DeleteNodeType, DeleteFSM, DeleteTree,
     DeleteNPC, DeleteRegion, Item
<1>2. CASE CountUsers(p)
  <2>1. CASE Goto(p, "recheck") /\ UNCHANGED job
    <3>1. Goes(p, "recheck", job[p]) /\ job[p] \in Job
      BY <2>1 DEF TypeOK, Goto, Goes
    <3> QED
      BY <1>0, <1>2, <3>1 DEF Quiet, CountUsers
  <2>2. CASE ~(Goto(p, "recheck") /\ UNCHANGED job)
    <3> DEFINE l == IF job[p].id \in Word \cup NodeType THEN "remove" ELSE "recheck"
    <3>1. Check(p, Users(job[p].id) = {}, l) /\ UNCHANGED <<rows, links>>
      BY <1>2, <2>2 DEF CountUsers
    <3> QED
      BY <1>0, <3>1, CheckQuiet
  <2> QED
    BY <2>1, <2>2
<1>3. CASE Recheck(p)
  BY <1>0, <1>3, CheckQuiet DEF Recheck
<1>4. CASE Remove(p)
  BY <1>4 DEF Writes
<1> QED
  BY <1>1, <1>2, <1>3, <1>4 DEF Drop

\* The names in the tables are names.
LEMMA NamesInType ==
  ASSUME TypeOK, NEW Kind
  PROVE  NamesIn(Kind) \in SUBSET Name
BY DEF TypeOK, Row, NamesIn, Usable

LEMMA ExportStep ==
  ASSUME TypeOK, NEW p \in Request, Export(p)
  PROVE  Quiet(p)
<1>0. {"export_fsm", "export_trees", "export_npcs", "deliver"} \subseteq PC
  BY DEF PC
<1>1. CASE ExportNPCs(p) \/ ExportRegions(p)
  <2>1. \A R \in SUBSET Name :
          Sound([op |-> "export", id |-> NoJob.id, ver |-> 0, refs |-> R])
    BY DEF Sound
  <2> QED
    BY <1>0, <1>1, <2>1, NoJobType, NamesInType, BeginQuiet DEF ExportNPCs, ExportRegions, Op
<1>2. CASE ExportCheckFSM(p) \/ ExportCheckTrees(p) \/ ExportCheckNPCs(p)
  BY <1>0, <1>2, CheckQuiet DEF ExportCheckFSM, ExportCheckTrees, ExportCheckNPCs
<1>3. CASE Deliver(p)
  BY <1>3, FinishQuiet DEF Deliver
<1> QED
  BY <1>1, <1>2, <1>3 DEF Export

\* Every step is of one of the two kinds.
LEMMA Steps ==
  ASSUME TypeOK, Next
  PROVE  \E p \in Request : Quiet(p) \/ Writes(p)
<1>1. PICK p \in Request : Write(p) \/ Drop(p) \/ Export(p) \/ Fail(p)
  BY DEF Next
<1> QED
  BY <1>1, WriteStep, DropStep, ExportStep, FinishQuiet DEF Fail

-----------------------------------------------------------------------------
(* Any number of requests *)

LEMMA InitIInv == Init => IInv
<1> SUFFICES ASSUME Init PROVE IInv
  OBVIOUS
<1>1. \A i \in Item : rows[i] \in {SeedRow, NoRow} /\ links[i] = {}
  BY DEF Init
<1>2. SeedRow \in Row /\ NoRow \in Row /\ "idle" \in PC
  BY DEF SeedRow, NoRow, Row, PC
<1>3. TypeOK
  BY <1>2, NoJobType DEF Init, TypeOK
<1>4. RowsOK /\ Shape
  BY <1>1 DEF RowsOK, Shape, SeedRow, NoRow, Init, NoJob
<1>5. LinksMatch
  <2>1. \A i \in Item : LinksOf(i, {}) = {}
    BY DEF LinksOf
  <2>2. \A i \in Item : rows[i].refs = {}
    BY <1>1 DEF SeedRow, NoRow
  <2> QED
    BY <1>1, <2>1, <2>2 DEF LinksMatch
<1>6. Pending
  BY DEF Init, Pending, NoJob
<1> QED
  BY <1>3, <1>4, <1>5, <1>6 DEF IInv

LEMMA QuietIInv ==
  ASSUME IInv, NEW p \in Request, Quiet(p)
  PROVE  IInv'
<1>1. PICK l \in PC, j \in Job : Goes(p, l, j) /\ (j = job[p] \/ Sound(j))
  BY DEF Quiet
<1>2. UNCHANGED <<rows, links>>
  BY DEF Quiet
<1>3. \A q \in Request : job'[q] = IF q = p THEN j ELSE job[q]
  BY <1>1 DEF Goes, IInv, TypeOK
<1>4. TypeOK'
  BY <1>1, <1>2 DEF Goes, IInv, TypeOK
<1>5. RowsOK'
  BY <1>2 DEF IInv, RowsOK
<1>6. LinksMatch'
  BY <1>2 DEF IInv, LinksMatch, Live
<1>7. Shape'
  <2> SUFFICES ASSUME NEW q \in Request, job'[q].op \in {"create", "update"}
               PROVE  job'[q].refs \subseteq MayName(job'[q].id)
    BY <1>2 DEF IInv, Shape
  <2>1. CASE job'[q] = job[q]
    BY <2>1 DEF IInv, Shape
  <2>2. CASE job'[q] # job[q]
    BY <1>1, <1>3, <2>2 DEF Sound
  <2> QED
    BY <2>1, <2>2
<1>8. Pending'
  <2> SUFFICES ASSUME NEW q \in Request, job'[q].op = "update"
               PROVE  /\ job'[q].ver <= rows[job'[q].id].ver
                      /\ job'[q].id \in FSM \cup Tree \cup Region
                           /\ job'[q].ver = rows[job'[q].id].ver => ~rows[job'[q].id].enabled
    BY <1>2 DEF Pending
  <2>1. CASE job'[q] = job[q]
    BY <2>1 DEF IInv, Pending
  <2>2. CASE job'[q] # job[q]
    BY <1>1, <1>3, <2>2 DEF Sound
  <2> QED
    BY <2>1, <2>2
<1> QED
  BY <1>4, <1>5, <1>6, <1>7, <1>8 DEF IInv

\* A write that makes of the row i the row r, and of its links what r says, while
\* the requests end or stay as they are.
RowWrite(i, r) ==
  /\ rows' = [rows EXCEPT ![i] = r]
  /\ links' = [links EXCEPT ![i] = IF r.live THEN LinksOf(i, r.refs) ELSE {}]
  /\ pc' \in [Request -> PC]
  /\ job' \in [Request -> Job]
  /\ \A q \in Request : job'[q] = job[q] \/ job'[q] = NoJob

\* Such a write keeps the invariant where it counts the version up, or changes
\* neither the version nor enabled.
LEMMA RowWriteIInv ==
  ASSUME IInv, NEW i \in Item, NEW r \in Row, RowWrite(i, r),
         r.refs \subseteq MayName(i),
         \/ r.ver = rows[i].ver + 1
         \/ r.ver = rows[i].ver /\ r.enabled = rows[i].enabled /\ r.ver # 0
  PROVE  IInv'
<1>1. /\ rows \in [Item -> Row] /\ links \in [Item -> SUBSET Item]
      /\ rows[i].ver \in Nat /\ r.ver \in Nat /\ r.refs \in SUBSET Name
  BY DEF IInv, TypeOK, Row
<1>2. \A k \in Item : rows'[k] = IF k = i THEN r ELSE rows[k]
  BY <1>1 DEF RowWrite
<1>3. \A k \in Item : links'[k] = IF k = i THEN IF r.live THEN LinksOf(i, r.refs) ELSE {}
                                  ELSE links[k]
  BY <1>1 DEF RowWrite
<1>4. TypeOK'
  <2>1. LinksOf(i, r.refs) \in SUBSET Item
    BY <1>1 DEF LinksOf, Item
  <2> QED
    BY <1>1, <2>1 DEF RowWrite, TypeOK
<1>5. RowsOK'
  BY <1>1, <1>2 DEF IInv, RowsOK
<1>6. LinksMatch'
  BY <1>2, <1>3 DEF IInv, LinksMatch, Live
<1>7. Shape'
  <2>1. \A k \in Item : rows'[k].refs \subseteq MayName(k)
    BY <1>2 DEF IInv, Shape
  <2>2. \A q \in Request : job'[q].op \in {"create", "update"} =>
          job'[q].refs \subseteq MayName(job'[q].id)
    BY DEF IInv, Shape, RowWrite, NoJob
  <2> QED
    BY <2>1, <2>2 DEF Shape
<1>8. Pending'
  <2> SUFFICES ASSUME NEW q \in Request, job'[q].op = "update"
               PROVE  /\ job'[q].ver <= rows'[job'[q].id].ver
                      /\ job'[q].id \in FSM \cup Tree \cup Region
                           /\ job'[q].ver = rows'[job'[q].id].ver => ~rows'[job'[q].id].enabled
    BY DEF Pending
  <2>1. job'[q] = job[q] /\ job[q].id \in Item /\ job[q].ver \in Nat
    BY DEF RowWrite, NoJob, IInv, TypeOK, Job
  <2>2. /\ job[q].ver <= rows[job[q].id].ver
        /\ job[q].id \in FSM \cup Tree \cup Region
             /\ job[q].ver = rows[job[q].id].ver => ~rows[job[q].id].enabled
    BY <2>1 DEF IInv, Pending
  <2> QED
    BY <1>1, <1>2, <2>1, <2>2
<1> QED
  BY <1>4, <1>5, <1>6, <1>7, <1>8 DEF IInv

\* How a request ends.
LEMMA FinishEnds ==
  ASSUME TypeOK, NEW p \in Request, Finish(p)
  PROVE  /\ pc' \in [Request -> PC] /\ job' \in [Request -> Job]
         /\ pc'[p] = "idle" /\ job'[p] = NoJob
         /\ \A q \in Request \ {p} : pc'[q] = pc[q] /\ job'[q] = job[q]
<1>1. "idle" \in PC
  BY DEF PC
<1> QED
  BY <1>1, NoJobType DEF TypeOK, Finish, Goto

\* Each write of a table is such a write, or writes nothing.
LEMMA InsertIInv ==
  ASSUME IInv, NEW p \in Request, Insert(p)
  PROVE  IInv'
<1> DEFINE i == job[p].id
           r == [live |-> TRUE, enabled |-> i \in Word \cup NodeType \cup NPC,
                 ver |-> 1, refs |-> job[p].refs]
<1>1. i \in Item /\ job[p].refs \in SUBSET Name
  BY DEF IInv, TypeOK, Job
<1>2. CASE ~Unused(i)
  BY <1>2, FinishQuiet, QuietIInv DEF Insert
<1>3. CASE Unused(i)
  <2>1. r \in Row
    BY <1>1 DEF Row
  <2>2. RowWrite(i, r)
    BY <1>3, FinishEnds DEF Insert, RowWrite, IInv
  <2>3. r.refs \subseteq MayName(i)
    BY DEF Insert, IInv, Shape
  <2>4. r.ver = rows[i].ver + 1
    BY <1>3 DEF Unused
  <2> QED
    BY <1>1, <2>1, <2>2, <2>3, <2>4, RowWriteIInv
<1> QED
  BY <1>2, <1>3

LEMMA OverwriteIInv ==
  ASSUME IInv, NEW p \in Request, Overwrite(p)
  PROVE  IInv'
<1> DEFINE i == job[p].id
           s == [rows[i] EXCEPT !.refs = job[p].refs]
           r == [s EXCEPT !.ver = rows[i].ver + 1]
<1>1. /\ i \in Item /\ job[p].refs \in SUBSET Name
      /\ rows \in [Item -> Row] /\ rows[i] \in Row
  BY DEF IInv, TypeOK, Job
<1>2. CASE ~VersionMatches(p)
  BY <1>2, FinishQuiet, QuietIInv DEF Overwrite
<1>3. CASE VersionMatches(p)
  <2>0. s \in Row /\ s.ver = rows[i].ver /\ s.refs = job[p].refs /\ s.live = rows[i].live
    BY <1>1 DEF Row
  <2>1. r \in Row /\ r.ver = rows[i].ver + 1 /\ r.refs = job[p].refs
        /\ r.live = rows[i].live
    <3> HIDE DEF s
    <3> QED
      BY <2>0 DEF Row
  <2>2. rows' = [rows EXCEPT ![i] = r]
    <3> DEFINE rs == [rows EXCEPT ![i] = s]
    <3>1. rs = [rows EXCEPT ![i].refs = job[p].refs] /\ rs[i] = s
      BY <1>1
    <3>2. rows' = [rs EXCEPT ![i].ver = rows[i].ver + 1]
      BY <1>1, <1>3, <3>1 DEF Overwrite
    <3>3. rows' = [rs EXCEPT ![i] = r]
      BY <3>1, <3>2
    <3> QED
      BY <1>1, <3>3
  <2>3. RowWrite(i, r)
    BY <1>3, <2>1, <2>2, FinishEnds DEF Overwrite, VersionMatches, Live, RowWrite, IInv
  <2>4. r.refs \subseteq MayName(i)
    BY <2>1 DEF Overwrite, IInv, Shape
  <2> QED
    BY <1>1, <2>1, <2>3, <2>4, RowWriteIInv
<1> QED
  BY <1>2, <1>3

LEMMA RemoveIInv ==
  ASSUME IInv, NEW p \in Request, Remove(p)
  PROVE  IInv'
<1> DEFINE i == job[p].id
           r == [rows[i] EXCEPT !.live = FALSE]
<1>1. /\ i \in Item /\ rows \in [Item -> Row] /\ rows[i] \in Row
  BY DEF IInv, TypeOK, Job
<1>2. CASE ~Live(i)
  BY <1>2, FinishQuiet, QuietIInv DEF Remove
<1>3. CASE Live(i)
  <2>1. r \in Row /\ r.ver = rows[i].ver /\ r.enabled = rows[i].enabled
        /\ r.refs = rows[i].refs /\ ~r.live
    BY <1>1 DEF Row
  <2>2. rows' = [rows EXCEPT ![i] = r]
    BY <1>1, <1>3 DEF Remove
  <2>3. RowWrite(i, r)
    BY <1>3, <2>1, <2>2, FinishEnds DEF Remove, RowWrite, IInv
  <2>4. r.refs \subseteq MayName(i)
    BY <1>1, <2>1 DEF IInv, Shape
  <2>5. r.ver # 0
    BY <1>1, <1>3, <2>1 DEF IInv, RowsOK, Live, NoRow
  <2> QED
    BY <1>1, <2>1, <2>3, <2>4, <2>5, RowWriteIInv
<1> QED
  BY <1>2, <1>3

LEMMA ToggleIInv ==
  ASSUME IInv, NEW p \in Request, NEW i \in Item, NEW b \in BOOLEAN, ToggleEnabled(p, i, b)
  PROVE  IInv'
<1> DEFINE r == [rows[i] EXCEPT !.enabled = b, !.ver = @ + 1]
<1>1. rows \in [Item -> Row] /\ rows[i] \in Row
  BY DEF IInv, TypeOK
<1>2. r \in Row /\ r.ver = rows[i].ver + 1 /\ r.refs = rows[i].refs /\ r.live
  BY <1>1 DEF Row, ToggleEnabled, Live
<1>3. rows' = [rows EXCEPT ![i] = r]
  BY <1>1 DEF ToggleEnabled
<1>4. links' = [links EXCEPT ![i] = LinksOf(i, r.refs)]
  BY <1>2 DEF ToggleEnabled, IInv, TypeOK, LinksMatch, Live
<1>5. RowWrite(i, r)
  BY <1>2, <1>3, <1>4 DEF ToggleEnabled, RowWrite, IInv, TypeOK
<1>6. r.refs \subseteq MayName(i)
  BY <1>2 DEF IInv, Shape
<1> QED
  BY <1>2, <1>5, <1>6, RowWriteIInv

LEMMA StepIInv ==
  ASSUME IInv, [Next]_vars
  PROVE  IInv'
<1>1. CASE UNCHANGED vars
  BY <1>1 DEF vars, IInv, TypeOK, RowsOK, Shape, LinksMatch, Live, Pending
<1>2. CASE Next
  <2>1. PICK p \in Request : Quiet(p) \/ Writes(p)
    BY <1>2, Steps DEF IInv
  <2> QED
    BY <2>1, QuietIInv, InsertIInv, OverwriteIInv, RemoveIInv, ToggleIInv DEF Writes
<1> QED
  BY <1>1, <1>2

\* Any number of requests, with any faults: the tables of names that deletes count
\* are what the rows say, no row names what its kind may not, and an update is
\* pending on a row that may be edited or has moved on.
THEOREM ConfigInvariance == Spec => []IInv
BY InitIInv, StepIInv, PTL DEF Spec

\* Every variable keeps its type.
THEOREM ConfigTypes == Spec => []TypeOK
<1>1. IInv => TypeOK
  BY DEF IInv
<1> QED
  BY <1>1, ConfigInvariance, PTL

\* A step changes no name in an enabled machine, tree or region.
LEMMA StepEdits ==
  ASSUME IInv, [Next]_vars, NEW i \in FSM \cup Tree \cup Region, Usable(i)
  PROVE  rows'[i].refs = rows[i].refs
<1>1. i \in Item /\ rows \in [Item -> Row] /\ rows[i] \in Row /\ rows[i].live
      /\ rows[i].enabled
  BY DEF Usable, IInv, TypeOK
<1>2. CASE UNCHANGED rows
  BY <1>2
<1>3. ASSUME NEW p \in Request, Insert(p) PROVE rows'[i].refs = rows[i].refs
  <2>1. CASE job[p].id = i
    BY <1>1, <1>3, <2>1 DEF Insert, Unused, IInv, RowsOK, NoRow
  <2>2. CASE job[p].id # i
    BY <1>1, <1>3, <2>2 DEF Insert
  <2> QED
    BY <2>1, <2>2
<1>4. ASSUME NEW p \in Request, Overwrite(p) PROVE rows'[i].refs = rows[i].refs
  <2>1. CASE job[p].id = i
    BY <1>1, <1>4, <2>1 DEF Overwrite, VersionMatches, IInv, Pending
  <2>2. CASE job[p].id # i
    BY <1>1, <1>4, <2>2 DEF Overwrite
  <2> QED
    BY <2>1, <2>2
<1>5. ASSUME NEW p \in Request, Remove(p) PROVE rows'[i].refs = rows[i].refs
  <2>1. CASE Live(job[p].id)
    <3>1. rows' = [rows EXCEPT ![job[p].id] = [rows[job[p].id] EXCEPT !.live = FALSE]]
      BY <1>5, <2>1 DEF Remove
    <3> QED
      BY <1>1, <3>1 DEF Row
  <2> QED
    BY <1>5, <2>1 DEF Remove
<1>6. ASSUME NEW k \in Item, NEW b \in BOOLEAN, NEW p \in Request, ToggleEnabled(p, k, b)
      PROVE  rows'[i].refs = rows[i].refs
  <2>1. rows' = [rows EXCEPT ![k] = [rows[k] EXCEPT !.enabled = b, !.ver = @ + 1]]
    BY <1>6 DEF ToggleEnabled
  <2> QED
    BY <1>1, <2>1 DEF Row
<1>7. CASE Next
  BY <1>2, <1>3, <1>4, <1>5, <1>6, <1>7, Steps DEF IInv, Quiet, Writes
<1> QED
  BY <1>2, <1>7 DEF vars

\* No interleaving of requests rewrites the names in a machine, tree or region while
\* it is enabled: the version in the UPDATE makes up for the early test.
THEOREM EnabledKeepNames == Spec => EditsOnlyDisabled
<1>1. IInv /\ [Next]_vars =>
        [\A i \in FSM \cup Tree \cup Region : Usable(i) => rows'[i].refs = rows[i].refs]_vars
  BY StepEdits
<1> QED
  BY <1>1, ConfigInvariance, PTL DEF Spec, EditsOnlyDisabled

-----------------------------------------------------------------------------
(* One request at a time, and no error dropped *)

One == (\A p, q \in Request : p = q) /\ ~CountMayFail

\* What SerialInv says of a request at l with the job j.
Holds(l, j) ==
  /\ l = "deliver" => /\ j.refs \in {NamesIn(NPC), NamesIn(Region)}
                      /\ \A x \in j.refs : Usable(x)
  /\ l \in {"fsm", "trees", "types", "npcs", "write"} => j.op \in {"create", "update"}
  /\ l \in {"fsm", "trees"} => j.id \in NPC
  /\ l = "types" => j.id \in Tree
  /\ l = "trees" => \A f \in j.refs \cap FSM : Live(f)
  /\ l = "write" /\ j.id \in NPC => \A x \in j.refs \ {Blank} : Live(x)
  /\ l = "write" /\ j.id \in Tree => \A t \in j.refs : Live(t)
  /\ l \in {"recheck", "remove"} /\ j.id \in Word \cup NodeType \cup FSM \cup Tree =>
       \A k \in Item : Live(k) => j.id \notin rows[k].refs
  /\ l \in {"export_fsm", "export_trees"} => j.refs = NamesIn(NPC)
  /\ l = "export_npcs" => j.refs = NamesIn(Region)
  /\ l = "export_trees" => \A f \in j.refs \cap FSM : Usable(f)

LEMMA SerialIs ==
  SerialInv <=> SerialIntegrity /\ \A p \in Request : Holds(pc[p], job[p])
BY DEF SerialInv, ExportSound, Found, Unnamed, Exporting, Holds

LEMMA GoesSerial ==
  ASSUME TypeOK, SerialInv, One, NEW p \in Request, NEW l, NEW j, Goes(p, l, j),
         UNCHANGED <<rows, links>>, Holds(l, j)
  PROVE  SerialInv'
<1>1. pc'[p] = l /\ job'[p] = j
  BY DEF Goes, TypeOK
<1>2. Holds(l, j)'
  BY DEF Holds, NamesIn, Usable, Live
<1>3. \A q \in Request : Holds(pc[q], job[q])'
  BY <1>1, <1>2 DEF One, Holds
<1>4. SerialIntegrity'
  BY DEF SerialInv, SerialIntegrity, Live
<1>5. (SerialIntegrity /\ \A q \in Request : Holds(pc[q], job[q]))' => SerialInv'
  BY DEF SerialInv, ExportSound, Found, Unnamed, Exporting, Holds
<1> QED
  BY <1>3, <1>4, <1>5

\* An idle request has found nothing.
LEMMA FinishSerial ==
  ASSUME TypeOK, SerialInv, One, NEW p \in Request, Finish(p), UNCHANGED <<rows, links>>
  PROVE  SerialInv'
<1>1. Goes(p, "idle", NoJob)
  BY DEF Finish, Goto, Goes, NoJob
<1>2. Holds("idle", NoJob)
  BY DEF Holds
<1> QED
  BY <1>1, <1>2, GoesSerial

LEMMA CheckSerial ==
  ASSUME TypeOK, SerialInv, One, NEW p \in Request, NEW ok, NEW l,
         Check(p, ok, l), UNCHANGED <<rows, links>>, ok => Holds(l, job[p])
  PROVE  SerialInv'
<1>1. CASE Finish(p)
  BY <1>1, FinishSerial
<1>2. CASE ok /\ Goto(p, l) /\ UNCHANGED job
  <2>1. Goes(p, l, job[p])
    BY <1>2 DEF TypeOK, Goto, Goes
  <2> QED
    BY <1>2, <2>1, GoesSerial
<1> QED
  BY <1>1, <1>2 DEF Check

LEMMA BeginSerial ==
  ASSUME TypeOK, SerialInv, One, NEW p \in Request, NEW op, NEW i, NEW v, NEW R, NEW l,
         Begin(p, op, i, v, R, l),
         Holds(l, [op |-> op, id |-> i, ver |-> v, refs |-> R])
  PROVE  SerialInv'
<1>1. Goes(p, l, [op |-> op, id |-> i, ver |-> v, refs |-> R])
  BY DEF Begin, Goto, Goes
<1> QED
  BY <1>1, GoesSerial DEF Begin

\* What a request carries to its first check makes nothing wrong.
LEMMA BeginWriteSerial ==
  ASSUME TypeOK, SerialInv, One, NEW p \in Request, NEW i, NEW v, NEW R, NEW l,
         Create(p, i, R, l) \/ Update(p, i, v, R, l),
         \/ l = "write" /\ i \in Word \cup NodeType \cup FSM
         \/ l = "types" /\ i \in Tree
         \/ l = "fsm" /\ i \in NPC
         \/ l = "npcs"
  PROVE  SerialInv'
<1>1. \A op \in {"create", "update"} : \A w :
        Holds(l, [op |-> op, id |-> i, ver |-> w, refs |-> R])
  BY KindAssumption DEF Holds
<1> QED
  BY <1>1, BeginSerial DEF Create, Update

LEMMA DeleteSerial ==
  ASSUME TypeOK, SerialInv, One, NEW p \in Request, NEW i, NEW l, Delete(p, i, l),
         \/ l = "count"
         \/ l \in {"recheck", "remove"} /\ i \in NPC \cup Region
  PROVE  SerialInv'
<1>1. Holds(l, [op |-> "delete", id |-> i, ver |-> 0, refs |-> {}])
  BY KindAssumption DEF Holds
<1> QED
  BY <1>1, BeginSerial DEF Delete

\* A count that finds no user: no row that is not deleted has the name.
LEMMA NoUsers ==
  ASSUME IInv, NEW i \in Word \cup NodeType \cup FSM \cup Tree, Users(i) = {},
         NEW k \in Item, Live(k)
  PROVE  i \notin rows[k].refs
<1> SUFFICES ASSUME i \in rows[k].refs PROVE FALSE
  OBVIOUS
<1>1. i \in MayName(k) /\ i # Blank
  BY KindAssumption DEF IInv, Shape, Item
<1>2. links[k] = LinksOf(k, rows[k].refs)
  BY DEF IInv, LinksMatch
<1>3. CASE i \in Word
  <2>1. k \in FSM
    BY <1>1, <1>3, KindAssumption DEF MayName
  <2> QED
    BY <1>3, <2>1 DEF Users, ListFsmConfigsReferencingState
<1>4. CASE i \in NodeType
  <2>1. k \in Tree
    BY <1>1, <1>4, KindAssumption DEF MayName
  <2>2. i \in links[k]
    BY <1>2, <1>4, <2>1, KindAssumption DEF LinksOf
  <2> QED
    BY <1>4, <2>1, <2>2, KindAssumption DEF Users, GetNodeTypeUsages
<1>5. CASE i \in FSM
  <2>1. k \in NPC
    BY <1>1, <1>5, KindAssumption DEF MayName
  <2> QED
    BY <1>5, <2>1, KindAssumption DEF Users, CountByFsmRef
<1>6. CASE i \in Tree
  <2>1. k \in NPC
    BY <1>1, <1>6, KindAssumption DEF MayName
  <2>2. i \in links[k]
    BY <1>2, <1>6, <2>1 DEF LinksOf
  <2> QED
    BY <1>6, <2>1, <2>2, KindAssumption DEF Users, CountByBtTreeName
<1> QED
  BY <1>3, <1>4, <1>5, <1>6

\* The checks of a request that writes.
LEMMA ChecksSerial ==
  ASSUME IInv, SerialInv, One, NEW p \in Request,
         GetStateNames(p) \/ CheckBtTrees(p) \/ ValidateNodes(p) \/ LookupByNames(p)
  PROVE  SerialInv'
<1> DEFINE j == job[p]
<1>0. TypeOK /\ Holds(pc[p], j) /\ UNCHANGED <<rows, links>>
  BY SerialIs DEF IInv, GetStateNames, CheckBtTrees, ValidateNodes, LookupByNames
<1>1. CASE GetStateNames(p)
  <2>1. (\A f \in j.refs \cap FSM : Usable(f)) => Holds("trees", j)
    BY <1>0, <1>1 DEF GetStateNames, Holds, Usable, Live
  <2> QED
    BY <1>0, <1>1, <2>1, CheckSerial DEF GetStateNames
<1>2. CASE CheckBtTrees(p)
  <2>1. j.id \in NPC /\ j.op \in {"create", "update"} /\ \A f \in j.refs \cap FSM : Live(f)
    BY <1>0, <1>2 DEF CheckBtTrees, Holds
  <2>2. j.refs \subseteq FSM \cup Tree \cup {Blank}
    BY <2>1, KindAssumption DEF IInv, Shape, MayName
  <2>3. ASSUME BtTreesOK(p) PROVE Holds("write", j)
    <3>1. \A x \in j.refs \ {Blank} : Live(x)
      BY <2>1, <2>2, <2>3 DEF BtTreesOK, Usable, Live
    <3> QED
      BY <2>1, <3>1, KindAssumption DEF Holds
  <2> QED
    BY <1>0, <1>2, <2>3, CheckSerial DEF CheckBtTrees
<1>3. CASE ValidateNodes(p)
  <2>1. NodeTypesOK(p) => Holds("write", j)
    BY <1>0, <1>3 DEF ValidateNodes, NodeTypesOK, Holds, Usable, Live
  <2> QED
    BY <1>0, <1>3, <2>1, CheckSerial DEF ValidateNodes
<1>4. CASE LookupByNames(p)
  <2>1. (\A n \in j.refs : Usable(n)) => Holds("write", j)
    BY <1>0, <1>4 DEF LookupByNames, Holds, Usable, Live
  <2> QED
    BY <1>0, <1>4, <2>1, CheckSerial DEF LookupByNames
<1> QED
  BY <1>1, <1>2, <1>3, <1>4

\* Counting the users of what is to be deleted, and reading it again.
LEMMA CountSerial ==
  ASSUME IInv, SerialInv, One, NEW p \in Request, CountUsers(p) \/ Recheck(p)
  PROVE  SerialInv'
<1> DEFINE j == job[p]
<1>0. TypeOK /\ Holds(pc[p], j) /\ UNCHANGED <<rows, links>>
  BY SerialIs DEF IInv, CountUsers, Recheck
<1>1. CASE CountUsers(p)
  <2> DEFINE l == IF j.id \in Word \cup NodeType THEN "remove" ELSE "recheck"
  <2>1. Users(j.id) = {} => Holds(l, j)
    BY NoUsers DEF Holds
  <2>2. Check(p, Users(j.id) = {}, l)
    BY <1>1 DEF CountUsers, One
  <2> HIDE DEF l
  <2> QED
    BY <1>0, <2>1, <2>2, CheckSerial
<1>2. CASE Recheck(p)
  <2>1. Holds("remove", j)
    BY <1>0, <1>2 DEF Recheck, Holds
  <2> QED
    BY <1>0, <1>2, <2>1, CheckSerial DEF Recheck
<1> QED
  BY <1>1, <1>2

LEMMA ExportSerial ==
  ASSUME IInv, SerialInv, One, NEW p \in Request, Export(p)
  PROVE  SerialInv'
<1> DEFINE j == job[p]
<1>0. TypeOK /\ Holds(pc[p], j)
  BY SerialIs DEF IInv
<1>1. CASE ExportNPCs(p)
  <2>1. Holds("export_fsm", [op |-> "export", id |-> NoJob.id, ver |-> 0,
                             refs |-> NamesIn(NPC)])
    BY DEF Holds
  <2> QED
    BY <1>0, <1>1, <2>1, BeginSerial DEF ExportNPCs
<1>2. CASE ExportRegions(p)
  <2>1. Holds("export_npcs", [op |-> "export", id |-> NoJob.id, ver |-> 0,
                              refs |-> NamesIn(Region)])
    BY DEF Holds
  <2> QED
    BY <1>0, <1>2, <2>1, BeginSerial DEF ExportRegions
<1>3. CASE ExportCheckFSM(p)
  <2>1. (\A f \in j.refs \cap FSM : Usable(f)) => Holds("export_trees", j)
    BY <1>0, <1>3 DEF ExportCheckFSM, Holds
  <2> QED
    BY <1>0, <1>3, <2>1, CheckSerial DEF ExportCheckFSM
<1>4. CASE ExportCheckTrees(p)
  <2>1. ExportTreesOK(p) => Holds("deliver", j)
    BY <1>0, <1>4 DEF ExportCheckTrees, ExportTreesOK, Holds
  <2> QED
    BY <1>0, <1>4, <2>1, CheckSerial DEF ExportCheckTrees
<1>5. CASE ExportCheckNPCs(p)
  <2>1. (\A n \in j.refs : Usable(n)) => Holds("deliver", j)
    BY <1>0, <1>5 DEF ExportCheckNPCs, Holds
  <2> QED
    BY <1>0, <1>5, <2>1, CheckSerial DEF ExportCheckNPCs
<1>6. CASE Deliver(p)
  BY <1>0, <1>6, FinishSerial DEF Deliver
<1> QED
  BY <1>1, <1>2, <1>3, <1>4, <1>5, <1>6 DEF Export

\* After a write no request is under way, so that only the rows matter.
LEMMA IdleSerial ==
  ASSUME One, NEW p \in Request, pc'[p] = "idle", SerialIntegrity'
  PROVE  SerialInv'
<1>1. \A q \in Request : pc'[q] = "idle"
  BY DEF One
<1> QED
  BY <1>1 DEF SerialInv, ExportSound, Found, Unnamed, Exporting

\* A write that deletes nothing, and writes names found: the names in the rows are
\* those of rows that are not deleted.
LEMMA WrittenIntegrity ==
  ASSUME SerialIntegrity, NEW i \in Item, NEW R,
         \A k \in Item : Live(k) => Live(k)',
         \A k \in Item \ {i} : rows'[k] = rows[k],
         rows'[i].refs = R,
         i \in NPC => \A x \in R \ {Blank} : x \in Item /\ Live(x),
         i \in Tree => \A t \in R : t \in Item /\ Live(t),
         IInv
  PROVE  SerialIntegrity'
<1>1. ASSUME NEW n \in NPC, Live(n)', NEW x \in rows'[n].refs \ {Blank}
      PROVE  Live(x)'
  <2>1. CASE n = i
    BY <1>1, <2>1
  <2>2. CASE n # i
    <3>1. n \in Item /\ rows'[n] = rows[n] /\ Live(n)
      BY <1>1, <2>2 DEF Item, Live
    <3>2. Live(x) /\ x \in Item
      BY <1>1, <3>1 DEF SerialIntegrity, IInv, TypeOK, Row, Name
    <3> QED
      BY <3>2
  <2> QED
    BY <2>1, <2>2
<1>2. ASSUME NEW b \in Tree, Live(b)', NEW t \in rows'[b].refs
      PROVE  Live(t)'
  <2>1. CASE b = i
    BY <1>2, <2>1
  <2>2. CASE b # i
    <3>1. b \in Item /\ rows'[b] = rows[b] /\ Live(b)
      BY <1>2, <2>2 DEF Item, Live
    <3>2. Live(t)
      BY <1>2, <3>1 DEF SerialIntegrity
    <3>3. t \in Item
      BY <1>2, <3>1, KindAssumption DEF IInv, Shape, MayName, Item
    <3> QED
      BY <3>1, <3>2, <3>3
  <2> QED
    BY <2>1, <2>2
<1> QED
  BY <1>1, <1>2 DEF SerialIntegrity

LEMMA InsertSerial ==
  ASSUME IInv, SerialInv, One, NEW p \in Request, Insert(p)
  PROVE  SerialInv'
<1> DEFINE i == job[p].id
           R == job[p].refs
           r == [live |-> TRUE, enabled |-> i \in Word \cup NodeType \cup NPC,
                 ver |-> 1, refs |-> R]
<1>0. /\ TypeOK /\ Holds(pc[p], job[p]) /\ Finish(p)
      /\ i \in Item /\ rows \in [Item -> Row] /\ R \subseteq MayName(i)
  BY SerialIs DEF IInv, TypeOK, Job, Insert, Shape
<1>1. CASE ~Unused(i)
  BY <1>0, <1>1, FinishSerial DEF Insert
<1>2. CASE Unused(i)
  <2>1. rows' = [rows EXCEPT ![i] = r]
    BY <1>2 DEF Insert
  <2>2. /\ \A k \in Item : Live(k) => Live(k)'
        /\ \A k \in Item \ {i} : rows'[k] = rows[k]
        /\ rows'[i].refs = R
    BY <1>0, <2>1 DEF Live
  <2>3. i \in NPC => \A x \in R \ {Blank} : x \in Item /\ Live(x)
    BY <1>0, KindAssumption DEF Insert, Holds, MayName, Item
  <2>4. i \in Tree => \A t \in R : t \in Item /\ Live(t)
    BY <1>0, KindAssumption DEF Insert, Holds, MayName, Item
  <2>5. SerialIntegrity'
    BY <1>0, <2>2, <2>3, <2>4, WrittenIntegrity DEF SerialInv
  <2> QED
    BY <1>0, <2>5, FinishEnds, IdleSerial
<1> QED
  BY <1>1, <1>2

LEMMA OverwriteSerial ==
  ASSUME IInv, SerialInv, One, NEW p \in Request, Overwrite(p)
  PROVE  SerialInv'
<1> DEFINE i == job[p].id
           R == job[p].refs
<1>0. /\ TypeOK /\ Holds(pc[p], job[p]) /\ Finish(p)
      /\ i \in Item /\ rows \in [Item -> Row] /\ R \subseteq MayName(i)
  BY SerialIs DEF IInv, TypeOK, Job, Overwrite, Shape
<1>1. CASE ~VersionMatches(p)
  BY <1>0, <1>1, FinishSerial DEF Overwrite
<1>2. CASE VersionMatches(p)
  <2>1. rows' = [rows EXCEPT ![i].refs = R, ![i].ver = @ + 1]
    BY <1>2 DEF Overwrite
  <2>2. /\ \A k \in Item : Live(k) => Live(k)'
        /\ \A k \in Item \ {i} : rows'[k] = rows[k]
        /\ rows'[i].refs = R
    BY <1>0, <2>1 DEF Live, Row
  <2>3. i \in NPC => \A x \in R \ {Blank} : x \in Item /\ Live(x)
    BY <1>0, KindAssumption DEF Overwrite, Holds, MayName, Item
  <2>4. i \in Tree => \A t \in R : t \in Item /\ Live(t)
    BY <1>0, KindAssumption DEF Overwrite, Holds, MayName, Item
  <2>5. SerialIntegrity'
    BY <1>0, <2>2, <2>3, <2>4, WrittenIntegrity DEF SerialInv
  <2> QED
    BY <1>0, <2>5, FinishEnds, IdleSerial
<1> QED
  BY <1>1, <1>2

LEMMA ToggleSerial ==
  ASSUME IInv, SerialInv, One, NEW p \in Request, NEW i \in Item, NEW b \in BOOLEAN,
         ToggleEnabled(p, i, b)
  PROVE  SerialInv'
<1>0. rows \in [Item -> Row] /\ pc'[p] = "idle"
  BY DEF IInv, TypeOK, ToggleEnabled
<1>1. \A k \in Item : rows'[k].live = rows[k].live /\ rows'[k].refs = rows[k].refs
  BY <1>0 DEF ToggleEnabled, Row
<1>2. \A n \in NPC : rows[n].refs \ {Blank} \subseteq Item
  BY DEF IInv, TypeOK, Row, Name, Item
<1>3. \A b2 \in Tree : rows[b2].refs \subseteq Item
  BY KindAssumption DEF IInv, Shape, MayName, Item
<1>4. SerialIntegrity'
  BY <1>1, <1>2, <1>3 DEF SerialInv, SerialIntegrity, Live, Item
<1> QED
  BY <1>0, <1>4, IdleSerial

\* Nobody names what is deleted, but for NPCs and regions, which no row of
\* SerialIntegrity names.
LEMMA RemovedUnnamed ==
  ASSUME IInv, SerialInv, NEW p \in Request, Remove(p),
         NEW k \in NPC \cup Tree, Live(k)
  PROVE  job[p].id \notin rows[k].refs
<1>0. Holds(pc[p], job[p]) /\ job[p].id \in Item /\ pc[p] = "remove" /\ k \in Item
  BY SerialIs DEF IInv, TypeOK, Job, Remove, Item
<1>1. CASE job[p].id \in Word \cup NodeType \cup FSM \cup Tree
  BY <1>0, <1>1 DEF Holds
<1>2. CASE job[p].id \in NPC \cup Region
  BY <1>0, <1>2, KindAssumption DEF IInv, Shape, MayName, Item
<1> QED
  BY <1>0, <1>1, <1>2 DEF Item

LEMMA RemoveSerial ==
  ASSUME IInv, SerialInv, One, NEW p \in Request, Remove(p)
  PROVE  SerialInv'
<1> DEFINE i == job[p].id
           r == [rows[i] EXCEPT !.live = FALSE]
<1>0. /\ TypeOK /\ Finish(p) /\ i \in Item /\ rows \in [Item -> Row]
  BY DEF IInv, TypeOK, Job, Remove
<1>1. CASE ~Live(i)
  BY <1>0, <1>1, FinishSerial DEF Remove
<1>2. CASE Live(i)
  <2>1. rows' = [rows EXCEPT ![i] = r]
    BY <1>2 DEF Remove
  <2>2. /\ \A k \in Item \ {i} : rows'[k] = rows[k]
        /\ ~rows'[i].live
    BY <1>0, <2>1 DEF Row
  <2>3. ASSUME NEW k \in NPC \cup Tree, Live(k)', NEW x \in rows'[k].refs \ {Blank}
        PROVE  Live(x)'
    <3>1. k \in Item /\ k # i /\ rows'[k] = rows[k] /\ Live(k)
      BY <2>2, <2>3 DEF Item, Live
    <3>2. x \in Item /\ x # i
      BY <2>3, <3>1, RemovedUnnamed DEF IInv, TypeOK, Row, Name
    <3>3. Live(x)
      BY <2>3, <3>1 DEF SerialInv, SerialIntegrity
    <3> QED
      BY <2>2, <3>2, <3>3 DEF Live
  <2>4. \A b \in Tree : Live(b)' => Blank \notin rows'[b].refs
    <3>1. \A b \in Tree : Live(b)' => rows'[b] = rows[b] /\ b \in Item
      BY <2>2 DEF Item, Live
    <3> QED
      BY <3>1, KindAssumption DEF IInv, Shape, MayName, Item
  <2>5. SerialIntegrity'
    BY <2>3, <2>4 DEF SerialIntegrity
  <2> QED
    BY <1>0, <2>5, FinishEnds, IdleSerial
<1> QED
  BY <1>1, <1>2

LEMMA WriteSerial ==
  ASSUME IInv, SerialInv, One, NEW p \in Request, Write(p)
  PROVE  SerialInv'
<1>0. TypeOK
  BY DEF IInv
<1>1. CASE \E w \in Word : CreateWord(p, w) \/ \E v \in Versions(w) : UpdateWord(p, w, v)
  BY <1>0, <1>1, BeginWriteSerial DEF CreateWord, UpdateWord
<1>2. CASE \E t \in NodeType :
             CreateNodeType(p, t) \/ \E v \in Versions(t) : UpdateNodeType(p, t, v)
  BY <1>0, <1>2, BeginWriteSerial DEF CreateNodeType, UpdateNodeType
<1>3. CASE \E f \in FSM, R \in Machines :
             CreateFSM(p, f, R) \/ \E v \in Versions(f) : UpdateFSM(p, f, v, R)
  BY <1>0, <1>3, BeginWriteSerial DEF CreateFSM, UpdateFSM
<1>4. CASE \E b \in Tree, R \in Trees :
             CreateTree(p, b, R) \/ \E v \in Versions(b) : UpdateTree(p, b, v, R)
  BY <1>0, <1>4, BeginWriteSerial DEF CreateTree, UpdateTree
<1>5. CASE \E n \in NPC, R \in Behaviors :
             CreateNPC(p, n, R) \/ \E v \in Versions(n) : UpdateNPC(p, n, v, R)
  BY <1>0, <1>5, BeginWriteSerial DEF CreateNPC, UpdateNPC
<1>6. CASE \E g \in Region, R \in SpawnTables :
             CreateRegion(p, g, R) \/ \E v \in Versions(g) : UpdateRegion(p, g, v, R)
  BY <1>0, <1>6, BeginWriteSerial DEF CreateRegion, UpdateRegion
<1>7. CASE GetStateNames(p) \/ CheckBtTrees(p) \/ ValidateNodes(p) \/ LookupByNames(p)
  BY <1>7, ChecksSerial
<1>8. CASE Insert(p) \/ Overwrite(p) \/ \E i \in Item, b \in BOOLEAN : ToggleEnabled(p, i, b)
  BY <1>8, InsertSerial, OverwriteSerial, ToggleSerial
<1> QED
  BY <1>1, <1>2, <1>3, <1>4, <1>5, <1>6, <1>7, <1>8 DEF Write

LEMMA DropSerial ==
  ASSUME IInv, SerialInv, One, NEW p \in Request, Drop(p)
  PROVE  SerialInv'
<1>0. TypeOK
  BY DEF IInv
<1>1. CASE \/ \E w \in Word : DeleteWord(p, w)
           \/ \E t \in NodeType : DeleteNodeType(p, t)
           \/ \E f \in FSM : DeleteFSM(p, f)
           \/ \E b \in Tree : DeleteTree(p, b)
           \/ \E n \in NPC : DeleteNPC(p, n)
           \/ \E g \in Region : DeleteRegion(p, g)
  BY <1>0, <1>1, DeleteSerial DEF DeleteWord, DeleteNodeType, DeleteFSM, DeleteTree,
     DeleteNPC, DeleteRegion
<1>2. CASE CountUsers(p) \/ Recheck(p) \/ Remove(p)
  BY <1>2, CountSerial, RemoveSerial
<1> QED
  BY <1>1, <1>2 DEF Drop

LEMMA StepSerial ==
  ASSUME One, IInv, SerialInv, [Next]_vars
  PROVE  SerialInv'
<1>1. CASE UNCHANGED vars
  BY <1>1 DEF vars, SerialInv, SerialIntegrity, ExportSound, Found, Unnamed, Exporting,
     NamesIn, Usable, Live
<1>2. CASE Next
  <2>1. PICK p \in Request : Write(p) \/ Drop(p) \/ Export(p) \/ Fail(p)
    BY <1>2 DEF Next
  <2>2. CASE Fail(p)
    BY <2>2, FinishSerial DEF Fail, IInv
  <2> QED
    BY <2>1, <2>2, WriteSerial, DropSerial, ExportSerial
<1> QED
  BY <1>1, <1>2

LEMMA InitSerial == Init => SerialInv
<1> SUFFICES ASSUME Init PROVE SerialInv
  OBVIOUS
<1>1. \A i \in Item : rows[i].refs = {}
  BY DEF Init, SeedRow, NoRow
<1>2. SerialIntegrity
  BY <1>1 DEF SerialIntegrity, Item
<1>3. \A p \in Request : pc[p] = "idle"
  BY DEF Init
<1> QED
  BY <1>2, <1>3 DEF SerialInv, ExportSound, Found, Unnamed, Exporting

\* One request at a time, no count failing: what the checks, the counts and the export
\* queries have found still holds when it is used.
THEOREM ConfigSerialInvariance ==
  ASSUME One
  PROVE  Spec => []SerialInv
<1>1. Spec => [](IInv /\ SerialInv)
  <2>1. Init => IInv /\ SerialInv
    BY InitIInv, InitSerial
  <2>2. (IInv /\ SerialInv) /\ [Next]_vars => (IInv /\ SerialInv)'
    BY StepIInv, StepSerial
  <2> QED
    BY <2>1, <2>2, PTL DEF Spec
<1> QED
  BY <1>1, PTL

\* One request at a time, no count failing: no NPC names a machine or a tree that is
\* deleted, no tree a node type that is deleted.
THEOREM ConfigIntegrity ==
  ASSUME One
  PROVE  Spec => []SerialIntegrity
<1>1. SerialInv => SerialIntegrity
  BY DEF SerialInv
<1> QED
  BY <1>1, ConfigSerialInvariance, PTL

\* One request at a time: an export that is delivered is complete and closed.
THEOREM ExportsClosed ==
  ASSUME One
  PROVE  Spec => []ExportSound
<1>1. SerialInv => ExportSound
  BY DEF SerialInv
<1> QED
  BY <1>1, ConfigSerialInvariance, PTL

\* Only Remove deletes, and only what Unnamed has judged.
LEMMA StepDeletes ==
  ASSUME IInv, SerialInv, [Next]_vars, NEW i \in Word \cup NodeType \cup FSM \cup Tree,
         Live(i), ~rows'[i].live, NEW k \in Item, Live(k)
  PROVE  i \notin rows[k].refs
<1>1. i \in Item /\ rows \in [Item -> Row] /\ rows[i].live
  BY DEF Item, IInv, TypeOK, Live
<1>2. CASE UNCHANGED rows
  BY <1>1, <1>2
<1>3. CASE Next
  <2>1. PICK p \in Request : Quiet(p) \/ Writes(p)
    BY <1>3, Steps DEF IInv
  <2>2. CASE Quiet(p)
    BY <1>2, <2>2 DEF Quiet
  <2>3. CASE Insert(p)
    BY <1>1, <2>3 DEF Insert
  <2>4. CASE Overwrite(p)
    BY <1>1, <2>4 DEF Overwrite, Row
  <2>5. CASE \E m \in Item, b \in BOOLEAN : ToggleEnabled(p, m, b)
    BY <1>1, <2>5 DEF ToggleEnabled, Row
  <2>6. CASE Remove(p)
    <3>1. job[p].id = i
      BY <1>1, <2>6 DEF Remove
    <3> QED
      BY <2>6, <3>1, SerialIs DEF Remove, Holds
  <2> QED
    BY <2>1, <2>2, <2>3, <2>4, <2>5, <2>6 DEF Writes
<1> QED
  BY <1>2, <1>3 DEF vars

\* One request at a time, no count failing: nothing is deleted that a row names.
THEOREM NamedAreKept ==
  ASSUME One
  PROVE  Spec => DeletesOnlyUnnamed
<1>1. IInv /\ SerialInv /\ [Next]_vars =>
        [\A i \in Word \cup NodeType \cup FSM \cup Tree :
           Live(i) /\ ~rows'[i].live =>
             \A j \in Item : Live(j) => i \notin rows[j].refs]_vars
  BY StepDeletes
<1> QED
  BY <1>1, ConfigInvariance, ConfigSerialInvariance, PTL DEF Spec, DeletesOnlyUnnamed
=============================================================================
