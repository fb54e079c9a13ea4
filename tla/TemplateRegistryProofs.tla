----------------------- MODULE TemplateRegistryProofs -----------------------
(***************************************************************************)
(* Proofs about TemplateRegistry for every value of its constants: the     *)
(* types; what holds in every interleaving without Redis; and what holds   *)
(* of one request at a time, with Redis or without.                        *)
(***************************************************************************)
EXTENDS TemplateRegistry, TLAPS

-----------------------------------------------------------------------------
(* What a step of a request can do when it writes no row *)

\* Nobody but p moves.
OnlyMoves(p) ==
  /\ pc' = [pc EXCEPT ![p] = pc'[p]]
  /\ job' = [job EXCEPT ![p] = job'[p]]

\* p is done.
Finishes(p) == pc'[p] = "idle" /\ job'[p] = NoJob

\* p begins an operation on a template.
Begins(p) ==
  \/ /\ pc'[p] = "load"
     /\ job'[p].op \in {"get", "update", "delete", "npc"}
     /\ job'[p].op = "update" => job'[p].ver <= templates[job'[p].id].ver
  \/ /\ pc'[p] = "validate"
     /\ job'[p].op = "create" /\ job'[p].old = NoRow
     /\ templates[job'[p].id].ver = 0
     /\ \A q \in Request : job[q].op = "create" => job[q].id # job'[p].id
  \/ pc'[p] = "clear" /\ job'[p].op = "toggle"

\* p reads the row of its template.
Reads(p) ==
  /\ pc[p] \in {"load", "read"}
  /\ \/ pc'[p] = "read" /\ job'[p] = job[p]
     \/ pc'[p] = "fill"
        /\ job'[p] = [job[p] EXCEPT !.old = Found(templates[job[p].id])]

\* p goes on with the row it has read.
Passes(p) ==
  /\ pc[p] \in Past \cup {"fill"} /\ pc'[p] \in Past
  /\ job'[p] = job[p]
  /\ job[p].old.live \/ job[p].op = "create"
  /\ pc'[p] = "delete" => job[p].op = "delete"
  /\ job[p].op = "create" => pc'[p] = "tx"
  /\ pc'[p] = "commit" =>
       /\ job[p].op \in {"update", "delete"}
       /\ templates[job[p].id].live
       /\ job[p].op = "update" => /\ templates[job[p].id].ver = job[p].ver
                                  /\ ~job[p].old.enabled
       /\ \A q \in Request : pc[q] = "commit" => job[q].id # job[p].id

Moves(p) == Finishes(p) \/ Begins(p) \/ Reads(p) \/ Passes(p)

\* A client is shown the version of a row, or nothing.
Shows ==
  \A t \in Template :
    shown'[t] # shown[t] => shown'[t] \in Nat /\ shown'[t] <= templates[t].ver

-----------------------------------------------------------------------------
(* Types *)

\* The job of an idle request is a job.
LEMMA NoJobType == NoJob \in Job /\ NoRow \in Row
<1>1. (CHOOSE t \in Template : TRUE) \in Template
  BY TemplateAssumption
<1> QED
  BY <1>1 DEF NoJob, Job, Op, Row, NoRow

\* Only p moves if its program counter and its job are overwritten.
LEMMA OverwriteOne ==
  ASSUME TypeOK, NEW p \in Request, NEW l \in PC, NEW j \in Job,
         pc' = [pc EXCEPT ![p] = l], job' = [job EXCEPT ![p] = j]
  PROVE  /\ pc'[p] = l /\ job'[p] = j /\ OnlyMoves(p)
         /\ pc' \in [Request -> PC] /\ job' \in [Request -> Job]
BY DEF TypeOK, OnlyMoves

LEMMA GotoOne ==
  ASSUME TypeOK, NEW p \in Request, NEW l \in PC, Goto(p, l), UNCHANGED job
  PROVE  /\ pc'[p] = l /\ job'[p] = job[p] /\ OnlyMoves(p)
         /\ pc' \in [Request -> PC] /\ job' \in [Request -> Job]
BY DEF TypeOK, OnlyMoves, Goto

LEMMA FinishOne ==
  ASSUME TypeOK, NEW p \in Request, Finish(p)
  PROVE  /\ Finishes(p) /\ OnlyMoves(p)
         /\ pc' \in [Request -> PC] /\ job' \in [Request -> Job]
BY NoJobType, OverwriteOne DEF Finish, Finishes, Goto, PC

\* Going on with the row that was read keeps the job as it is.
LEMMA LoadedMoves ==
  ASSUME TypeOK, Phases, FreshRead, Reserved, NEW p \in Request, pc[p] = "fill",
         Loaded(p, job[p].old)
  PROVE  /\ Moves(p) /\ OnlyMoves(p) /\ Shows
         /\ pc' \in [Request -> PC] /\ job' \in [Request -> Job]
         /\ shown' \in [Template -> Nat]
<1> DEFINE row == job[p].old
           t == job[p].id
<1>1. /\ job[p] \in Job /\ t \in Template /\ row \in Row /\ row.ver \in Nat
      /\ job[p].op \in {"get", "update", "delete", "npc"}
  BY DEF TypeOK, Job, Row, Phases
<1>2. row.ver <= templates[t].ver
  BY DEF FreshRead, Past
<1>3. Shows /\ shown' \in [Template -> Nat]
  BY <1>1, <1>2 DEF TypeOK, Loaded, Shows
<1>4. CASE Finish(p)
  BY <1>3, <1>4, FinishOne DEF Moves
<1>5. CASE ~Finish(p)
  <2>1. /\ Goto(p, AfterLoad(job[p].op)) /\ job' = [job EXCEPT ![p].old = row]
        /\ row.live
    BY <1>5 DEF Loaded
  <2>2. [job[p] EXCEPT !.old = row] = job[p]
    BY <1>1 DEF Job
  <2>3. job' = job
    BY <2>1, <2>2 DEF TypeOK
  <2>4. AfterLoad(job[p].op) \in {"validate", "count", "insert"}
    BY DEF AfterLoad
  <2>5. Passes(p)
    BY <1>1, <2>1, <2>3, <2>4 DEF Goto, TypeOK, Passes, Past
  <2> QED
    BY <1>3, <2>1, <2>3, <2>4, <2>5, GotoOne DEF Moves, PC
<1> QED
  BY <1>4, <1>5

\* A check that answers or goes on.
LEMMA ProceedMoves ==
  ASSUME TypeOK, NEW p \in Request, NEW ok, NEW l \in PC, Proceed(p, ok, l),
         ok => \/ pc'[p] # l \/ job'[p] # job[p] \/ Passes(p)
  PROVE  /\ Moves(p) /\ OnlyMoves(p)
         /\ pc' \in [Request -> PC] /\ job' \in [Request -> Job]
<1>1. CASE ok
  <2>1. Goto(p, l) /\ job' = job
    BY <1>1 DEF Proceed
  <2> QED
    BY <1>1, <2>1, GotoOne DEF Moves
<1>2. CASE ~ok
  BY <1>2, FinishOne DEF Moves, Proceed
<1> QED
  BY <1>1, <1>2

-----------------------------------------------------------------------------
(* The steps of a request that write no row of templates or field_refs *)

\* The actions without the three that write rows: CreateTx, Commit, ToggleEnabled.
WritesNoRow(p) ==
  \/ \E t \in Template, F \in SUBSET Field :
       \/ BeginCreate(p, t, F)
       \/ \E op \in {"get", "update", "delete", "npc"} : Begin(p, op, t, F)
  \/ Lookup(p) \/ ReadRow(p) \/ SetDetail(p)
  \/ PreValidate(p) \/ EnsureNoNPCRefs(p)
  \/ UpdateTx(p) \/ RecheckDelete(p) \/ SoftDeleteTx(p)
  \/ \E n \in NPC : CreateNPC(p, n)
  \/ ClearDetail(p)
  \/ Fail(p)

\* What those steps have in common.
Local(p) == /\ Moves(p) /\ OnlyMoves(p) /\ Shows
            /\ pc' \in [Request -> PC] /\ job' \in [Request -> Job]
            /\ shown' \in [Template -> Nat]

LEMMA LocalBegin ==
  ASSUME IInv, NEW p \in Request, NEW t \in Template, NEW F \in SUBSET Field,
         NEW op \in {"get", "update", "delete", "npc"}, Begin(p, op, t, F)
  PROVE  Local(p)
<1> DEFINE v == IF op = "update" THEN shown[t] ELSE 0
           j == [op |-> op, id |-> t, fields |-> F, old |-> NoRow, ver |-> v]
<1>1. v \in Nat /\ (op = "update" => v <= templates[t].ver)
  BY DEF IInv, TypeOK, ShownOK
<1>2. j \in Job
  BY <1>1, NoJobType DEF Job, Op
<1>3. pc' = [pc EXCEPT ![p] = "load"] /\ job' = [job EXCEPT ![p] = j]
  BY DEF Begin, Goto
<1>4. /\ pc'[p] = "load" /\ job'[p] = j /\ OnlyMoves(p)
      /\ pc' \in [Request -> PC] /\ job' \in [Request -> Job]
  BY <1>2, <1>3, OverwriteOne DEF IInv, PC
<1>5. Begins(p)
  BY <1>1, <1>4 DEF Begins
<1> QED
  BY <1>4, <1>5 DEF Local, Moves, Shows, Begin, IInv, TypeOK

LEMMA LocalBeginCreate ==
  ASSUME IInv, NEW p \in Request, NEW t \in Template, NEW F \in SUBSET Field,
         BeginCreate(p, t, F)
  PROVE  Local(p)
<1> DEFINE j == [op |-> "create", id |-> t, ver |-> 0, fields |-> F, old |-> NoRow]
<1>1. j \in Job
  BY NoJobType DEF Job, Op
<1>2. pc' = [pc EXCEPT ![p] = "validate"] /\ job' = [job EXCEPT ![p] = j]
  BY DEF BeginCreate, Goto
<1>3. /\ pc'[p] = "validate" /\ job'[p] = j /\ OnlyMoves(p)
      /\ pc' \in [Request -> PC] /\ job' \in [Request -> Job]
  BY <1>1, <1>2, OverwriteOne DEF IInv, PC
<1>4. Begins(p)
  BY <1>3 DEF Begins, BeginCreate
<1> QED
  BY <1>3, <1>4 DEF Local, Moves, Shows, BeginCreate, IInv, TypeOK

\* Without Redis a lookup misses.
LEMMA LocalLookup ==
  ASSUME IInv, NEW p \in Request, Lookup(p)
  PROVE  Local(p)
<1>1. job[p].id \in Template /\ cache[job[p].id] = Miss
  BY DEF IInv, TypeOK, Job, CacheEmpty
<1>2. Goto(p, "read") /\ UNCHANGED <<job, shown>>
  BY <1>1 DEF Lookup
<1>3. Reads(p)
  BY <1>2, GotoOne DEF Reads, Lookup, IInv, PC
<1> QED
  BY <1>2, <1>3, GotoOne DEF Local, Moves, Shows, IInv, TypeOK, PC

LEMMA LocalReadRow ==
  ASSUME IInv, NEW p \in Request, ReadRow(p)
  PROVE  Local(p)
<1> DEFINE j == [job[p] EXCEPT !.old = Found(templates[job[p].id])]
<1>1. job[p] \in Job /\ templates[job[p].id] \in Row
  BY DEF IInv, TypeOK, Job
<1>2. Found(templates[job[p].id]) \in Row
  BY <1>1, NoJobType DEF Found
<1>3. j \in Job
  BY <1>1, <1>2 DEF Job
<1>4. pc' = [pc EXCEPT ![p] = "fill"] /\ job' = [job EXCEPT ![p] = j]
  BY <1>1 DEF ReadRow, Goto
<1>5. /\ pc'[p] = "fill" /\ job'[p] = j /\ OnlyMoves(p)
      /\ pc' \in [Request -> PC] /\ job' \in [Request -> Job]
  BY <1>3, <1>4, OverwriteOne DEF IInv, PC
<1>6. Reads(p)
  BY <1>5 DEF Reads, ReadRow
<1> QED
  BY <1>5, <1>6 DEF Local, Moves, Shows, ReadRow, IInv, TypeOK

LEMMA LocalSetDetail ==
  ASSUME IInv, NEW p \in Request, SetDetail(p)
  PROVE  Local(p)
BY LoadedMoves DEF IInv, SetDetail, Local

LEMMA LocalChecks ==
  ASSUME IInv, NEW p \in Request,
         PreValidate(p) \/ EnsureNoNPCRefs(p) \/ RecheckDelete(p)
  PROVE  Local(p)
<1>1. shown' \in [Template -> Nat] /\ Shows
  BY DEF PreValidate, EnsureNoNPCRefs, RecheckDelete, Shows, IInv, TypeOK
<1>2. pc[p] \in Past => job[p].old.live \/ job[p].op = "create"
  BY DEF IInv, FreshRead, Past
<1>3. job[p].op = "create" => pc[p] \in {"validate", "tx"}
  BY DEF IInv, Reserved
<1>4. CASE PreValidate(p)
  <2> DEFINE l == IF job[p].op = "create" THEN "tx" ELSE "count"
  <2>1. Proceed(p, ToAdd(p) \subseteq usable, l) /\ pc[p] = "validate"
    BY <1>4 DEF PreValidate
  <2>2. pc'[p] # l \/ job'[p] # job[p] \/ Passes(p)
    BY <1>2, <2>1 DEF Passes, Past
  <2> QED
    BY <1>1, <2>1, <2>2, ProceedMoves DEF Local, IInv, PC
<1>5. CASE EnsureNoNPCRefs(p)
  <2>1. pc'[p] # "tx" \/ job'[p] # job[p] \/ Passes(p)
    BY <1>2, <1>5 DEF Passes, Past, EnsureNoNPCRefs
  <2> QED
    BY <1>1, <1>5, <2>1, ProceedMoves DEF Local, IInv, PC, EnsureNoNPCRefs
<1>6. CASE RecheckDelete(p)
  <2> DEFINE row == templates[job[p].id]
  <2>1. Proceed(p, row.live /\ ~row.enabled, "delete") /\ pc[p] = "tx"
        /\ job[p].op = "delete"
    BY <1>6 DEF RecheckDelete
  <2>2. pc'[p] # "delete" \/ job'[p] # job[p] \/ Passes(p)
    BY <1>2, <2>1 DEF Passes, Past
  <2> QED
    BY <1>1, <2>1, <2>2, ProceedMoves DEF Local, IInv, PC
<1> QED
  BY <1>4, <1>5, <1>6

\* The UPDATE statements of an update and of a delete, which take the row lock.
LEMMA LocalOverwrite ==
  ASSUME IInv, NEW p \in Request, UpdateTx(p) \/ SoftDeleteTx(p)
  PROVE  Local(p)
<1>1. shown' \in [Template -> Nat] /\ Shows
  BY DEF UpdateTx, SoftDeleteTx, Overwrite, Shows, IInv, TypeOK
<1>2. pc[p] \in Past => job[p].old.live \/ job[p].op = "create"
  BY DEF IInv, FreshRead, Past
<1>3. \A q \in Request : pc[q] = "commit" => job[q].id # job[p].id
  BY DEF UpdateTx, SoftDeleteTx, Overwrite, RowLocked
<1>4. CASE UpdateTx(p)
  <2> DEFINE ok == Editable(p) /\ VersionMatches(p)
  <2>1. Proceed(p, ok, "commit") /\ pc[p] = "tx" /\ job[p].op = "update"
    BY <1>4 DEF UpdateTx, Overwrite
  <2>2. ok => pc'[p] # "commit" \/ job'[p] # job[p] \/ Passes(p)
    BY <1>2, <1>3, <2>1 DEF Passes, Past, Editable, VersionMatches
  <2> HIDE DEF ok
  <2> QED
    BY <1>1, <2>1, <2>2, ProceedMoves DEF Local, IInv, PC
<1>5. CASE SoftDeleteTx(p)
  <2> DEFINE ok == templates[job[p].id].live
  <2>1. Proceed(p, ok, "commit") /\ pc[p] = "delete" /\ job[p].op = "delete"
    BY <1>5 DEF SoftDeleteTx, Overwrite, IInv, Phases
  <2>2. ok => pc'[p] # "commit" \/ job'[p] # job[p] \/ Passes(p)
    BY <1>2, <1>3, <2>1 DEF Passes, Past
  <2> HIDE DEF ok
  <2> QED
    BY <1>1, <2>1, <2>2, ProceedMoves DEF Local, IInv, PC
<1> QED
  BY <1>4, <1>5

LEMMA LocalFinish ==
  ASSUME IInv, NEW p \in Request,
         (\E n \in NPC : CreateNPC(p, n)) \/ ClearDetail(p) \/ Fail(p)
  PROVE  Local(p)
<1>1. Finish(p) /\ shown' = shown
  BY DEF CreateNPC, ClearDetail, Fail
<1> QED
  BY <1>1, FinishOne DEF Local, Moves, Shows, IInv, TypeOK

LEMMA LocalStep ==
  ASSUME IInv, NEW p \in Request, WritesNoRow(p)
  PROVE  Local(p)
BY LocalBegin, LocalBeginCreate, LocalLookup, LocalReadRow, LocalSetDetail,
   LocalChecks, LocalOverwrite, LocalFinish DEF WritesNoRow

\* They leave the rows and, without Redis, the cache alone.
LEMMA LocalRows ==
  ASSUME IInv, ~CacheOn, NEW p \in Request, WritesNoRow(p)
  PROVE  UNCHANGED <<templates, held, usable, gone>> /\ cache' = cache
         /\ npcs' \in [NPC -> NPCRow]
<1> USE DEF mysql
<1>1. job[p].id \in Template /\ cache[job[p].id] = Miss
      /\ cache \in [Template -> Row \cup {Miss}]
      /\ npcs \in [NPC -> NPCRow]
      /\ [cache EXCEPT ![job[p].id] = Miss] = cache
  BY DEF IInv, TypeOK, Job, CacheEmpty
<1>2. CASE \E t \in Template, F \in SUBSET Field :
             \/ BeginCreate(p, t, F)
             \/ \E op \in {"get", "update", "delete", "npc"} : Begin(p, op, t, F)
  BY <1>1, <1>2 DEF BeginCreate, Begin
<1>3. CASE Lookup(p) \/ ReadRow(p) \/ SetDetail(p)
  BY <1>1, <1>3 DEF Lookup, ReadRow, SetDetail
<1>4. CASE PreValidate(p) \/ EnsureNoNPCRefs(p) \/ RecheckDelete(p)
  BY <1>1, <1>4 DEF PreValidate, EnsureNoNPCRefs, RecheckDelete
<1>5. CASE UpdateTx(p) \/ SoftDeleteTx(p)
  BY <1>1, <1>5 DEF UpdateTx, SoftDeleteTx, Overwrite
<1>6. CASE \E n \in NPC : CreateNPC(p, n)
  <2>1. [tpl |-> job[p].id, fields |-> job[p].old.fields] \in NPCRow
    BY <1>1 DEF IInv, TypeOK, Job, Row, NPCRow
  <2> QED
    BY <1>1, <1>6, <2>1 DEF CreateNPC
<1>7. CASE ClearDetail(p) \/ Fail(p)
  BY <1>1, <1>7 DEF ClearDetail, Fail
<1> QED
  BY <1>2, <1>3, <1>4, <1>5, <1>6, <1>7 DEF WritesNoRow

-----------------------------------------------------------------------------
(* A step that writes no row keeps the invariant *)

\* Of the requests, all but p stand where they stood.
LEMMA Others ==
  ASSUME TypeOK, NEW p \in Request, OnlyMoves(p), NEW q \in Request \ {p}
  PROVE  pc'[q] = pc[q] /\ job'[q] = job[q]
BY DEF TypeOK, OnlyMoves

\* The row that SELECT finds is as late as the row of the table.
LEMMA FoundRow ==
  ASSUME NEW row \in Row
  PROVE  LET old == Found(row) IN
         /\ old \in Row /\ old.ver \in Nat /\ row.ver \in Nat
         /\ old.ver <= row.ver
         /\ row.live => old = row
BY NoJobType DEF Found, Row, NoRow

\* The invariant of one request.
RequestOK(q) ==
  /\ pc[q] \in {"load", "read", "fill"} =>
       job[q].op \in {"get", "update", "delete", "npc"}
  /\ pc[q] = "delete" => job[q].op = "delete"
  /\ job[q].op = "update" => job[q].ver <= templates[job[q].id].ver
  /\ pc[q] \in Past \cup {"fill"} =>
       LET old == job[q].old
           row == templates[job[q].id] IN
       /\ old.ver <= row.ver
       /\ row.live /\ old.ver = row.ver => old = row
       /\ old.live \/ job[q].op = "create" \/ pc[q] = "fill"
       /\ job[q].op = "update" /\ old.live => job[q].ver <= old.ver
  /\ job[q].op = "create" =>
       /\ pc[q] \in {"validate", "tx"} /\ job[q].old = NoRow
       /\ templates[job[q].id].ver = 0
  /\ pc[q] = "commit" =>
       /\ job[q].op \in {"update", "delete"}
       /\ templates[job[q].id].live
       /\ job[q].op = "update" => /\ templates[job[q].id].ver = job[q].ver
                                  /\ ~job[q].old.enabled

\* The invariant of two requests: a lock, or an id, has one owner.
PairOK(q, r) ==
  /\ job[q].op = "create" /\ job[r].op = "create" => job[q].id # job[r].id
  /\ pc[q] = "commit" /\ pc[r] = "commit" => job[q].id # job[r].id

RequestsOK == /\ \A q \in Request : RequestOK(q)
              /\ \A q \in Request : \A r \in Request \ {q} : PairOK(q, r)

ShownRows == \A t \in Template : shown[t] <= templates[t].ver

\* The invariant, regrouped.
LEMMA IInvParts ==
  IInv <=> TypeOK /\ CacheEmpty /\ RowsOK /\ ShownRows /\ RequestsOK /\ LiveRefsMatch
BY DEF IInv, Phases, ShownOK, FreshRead, Reserved, LockKeeps, RequestsOK,
       RequestOK, PairOK, ShownRows, Past

LEMMA IInvPartsNext ==
  TypeOK' /\ CacheEmpty' /\ RowsOK' /\ ShownRows' /\ RequestsOK' /\ LiveRefsMatch'
    => IInv'
BY DEF IInv, Phases, ShownOK, FreshRead, Reserved, LockKeeps, RequestsOK,
       RequestOK, PairOK, ShownRows, Past

\* The request that moves keeps its invariant.
LEMMA MoverOK ==
  ASSUME IInv, NEW p \in Request, Moves(p), job'[p] \in Job, UNCHANGED templates
  PROVE  RequestOK(p)'
<1>1. /\ job[p] \in Job /\ job'[p].id \in Template /\ job[p].id \in Template
      /\ templates[job[p].id] \in Row /\ RequestOK(p)
      /\ templates[job'[p].id] \in Row
  BY IInvParts DEF IInv, TypeOK, Job, RequestsOK
<1>2. CASE Finishes(p)
  BY <1>1, <1>2 DEF Finishes, RequestOK, NoJob, Past
<1>3. CASE Begins(p)
  <2>1. CASE pc'[p] = "load"
    BY <1>1, <1>3, <2>1 DEF Begins, RequestOK, Past
  <2>2. CASE pc'[p] = "validate"
    <3>1. job'[p].op = "create" /\ job'[p].old = NoRow
          /\ templates[job'[p].id].ver = 0
      BY <1>3, <2>2 DEF Begins
    <3>2. NoRow.ver = 0 /\ ~NoRow.live
      BY DEF NoRow
    <3>3. templates'[job'[p].id].live /\ NoRow.ver = templates'[job'[p].id].ver
            => NoRow = templates'[job'[p].id]
      BY <1>1, <3>1, IInvParts DEF RowsOK
    <3> QED
      BY <1>1, <2>2, <3>1, <3>2, <3>3 DEF RequestOK, Past
  <2>3. CASE pc'[p] = "clear"
    BY <1>1, <1>3, <2>3 DEF Begins, RequestOK, Past
  <2> QED
    BY <1>3, <2>1, <2>2, <2>3 DEF Begins
<1>4. CASE Reads(p)
  <2>1. CASE pc'[p] = "read" /\ job'[p] = job[p]
    BY <1>1, <1>4, <2>1 DEF Reads, RequestOK, Past
  <2>2. CASE /\ pc'[p] = "fill"
             /\ job'[p] = [job[p] EXCEPT !.old = Found(templates[job[p].id])]
    <3> DEFINE row == templates[job[p].id]
               old == Found(row)
    <3>1. /\ job'[p].op = job[p].op /\ job'[p].id = job[p].id
          /\ job'[p].ver = job[p].ver /\ job'[p].old = old
      BY <1>1, <2>2 DEF Job
    <3>2. /\ job[p].op \in {"get", "update", "delete", "npc"}
          /\ job[p].op = "update" => job[p].ver <= row.ver
      BY <1>1, <1>4 DEF Reads, RequestOK
    <3>3. /\ old.ver <= row.ver
          /\ row.live => old = row
          /\ old.live => row.live
      BY <1>1, FoundRow DEF Found, NoRow
    <3> HIDE DEF old
    <3> QED
      BY <1>1, <2>2, <3>1, <3>2, <3>3 DEF RequestOK, Past
  <2> QED
    BY <1>4, <2>1, <2>2 DEF Reads
<1>5. CASE Passes(p)
  BY <1>1, <1>5 DEF Passes, RequestOK, Past
<1> QED
  BY <1>2, <1>3, <1>4, <1>5 DEF Moves

\* A moving request takes no lock and no id that another one owns.
LEMMA MoverPairs ==
  ASSUME IInv, NEW p \in Request, Moves(p), OnlyMoves(p),
         NEW q \in Request, NEW r \in Request \ {q}
  PROVE  PairOK(q, r)'
<1>1. PairOK(q, r)
  BY IInvParts DEF RequestsOK
<1>2. /\ q # p => pc'[q] = pc[q] /\ job'[q] = job[q]
      /\ r # p => pc'[r] = pc[r] /\ job'[r] = job[r]
  BY Others DEF IInv
<1>3. \A s \in Request \ {p} :
        /\ job'[p].op = "create" /\ job[s].op = "create" => job'[p].id # job[s].id
        /\ pc'[p] = "commit" /\ pc[s] = "commit" => job'[p].id # job[s].id
  <2> SUFFICES ASSUME NEW s \in Request \ {p}
               PROVE
        /\ job'[p].op = "create" /\ job[s].op = "create" => job'[p].id # job[s].id
        /\ pc'[p] = "commit" /\ pc[s] = "commit" => job'[p].id # job[s].id
    OBVIOUS
  <2>1. PairOK(p, s) /\ RequestOK(p) /\ job[p] \in Job
    BY IInvParts DEF RequestsOK, IInv, TypeOK
  <2>2. CASE Finishes(p)
    BY <2>2 DEF Finishes, NoJob
  <2>3. CASE Begins(p)
    BY <2>3 DEF Begins
  <2>4. CASE Reads(p)
    <3>1. job[p].op # "create" /\ job'[p].op = job[p].op
          /\ pc'[p] \in {"read", "fill"}
      BY <2>1, <2>4 DEF Reads, RequestOK, Job
    <3> QED
      BY <3>1
  <2>5. CASE Passes(p)
    BY <2>1, <2>5 DEF Passes, PairOK
  <2> QED
    BY <2>2, <2>3, <2>4, <2>5 DEF Moves
<1> QED
  BY <1>1, <1>2, <1>3 DEF PairOK

LEMMA LocalInv ==
  ASSUME IInv, ~CacheOn, NEW p \in Request, WritesNoRow(p)
  PROVE  IInv'
<1>1. Local(p)
  BY LocalStep
<1>2. UNCHANGED <<templates, held, usable, gone>> /\ cache' = cache
      /\ npcs' \in [NPC -> NPCRow]
  BY LocalRows
<1>3. TypeOK'
  BY <1>1, <1>2 DEF IInv, TypeOK, Local, PC
<1>4. CacheEmpty' /\ RowsOK' /\ LiveRefsMatch'
  BY <1>2 DEF IInv, CacheEmpty, RowsOK, LiveRefsMatch
<1>5. ShownRows'
  BY <1>1, <1>2, IInvParts DEF Local, Shows, ShownRows
<1>6. ASSUME NEW q \in Request PROVE RequestOK(q)'
  <2>1. CASE q = p
    BY <1>1, <1>2, <2>1, MoverOK DEF Local
  <2>2. CASE q # p
    <3>1. RequestOK(q) /\ pc'[q] = pc[q] /\ job'[q] = job[q]
      BY <1>1, <2>2, Others, IInvParts DEF RequestsOK, IInv, Local
    <3> QED
      BY <1>2, <3>1 DEF RequestOK
  <2> QED
    BY <2>1, <2>2
<1>7. RequestsOK'
  BY <1>1, <1>6, MoverPairs DEF RequestsOK, Local
<1> QED
  BY <1>3, <1>4, <1>5, <1>7, IInvPartsNext

-----------------------------------------------------------------------------
(* A step that writes a row keeps the invariant *)

\* What a version says: a template whose row changes has a later version, or is
\* no longer live, and nobody else's lock is broken.
RowGrows(t) ==
  \/ templates'[t] = templates[t]
  \/ templates'[t].ver > templates[t].ver
  \/ ~templates'[t].live /\ templates'[t].ver >= templates[t].ver

\* The requests but p survive a step that changes the row of t alone.
LEMMA OthersKeep ==
  ASSUME IInv, NEW p \in Request, NEW t \in Template, OnlyMoves(p),
         templates' \in [Template -> Row], RowGrows(t),
         \A u \in Template \ {t} : templates'[u] = templates[u],
         \A q \in Request \ {p} : pc[q] = "commit" => job[q].id # t,
         \A q \in Request \ {p} : job[q].op = "create" => job[q].id # t
  PROVE  \A q \in Request \ {p} : RequestOK(q)'
<1> SUFFICES ASSUME NEW q \in Request \ {p} PROVE RequestOK(q)'
  OBVIOUS
<1>1. RequestOK(q) /\ pc'[q] = pc[q] /\ job'[q] = job[q]
  BY Others, IInvParts DEF RequestsOK, IInv
<1>2. /\ job[q] \in Job /\ job[q].id \in Template /\ job[q].ver \in Nat
      /\ job[q].old \in Row /\ job[q].old.ver \in Nat
      /\ templates[job[q].id] \in Row /\ templates[job[q].id].ver \in Nat
      /\ templates'[job[q].id] \in Row /\ templates'[job[q].id].ver \in Nat
  BY DEF IInv, TypeOK, Job, Row
<1>3. CASE job[q].id # t
  BY <1>1, <1>2, <1>3 DEF RequestOK
<1>4. CASE job[q].id = t
  <2>1. pc[q] # "commit" /\ job[q].op # "create"
    BY <1>4
  <2>2. /\ templates'[t].ver >= templates[t].ver
        /\ templates'[t].live /\ templates'[t].ver = templates[t].ver
             => templates'[t] = templates[t]
    BY <1>2, <1>4 DEF RowGrows
  <2>3. job[q].op = "update" => job[q].ver <= templates'[t].ver
    BY <1>1, <1>2, <1>4, <2>2 DEF RequestOK
  <2>4. ASSUME pc[q] \in Past \cup {"fill"}
        PROVE  /\ job[q].old.ver <= templates'[t].ver
               /\ templates'[t].live /\ job[q].old.ver = templates'[t].ver
                    => job[q].old = templates'[t]
    <3>1. /\ job[q].old.ver <= templates[t].ver
          /\ templates[t].live /\ job[q].old.ver = templates[t].ver
               => job[q].old = templates[t]
      BY <1>1, <1>4, <2>4 DEF RequestOK
    <3> QED
      BY <1>2, <1>4, <2>2, <3>1
  <2> QED
    BY <1>1, <1>4, <2>1, <2>3, <2>4 DEF RequestOK
<1> QED
  BY <1>3, <1>4

\* A step of p that changes the row of t alone.
LEMMA WriterInv ==
  ASSUME IInv, NEW p \in Request, NEW t \in Template, TypeOK', OnlyMoves(p),
         RowGrows(t), \A u \in Template \ {t} : templates'[u] = templates[u],
         \A q \in Request \ {p} : pc[q] = "commit" => job[q].id # t,
         \A q \in Request \ {p} : job[q].op = "create" => job[q].id # t,
         pc'[p] \in {"idle", "clear"}, job'[p].op \in {"none", "toggle"},
         UNCHANGED <<cache, shown>>, RowsOK', LiveRefsMatch'
  PROVE  IInv'
<1>1. CacheEmpty'
  BY DEF IInv, CacheEmpty
<1>2. ShownRows'
  <2>1. \A u \in Template :
          /\ shown[u] \in Nat /\ templates[u].ver \in Nat /\ templates'[u].ver \in Nat
          /\ templates'[u].ver >= templates[u].ver
    BY DEF IInv, TypeOK, Row, RowGrows
  <2> QED
    BY <2>1, IInvParts DEF ShownRows
<1>3. RequestOK(p)'
  BY DEF RequestOK, Past
<1>4. \A q \in Request : RequestOK(q)'
  BY <1>3, OthersKeep DEF TypeOK
<1>5. ASSUME NEW q \in Request, NEW r \in Request \ {q} PROVE PairOK(q, r)'
  BY Others, IInvParts DEF RequestsOK, PairOK, IInv
<1>6. RequestsOK'
  BY <1>4, <1>5 DEF RequestsOK
<1> QED
  BY <1>1, <1>2, <1>6, IInvPartsNext

\* A row that is live has a version, and its id was given out.
LEMMA LiveRow ==
  ASSUME IInv, NEW t \in Template, templates[t].live
  PROVE  /\ templates[t].ver \in Nat /\ templates[t].ver > 0
         /\ \A q \in Request : job[q].op = "create" => job[q].id # t
<1>1. templates[t].ver \in Nat /\ templates[t].ver # 0
  BY DEF IInv, TypeOK, Row, RowsOK, NoRow
<1> QED
  BY <1>1, IInvParts DEF RequestsOK, RequestOK

LEMMA CreateInv ==
  ASSUME IInv, NEW p \in Request, CreateTx(p)
  PROVE  IInv'
<1> DEFINE t == job[p].id
           row == [live |-> TRUE, enabled |-> FALSE, ver |-> 1,
                   fields |-> job[p].fields]
<1>1. /\ job[p] \in Job /\ t \in Template /\ job[p].op = "create"
      /\ job[p].fields \in SUBSET Field
      /\ RequestOK(p)
  BY IInvParts DEF IInv, TypeOK, Job, CreateTx, RequestsOK
<1>2. templates[t] = NoRow /\ \A f \in Field : t \notin held[f]
  BY <1>1 DEF IInv, RowsOK, RequestOK
<1>3. /\ templates' = [templates EXCEPT ![t] = row] /\ row \in Row
      /\ Finishes(p) /\ OnlyMoves(p)
      /\ pc' \in [Request -> PC] /\ job' \in [Request -> Job]
      /\ UNCHANGED <<usable, gone, npcs, cache, shown>>
  BY <1>1, FinishOne DEF CreateTx, Row, IInv
<1>4. /\ templates'[t] = row
      /\ \A u \in Template \ {t} : templates'[u] = templates[u]
  BY <1>1, <1>3 DEF IInv, TypeOK
<1>5. held' = [f \in Field |-> IF f \in job[p].fields THEN held[f] \cup {t}
                               ELSE held[f]]
  BY DEF CreateTx
<1>6. TypeOK'
  BY <1>1, <1>3, <1>5 DEF IInv, TypeOK
<1>7. RowGrows(t)
  BY <1>2, <1>4 DEF RowGrows, NoRow
<1>8. \A q \in Request \ {p} :
        /\ job[q].op = "create" => job[q].id # t
        /\ pc[q] = "commit" => job[q].id # t
  BY <1>1, <1>2, IInvParts DEF RequestsOK, PairOK, RequestOK, NoRow
<1>9. RowsOK'
  <2>1. row.ver # 0
    OBVIOUS
  <2> QED
    BY <1>4, <1>5, <2>1 DEF IInv, RowsOK
<1>10. LiveRefsMatch'
  BY <1>2, <1>4, <1>5 DEF IInv, LiveRefsMatch
<1>11. pc'[p] \in {"idle", "clear"} /\ job'[p].op \in {"none", "toggle"}
  BY <1>3 DEF Finishes, NoJob
<1> QED
  BY <1>1, <1>3, <1>4, <1>6, <1>7, <1>8, <1>9, <1>10, <1>11, WriterInv

\* The row that an update overwrites is the one that it has loaded: the version
\* it was shown is no later than the one it loaded, that one no later than the
\* one that is there, and the UPDATE has found the first to be the last.
LEMMA UpdatesWhatItRead ==
  ASSUME IInv, NEW p \in Request, pc[p] = "commit", job[p].op = "update"
  PROVE  job[p].old = templates[job[p].id] /\ ~job[p].old.enabled
<1> DEFINE row == templates[job[p].id]
           old == job[p].old
<1>1. RequestOK(p) /\ job[p].ver \in Nat /\ old.ver \in Nat /\ row.ver \in Nat
  BY IInvParts DEF RequestsOK, IInv, TypeOK, Job, Row
<1>2. /\ row.live /\ row.ver = job[p].ver /\ ~old.enabled /\ old.live
      /\ job[p].ver <= old.ver /\ old.ver <= row.ver
      /\ row.live /\ old.ver = row.ver => old = row
  BY <1>1 DEF RequestOK, Past
<1>3. old.ver = row.ver
  BY <1>1, <1>2
<1> QED
  BY <1>2, <1>3

\* The rows that an update, a delete and a toggle write.
LEMMA WrittenRows ==
  ASSUME NEW row \in Row, NEW F \in SUBSET Field, NEW b \in BOOLEAN
  PROVE  LET deleted == [row EXCEPT !.live = FALSE]
             edited == [row EXCEPT !.fields = F, !.ver = row.ver + 1]
             toggled == [row EXCEPT !.enabled = b, !.ver = row.ver + 1] IN
         /\ deleted \in Row /\ ~deleted.live /\ deleted.ver = row.ver
         /\ deleted.fields = row.fields
         /\ edited \in Row /\ edited.live = row.live /\ edited.fields = F
         /\ edited.ver = row.ver + 1
         /\ toggled \in Row /\ toggled.live = row.live
         /\ toggled.fields = row.fields /\ toggled.ver = row.ver + 1
<1>1. row.ver + 1 \in Nat
  BY DEF Row
<1>2. LET deleted == [row EXCEPT !.live = FALSE] IN
      /\ deleted \in Row /\ ~deleted.live /\ deleted.ver = row.ver
      /\ deleted.fields = row.fields
  BY DEF Row
<1>3. [row EXCEPT !.fields = F] = [live |-> row.live, enabled |-> row.enabled,
                                  ver |-> row.ver, fields |-> F]
  BY DEF Row
<1>4. [row EXCEPT !.enabled = b] = [live |-> row.live, enabled |-> b,
                                   ver |-> row.ver, fields |-> row.fields]
  BY DEF Row
<1> DEFINE fields == [live |-> row.live, enabled |-> row.enabled,
                      ver |-> row.ver, fields |-> F]
           enabled == [live |-> row.live, enabled |-> b,
                       ver |-> row.ver, fields |-> row.fields]
           v == row.ver + 1
<1>5. [fields EXCEPT !.ver = v] = [live |-> row.live, enabled |-> row.enabled,
                                   ver |-> v, fields |-> F]
  OBVIOUS
<1>6. [enabled EXCEPT !.ver = v] = [live |-> row.live, enabled |-> b,
                                    ver |-> v, fields |-> row.fields]
  OBVIOUS
<1>7. [row EXCEPT !.fields = F, !.ver = row.ver + 1] = [fields EXCEPT !.ver = v]
  BY <1>3
<1>8. [row EXCEPT !.enabled = b, !.ver = v] = [enabled EXCEPT !.ver = v]
  BY <1>4
<1> QED
  BY <1>1, <1>2, <1>5, <1>6, <1>7, <1>8 DEF Row

\* What a commit leaves of the row.
LEMMA CommitRow ==
  ASSUME IInv, NEW p \in Request, Commit(p)
  PROVE  LET j == job[p]
             t == job[p].id
             row == templates[job[p].id]
             new == templates'[job[p].id] IN
         /\ templates' \in [Template -> Row]
         /\ \A u \in Template \ {t} : templates'[u] = templates[u]
         /\ j.op = "delete" => /\ ~new.live /\ new.ver = row.ver
                               /\ new.fields = row.fields
         /\ j.op = "update" => /\ new.live /\ new.ver = row.ver + 1
                               /\ new.fields = j.fields
<1> DEFINE j == job[p]
           t == job[p].id
           row == templates[job[p].id]
           new == Written(row, j)
<1>1. j \in Job /\ t \in Template /\ row \in Row /\ j.fields \in SUBSET Field
  BY DEF IInv, TypeOK, Job
<1>2. /\ new \in Row
      /\ j.op = "delete" => /\ ~new.live /\ new.ver = row.ver
                            /\ new.fields = row.fields
      /\ j.op # "delete" => /\ new.live = row.live /\ new.ver = row.ver + 1
                            /\ new.fields = j.fields
  BY <1>1, WrittenRows DEF Written
<1>3. templates' = [templates EXCEPT ![t] = new]
  BY DEF Commit
<1>4. row.live
  BY IInvParts DEF RequestsOK, RequestOK, Commit
<1> HIDE DEF new
<1>5. templates'[t] = new /\ templates' \in [Template -> Row]
      /\ \A u \in Template \ {t} : templates'[u] = templates[u]
  BY <1>1, <1>2, <1>3 DEF IInv, TypeOK
<1> QED
  BY <1>2, <1>4, <1>5

LEMMA CommitInv ==
  ASSUME IInv, NEW p \in Request, Commit(p)
  PROVE  IInv'
<1> DEFINE j == job[p]
           t == job[p].id
           row == templates[job[p].id]
<1>1. /\ j \in Job /\ t \in Template /\ j.fields \in SUBSET Field /\ j.old \in Row
      /\ row \in Row /\ RequestOK(p) /\ pc[p] = "commit"
  BY IInvParts DEF IInv, TypeOK, Job, Commit, RequestsOK
<1>2. row.live /\ j.op \in {"update", "delete"}
  BY <1>1 DEF RequestOK
<1>3. row.ver \in Nat /\ row.ver > 0
      /\ \A q \in Request : job[q].op = "create" => job[q].id # t
  BY <1>1, <1>2, LiveRow
<1>4. /\ Finishes(p) /\ OnlyMoves(p)
      /\ pc' \in [Request -> PC] /\ job' \in [Request -> Job]
      /\ UNCHANGED <<usable, gone, npcs, cache, shown>>
  BY FinishOne DEF Commit, IInv
<1>5. held' = [f \in Field |-> IF f \in ToAdd(p) THEN held[f] \cup {t}
                               ELSE IF f \in ToRemove(p) THEN held[f] \ {t}
                               ELSE held[f]]
  BY DEF Commit, Detached
<1>6. /\ templates' \in [Template -> Row]
      /\ \A u \in Template \ {t} : templates'[u] = templates[u]
      /\ j.op = "delete" => ~templates'[t].live /\ templates'[t].ver = row.ver
      /\ j.op = "update" => /\ templates'[t].live /\ templates'[t].ver = row.ver + 1
                            /\ templates'[t].fields = j.fields
  BY CommitRow
<1>7. TypeOK'
  BY <1>1, <1>4, <1>5, <1>6 DEF IInv, TypeOK
<1>8. RowGrows(t)
  BY <1>2, <1>3, <1>6 DEF RowGrows
<1>9. \A q \in Request \ {p} : pc[q] = "commit" => job[q].id # t
  BY <1>1, IInvParts DEF RequestsOK, PairOK
<1>10. RowsOK'
  <2>1. templates'[t].ver # 0
    BY <1>2, <1>3, <1>6
  <2> QED
    BY <1>5, <1>6, <2>1 DEF IInv, RowsOK
<1>11. LiveRefsMatch'
  <2> SUFFICES ASSUME NEW u \in Template, NEW f \in Field, templates'[u].live
               PROVE  f \in templates'[u].fields <=> u \in held'[f]
    BY DEF LiveRefsMatch
  <2>1. CASE u # t
    BY <1>5, <1>6, <2>1 DEF IInv, LiveRefsMatch
  <2>2. CASE u = t
    <3>1. j.op = "update"
      BY <1>2, <1>6, <2>2
    <3>2. j.old = row
      BY <1>1, <3>1, UpdatesWhatItRead
    <3>3. f \in row.fields <=> t \in held[f]
      BY <1>1, <1>2 DEF IInv, LiveRefsMatch
    <3> QED
      BY <1>5, <1>6, <2>2, <3>1, <3>2, <3>3 DEF ToAdd, ToRemove
  <2> QED
    BY <2>1, <2>2
<1>12. pc'[p] \in {"idle", "clear"} /\ job'[p].op \in {"none", "toggle"}
  BY <1>4 DEF Finishes, NoJob
<1> QED
  BY <1>1, <1>3, <1>4, <1>6, <1>7, <1>8, <1>9, <1>10, <1>11, <1>12, WriterInv

LEMMA ToggleInv ==
  ASSUME IInv, NEW p \in Request, NEW t \in Template, NEW b \in BOOLEAN,
         ToggleEnabled(p, t, b)
  PROVE  IInv' /\ templates'[t].fields = templates[t].fields
         /\ \A u \in Template \ {t} : templates'[u] = templates[u]
<1> DEFINE row == templates[t]
           new == [row EXCEPT !.enabled = b, !.ver = row.ver + 1]
           j == [NoJob EXCEPT !.op = "toggle", !.id = t]
<1>1. row \in Row /\ row.live
  BY DEF IInv, TypeOK, ToggleEnabled
<1>2. row.ver \in Nat /\ row.ver > 0
      /\ \A q \in Request : job[q].op = "create" => job[q].id # t
  BY <1>1, LiveRow
<1>3. /\ new \in Row /\ new.live /\ new.fields = row.fields
      /\ new.ver = row.ver + 1
  BY <1>1, WrittenRows
<1>4. j \in Job /\ j.op = "toggle"
  BY NoJobType DEF Job, Op
<1>5. templates' = [templates EXCEPT ![t] = new]
  BY DEF ToggleEnabled, IInv, TypeOK
<1>6. pc' = [pc EXCEPT ![p] = "clear"] /\ job' = [job EXCEPT ![p] = j]
      /\ UNCHANGED <<held, usable, gone, npcs, cache, shown>>
  BY DEF ToggleEnabled, Goto
<1> HIDE DEF new, j
<1>7. /\ templates'[t] = new /\ templates' \in [Template -> Row]
      /\ \A u \in Template \ {t} : templates'[u] = templates[u]
  BY <1>3, <1>5 DEF IInv, TypeOK
<1>8. /\ pc'[p] = "clear" /\ job'[p] = j /\ OnlyMoves(p)
      /\ pc' \in [Request -> PC] /\ job' \in [Request -> Job]
  BY <1>4, <1>6, OverwriteOne DEF IInv, PC
<1>9. TypeOK'
  BY <1>6, <1>7, <1>8 DEF IInv, TypeOK
<1>10. RowGrows(t)
  BY <1>2, <1>3, <1>7 DEF RowGrows
<1>11. \A q \in Request : pc[q] = "commit" => job[q].id # t
  BY DEF ToggleEnabled, RowLocked
<1>12. RowsOK' /\ LiveRefsMatch'
  BY <1>1, <1>2, <1>3, <1>6, <1>7 DEF IInv, RowsOK, LiveRefsMatch
<1> QED
  BY <1>2, <1>3, <1>4, <1>6, <1>7, <1>8, <1>9, <1>10, <1>11, <1>12, WriterInv

-----------------------------------------------------------------------------
(* The theorems *)

LEMMA InitInv == Init => IInv
<1> SUFFICES ASSUME Init PROVE IInv
  OBVIOUS
<1>1. TypeOK
  <2>1. NoNPC \in NPCRow
    BY NoJobType DEF NoNPC, NPCRow, Job
  <2> QED
    BY NoJobType, <2>1 DEF Init, TypeOK, PC
<1>2. CacheEmpty /\ RowsOK /\ LiveRefsMatch
  BY DEF Init, CacheEmpty, RowsOK, LiveRefsMatch, NoRow
<1>3. ShownRows
  BY <1>1 DEF Init, TypeOK, ShownRows, NoRow
<1>4. RequestsOK
  BY DEF Init, RequestsOK, RequestOK, PairOK, Past, NoJob
<1> QED
  BY <1>1, <1>2, <1>3, <1>4, IInvParts

\* Stuttering, and the steps of fields, NPCs and Redis.
LEMMA QuietInv ==
  ASSUME IInv, UNCHANGED <<templates, held, shown, pc, job>>, CacheEmpty', TypeOK'
  PROVE  IInv'
BY DEF IInv, Phases, RowsOK, ShownOK, FreshRead, Reserved, LockKeeps,
       LiveRefsMatch, RowLocked

LEMMA NeighbourInv ==
  ASSUME IInv,
         \/ \E f \in Field : ChangeField(f) \/ RemoveField(f)
         \/ \E n \in NPC : RemoveNPC(n)
         \/ \E t \in Template : ExpireDetail(t)
  PROVE  IInv' /\ UNCHANGED templates
<1> USE DEF mysql
<1>1. ASSUME NEW f \in Field, ChangeField(f) \/ RemoveField(f)
      PROVE  IInv' /\ UNCHANGED templates
  <2>1. UNCHANGED <<templates, held, npcs, cache, shown, pc, job>>
        /\ usable' \subseteq Field /\ gone' \subseteq Field
    BY <1>1 DEF ChangeField, RemoveField, IInv, TypeOK
  <2>2. TypeOK' /\ CacheEmpty'
    BY <2>1 DEF IInv, TypeOK, CacheEmpty
  <2> QED
    BY <2>1, <2>2, QuietInv
<1>2. ASSUME NEW n \in NPC, RemoveNPC(n)
      PROVE  IInv' /\ UNCHANGED templates
  <2>1. NoNPC \in NPCRow
    BY NoJobType DEF NoNPC, NPCRow, Job
  <2>2. UNCHANGED <<templates, held, usable, gone, cache, shown, pc, job>>
        /\ npcs' \in [NPC -> NPCRow]
    BY <1>2, <2>1 DEF RemoveNPC, IInv, TypeOK
  <2>3. TypeOK' /\ CacheEmpty'
    BY <2>2 DEF IInv, TypeOK, CacheEmpty
  <2> QED
    BY <2>2, <2>3, QuietInv
<1>3. ASSUME NEW t \in Template, ExpireDetail(t)
      PROVE  IInv' /\ UNCHANGED templates
  BY <1>3 DEF ExpireDetail, IInv, CacheEmpty
<1> QED
  BY <1>1, <1>2, <1>3

\* The actions of a request, those that write a row apart.
LEMMA ServeCases ==
  ASSUME NEW p \in Request, Serve(p)
  PROVE  \/ WritesNoRow(p) \/ CreateTx(p) \/ Commit(p)
         \/ \E t \in Template, b \in BOOLEAN : ToggleEnabled(p, t, b)
BY DEF Serve, WritesNoRow

LEMMA NextInv ==
  ASSUME ~CacheOn, IInv, [Next]_vars
  PROVE  IInv'
<1>1. ASSUME NEW p \in Request, Serve(p) PROVE IInv'
  BY <1>1, ServeCases, LocalInv, CreateInv, CommitInv, ToggleInv
<1>2. CASE UNCHANGED vars
  BY <1>2, QuietInv DEF vars, mysql, IInv, TypeOK, CacheEmpty
<1> QED
  BY <1>1, <1>2, NeighbourInv DEF Next

\* Without Redis, no interleaving of requests, failures and neighbours leaves
\* the states that the inductive invariant describes.
THEOREM InvariantHolds ==
  ASSUME ~CacheOn
  PROVE  Spec => []IInv
<1>1. Init => IInv
  BY InitInv
<1>2. IInv /\ [Next]_vars => IInv'
  BY NextInv
<1> QED
  BY <1>1, <1>2, PTL DEF Spec

\* Handlers that write only the difference between two rows leave in field_refs
\* exactly the fields of every live template.
THEOREM RefsMatch ==
  ASSUME ~CacheOn
  PROVE  Spec => []LiveRefsMatch
<1>1. IInv => LiveRefsMatch
  BY DEF IInv
<1> QED
  BY <1>1, InvariantHolds, PTL

\* One step does not change the fields of an enabled template.
LEMMA NextEdits ==
  ASSUME ~CacheOn, IInv, [Next]_vars, NEW t \in Template, templates[t].enabled
  PROVE  templates'[t].fields = templates[t].fields
<1>1. ASSUME NEW p \in Request, WritesNoRow(p)
      PROVE  templates'[t].fields = templates[t].fields
  BY <1>1, LocalRows
<1>2. ASSUME NEW p \in Request, CreateTx(p)
      PROVE  templates'[t].fields = templates[t].fields
  <2>1. RequestOK(p) /\ job[p] \in Job
    BY IInvParts DEF RequestsOK, IInv, TypeOK
  <2>2. templates[job[p].id] = NoRow
    BY <1>2, <2>1 DEF IInv, RowsOK, RequestOK, CreateTx, Job
  <2>3. t # job[p].id
    BY <2>2 DEF NoRow
  <2> QED
    BY <1>2, <2>1, <2>3 DEF CreateTx, IInv, TypeOK, Job
<1>3. ASSUME NEW p \in Request, Commit(p)
      PROVE  templates'[t].fields = templates[t].fields
  <2>1. RequestOK(p) /\ pc[p] = "commit"
    BY <1>3, IInvParts DEF RequestsOK, Commit
  <2>2. job[p].op \in {"update", "delete"}
    BY <2>1 DEF RequestOK
  <2>3. job[p].op = "update" => t # job[p].id
    BY <2>1, UpdatesWhatItRead
  <2> QED
    BY <1>3, <2>2, <2>3, CommitRow
<1>4. ASSUME NEW p \in Request, NEW u \in Template, NEW b \in BOOLEAN,
             ToggleEnabled(p, u, b)
      PROVE  templates'[t].fields = templates[t].fields
  BY <1>4, ToggleInv
<1>5. ASSUME NEW p \in Request, Serve(p)
      PROVE  templates'[t].fields = templates[t].fields
  BY <1>1, <1>2, <1>3, <1>4, <1>5, ServeCases
<1>6. CASE UNCHANGED vars
  BY <1>6 DEF vars, mysql
<1> QED
  BY <1>5, <1>6, NeighbourInv DEF Next

\* The version is enough for the check that was made on the loaded row to hold
\* of the row that is written: an enabled template keeps its fields.
THEOREM EnabledKeepsFields ==
  ASSUME ~CacheOn
  PROVE  Spec => EditsOnlyDisabled
<1> DEFINE Edits == \A t \in Template : templates[t].enabled =>
                      templates'[t].fields = templates[t].fields
<1>1. IInv /\ [Next]_vars => [Edits]_vars
  BY NextEdits
<1>2. Spec => [][Edits]_vars
  BY <1>1, InvariantHolds, PTL DEF Spec
<1> QED
  BY <1>2 DEF EditsOnlyDisabled
-----------------------------------------------------------------------------
(* Types, with Redis or without *)

\* A step of the loading of a template.
LEMMA TypeLoad ==
  ASSUME TypeOK, NEW p \in Request, Lookup(p) \/ ReadRow(p) \/ SetDetail(p)
  PROVE  TypeOK'
<1> USE DEF mysql
<1>0. /\ job[p] \in Job /\ job[p].id \in Template /\ job[p].old \in Row
      /\ templates[job[p].id] \in Row /\ cache[job[p].id] \in Row \cup {Miss}
  BY DEF TypeOK, Job
<1>1. ASSUME NEW row \in Row, Loaded(p, row)
      PROVE  /\ shown' \in [Template -> Nat]
             /\ pc' \in [Request -> PC] /\ job' \in [Request -> Job]
  <2>1. shown' \in [Template -> Nat]
    BY <1>0, <1>1 DEF TypeOK, Loaded, Row
  <2>2. CASE Finish(p)
    BY <2>1, <2>2, FinishOne
  <2>3. CASE ~Finish(p)
    <3>1. [job[p] EXCEPT !.old = row] \in Job /\ AfterLoad(job[p].op) \in PC
      BY <1>0 DEF Job, AfterLoad, PC
    <3>2. /\ pc' = [pc EXCEPT ![p] = AfterLoad(job[p].op)]
          /\ job' = [job EXCEPT ![p] = [job[p] EXCEPT !.old = row]]
      BY <1>0, <1>1, <2>3 DEF Loaded, Goto, TypeOK
    <3> QED
      BY <2>1, <3>1, <3>2, OverwriteOne
  <2> QED
    BY <2>2, <2>3
<1>2. CASE Lookup(p)
  BY <1>0, <1>1, <1>2, GotoOne DEF Lookup, TypeOK, PC
<1>3. CASE ReadRow(p)
  <2>1. [job[p] EXCEPT !.old = Found(templates[job[p].id])] \in Job
    BY <1>0, FoundRow DEF Job
  <2>2. /\ pc' = [pc EXCEPT ![p] = "fill"]
        /\ job' = [job EXCEPT ![p] =
                     [job[p] EXCEPT !.old = Found(templates[job[p].id])]]
    BY <1>0, <1>3 DEF ReadRow, Goto, TypeOK
  <2>3. pc' \in [Request -> PC] /\ job' \in [Request -> Job]
    BY <2>1, <2>2, OverwriteOne DEF PC
  <2> QED
    BY <1>3, <2>3 DEF ReadRow, TypeOK
<1>4. CASE SetDetail(p)
  BY <1>0, <1>1, <1>4 DEF SetDetail, TypeOK
<1> QED
  BY <1>2, <1>3, <1>4

\* A request that begins.
LEMMA TypeBegin ==
  ASSUME TypeOK, NEW p \in Request, NEW t \in Template, NEW F \in SUBSET Field,
         NEW b \in BOOLEAN,
         \/ BeginCreate(p, t, F)
         \/ \E op \in {"get", "update", "delete", "npc"} : Begin(p, op, t, F)
         \/ ToggleEnabled(p, t, b)
  PROVE  TypeOK'
<1> USE DEF mysql
<1>1. CASE BeginCreate(p, t, F)
  <2>1. [op |-> "create", id |-> t, ver |-> 0, fields |-> F, old |-> NoRow] \in Job
    BY NoJobType DEF Job, Op
  <2>2. pc' \in [Request -> PC] /\ job' \in [Request -> Job]
    BY <1>1, <2>1, OverwriteOne DEF BeginCreate, Goto, PC
  <2> QED
    BY <1>1, <2>2 DEF BeginCreate, TypeOK
<1>2. ASSUME NEW op \in {"get", "update", "delete", "npc"}, Begin(p, op, t, F)
      PROVE  TypeOK'
  <2> DEFINE j == [op |-> op, id |-> t, fields |-> F, old |-> NoRow,
                   ver |-> IF op = "update" THEN shown[t] ELSE 0]
  <2>1. j \in Job
    BY NoJobType DEF Job, Op, TypeOK
  <2>2. pc' = [pc EXCEPT ![p] = "load"] /\ job' = [job EXCEPT ![p] = j]
    BY <1>2 DEF Begin, Goto
  <2>3. pc' \in [Request -> PC] /\ job' \in [Request -> Job]
    BY <2>1, <2>2, OverwriteOne DEF PC
  <2> QED
    BY <1>2, <2>3 DEF Begin, TypeOK
<1>3. CASE ToggleEnabled(p, t, b)
  <2>1. [NoJob EXCEPT !.op = "toggle", !.id = t] \in Job
    BY NoJobType DEF Job, Op
  <2>2. pc' \in [Request -> PC] /\ job' \in [Request -> Job]
    BY <1>3, <2>1, OverwriteOne DEF ToggleEnabled, Goto, PC
  <2>3. templates[t] \in Row
    BY DEF TypeOK
  <2>4. templates' \in [Template -> Row]
    BY <1>3, <2>3 DEF ToggleEnabled, TypeOK, Row
  <2> QED
    BY <1>3, <2>2, <2>4 DEF ToggleEnabled, TypeOK
<1> QED
  BY <1>1, <1>2, <1>3

\* A check, or the UPDATE statement that takes the row lock.
LEMMA TypeCheck ==
  ASSUME TypeOK, NEW p \in Request,
         \/ PreValidate(p) \/ EnsureNoNPCRefs(p) \/ RecheckDelete(p)
         \/ UpdateTx(p) \/ SoftDeleteTx(p)
  PROVE  TypeOK'
<1>1. ASSUME NEW ok, NEW l \in PC, Proceed(p, ok, l)
      PROVE  pc' \in [Request -> PC] /\ job' \in [Request -> Job]
  BY <1>1, GotoOne, FinishOne DEF Proceed
<1>2. pc' \in [Request -> PC] /\ job' \in [Request -> Job]
  BY <1>1 DEF PreValidate, EnsureNoNPCRefs, RecheckDelete, UpdateTx,
                  SoftDeleteTx, Overwrite, PC
<1>3. UNCHANGED <<mysql, shown>> /\ cache' \in [Template -> Row \cup {Miss}]
  BY DEF PreValidate, EnsureNoNPCRefs, RecheckDelete, UpdateTx, SoftDeleteTx,
         Overwrite, TypeOK
<1> QED
  BY <1>2, <1>3 DEF TypeOK, mysql

\* What a transaction writes is a row.
LEMMA WrittenType ==
  ASSUME NEW row \in Row, NEW j, j.fields \subseteq Field
  PROVE  Written(row, j) \in Row
<1>1. CASE j.op = "delete"
  BY <1>1 DEF Written, Row
<1>2. CASE j.op # "delete"
  <2>1. row.ver + 1 \in Nat
    BY DEF Row
  <2>2. Written(row, j) = [row EXCEPT !.fields = j.fields, !.ver = row.ver + 1]
    BY <1>2 DEF Written
  <2> QED
    BY <2>1, <2>2 DEF Row
<1> QED
  BY <1>1, <1>2

\* The last step of a request.
LEMMA TypeLast ==
  ASSUME TypeOK, NEW p \in Request,
         \/ CreateTx(p) \/ Commit(p) \/ (\E n \in NPC : CreateNPC(p, n))
         \/ ClearDetail(p) \/ Fail(p)
  PROVE  TypeOK'
<1> USE DEF mysql
<1>0. /\ job[p].id \in Template /\ job[p].fields \subseteq Field
      /\ job[p].old.fields \subseteq Field /\ templates[job[p].id] \in Row
  BY DEF TypeOK, Job, Row
<1>1. pc' \in [Request -> PC] /\ job' \in [Request -> Job]
  BY FinishOne DEF CreateTx, Commit, CreateNPC, ClearDetail, Fail
<1>2. CASE CreateTx(p)
  BY <1>0, <1>1, <1>2 DEF CreateTx, TypeOK, Row
<1>3. CASE Commit(p)
  <2>1. Written(templates[job[p].id], job[p]) \in Row
    BY <1>0, WrittenType
  <2>2. held' \in [Field -> SUBSET Template]
    BY <1>0, <1>3 DEF Commit, TypeOK
  <2> QED
    BY <1>0, <1>1, <1>3, <2>1, <2>2 DEF Commit, TypeOK
<1>4. ASSUME NEW n \in NPC, CreateNPC(p, n) PROVE TypeOK'
  BY <1>0, <1>1, <1>4 DEF CreateNPC, TypeOK, NPCRow
<1>5. CASE ClearDetail(p) \/ Fail(p)
  BY <1>1, <1>5 DEF ClearDetail, Fail, TypeOK
<1> QED
  BY <1>2, <1>3, <1>4, <1>5

LEMMA TypeStep == TypeOK /\ [Next]_vars => TypeOK'
<1> SUFFICES ASSUME TypeOK, [Next]_vars PROVE TypeOK'
  OBVIOUS
<1>1. ASSUME NEW p \in Request, Serve(p) PROVE TypeOK'
  BY <1>1, TypeLoad, TypeBegin, TypeCheck, TypeLast DEF Serve
<1>2. ASSUME NEW f \in Field, ChangeField(f) \/ RemoveField(f) PROVE TypeOK'
  BY <1>2 DEF ChangeField, RemoveField, TypeOK
<1>3. ASSUME NEW n \in NPC, RemoveNPC(n) PROVE TypeOK'
  <2>1. NoNPC \in NPCRow
    BY NoJobType DEF NoNPC, NPCRow, Job
  <2> QED
    BY <1>3, <2>1 DEF RemoveNPC, TypeOK
<1>4. ASSUME NEW t \in Template, ExpireDetail(t) PROVE TypeOK'
  BY <1>4 DEF ExpireDetail, TypeOK, mysql
<1>5. CASE UNCHANGED vars
  BY <1>5 DEF vars, mysql, TypeOK
<1> QED
  BY <1>1, <1>2, <1>3, <1>4, <1>5 DEF Next

\* Type correctness, whatever the interleaving, the failures and the cache.
THEOREM TypesHold == Spec => []TypeOK
<1>1. Init => TypeOK
  BY InitInv DEF IInv
<1> QED
  BY <1>1, TypeStep, PTL DEF Spec

-----------------------------------------------------------------------------
(* One request at a time, without failures, with Redis or without *)

\* What SerialInv says of a request, its part of CacheOfRow apart.
Fits(p) ==
  LET op == job[p].op
      row == templates[job[p].id]
      old == job[p].old IN
  /\ pc[p] \in {"load", "read", "fill"} => op \in {"get", "update", "delete", "npc"}
  /\ pc[p] = "validate" => op \in {"create", "update"}
  /\ pc[p] \in {"count", "commit"} => op \in {"update", "delete"}
  /\ pc[p] = "tx" => op \in {"create", "update", "delete"}
  /\ pc[p] = "delete" => op = "delete"
  /\ pc[p] = "insert" => op = "npc"
  /\ op = "delete" => job[p].fields = {}
  /\ pc[p] = "commit" /\ op = "update" => ~old.enabled
  /\ pc[p] = "fill" => old = Found(row)
  /\ pc[p] \in Past => old = row /\ (IF op = "create" THEN row = NoRow ELSE row.live)
  /\ pc[p] \in {"tx", "delete", "commit"} /\ op # "create" => FieldsFree(p)

LEMMA FitsParts ==
  (\A p \in Request : Fits(p)) <=> Phases /\ Stands /\ RowInHand /\ CountStays
BY DEF Fits, Phases, Stands, RowInHand, CountStays

LEMMA FitsPartsNext ==
  (\A p \in Request : Fits(p)') <=> Phases' /\ Stands' /\ RowInHand' /\ CountStays'
BY DEF Fits, Phases, Stands, RowInHand, CountStays

\* An entry of the cache stays, goes, or becomes a null marker or the row of the
\* table.
CacheMoves ==
  \A t \in Template : \/ cache'[t] = cache[t] \/ cache'[t] = Miss
                      \/ ~cache'[t].live \/ cache'[t] = templates[t]

\* A step of the request that writes no table.
LEMMA SerialMove ==
  ASSUME Serial, SerialInv, NEW p \in Request, UNCHANGED <<templates, held, npcs>>,
         Fits(p)', CacheMoves,
         pc[p] = "clear" => cache'[job[p].id] = Miss,
         pc'[p] = "commit" => cache'[job'[p].id] = Miss
  PROVE  SerialInv'
<1>0. \A q \in Request : q = p
  BY DEF Serial
<1>1. RowsOK' /\ RefsOfLive' /\ NPCsOfLive'
  BY DEF SerialInv, RowsOK, RefsOfLive, NPCsOfLive, Made
<1>2. CacheOfRow'
  <2>1. ASSUME NEW t \in Template, cache'[t] # Miss, cache'[t].live
        PROVE  cache'[t] = templates[t]
    BY <1>0, <2>1 DEF SerialInv, CacheOfRow, CacheMoves
  <2> QED
    BY <1>0, <2>1 DEF CacheOfRow
<1>3. \A q \in Request : Fits(q)'
  BY <1>0
<1> QED
  BY <1>1, <1>2, <1>3, FitsPartsNext DEF SerialInv

\* The request answers, and has written no table.
LEMMA SerialRest ==
  ASSUME Serial, TypeOK, SerialInv, NEW p \in Request, Finish(p),
         UNCHANGED <<templates, held, npcs>>, CacheMoves,
         pc[p] = "clear" => cache'[job[p].id] = Miss
  PROVE  SerialInv'
<1>1. pc'[p] = "idle" /\ job'[p].op = "none"
  <2>1. pc'[p] = "idle" /\ job'[p] = NoJob
    BY FinishOne DEF Finishes
  <2> QED
    BY <2>1 DEF NoJob
<1>2. Fits(p)'
  BY <1>1 DEF Fits, Past
<1> QED
  BY <1>1, <1>2, SerialMove

\* The request goes on with its job as it was.
LEMMA SerialGoto ==
  ASSUME Serial, TypeOK, SerialInv, NEW p \in Request,
         NEW l \in {"read", "count", "tx", "delete", "commit"},
         pc' = [pc EXCEPT ![p] = l], UNCHANGED <<templates, held, npcs, job>>,
         CacheMoves, pc[p] # "clear",
         LET op == job[p].op IN
         /\ l # "read" => pc[p] \in Past
         /\ l = "read" => pc[p] = "load"
         /\ l \in {"count", "commit"} => op \in {"update", "delete"}
         /\ l = "tx" => op \in {"create", "update", "delete"}
         /\ l = "delete" => op = "delete"
         /\ l = "commit" /\ op = "update" => ~job[p].old.enabled
         /\ l \in {"tx", "delete", "commit"} /\ op # "create" => FieldsFree(p),
         l = "commit" => cache'[job[p].id] = Miss
  PROVE  SerialInv'
<1>1. pc'[p] = l /\ job'[p] = job[p]
  BY DEF TypeOK
<1>2. FieldsFree(p)' <=> FieldsFree(p)
  BY DEF FieldsFree, CountByTemplateID, Made
<1>3. Fits(p)
  BY FitsParts DEF SerialInv
<1>4. Fits(p)'
  BY <1>1, <1>2, <1>3 DEF Fits, Past
<1> QED
  BY <1>1, <1>4, SerialMove

\* A check: the request answers or goes on.
LEMMA SerialProceed ==
  ASSUME Serial, TypeOK, SerialInv, NEW p \in Request, NEW ok,
         NEW l \in {"count", "tx", "delete", "commit"}, Proceed(p, ok, l),
         pc[p] \in Past, UNCHANGED <<templates, held, npcs>>, CacheMoves,
         ok => LET op == job[p].op IN
               /\ l \in {"count", "commit"} => op \in {"update", "delete"}
               /\ l = "tx" => op \in {"create", "update", "delete"}
               /\ l = "delete" => op = "delete"
               /\ l = "commit" /\ op = "update" => ~job[p].old.enabled
               /\ l # "count" /\ op # "create" => FieldsFree(p)
               /\ l = "commit" => cache'[job[p].id] = Miss
  PROVE  SerialInv'
<1>0. pc[p] # "clear"
  BY DEF Past
<1>1. CASE ok
  BY <1>0, <1>1, SerialGoto DEF Proceed, Goto
<1>2. CASE ~ok
  BY <1>0, <1>2, SerialRest DEF Proceed
<1> QED
  BY <1>1, <1>2

LEMMA SerialBegin ==
  ASSUME Serial, TypeOK, SerialInv, NEW p \in Request, NEW t \in Template,
         NEW F \in SUBSET Field,
         \/ BeginCreate(p, t, F)
         \/ \E op \in {"get", "update", "delete", "npc"} : Begin(p, op, t, F)
  PROVE  SerialInv'
<1> USE DEF mysql
<1>1. CASE BeginCreate(p, t, F)
  <2>1. /\ pc'[p] = "validate" /\ job'[p].op = "create" /\ job'[p].id = t
        /\ job'[p].old = NoRow
    BY <1>1 DEF BeginCreate, Goto, TypeOK
  <2>2. templates[t] = NoRow
    BY <1>1 DEF BeginCreate, SerialInv, RowsOK
  <2>3. Fits(p)'
    BY <1>1, <2>1, <2>2 DEF Fits, Past, BeginCreate
  <2> QED
    BY <1>1, <2>1, <2>3, SerialMove DEF BeginCreate, CacheMoves
<1>2. ASSUME NEW op \in {"get", "update", "delete", "npc"}, Begin(p, op, t, F)
      PROVE  SerialInv'
  <2>1. pc'[p] = "load" /\ job'[p].op = op /\ (op = "delete" => job'[p].fields = {})
    BY <1>2 DEF Begin, Goto, TypeOK
  <2>2. Fits(p)'
    BY <2>1 DEF Fits, Past
  <2> QED
    BY <1>2, <2>1, <2>2, SerialMove DEF Begin, CacheMoves
<1> QED
  BY <1>1, <1>2

\* A row that is found to be live, in the cache or in the table, is the row of
\* the table.
LEMMA SerialLoaded ==
  ASSUME Serial, TypeOK, SerialInv, NEW p \in Request, pc[p] \in {"load", "fill"},
         NEW row \in Row, row.live => row = templates[job[p].id], Loaded(p, row),
         UNCHANGED mysql, CacheMoves
  PROVE  SerialInv'
<1> USE DEF mysql
<1>1. CASE Finish(p)
  BY <1>1, SerialRest
<1>2. CASE ~Finish(p)
  <2>1. /\ Goto(p, AfterLoad(job[p].op)) /\ job' = [job EXCEPT ![p].old = row]
        /\ row.live /\ job[p].op # "get"
    BY <1>2 DEF Loaded
  <2>2. Fits(p) /\ job[p] \in Job
    BY FitsParts DEF SerialInv, TypeOK
  <2>3. job[p].op \in {"update", "delete", "npc"}
    BY <2>1, <2>2 DEF Fits
  <2>4. /\ pc'[p] = AfterLoad(job[p].op) /\ job'[p].op = job[p].op
        /\ job'[p].id = job[p].id /\ job'[p].fields = job[p].fields
        /\ job'[p].old = row
    BY <2>1, <2>2 DEF Goto, TypeOK, Job
  <2>5. Fits(p)'
    BY <2>1, <2>2, <2>3, <2>4 DEF Fits, AfterLoad, Past
  <2> QED
    BY <2>3, <2>4, <2>5, SerialMove DEF AfterLoad
<1> QED
  BY <1>1, <1>2

LEMMA SerialLoad ==
  ASSUME Serial, TypeOK, SerialInv, NEW p \in Request,
         Lookup(p) \/ ReadRow(p) \/ SetDetail(p)
  PROVE  SerialInv'
<1> USE DEF mysql
<1> DEFINE t == job[p].id
<1>0. /\ job[p] \in Job /\ t \in Template /\ job[p].old \in Row
      /\ templates[t] \in Row /\ cache[t] \in Row \cup {Miss}
      /\ Fits(p) /\ \A q \in Request : q = p
  BY FitsParts DEF TypeOK, Job, SerialInv, Serial
<1>1. CASE Lookup(p) /\ cache[t] = Miss
  <2>1. Goto(p, "read") /\ UNCHANGED <<job, mysql, cache>> /\ pc[p] = "load"
    BY <1>1 DEF Lookup
  <2> QED
    BY <2>1, SerialGoto DEF Goto, CacheMoves
<1>2. CASE Lookup(p) /\ cache[t] # Miss
  <2>1. cache[t] \in Row /\ (cache[t].live => cache[t] = templates[t])
    BY <1>0, <1>2 DEF SerialInv, CacheOfRow, Lookup
  <2> QED
    BY <1>2, <2>1, SerialLoaded DEF Lookup, CacheMoves
<1>3. CASE ReadRow(p)
  <2>1. /\ pc'[p] = "fill" /\ job'[p].op = job[p].op /\ job'[p].id = t
        /\ job'[p].fields = job[p].fields /\ job'[p].old = Found(templates[t])
    BY <1>0, <1>3 DEF ReadRow, Goto, TypeOK, Job
  <2>2. Fits(p)'
    BY <1>0, <1>3, <2>1 DEF Fits, Past, ReadRow, Found
  <2> QED
    BY <1>3, <2>1, <2>2, SerialMove DEF ReadRow, CacheMoves
<1>4. CASE SetDetail(p)
  <2>1. pc[p] = "fill" /\ (job[p].old.live => job[p].old = templates[t])
    BY <1>0, <1>4 DEF Fits, SetDetail, Found, NoRow
  <2>2. CacheMoves
    BY <1>0, <1>4, <2>1 DEF SetDetail, CacheMoves, TypeOK
  <2> QED
    BY <1>0, <1>4, <2>1, <2>2, SerialLoaded DEF SetDetail
<1> QED
  BY <1>1, <1>2, <1>3, <1>4

LEMMA SerialCheck ==
  ASSUME Serial, TypeOK, SerialInv, NEW p \in Request,
         \/ PreValidate(p) \/ EnsureNoNPCRefs(p) \/ RecheckDelete(p)
         \/ UpdateTx(p) \/ SoftDeleteTx(p)
  PROVE  SerialInv'
<1> USE DEF mysql
<1>0. Fits(p) /\ job[p].id \in Template /\ cache \in [Template -> Row \cup {Miss}]
  BY FitsParts DEF SerialInv, TypeOK, Job
<1>1. CASE PreValidate(p)
  BY <1>0, <1>1, SerialProceed DEF PreValidate, Fits, Past, CacheMoves
<1>2. CASE EnsureNoNPCRefs(p)
  BY <1>0, <1>2, SerialProceed DEF EnsureNoNPCRefs, Fits, Past, CacheMoves
<1>3. CASE RecheckDelete(p)
  BY <1>0, <1>3, SerialProceed DEF RecheckDelete, Fits, Past, CacheMoves
<1>4. ASSUME NEW ok, Overwrite(p, ok), pc[p] \in {"tx", "delete"},
             job[p].op \in {"update", "delete"},
             ok /\ job[p].op = "update" => Editable(p)
      PROVE  SerialInv'
  <2>1. CacheMoves /\ (ok => cache'[job[p].id] = Miss)
    BY <1>0, <1>4 DEF Overwrite, CacheMoves
  <2>2. FieldsFree(p)
    BY <1>0, <1>4 DEF Fits
  <2> QED
    BY <1>4, <2>1, <2>2, SerialProceed DEF Overwrite, Past, Editable
<1>5. CASE UpdateTx(p)
  BY <1>4, <1>5 DEF UpdateTx
<1>6. CASE SoftDeleteTx(p)
  BY <1>0, <1>4, <1>6 DEF SoftDeleteTx, Fits
<1> QED
  BY <1>1, <1>2, <1>3, <1>5, <1>6

\* The request answers, and has written tables or cleared the cache.
LEMMA SerialEnd ==
  ASSUME Serial, TypeOK, NEW p \in Request, Finish(p),
         RowsOK', RefsOfLive', NPCsOfLive',
         \A t \in Template : cache'[t] # Miss /\ cache'[t].live =>
                               cache'[t] = templates'[t]
  PROVE  SerialInv'
<1>0. \A q \in Request : q = p
  BY DEF Serial
<1>1. pc'[p] = "idle" /\ job'[p] = NoJob
  BY FinishOne DEF Finishes
<1>2. job'[p].op = "none"
  BY <1>1 DEF NoJob
<1>3. Fits(p)'
  BY <1>1, <1>2 DEF Fits, Past
<1>4. \A q \in Request : Fits(q)'
  BY <1>0, <1>3
<1>5. CacheOfRow'
  BY <1>0, <1>1 DEF CacheOfRow
<1> QED
  BY <1>4, <1>5, FitsPartsNext DEF SerialInv

LEMMA SerialCreate ==
  ASSUME Serial, TypeOK, SerialInv, NEW p \in Request, CreateTx(p)
  PROVE  SerialInv'
<1> DEFINE t == job[p].id
           F == job[p].fields
<1>0. /\ t \in Template /\ F \subseteq Field /\ pc[p] = "tx" /\ job[p].op = "create"
      /\ \A q \in Request : q = p
  BY DEF TypeOK, Job, CreateTx, Serial
<1>1. ~templates[t].live
  <2>1. templates[t] = NoRow
    BY <1>0 DEF SerialInv, RowInHand, Past
  <2> QED
    BY <2>1 DEF NoRow
<1>2. /\ templates'[t].live /\ templates'[t].ver = 1 /\ templates'[t].fields = F
      /\ \A u \in Template \ {t} : templates'[u] = templates[u]
  BY <1>0 DEF CreateTx, TypeOK
<1>3. \A f \in Field, u \in Template :
        u \in held'[f] <=> u \in held[f] \/ (u = t /\ f \in F)
  BY <1>0 DEF CreateTx, TypeOK
<1>4. RefsOfLive'
  BY <1>0, <1>1, <1>2, <1>3 DEF SerialInv, RefsOfLive
<1>5. RowsOK'
  BY <1>0, <1>2, <1>3 DEF SerialInv, RowsOK
<1>6. NPCsOfLive'
  <2> SUFFICES ASSUME NEW n \in NPC, Made(n)
               PROVE  LET row == templates'[npcs[n].tpl] IN
                      row.live /\ row.fields = npcs[n].fields
    BY DEF NPCsOfLive, Made, CreateTx
  <2>1. npcs[n].tpl \in Template \ {t}
    BY <1>0, <1>1 DEF SerialInv, NPCsOfLive, TypeOK, NPCRow
  <2> QED
    BY <1>2, <2>1 DEF SerialInv, NPCsOfLive
<1>7. ASSUME NEW u \in Template, cache'[u] # Miss, cache'[u].live
      PROVE  cache'[u] = templates'[u]
  <2>1. cache[u] = templates[u] /\ cache[u].live
    BY <1>0, <1>7 DEF SerialInv, CacheOfRow, CreateTx
  <2> QED
    BY <1>1, <1>2, <2>1 DEF CreateTx
<1> QED
  BY <1>4, <1>5, <1>6, <1>7, SerialEnd DEF CreateTx

LEMMA SerialCommit ==
  ASSUME Serial, TypeOK, SerialInv, NEW p \in Request, Commit(p)
  PROVE  SerialInv'
<1> DEFINE t == job[p].id
           row == templates[t]
           new == Written(row, job[p])
<1>0. /\ t \in Template /\ job[p].fields \subseteq Field /\ pc[p] = "commit"
      /\ row \in Row /\ row.ver \in Nat /\ \A q \in Request : q = p
      /\ job[p].op \in {"update", "delete"}
  BY DEF TypeOK, Job, Row, Commit, Serial, SerialInv, Stands
<1>1. job[p].old = row /\ row.live /\ FieldsFree(p) /\ cache[t] = Miss
  BY <1>0 DEF SerialInv, RowInHand, CountStays, CacheOfRow, Past
<1>2. job[p].op = "delete" => job[p].fields = {}
  BY DEF SerialInv, Stands
<1>3. /\ new.live <=> job[p].op = "update"
      /\ new.live => new.fields = job[p].fields
      /\ new.ver = 0 => row.ver = 0
  BY <1>0, <1>1 DEF Written, Row
<1>4. /\ templates'[t] = new
      /\ \A u \in Template \ {t} : templates'[u] = templates[u]
  BY <1>0 DEF Commit, TypeOK
<1>5. \A f \in Field, u \in Template :
        u \in held'[f] <=> IF u # t THEN u \in held[f] ELSE f \in job[p].fields
  <2> SUFFICES ASSUME NEW f \in Field, NEW u \in Template
               PROVE  u \in held'[f] <=>
                        IF u # t THEN u \in held[f] ELSE f \in job[p].fields
    OBVIOUS
  <2>1. held'[f] = IF f \in ToAdd(p) THEN held[f] \cup {t}
                   ELSE IF f \in ToRemove(p) THEN held[f] \ {t} ELSE held[f]
    BY DEF Commit, Detached
  <2>2. t \in held[f] <=> f \in job[p].old.fields
    BY <1>0, <1>1 DEF SerialInv, RefsOfLive
  <2> QED
    BY <2>1, <2>2 DEF ToAdd, ToRemove
<1>6. RefsOfLive'
  BY <1>0, <1>2, <1>3, <1>4, <1>5 DEF SerialInv, RefsOfLive
<1>7. RowsOK'
  <2>1. row.ver # 0
    BY <1>0, <1>1 DEF SerialInv, RowsOK, NoRow
  <2> QED
    BY <1>0, <1>3, <1>4, <1>5, <2>1 DEF SerialInv, RowsOK
<1>8. NPCsOfLive'
  <2> SUFFICES ASSUME NEW n \in NPC, Made(n)
               PROVE  LET r == templates'[npcs[n].tpl] IN
                      r.live /\ r.fields = npcs[n].fields
    BY DEF NPCsOfLive, Made, Commit
  <2>1. /\ npcs[n].tpl \in Template
        /\ templates[npcs[n].tpl].live /\ templates[npcs[n].tpl].fields = npcs[n].fields
    BY DEF SerialInv, NPCsOfLive, TypeOK, NPCRow
  <2>2. CASE npcs[n].tpl = t
    <3>1. job[p].op = "update" /\ job[p].fields = row.fields
      BY <1>1, <2>2 DEF FieldsFree, CountByTemplateID
    <3> QED
      BY <1>3, <1>4, <2>1, <2>2, <3>1
  <2>3. CASE npcs[n].tpl # t
    BY <1>4, <2>1, <2>3
  <2> QED
    BY <2>2, <2>3
<1>9. ASSUME NEW u \in Template, cache'[u] # Miss, cache'[u].live
      PROVE  cache'[u] = templates'[u]
  <2>1. cache[u] = templates[u] /\ u # t
    BY <1>0, <1>1, <1>9 DEF SerialInv, CacheOfRow, Commit
  <2> QED
    BY <1>4, <2>1 DEF Commit
<1> QED
  BY <1>6, <1>7, <1>8, <1>9, SerialEnd DEF Commit

LEMMA SerialNPC ==
  ASSUME Serial, TypeOK, SerialInv, NEW p \in Request, NEW n \in NPC, CreateNPC(p, n)
  PROVE  SerialInv'
<1>0. /\ pc[p] = "insert" /\ job[p].op = "npc" /\ \A q \in Request : q = p
  BY DEF CreateNPC, Serial, SerialInv, Stands
<1>1. job[p].old = templates[job[p].id] /\ templates[job[p].id].live
  BY <1>0 DEF SerialInv, RowInHand, Past
<1>2. NPCsOfLive'
  <2> SUFFICES ASSUME NEW m \in NPC, npcs'[m].fields # {}
               PROVE  LET row == templates[npcs'[m].tpl] IN
                      row.live /\ row.fields = npcs'[m].fields
    BY DEF NPCsOfLive, Made, CreateNPC
  <2>1. CASE npcs'[m] = npcs[m]
    BY <2>1 DEF SerialInv, NPCsOfLive, Made
  <2>2. CASE npcs'[m] # npcs[m]
    <3>1. npcs'[m] = [tpl |-> job[p].id, fields |-> job[p].old.fields]
      BY <2>2 DEF CreateNPC, TypeOK
    <3> QED
      BY <1>1, <3>1
  <2> QED
    BY <2>1, <2>2
<1>3. RowsOK' /\ RefsOfLive'
  BY DEF SerialInv, RowsOK, RefsOfLive, CreateNPC
<1>4. \A t \in Template : cache'[t] # Miss /\ cache'[t].live =>
                            cache'[t] = templates'[t]
  BY <1>0 DEF SerialInv, CacheOfRow, CreateNPC
<1> QED
  BY <1>2, <1>3, <1>4, SerialEnd DEF CreateNPC

\* Between the UPDATE of a toggle and the clearing of the cache, the entry of
\* that template alone may be late.
LEMMA SerialToggle ==
  ASSUME Serial, TypeOK, SerialInv, NEW p \in Request, NEW t \in Template,
         NEW b \in BOOLEAN, ToggleEnabled(p, t, b)
  PROVE  SerialInv'
<1>0. /\ pc[p] = "idle" /\ \A q \in Request : q = p
      /\ templates[t] \in Row /\ templates[t].live
  BY DEF ToggleEnabled, Serial, TypeOK
<1>1. /\ templates'[t].live /\ templates'[t].ver # 0
      /\ templates'[t].fields = templates[t].fields
      /\ \A u \in Template \ {t} : templates'[u] = templates[u]
  BY <1>0 DEF ToggleEnabled, TypeOK, Row
<1>2. pc'[p] = "clear" /\ job'[p].op = "toggle" /\ job'[p].id = t
  <2>1. job'[p] = [NoJob EXCEPT !.op = "toggle", !.id = t] /\ pc'[p] = "clear"
    BY DEF ToggleEnabled, Goto, TypeOK
  <2> QED
    BY <2>1 DEF NoJob
<1>3. RowsOK' /\ RefsOfLive'
  <2>1. UNCHANGED held
    BY DEF ToggleEnabled
  <2>2. RowsOK'
    BY <1>1, <2>1 DEF SerialInv, RowsOK
  <2>3. RefsOfLive'
    BY <1>0, <1>1, <2>1 DEF SerialInv, RefsOfLive
  <2> QED
    BY <2>2, <2>3
<1>4. NPCsOfLive'
  BY <1>0, <1>1 DEF SerialInv, NPCsOfLive, Made, ToggleEnabled, TypeOK, NPCRow
<1>5. Fits(p)'
  BY <1>2 DEF Fits, Past
<1>6. CacheOfRow'
  BY <1>0, <1>1, <1>2 DEF SerialInv, CacheOfRow, ToggleEnabled
<1>7. \A q \in Request : Fits(q)'
  BY <1>0, <1>5
<1> QED
  BY <1>3, <1>4, <1>6, <1>7, FitsPartsNext DEF SerialInv

LEMMA SerialClear ==
  ASSUME Serial, TypeOK, SerialInv, NEW p \in Request, ClearDetail(p)
  PROVE  SerialInv'
<1>1. CacheMoves /\ cache'[job[p].id] = Miss
  BY DEF ClearDetail, CacheMoves, TypeOK, Job
<1> QED
  BY <1>1, SerialRest DEF ClearDetail, mysql

\* Fields, NPCs that go, keys that expire.
LEMMA SerialBeside ==
  ASSUME Serial, TypeOK, SerialInv, UNCHANGED <<templates, held, pc, job>>, CacheMoves,
         \A p \in Request : cache[job[p].id] = Miss => cache'[job[p].id] = Miss,
         \A n \in NPC : npcs'[n] = npcs[n] \/ npcs'[n] = NoNPC
  PROVE  SerialInv'
<1>1. \A n \in NPC : Made(n)' => Made(n) /\ npcs'[n] = npcs[n]
  BY DEF Made, NoNPC
<1>2. RowsOK' /\ RefsOfLive' /\ NPCsOfLive'
  BY <1>1 DEF SerialInv, RowsOK, RefsOfLive, NPCsOfLive
<1>3. CacheOfRow'
  BY DEF SerialInv, CacheOfRow, CacheMoves
<1>4. \A p \in Request : FieldsFree(p) => FieldsFree(p)'
  BY <1>1 DEF FieldsFree, CountByTemplateID
<1>5. \A p \in Request : Fits(p)
  BY FitsParts DEF SerialInv
<1>6. \A p \in Request : Fits(p)'
  BY <1>4, <1>5 DEF Fits
<1> QED
  BY <1>2, <1>3, <1>6, FitsPartsNext DEF SerialInv

LEMMA SerialStep ==
  ASSUME Serial, TypeOK, SerialInv, [Next]_vars
  PROVE  SerialInv'
<1> USE DEF mysql
<1>1. ASSUME NEW p \in Request, Serve(p) PROVE SerialInv'
  BY <1>1, SerialBegin, SerialLoad, SerialCheck, SerialCreate, SerialCommit,
     SerialNPC, SerialToggle, SerialClear DEF Serve, Fail, Serial
<1>2. ASSUME NEW f \in Field, ChangeField(f) \/ RemoveField(f) PROVE SerialInv'
  BY <1>2, SerialBeside DEF ChangeField, RemoveField, CacheMoves
<1>3. ASSUME NEW n \in NPC, RemoveNPC(n) PROVE SerialInv'
  BY <1>3, SerialBeside DEF RemoveNPC, CacheMoves, TypeOK
<1>4. ASSUME NEW t \in Template, ExpireDetail(t) PROVE SerialInv'
  <2>1. \A u \in Template : cache'[u] = cache[u] \/ cache'[u] = Miss
    BY <1>4 DEF ExpireDetail, TypeOK
  <2>2. \A p \in Request : cache[job[p].id] = Miss => cache'[job[p].id] = Miss
    BY <2>1 DEF TypeOK, Job
  <2> QED
    BY <1>4, <2>1, <2>2, SerialBeside DEF ExpireDetail, CacheMoves
<1>5. CASE UNCHANGED vars
  BY <1>5, SerialBeside DEF vars, CacheMoves
<1> QED
  BY <1>1, <1>2, <1>3, <1>4, <1>5 DEF Next

LEMMA SerialStart == Init => SerialInv
<1> SUFFICES ASSUME Init PROVE SerialInv
  OBVIOUS
<1>1. RowsOK /\ RefsOfLive /\ NPCsOfLive /\ CacheOfRow
  BY DEF Init, RowsOK, RefsOfLive, NPCsOfLive, CacheOfRow, Made, NoRow, NoNPC
<1>2. \A p \in Request : Fits(p)
  BY DEF Init, Fits, NoJob, Past
<1> QED
  BY <1>1, <1>2, FitsParts DEF SerialInv

\* One request at a time, without failures, the row a request has loaded is the
\* row of the table although it may come from the cache, and the NPCs it has
\* counted are those there are when it commits.
THEOREM SerialInvariance ==
  ASSUME Serial
  PROVE  Spec => []SerialInv
<1>1. TypeOK /\ SerialInv /\ [Next]_vars => SerialInv'
  BY SerialStep
<1> QED
  BY <1>1, SerialStart, TypesHold, PTL DEF Spec

\* One request at a time, without failures: every NPC was made from a template
\* that is still there with the same fields, and a deleted template refers to no
\* field, null markers and expired keys included.
THEOREM SerialIntegrityHolds ==
  ASSUME Serial
  PROVE  Spec => []SerialIntegrity
<1>1. SerialInv => SerialIntegrity
  BY DEF SerialInv, SerialIntegrity, RefsOfLive, NPCsOfLive
<1> QED
  BY <1>1, SerialInvariance, PTL

\* One request at a time, the cache costs nothing: field_refs has the fields of
\* every live template, as it does without Redis.
THEOREM SerialRefsMatch ==
  ASSUME Serial
  PROVE  Spec => []LiveRefsMatch
<1>1. SerialInv => LiveRefsMatch
  BY DEF SerialInv, LiveRefsMatch, RefsOfLive
<1> QED
  BY <1>1, SerialInvariance, PTL

\* One request at a time, the row that the editability of a template was judged
\* on, cached or not, is the one written: an enabled template keeps its fields.
THEOREM SerialKeepsFields ==
  ASSUME Serial
  PROVE  Spec => EditsOnlyDisabled
<1> DEFINE Edits == \A t \in Template : templates[t].enabled =>
                      templates'[t].fields = templates[t].fields
<1>1. TypeOK /\ SerialInv /\ [Next]_vars => [Edits]_vars
  <2> SUFFICES ASSUME TypeOK, SerialInv, [Next]_vars, NEW t \in Template,
                      templates[t].enabled
               PROVE  templates'[t].fields = templates[t].fields
    OBVIOUS
  <2>0. \A p \in Request : job[p].id \in Template
    BY DEF TypeOK, Job
  <2>1. ASSUME NEW p \in Request, CreateTx(p)
        PROVE  templates'[t].fields = templates[t].fields
    <3>1. templates[job[p].id] = NoRow
      BY <2>1 DEF SerialInv, RowInHand, CreateTx, Past
    <3>2. t # job[p].id
      BY <3>1 DEF NoRow
    <3> QED
      BY <2>0, <2>1, <3>2 DEF CreateTx, TypeOK
  <2>2. ASSUME NEW p \in Request, Commit(p)
        PROVE  templates'[t].fields = templates[t].fields
    <3>1. /\ templates' = [templates EXCEPT ![job[p].id] = Written(@, job[p])]
          /\ pc[p] = "commit"
      BY <2>2 DEF Commit
    <3>2. t = job[p].id => job[p].op = "delete"
      BY <3>1 DEF SerialInv, Stands, RowInHand, Past
    <3>3. templates[t] \in Row
      BY DEF TypeOK
    <3> QED
      BY <2>0, <3>1, <3>2, <3>3 DEF Written, TypeOK, Row
  <2>3. ASSUME NEW p \in Request, NEW u \in Template, NEW b \in BOOLEAN,
               ToggleEnabled(p, u, b)
        PROVE  templates'[t].fields = templates[t].fields
    <3>1. templates[u] \in Row
      BY DEF TypeOK
    <3> QED
      BY <2>3, <3>1 DEF ToggleEnabled, TypeOK, Row
  <2>4. ASSUME NEW p \in Request, WritesNoRow(p)
        PROVE  templates' = templates
    BY <2>4 DEF WritesNoRow, BeginCreate, Begin, Lookup, ReadRow, SetDetail, PreValidate,
       EnsureNoNPCRefs, UpdateTx, RecheckDelete, SoftDeleteTx, Overwrite, CreateNPC,
       ClearDetail, Fail, mysql
  <2>5. ASSUME \/ \E f \in Field : ChangeField(f) \/ RemoveField(f)
               \/ \E n \in NPC : RemoveNPC(n)
               \/ \E u \in Template : ExpireDetail(u)
               \/ UNCHANGED vars
        PROVE  templates' = templates
    BY <2>5 DEF ChangeField, RemoveField, RemoveNPC, ExpireDetail, vars, mysql
  <2> QED
    BY <2>1, <2>2, <2>3, <2>4, <2>5, ServeCases DEF Next
<1>2. Spec => [][Edits]_vars
  BY <1>1, SerialInvariance, TypesHold, PTL DEF Spec
<1> QED
  BY <1>2 DEF EditsOnlyDisabled
=============================================================================
