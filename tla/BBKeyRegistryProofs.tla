------------------------ MODULE BBKeyRegistryProofs ------------------------
(***************************************************************************)
(* Proofs about BBKeyRegistry: its invariant, what BBKeyTable promises,    *)
(* what requests wait for, and what holds as long as requests do not       *)
(* overlap.                                                                *)
(***************************************************************************)
EXTENDS BBKeyRegistry, FiniteSetTheorems, TLAPS

-----------------------------------------------------------------------------
(* Types *)

\* p goes to l with the job j.
Goes(p, l, j) == pc' = [pc EXCEPT ![p] = l] /\ job' = [job EXCEPT ![p] = j]

\* The job of an idle request is a job, and there are rows that are not there.
LEMMA NoJobType == /\ NoJob \in Job /\ NoJob.found = {} /\ NoJob.op = "none"
                   /\ NoKeyRow \in KeyRow /\ NoHolderRow \in HolderRow
                   /\ DeadKeyRow \in KeyRow /\ DeadHolderRow \in HolderRow
<1>1. Key # {} /\ Holder # {}
  <2>1. PICK n \in Name : TRUE
    BY HolderAssumption
  <2>2. <<"fields", n>> \in Key
    BY <2>1 DEF Key, Table
  <2> QED
    BY <2>2, HolderAssumption
<1>2. (CHOOSE k \in Key : TRUE) \in Key /\ (CHOOSE h \in Holder : TRUE) \in Holder
  BY <1>1
<1> QED
  BY <1>2 DEF NoJob, Job, Op, NoKeyRow, KeyRow, NoHolderRow, HolderRow, DeadKeyRow, DeadHolderRow

LEMMA FinishGoes ==
  ASSUME NEW p \in Request, Finish(p)
  PROVE  Goes(p, "idle", NoJob)
BY DEF Finish, Goto, Goes

\* A configuration is a set of uses, and its names are names.
LEMMA ConfigNames ==
  /\ \A h \in Holder : \A C \in Configs(h) : C \in SUBSET Use
  /\ \A C \in SUBSET Use : KeysOf(C) \in SUBSET Name
  /\ \A C \in SUBSET Use : \A on : Extract(C, on) \in SUBSET Name
<1>1. \A u \in Use : u[2] \in Name
  BY DEF Use
<1>2. \A C \in SUBSET Use : KeysOf(C) \in SUBSET Name
  BY <1>1 DEF KeysOf
<1>3. \A C \in SUBSET Use : \A on : {u \in C : u[1] \in on \cup {Cond}} \in SUBSET Use
  OBVIOUS
<1>4. \A h \in Holder : \A C \in Configs(h) : C \in SUBSET Use
  BY DEF Configs, Use
<1> QED
  BY <1>2, <1>3, <1>4 DEF Extract

\* Every name in the conditions of a machine is a key of it.
LEMMA FsmNames ==
  ASSUME NEW f \in Fsm, NEW C \in Configs(f)
  PROVE  Extract(C, {}) = KeysOf(C)
<1>1. \A u \in C : u[1] = Cond
  BY DEF Configs
<1>2. {u \in C : u[1] \in {} \cup {Cond}} = C
  BY <1>1
<1> QED
  BY <1>2 DEF Extract

\* The tables of types, for a step of one request.
LEMMA GoesTypes ==
  ASSUME TypeOK, NEW p \in Request, NEW l \in PC, NEW j \in Job, Goes(p, l, j)
  PROVE  /\ pc' \in [Request -> PC] /\ job' \in [Request -> Job]
         /\ pc'[p] = l /\ job'[p] = j
         /\ \A q \in Request : q # p => pc'[q] = pc[q] /\ job'[q] = job[q]
BY DEF Goes, TypeOK

-----------------------------------------------------------------------------
(* Steps that move one request and write no table *)

\* HolderRead and Resolved, of a request at l with the job j.
Reading(l, j) ==
  LET r == holders[j.holder] IN
  l \in OnHolder =>
    /\ j.op \in {"create", "edit", "delete"}
    /\ j.uses \in Configs(j.holder) /\ j.old \in Configs(j.holder)
    /\ j.op = "create" => r.ver = 0 /\ j.ver = 0 /\ j.old = {}
    /\ j.op # "create" => r.ver > 0 /\ (r.live => j.ver <= r.ver)
    /\ j.op = "edit" /\ (l \in Writing \/ (l = "write" /\ r.live /\ r.ver = j.ver))
         => r.live /\ r.ver = j.ver /\ r.uses = j.old
    /\ l = "remove" <=> (j.op = "delete" /\ l # "row")

DiffOf(j) == (j.after \ j.before) \cup (j.before \ j.after)

Resolving(l, j) ==
  /\ l \in {"fields", "link", "keys", "commit", "disabled"} /\ j.holder \in Fsm =>
       j.before = KeysOf(j.old) /\ j.after = KeysOf(j.uses)
  /\ l \in {"old", "new"} => j.holder \in Tree
  /\ l \in OnHolder \ {"link", "keys", "commit"} => j.found = {}
  /\ l \in OnHolder => \A k \in j.found : ~Unused(k) /\ k[2] \in DiffOf(j)
  /\ l \in {"link", "keys", "commit"} =>
       \A k \in refs[j.holder] : k[1] = "fields" /\ k[2] \in DiffOf(j) /\ Live(k) => k \in j.found
  /\ l = "commit" =>
       \A k \in refs[j.holder] : k[2] \in DiffOf(j) /\ Live(k) => k \in j.found

PendingOf(l, j) == IF l \in {"keys", "commit"} THEN j.found \cap ({"fields"} \X Name) ELSE {}

\* The two ways to say it.
LEMMA SameWords ==
  ASSUME NEW p \in Request
  PROVE  /\ HolderRead(p) <=> Reading(pc[p], job[p])
         /\ Resolved(p) <=> Resolving(pc[p], job[p])
         /\ Pending(p) = PendingOf(pc[p], job[p])
BY DEF HolderRead, Reading, Resolved, Resolving, Diff, Added, Removed, DiffOf, Pending, PendingOf

\* Whoever goes on with the same row, and does not write it before its time, keeps
\* the writers apart.
GoesOn(p, l, j) ==
  l \in OnHolder =>
    /\ pc[p] \in OnHolder /\ j.holder = job[p].holder /\ j.op = job[p].op
    /\ l \in Writing => pc[p] \in Writing \/ ~RowLocked(p)

\* So does one that begins.
StartsOn(l, j) ==
  l \in OnHolder =>
    /\ l = "row"
    /\ IF j.op = "create"
       THEN \A q \in Request : pc[q] \in OnHolder => job[q].holder # j.holder
       ELSE holders[j.holder].ver > 0

LEMMA WritersApart ==
  ASSUME IInv, NEW p \in Request, NEW l \in PC, NEW j \in Job, Goes(p, l, j),
         GoesOn(p, l, j) \/ StartsOn(l, j)
  PROVE  OneWriter'
<1> SUFFICES ASSUME NEW a \in Request, NEW b \in Request, a # b,
                    pc'[a] \in OnHolder, pc'[b] \in OnHolder, job'[a].holder = job'[b].holder
             PROVE  /\ ~(pc'[a] \in Writing /\ pc'[b] \in Writing)
                    /\ job'[a].op # "create" /\ job'[b].op # "create"
  BY DEF OneWriter
<1>0. TypeOK /\ OneWriter /\ \A q \in Request : HolderRead(q)
  BY DEF IInv
<1>1. /\ pc'[p] = l /\ job'[p] = j
      /\ \A q \in Request : q # p => pc'[q] = pc[q] /\ job'[q] = job[q]
  BY <1>0, GoesTypes
<1>2. "row" \notin Writing /\ Writing \subseteq OnHolder
  BY DEF Writing, OnHolder
<1>3. CASE GoesOn(p, l, j)
  <2>1. CASE a = p
    BY <1>0, <1>1, <1>2, <1>3, <2>1 DEF OneWriter, GoesOn, RowLocked
  <2>2. CASE b = p
    BY <1>0, <1>1, <1>2, <1>3, <2>2 DEF OneWriter, GoesOn, RowLocked
  <2>3. CASE a # p /\ b # p
    BY <1>0, <1>1, <2>3 DEF OneWriter
  <2> QED
    BY <2>1, <2>2, <2>3
<1>4. CASE StartsOn(l, j)
  <2>1. \A q \in Request : pc[q] \in OnHolder /\ job[q].op = "create" => holders[job[q].holder].ver = 0
    BY <1>0 DEF HolderRead
  <2>2. CASE a = p
    BY <1>0, <1>1, <1>2, <1>4, <2>1, <2>2 DEF StartsOn
  <2>3. CASE b = p
    BY <1>0, <1>1, <1>2, <1>4, <2>1, <2>3 DEF StartsOn
  <2>4. CASE a # p /\ b # p
    BY <1>0, <1>1, <2>4 DEF OneWriter
  <2> QED
    BY <2>2, <2>3, <2>4
<1> QED
  BY <1>3, <1>4

\* A share lock is taken when nothing is pending, and nothing becomes pending under it.
LocksOn(p, l, j) ==
  /\ l \in {"keys", "commit"} =>
       (pc[p] \in {"keys", "commit"} /\ PendingOf(l, j) \subseteq Pending(p)) \/ ~Shared(p, j.found)
  /\ l \in {"refs", "delete"} => ~Unused(j.key)
  /\ l = "delete" =>
       ~Referred(j.key) /\ \A q \in Request \ {p} : j.key \notin Pending(q)

LEMMA StillUnreferred ==
  ASSUME IInv, NEW p \in Request, NEW l \in PC, NEW j \in Job, Goes(p, l, j),
         UNCHANGED <<rows, refs>>, LocksOn(p, l, j)
  PROVE  \A q \in Request : Unreferred(q)'
<1> SUFFICES ASSUME NEW q \in Request
             PROVE  /\ pc'[q] \in {"refs", "delete"} => ~Unused(job'[q].key)
                    /\ pc'[q] = "delete" =>
                         /\ ~(Referred(job[q].key)')
                         /\ \A r \in Request : job'[q].key \notin Pending(r)'
  BY DEF Unreferred, Unused
<1>0. TypeOK /\ \A r \in Request : Unreferred(r)
  BY DEF IInv
<1>1. /\ pc'[p] = l /\ job'[p] = j
      /\ \A r \in Request : r # p => pc'[r] = pc[r] /\ job'[r] = job[r]
  BY <1>0, GoesTypes
<1>2. /\ Pending(p)' = PendingOf(l, j)
      /\ \A r \in Request : r # p => Pending(r)' = Pending(r)
  BY <1>1 DEF Pending, PendingOf
<1>3. Referred(job[q].key)' = Referred(job'[q].key)
  BY DEF Referred
<1>4. CASE q = p
  <2>1. l = "delete" => PendingOf(l, j) = {}
    BY DEF PendingOf
  <2> QED
    BY <1>1, <1>2, <1>3, <1>4, <2>1 DEF LocksOn
<1>5. CASE q # p /\ pc'[q] # "delete"
  BY <1>0, <1>1, <1>5 DEF Unreferred
<1>6. CASE q # p /\ pc'[q] = "delete"
  <2>1. pc[q] = "delete" /\ job'[q].key = job[q].key
    BY <1>1, <1>6
  <2>2. ~Referred(job[q].key) /\ \A r \in Request : job[q].key \notin Pending(r)
    BY <1>0, <2>1 DEF Unreferred
  <2>3. job[q].key \notin PendingOf(l, j)
    BY <2>1, <2>2, <1>6 DEF LocksOn, PendingOf, Shared
  <2> QED
    BY <1>0, <1>1, <1>2, <1>3, <1>6, <2>1, <2>2, <2>3 DEF Unreferred
<1> QED
  BY <1>4, <1>5, <1>6

\* p begins, goes on or ends: what it knows must be true, and it must keep its place.
LEMMA QuietStep ==
  ASSUME IInv, NEW p \in Request, NEW l \in PC, NEW j \in Job, Goes(p, l, j),
         UNCHANGED <<rows, holders, refs, typeOn>>, solo' \in BOOLEAN,
         Reading(l, j), Resolving(l, j),
         GoesOn(p, l, j) \/ StartsOn(l, j), LocksOn(p, l, j)
  PROVE  IInv'
<1>0. TypeOK /\ \A q \in Request : HolderRead(q) /\ Resolved(q)
  BY DEF IInv
<1>1. /\ pc' \in [Request -> PC] /\ job' \in [Request -> Job]
      /\ pc'[p] = l /\ job'[p] = j
      /\ \A q \in Request : q # p => pc'[q] = pc[q] /\ job'[q] = job[q]
  BY <1>0, GoesTypes
<1>2. TypeOK'
  BY <1>0, <1>1 DEF TypeOK
<1>3. OneWriter' /\ \A q \in Request : Unreferred(q)'
  BY WritersApart, StillUnreferred
<1>4. RowsOK' /\ HoldersOK' /\ RefsOK'
  BY DEF IInv, RowsOK, HoldersOK, RefsOK, Unused, Live
<1>5. ASSUME NEW q \in Request PROVE HolderRead(q)' /\ Resolved(q)'
  <2>1. Reading(pc'[q], job'[q]) /\ Resolving(pc'[q], job'[q])
    <3>1. CASE q = p
      BY <1>1, <3>1
    <3>2. CASE q # p
      BY <1>0, <1>1, <3>2, SameWords
    <3> QED
      BY <3>1, <3>2
  <2>2. HolderRead(q)'
    BY <2>1 DEF HolderRead, Reading
  <2>3. Resolved(q)'
    BY <2>1 DEF Resolved, Resolving, Diff, Added, Removed, DiffOf, Unused, Live
  <2> QED
    BY <2>2, <2>3
<1> QED
  BY <1>2, <1>3, <1>4, <1>5 DEF IInv

\* A step that keeps the job.
LEMMA GotoGoes ==
  ASSUME TypeOK, NEW p \in Request, NEW l, Goto(p, l), UNCHANGED job
  PROVE  Goes(p, l, job[p]) /\ job[p] \in Job
BY DEF TypeOK, Goto, Goes

\* Whoever is not at a row of its own knows nothing that could become false.
LEMMA EndsQuietly ==
  ASSUME IInv, NEW p \in Request, Finish(p),
         UNCHANGED <<rows, holders, refs, typeOn>>, solo' \in BOOLEAN
  PROVE  IInv'
<1>1. Goes(p, "idle", NoJob) /\ NoJob \in Job /\ "idle" \in PC
  BY FinishGoes, NoJobType DEF PC
<1>2. "idle" \notin OnHolder \cup {"fields", "link", "keys", "commit", "disabled", "old", "new", "refs", "delete"}
  BY DEF OnHolder, Writing
<1>3. Reading("idle", NoJob) /\ Resolving("idle", NoJob) /\ GoesOn(p, "idle", NoJob)
        /\ LocksOn(p, "idle", NoJob)
  BY <1>2 DEF Reading, Resolving, GoesOn, LocksOn
<1> QED
  BY <1>1, <1>3, QuietStep

LEMMA BeginsOnKey ==
  ASSUME IInv, NEW p \in Request, NEW j \in Job, NEW l \in PC \ (OnHolder \cup {"delete"}), Begin(p, j, l),
         l = "refs" => ~Unused(j.key)
  PROVE  IInv'
<1>1. Goes(p, l, j) /\ l \in PC /\ solo' \in BOOLEAN /\ UNCHANGED <<rows, holders, refs, typeOn>>
  BY DEF Begin, Goto, Goes, IInv, TypeOK
<1>2. l \notin {"fields", "link", "keys", "commit", "disabled", "old", "new", "delete"}
  BY DEF OnHolder, Writing
<1>3. Reading(l, j) /\ Resolving(l, j) /\ GoesOn(p, l, j) /\ LocksOn(p, l, j)
  BY <1>2 DEF Reading, Resolving, GoesOn, LocksOn
<1> QED
  BY <1>1, <1>3, QuietStep

LEMMA BeginsOnHolder ==
  ASSUME IInv, NEW p \in Request, NEW j \in Job, Begin(p, j, "row"),
         j.op \in {"create", "edit", "delete"}, j.uses \in Configs(j.holder), j.old = {}, j.found = {},
         holders[j.holder].live => j.ver <= holders[j.holder].ver,
         IF j.op = "create"
         THEN /\ holders[j.holder].ver = 0 /\ j.ver = 0
              /\ \A q \in Request : pc[q] \in OnHolder => job[q].holder # j.holder
         ELSE holders[j.holder].live
  PROVE  IInv'
<1>1. Goes(p, "row", j) /\ "row" \in PC /\ solo' \in BOOLEAN /\ UNCHANGED <<rows, holders, refs, typeOn>>
  BY DEF Begin, Goto, Goes, IInv, TypeOK, PC, InTx
<1>2. {} \in Configs(j.holder)
  BY DEF Configs
<1>3. j.holder \in Holder /\ holders[j.holder].ver \in Nat
  BY DEF IInv, TypeOK, Job, HolderRow
<1>4. holders[j.holder].live => holders[j.holder].ver > 0
  BY <1>3 DEF IInv, HoldersOK
<1>5. "row" \notin Writing
  BY DEF Writing
<1>6. Reading("row", j)
  BY <1>2, <1>3, <1>4, <1>5 DEF Reading
<1>7. Resolving("row", j) /\ LocksOn(p, "row", j)
  BY DEF Resolving, LocksOn
<1>8. StartsOn("row", j)
  BY <1>4 DEF StartsOn
<1> QED
  BY <1>1, <1>6, <1>7, <1>8, QuietStep

\* Whoever removes or writes a row, or reads it to do so, is there for a row that
\* exists, but for a create.
LEMMA NoneOnUnused ==
  ASSUME IInv, NEW h \in Holder, holders[h].ver = 0,
         \A q \in Request : pc[q] \in Writing \cup {"row", "write"} => job[q].holder # h
  PROVE  \A q \in Request : pc[q] \in OnHolder => job[q].holder # h
<1> SUFFICES ASSUME NEW q \in Request, pc[q] = "remove", job[q].holder = h
             PROVE  FALSE
  BY DEF OnHolder
<1>1. HolderRead(q)
  BY DEF IInv
<1>2. job[q].op = "delete" /\ holders[h].ver > 0
  BY <1>1 DEF HolderRead, OnHolder
<1> QED
  BY <1>2

LEMMA StartsKeep ==
  ASSUME IInv, NEW p \in Request, StartKey(p) \/ StartHolder(p)
  PROVE  IInv'
<1>0. TypeOK /\ NoJob \in Job /\ NoJob.found = {} /\ NoJob.old = {} /\ NoJob.ver = 0 /\ NoJob.uses = {}
  BY NoJobType DEF IInv, NoJob
<1>1. CASE StartKey(p)
  <2>1. {"other", "refs", "toggle", "edit"} \subseteq PC \ (OnHolder \cup {"delete"})
    BY DEF PC, InTx, OnHolder, Writing
  <2>2. PICK k \in Key : \/ BeginCreate(p, k) \/ BeginDelete(p, k)
                         \/ \E v \in 1..MaxVersion[k[1]] : BeginToggle(p, k, v) \/ BeginEdit(p, k, v)
    BY <1>1 DEF StartKey
  <2>3. k[1] \in Table /\ MaxVersion[k[1]] \in Nat
    BY BoundAssumption DEF Key
  <2>4. CASE BeginCreate(p, k)
    <3>1. [NoJob EXCEPT !.op = "create", !.key = k] \in Job
      BY <1>0 DEF Job, Op
    <3> QED
      BY <2>1, <2>4, <3>1, BeginsOnKey DEF BeginCreate
  <2>5. CASE BeginDelete(p, k)
    <3> DEFINE j == [NoJob EXCEPT !.op = "delete", !.key = k]
    <3>1. j \in Job /\ j.key = k
      BY <1>0 DEF Job, Op
    <3>2. Begin(p, j, "refs") /\ ~Unused(k)
      BY <2>5 DEF BeginDelete, IInv, RowsOK
    <3> HIDE DEF j
    <3> QED
      BY <2>1, <3>1, <3>2, BeginsOnKey
  <2>6. ASSUME NEW v \in 1..MaxVersion[k[1]], BeginToggle(p, k, v) \/ BeginEdit(p, k, v)
        PROVE  IInv'
    <3>1. v \in Nat
      BY <2>3
    <3>2. [NoJob EXCEPT !.op = "toggle", !.key = k, !.ver = v] \in Job
            /\ [NoJob EXCEPT !.op = "edit", !.key = k, !.ver = v] \in Job
      BY <1>0, <3>1 DEF Job, Op
    <3> QED
      BY <2>1, <2>6, <3>2, BeginsOnKey DEF BeginToggle, BeginEdit
  <2> QED
    BY <2>2, <2>4, <2>5, <2>6
<1>2. CASE StartHolder(p)
  <2>1. PICK h \in Holder :
          \/ BeginDeleteHolder(p, h)
          \/ \E C \in Configs(h) :
               \/ BeginCreateHolder(p, h, C)
               \/ \E v \in 1..MaxRevision : BeginUpdateHolder(p, h, v, C)
    BY <1>2 DEF StartHolder
  <2>2. {} \in Configs(h) /\ \A C \in Configs(h) : C \in SUBSET Use
    BY ConfigNames DEF Configs
  <2>3. holders[h].ver \in Nat
    BY <1>0 DEF TypeOK, HolderRow
  <2>4. CASE BeginDeleteHolder(p, h)
    <3> DEFINE j == [NoJob EXCEPT !.op = "delete", !.holder = h]
    <3>1. j \in Job /\ j.op = "delete" /\ j.holder = h /\ j.uses = {} /\ j.old = {} /\ j.found = {} /\ j.ver = 0
      BY <1>0 DEF Job, Op
    <3>2. Begin(p, j, "row") /\ holders[h].live
      BY <2>4 DEF BeginDeleteHolder
    <3> HIDE DEF j
    <3>3. j.uses \in Configs(j.holder) /\ j.ver <= holders[j.holder].ver /\ holders[j.holder].live
      BY <2>2, <2>3, <3>1, <3>2
    <3> QED
      BY <3>1, <3>2, <3>3, BeginsOnHolder
  <2>5. ASSUME NEW C \in Configs(h), BeginCreateHolder(p, h, C)
        PROVE  IInv'
    <3> DEFINE j == [NoJob EXCEPT !.op = "create", !.holder = h, !.uses = C]
    <3>1. j \in Job /\ j.op = "create" /\ j.holder = h /\ j.uses = C /\ j.old = {} /\ j.found = {} /\ j.ver = 0
      BY <1>0, <2>2 DEF Job, Op
    <3>2. Begin(p, j, "row") /\ holders[h].ver = 0
            /\ \A q \in Request : pc[q] \in OnHolder => job[q].holder # h
      BY <2>5, NoneOnUnused DEF BeginCreateHolder
    <3> HIDE DEF j
    <3> QED
      BY <2>3, <3>1, <3>2, BeginsOnHolder
  <2>6. ASSUME NEW C \in Configs(h), NEW v \in 1..MaxRevision, BeginUpdateHolder(p, h, v, C)
        PROVE  IInv'
    <3> DEFINE j == [NoJob EXCEPT !.op = "edit", !.holder = h, !.ver = v, !.uses = C]
    <3>0. v \in Nat /\ C \in SUBSET Use
      BY <2>2, BoundAssumption
    <3>1. j \in Job /\ j.op = "edit" /\ j.holder = h /\ j.uses = C /\ j.old = {} /\ j.found = {} /\ j.ver = v
      BY <1>0, <3>0 DEF Job, Op
    <3>2. Begin(p, j, "row") /\ holders[h].live /\ v <= holders[h].ver
      BY <2>6 DEF BeginUpdateHolder
    <3> HIDE DEF j
    <3> QED
      BY <2>3, <3>1, <3>2, BeginsOnHolder
  <2> QED
    BY <2>1, <2>4, <2>5, <2>6
<1> QED
  BY <1>1, <1>2

\* p goes on with the job it has.
LEMMA MovesQuietly ==
  ASSUME IInv, NEW p \in Request, NEW l \in PC, Goto(p, l),
         UNCHANGED <<job, rows, holders, refs, typeOn>>, solo' \in BOOLEAN,
         Reading(l, job[p]), Resolving(l, job[p]),
         GoesOn(p, l, job[p]), LocksOn(p, l, job[p])
  PROVE  IInv'
BY GotoGoes, QuietStep DEF IInv

LEMMA CheckOtherKeeps ==
  ASSUME IInv, NEW p \in Request, CheckOther(p)
  PROVE  IInv'
<1>0. solo' \in BOOLEAN /\ UNCHANGED <<rows, holders, refs, typeOn>>
  BY DEF CheckOther, At, IInv, TypeOK
<1>1. CASE Finish(p)
  BY <1>0, <1>1, EndsQuietly
<1>2. CASE Goto(p, "insert") /\ UNCHANGED job
  <2>1. "insert" \in PC /\ "insert" \notin OnHolder
          /\ "insert" \notin {"fields", "link", "keys", "commit", "disabled", "old", "new", "refs", "delete"}
    BY DEF PC, OnHolder, Writing
  <2>2. Reading("insert", job[p]) /\ Resolving("insert", job[p])
          /\ GoesOn(p, "insert", job[p]) /\ LocksOn(p, "insert", job[p])
    BY <2>1 DEF Reading, Resolving, GoesOn, LocksOn
  <2> QED
    BY <1>0, <1>2, <2>1, <2>2, MovesQuietly
<1> QED
  BY <1>1, <1>2 DEF CheckOther, Check

LEMMA HasRefsTxKeeps ==
  ASSUME IInv, NEW p \in Request, HasRefsTx(p)
  PROVE  IInv'
<1>0. solo' \in BOOLEAN /\ UNCHANGED <<rows, holders, refs, typeOn>>
  BY DEF HasRefsTx, At, IInv, TypeOK
<1>1. CASE Finish(p)
  BY <1>0, <1>1, EndsQuietly
<1>2. CASE Goto(p, "delete") /\ UNCHANGED job /\ ~Referred(job[p].key)
  <2>1. "delete" \in PC /\ "delete" \notin OnHolder
    BY DEF PC, InTx, OnHolder, Writing
  <2>2. ~Unused(job[p].key) /\ \A q \in Request \ {p} : job[p].key \notin Pending(q)
    BY DEF HasRefsTx, At, CanGo, Locked, IInv, Unreferred
  <2>3. Reading("delete", job[p]) /\ Resolving("delete", job[p])
          /\ GoesOn(p, "delete", job[p]) /\ LocksOn(p, "delete", job[p])
    BY <1>2, <2>1, <2>2 DEF Reading, Resolving, GoesOn, LocksOn
  <2> QED
    BY <1>0, <1>2, <2>1, <2>3, MovesQuietly
<1> QED
  BY <1>1, <1>2 DEF HasRefsTx, Check

LEMMA ReadHolderKeeps ==
  ASSUME IInv, NEW p \in Request, ReadHolder(p)
  PROVE  IInv'
<1> DEFINE h == job[p].holder
           l == IF job[p].op = "delete" THEN "remove" ELSE "write"
           j == [job[p] EXCEPT !.old = IF job[p].op = "create" THEN {} ELSE holders[h].uses]
<1>0. /\ solo' \in BOOLEAN /\ UNCHANGED <<rows, holders, refs, typeOn>>
      /\ pc[p] = "row" /\ job[p] \in Job /\ h \in Holder
      /\ HolderRead(p) /\ Resolved(p)
  BY DEF ReadHolder, At, IInv, TypeOK, Job
<1>1. CASE Finish(p)
  BY <1>0, <1>1, EndsQuietly
<1>2. CASE ~Finish(p)
  <2>1. pc' = [pc EXCEPT ![p] = l] /\ job' = [job EXCEPT ![p] = j]
    BY <1>2 DEF ReadHolder, Goto
  <2>2. holders[h].uses \in Configs(h) /\ {} \in Configs(h) /\ holders[h].uses \in SUBSET Use
    BY <1>0, ConfigNames DEF IInv, HoldersOK, Configs
  <2>3. /\ j \in Job /\ j.op = job[p].op /\ j.holder = h /\ j.ver = job[p].ver /\ j.uses = job[p].uses
        /\ j.found = job[p].found
        /\ j.old = IF job[p].op = "create" THEN {} ELSE holders[h].uses
    BY <1>0, <2>2 DEF Job
  <2>4. l \in PC /\ l \in OnHolder /\ l \notin Writing /\ pc[p] \in OnHolder
          /\ l \in {"remove", "write"} /\ pc[p] \in OnHolder \ {"link", "keys", "commit"}
    BY <1>0 DEF PC, InTx, OnHolder, Writing
  <2>5. Reading(l, j)
    <3>1. (l = "remove") = (j.op = "delete")
      BY <2>3
    <3> HIDE DEF j, l
    <3> QED
      BY <1>0, <2>2, <2>3, <2>4, <3>1 DEF HolderRead, Reading
  <2>6. Resolving(l, j) /\ GoesOn(p, l, j) /\ LocksOn(p, l, j)
    <3> HIDE DEF j, l
    <3>1. j.found = {}
      BY <1>0, <2>3, <2>4 DEF Resolved
    <3> QED
      BY <2>3, <2>4, <3>1 DEF Resolving, GoesOn, LocksOn
  <2> QED
    BY <1>0, <2>1, <2>3, <2>4, <2>5, <2>6, QuietStep DEF Goes
<1> QED
  BY <1>1, <1>2

LEMMA WriteHolderKeeps ==
  ASSUME IInv, NEW p \in Request, WriteHolder(p)
  PROVE  IInv'
<1> DEFINE h == job[p].holder
<1>0. /\ solo' \in BOOLEAN /\ UNCHANGED <<rows, holders, refs, typeOn>>
      /\ pc[p] = "write" /\ job[p] \in Job /\ h \in Holder /\ ~RowLocked(p)
      /\ HolderRead(p) /\ Resolved(p)
  BY DEF WriteHolder, At, CanGo, Locked, IInv, TypeOK, Job
<1>1. "write" \in OnHolder \ {"link", "keys", "commit"} /\ job[p].found = {}
        /\ {"disabled", "new", "old"} \subseteq Writing \cap OnHolder \cap PC
  BY <1>0 DEF OnHolder, Writing, PC, InTx, Resolved
<1>2. CASE ~HolderMatches(p)
  BY <1>0, <1>2, EndsQuietly DEF WriteHolder
<1>3. CASE HolderMatches(p) /\ h \in Fsm
  <2> DEFINE j == [job[p] EXCEPT !.before = Extract(job[p].old, {}), !.after = Extract(job[p].uses, {})]
  <2>1. pc' = [pc EXCEPT ![p] = "disabled"] /\ job' = [job EXCEPT ![p] = j]
    BY <1>0, <1>3 DEF WriteHolder, Goto, IInv, TypeOK
  <2>2. job[p].old \in Configs(h) /\ job[p].uses \in Configs(h)
    BY <1>0, <1>1 DEF HolderRead
  <2>3. Extract(job[p].old, {}) = KeysOf(job[p].old) /\ Extract(job[p].uses, {}) = KeysOf(job[p].uses)
    BY <1>3, <2>2, FsmNames
  <2>4. KeysOf(job[p].old) \in SUBSET Name /\ KeysOf(job[p].uses) \in SUBSET Name
    BY <1>0, ConfigNames DEF Job
  <2>5. /\ j \in Job /\ j.op = job[p].op /\ j.holder = h /\ j.ver = job[p].ver
        /\ j.uses = job[p].uses /\ j.old = job[p].old /\ j.found = {}
        /\ j.before = KeysOf(j.old) /\ j.after = KeysOf(j.uses)
    BY <1>0, <1>1, <2>3, <2>4 DEF Job
  <2> HIDE DEF j
  <2>6. Reading("disabled", j)
    BY <1>0, <1>1, <1>3, <2>5 DEF HolderRead, Reading, HolderMatches
  <2>7. Resolving("disabled", j) /\ GoesOn(p, "disabled", j) /\ LocksOn(p, "disabled", j)
    BY <1>0, <1>1, <2>5 DEF Resolving, GoesOn, LocksOn
  <2> QED
    BY <1>0, <1>1, <2>1, <2>5, <2>6, <2>7, QuietStep DEF Goes
<1>4. CASE HolderMatches(p) /\ h \notin Fsm
  <2> DEFINE l == IF job[p].op = "create" THEN "new" ELSE "old"
  <2>1. Goto(p, l) /\ UNCHANGED job
    BY <1>4 DEF WriteHolder
  <2>2. h \in Tree /\ l \in {"new", "old"}
    BY <1>0, <1>4 DEF Holder
  <2> HIDE DEF l
  <2>3. Reading(l, job[p])
    BY <1>0, <1>1, <1>4, <2>2 DEF HolderRead, Reading, HolderMatches
  <2>4. Resolving(l, job[p]) /\ GoesOn(p, l, job[p]) /\ LocksOn(p, l, job[p])
    BY <1>0, <1>1, <2>2 DEF Resolving, GoesOn, LocksOn
  <2> QED
    BY <1>0, <1>1, <2>1, <2>2, <2>3, <2>4, MovesQuietly
<1> QED
  BY <1>2, <1>3, <1>4

\* Once its row is written, a request knows the same of it until the end.
LEMMA WritingKnows ==
  ASSUME IInv, NEW p \in Request, pc[p] \in Writing, NEW l \in Writing, NEW j \in Job,
         j.op = job[p].op, j.holder = job[p].holder, j.ver = job[p].ver,
         j.uses = job[p].uses, j.old = job[p].old
  PROVE  Reading(l, j) /\ GoesOn(p, l, j) /\ l \in PC
<1>1. /\ Writing \subseteq OnHolder /\ Writing \subseteq PC
      /\ \A x \in Writing : x \notin {"row", "write", "remove"}
  BY DEF OnHolder, PC, InTx, Writing
<1>2. HolderRead(p)
  BY DEF IInv
<1> QED
  BY <1>1, <1>2 DEF HolderRead, Reading, GoesOn

LEMMA ExtractsKeep ==
  ASSUME IInv, NEW p \in Request, ExtractOld(p) \/ ExtractNew(p)
  PROVE  IInv'
<1>0. /\ solo' \in BOOLEAN /\ UNCHANGED <<rows, holders, refs, typeOn>>
      /\ pc[p] \in {"old", "new"} /\ job[p] \in Job /\ Resolved(p)
  BY DEF ExtractOld, ExtractNew, At, IInv, TypeOK
<1>1. {"old", "new", "disabled"} \subseteq Writing
        /\ {"old", "new", "disabled"} \subseteq OnHolder \ {"link", "keys", "commit"}
  BY DEF Writing, OnHolder
<1>2. job[p].found = {} /\ job[p].holder \in Tree /\ job[p].holder \notin Fsm
  BY <1>0, <1>1, HolderAssumption DEF Resolved
<1>3. Extract(job[p].old, typeOn) \in SUBSET Name /\ Extract(job[p].uses, typeOn) \in SUBSET Name
  BY <1>0, ConfigNames DEF Job
<1>4. ASSUME NEW l \in {"new", "disabled"}, NEW j \in Job, Goes(p, l, j), j.found = {},
             j.op = job[p].op, j.holder = job[p].holder, j.ver = job[p].ver,
             j.uses = job[p].uses, j.old = job[p].old
      PROVE  IInv'
  <2>1. Resolving(l, j) /\ LocksOn(p, l, j)
    BY <1>1, <1>2, <1>4 DEF Resolving, LocksOn
  <2>2. Reading(l, j) /\ GoesOn(p, l, j) /\ l \in PC
    BY <1>0, <1>1, <1>4, WritingKnows
  <2> QED
    BY <1>0, <1>4, <2>1, <2>2, QuietStep
<1>5. CASE ExtractOld(p)
  <2> DEFINE j == [job[p] EXCEPT !.before = Extract(job[p].old, typeOn)]
  <2>1. Goes(p, "new", j)
    BY <1>5 DEF ExtractOld, Goto, Goes
  <2>2. /\ j \in Job /\ j.found = {} /\ j.op = job[p].op /\ j.holder = job[p].holder
        /\ j.ver = job[p].ver /\ j.uses = job[p].uses /\ j.old = job[p].old
    BY <1>0, <1>2, <1>3 DEF Job
  <2> HIDE DEF j
  <2> QED
    BY <1>4, <2>1, <2>2
<1>6. CASE ExtractNew(p)
  <2> DEFINE j == [job[p] EXCEPT !.after = Extract(job[p].uses, typeOn)]
  <2>1. Goes(p, "disabled", j)
    BY <1>6 DEF ExtractNew, Goto, Goes
  <2>2. /\ j \in Job /\ j.found = {} /\ j.op = job[p].op /\ j.holder = job[p].holder
        /\ j.ver = job[p].ver /\ j.uses = job[p].uses /\ j.old = job[p].old
    BY <1>0, <1>2, <1>3 DEF Job
  <2> HIDE DEF j
  <2> QED
    BY <1>4, <2>1, <2>2
<1> QED
  BY <1>5, <1>6

LEMMA CheckDisabledRefsKeeps ==
  ASSUME IInv, NEW p \in Request, CheckDisabledRefs(p)
  PROVE  IInv'
<1>0. /\ solo' \in BOOLEAN /\ UNCHANGED <<rows, holders, refs, typeOn>>
      /\ pc[p] = "disabled" /\ job[p] \in Job /\ Resolved(p)
  BY DEF CheckDisabledRefs, At, IInv, TypeOK
<1>1. CASE Finish(p)
  BY <1>0, <1>1, EndsQuietly
<1>2. CASE Goto(p, "fields") /\ UNCHANGED job
  <2>1. /\ "disabled" \in Writing /\ "fields" \in Writing
        /\ "disabled" \in OnHolder \ {"link", "keys", "commit"}
        /\ "fields" \in OnHolder \ {"link", "keys", "commit"}
    BY DEF Writing, OnHolder
  <2>2. Reading("fields", job[p]) /\ GoesOn(p, "fields", job[p]) /\ "fields" \in PC
    BY <1>0, <2>1, WritingKnows
  <2>3. Resolving("fields", job[p]) /\ LocksOn(p, "fields", job[p])
    BY <1>0, <2>1 DEF Resolved, Resolving, LocksOn
  <2> QED
    BY <1>0, <1>2, <2>2, <2>3, MovesQuietly
<1> QED
  BY <1>1, <1>2 DEF CheckDisabledRefs, Check

\* GetByNames finds rows of one table, of names that come or go.
LEMMA GetByNamesFinds ==
  ASSUME IInv, NEW p \in Request, NEW t \in Table
  PROVE  /\ GetByNames(p, t) \in SUBSET Key
         /\ \A k \in GetByNames(p, t) : k[1] = t /\ ~Unused(k) /\ k[2] \in Diff(p)
         /\ \A k \in Key : k[1] = t /\ k[2] \in Diff(p) /\ Live(k) => k \in GetByNames(p, t)
<1>1. job[p] \in Job
  BY DEF IInv, TypeOK
<1>2. Diff(p) \subseteq Name
  BY <1>1 DEF Job, Diff, Added, Removed
<1>3. GetByNames(p, t) \in SUBSET Key
  BY <1>2 DEF GetByNames, Key
<1>4. \A k \in GetByNames(p, t) : k[1] = t /\ Live(k) /\ k[2] \in Diff(p)
  BY DEF GetByNames
<1>5. \A k \in Key : k[1] = t /\ k[2] \in Diff(p) => k \in {t} \X Diff(p)
  BY DEF Key
<1>6. \A k \in GetByNames(p, t) : ~Unused(k)
  BY <1>3, <1>4 DEF IInv, RowsOK
<1> QED
  BY <1>3, <1>4, <1>5, <1>6 DEF GetByNames

LEMMA ResolvesKeep ==
  ASSUME IInv, NEW p \in Request, ResolveFields(p) \/ ResolveKeys(p)
  PROVE  IInv'
<1> DEFINE t == IF pc[p] = "fields" THEN "fields" ELSE "runtime_bb_keys"
           l == IF pc[p] = "fields" THEN "link" ELSE "commit"
           h == job[p].holder
           j == [job[p] EXCEPT !.found = job[p].found \cup GetByNames(p, t)]
<1>0. /\ solo' \in BOOLEAN /\ UNCHANGED <<rows, holders, refs, typeOn>>
      /\ job[p] \in Job /\ h \in Holder /\ Resolved(p) /\ refs[h] \in SUBSET Key
  BY DEF ResolveFields, ResolveKeys, Resolve, At, IInv, TypeOK, Job
<1>1. /\ pc[p] \in {"fields", "keys"} /\ t \in Table /\ l \in {"link", "commit"}
      /\ l = "link" <=> pc[p] = "fields"
      /\ l = "commit" <=> pc[p] = "keys"
      /\ t = "fields" <=> pc[p] = "fields"
      /\ t = "runtime_bb_keys" <=> pc[p] = "keys"
      /\ Goes(p, l, j)
  BY DEF ResolveFields, ResolveKeys, Resolve, At, Goto, Goes, Table
<1>2. /\ GetByNames(p, t) \in SUBSET Key
      /\ \A k \in GetByNames(p, t) : k[1] = t /\ ~Unused(k) /\ k[2] \in Diff(p)
      /\ \A k \in Key : k[1] = t /\ k[2] \in Diff(p) /\ Live(k) => k \in GetByNames(p, t)
  BY <1>1, GetByNamesFinds
<1>3. /\ j \in Job /\ j.found = job[p].found \cup GetByNames(p, t) /\ DiffOf(j) = Diff(p)
      /\ j.before = job[p].before /\ j.after = job[p].after
      /\ j.op = job[p].op /\ j.holder = h /\ j.ver = job[p].ver
      /\ j.uses = job[p].uses /\ j.old = job[p].old
  BY <1>0, <1>2 DEF Job, DiffOf, Diff, Added, Removed
<1>4. {"fields", "link", "keys", "commit"} \subseteq Writing
        /\ {"fields", "link", "keys", "commit"} \subseteq OnHolder
  BY DEF Writing, OnHolder
<1> HIDE DEF j, l, t, h
<1>5. Reading(l, j) /\ GoesOn(p, l, j) /\ l \in PC
  BY <1>1, <1>3, <1>4, WritingKnows DEF h
<1>6. Resolving(l, j)
  <2>1. l \in {"fields", "link", "keys", "commit", "disabled"} /\ h \in Fsm =>
          j.before = KeysOf(j.old) /\ j.after = KeysOf(j.uses)
    BY <1>0, <1>1, <1>3 DEF Resolved, h
  <2>2. \A k \in j.found : ~Unused(k) /\ k[2] \in DiffOf(j)
    BY <1>0, <1>1, <1>2, <1>3, <1>4 DEF Resolved
  <2>3. ASSUME NEW k \in refs[h], k[1] = "fields", k[2] \in DiffOf(j), Live(k)
        PROVE  k \in j.found
    <3>1. CASE l = "link"
      BY <1>0, <1>1, <1>2, <1>3, <2>3, <3>1
    <3>2. CASE l = "commit"
      BY <1>0, <1>1, <1>3, <2>3, <3>2 DEF Resolved, h
    <3> QED
      BY <1>1, <3>1, <3>2
  <2>4. ASSUME l = "commit", NEW k \in refs[h], k[2] \in DiffOf(j), Live(k)
        PROVE  k \in j.found
    <3>1. k[1] \in Table
      BY <1>0 DEF Key
    <3>2. CASE k[1] = "fields"
      BY <2>3, <2>4, <3>2
    <3>3. CASE k[1] = "runtime_bb_keys"
      BY <1>0, <1>1, <1>2, <1>3, <2>4, <3>3
    <3> QED
      BY <3>1, <3>2, <3>3 DEF Table
  <2>5. l \notin {"old", "new"} /\ l \notin OnHolder \ {"link", "keys", "commit"}
    BY <1>1
  <2> QED
    BY <1>3, <2>1, <2>2, <2>3, <2>4, <2>5 DEF Resolving
<1>7. LocksOn(p, l, j)
  <2>1. l = "commit" => PendingOf(l, j) \subseteq Pending(p)
    BY <1>1, <1>2, <1>3 DEF PendingOf, Pending
  <2> QED
    BY <1>1, <2>1 DEF LocksOn
<1> QED
  BY <1>0, <1>1, <1>3, <1>5, <1>6, <1>7, QuietStep

LEMMA SyncFieldRefsKeeps ==
  ASSUME IInv, NEW p \in Request, SyncFieldRefs(p)
  PROVE  IInv'
<1>0. /\ solo' \in BOOLEAN /\ UNCHANGED <<rows, holders, refs, typeOn, job>>
      /\ pc[p] = "link" /\ Goto(p, "keys") /\ job[p] \in Job /\ Resolved(p)
      /\ ~Shared(p, job[p].found)
  BY DEF SyncFieldRefs, At, CanGo, Locked, IInv, TypeOK
<1>1. {"link", "keys"} \subseteq Writing /\ {"link", "keys"} \subseteq OnHolder
  BY DEF Writing, OnHolder
<1>2. Reading("keys", job[p]) /\ GoesOn(p, "keys", job[p]) /\ "keys" \in PC
  BY <1>0, <1>1, WritingKnows
<1>3. Resolving("keys", job[p]) /\ LocksOn(p, "keys", job[p])
  BY <1>0, <1>1 DEF Resolved, Resolving, LocksOn, DiffOf, Diff, Added, Removed
<1> QED
  BY <1>0, <1>2, <1>3, MovesQuietly

LEMMA FailKeeps ==
  ASSUME IInv, NEW p \in Request, Fail(p)
  PROVE  IInv'
<1>1. Finish(p) /\ solo' \in BOOLEAN /\ UNCHANGED <<rows, holders, refs, typeOn>>
  BY DEF Fail, IInv, TypeOK
<1> QED
  BY <1>1, EndsQuietly

LEMMA ToggleTypeKeeps ==
  ASSUME IInv, NEW t \in NodeType, ToggleType(t)
  PROVE  IInv'
<1>1. TypeOK'
  BY DEF IInv, TypeOK, ToggleType
<1>2. \A q \in Request : HolderRead(q)' /\ Resolved(q)' /\ Unreferred(q)'
  BY DEF ToggleType, IInv, HolderRead, Resolved, Unreferred, Diff, Added, Removed,
         Unused, Live, Referred, Pending
<1> QED
  BY <1>1, <1>2 DEF ToggleType, IInv, RowsOK, HoldersOK, RefsOK, OneWriter, Unused, Live

-----------------------------------------------------------------------------
(* Steps that write a table *)

\* The rest of the invariant is about the others, and about tables that stay.
LEMMA EndsPlace ==
  ASSUME IInv, NEW p \in Request, Finish(p)
  PROVE  /\ pc' \in [Request -> PC] /\ job' \in [Request -> Job]
         /\ pc'[p] = "idle" /\ job'[p] = NoJob
         /\ \A q \in Request : q # p => pc'[q] = pc[q] /\ job'[q] = job[q]
         /\ OneWriter'
         /\ \A q \in Request : Pending(q)' \subseteq Pending(q)
<1>1. Goes(p, "idle", NoJob) /\ NoJob \in Job /\ "idle" \in PC
  BY FinishGoes, NoJobType DEF PC
<1>2. GoesOn(p, "idle", NoJob)
  BY DEF GoesOn, OnHolder, Writing
<1>3. /\ pc' \in [Request -> PC] /\ job' \in [Request -> Job]
      /\ pc'[p] = "idle" /\ job'[p] = NoJob
      /\ \A q \in Request : q # p => pc'[q] = pc[q] /\ job'[q] = job[q]
  BY <1>1, GoesTypes DEF IInv
<1>4. OneWriter'
  BY <1>1, <1>2, WritersApart
<1>5. \A q \in Request : Pending(q)' \subseteq Pending(q)
  BY <1>3 DEF Pending
<1> QED
  BY <1>3, <1>4, <1>5

\* A row that was there is there, and is not brought back.
LEMMA RowsChange ==
  ASSUME IInv, NEW p \in Request, Finish(p),
         UNCHANGED <<holders, refs, typeOn, solo>>,
         rows' \in [Key -> KeyRow], RowsOK',
         \A k \in Key : ~Unused(k) => ~(Unused(k)') /\ (Live(k)' => Live(k))
  PROVE  IInv'
<1>0. TypeOK /\ RefsOK /\ \A q \in Request : HolderRead(q) /\ Resolved(q) /\ Unreferred(q)
  BY DEF IInv
<1>1. /\ pc' \in [Request -> PC] /\ job' \in [Request -> Job]
      /\ pc'[p] = "idle" /\ job'[p] = NoJob
      /\ \A q \in Request : q # p => pc'[q] = pc[q] /\ job'[q] = job[q]
      /\ OneWriter'
      /\ \A q \in Request : Pending(q)' \subseteq Pending(q)
  BY EndsPlace
<1>2. TypeOK' /\ HoldersOK'
  BY <1>0, <1>1 DEF TypeOK, IInv, HoldersOK
<1>3. \A h \in Holder : \A k \in refs[h] : k \in Key /\ ~Unused(k)
  BY <1>0 DEF TypeOK, RefsOK
<1>4. RefsOK'
  BY <1>0, <1>3 DEF RefsOK
<1>5. ASSUME NEW q \in Request PROVE HolderRead(q)' /\ Resolved(q)' /\ Unreferred(q)'
  <2>1. CASE q = p
    <3>1. "idle" \notin OnHolder \cup {"fields", "link", "keys", "commit", "disabled", "old", "new", "refs", "delete"}
      BY DEF OnHolder, Writing
    <3> QED
      BY <1>1, <2>1, <3>1 DEF HolderRead, Resolved, Unreferred
  <2>2. CASE q # p
    <3>1. pc'[q] = pc[q] /\ job'[q] = job[q] /\ Diff(q)' = Diff(q)
      BY <1>1, <2>2 DEF Diff, Added, Removed
    <3>2. HolderRead(q)'
      BY <1>0, <3>1 DEF HolderRead
    <3>3. job[q].found \in SUBSET Key /\ job[q].holder \in Holder /\ job[q].key \in Key
      BY <1>0 DEF TypeOK, Job
    <3>4. Resolved(q)'
      BY <1>0, <1>3, <3>1, <3>3 DEF Resolved
    <3>5. Unreferred(q)'
      BY <1>0, <1>1, <3>1, <3>3 DEF Unreferred, Referred
    <3> QED
      BY <3>2, <3>4, <3>5
  <2> QED
    BY <2>1, <2>2
<1> QED
  BY <1>1, <1>2, <1>4, <1>5 DEF IInv

LEMMA RowStepsKeep ==
  ASSUME IInv, NEW p \in Request,
         \/ InsertKey(p) \/ EditKey(p) \/ SoftDeleteTx(p)
         \/ \E b \in BOOLEAN : ToggleKey(p, b)
  PROVE  IInv'
<1> DEFINE k == job[p].key
<1>0. /\ TypeOK /\ RowsOK /\ k \in Key /\ job[p].ver \in Nat /\ rows[k] \in KeyRow
      /\ \A x \in Key : rows[x].ver \in Nat
  BY DEF IInv, TypeOK, Job, KeyRow
<1>1. Finish(p) /\ UNCHANGED <<holders, refs, typeOn, solo>>
  BY DEF InsertKey, EditKey, SoftDeleteTx, ToggleKey, At
<1>2. ASSUME NEW r \in KeyRow, rows' = [rows EXCEPT ![k] = r], r.ver > 0,
             ~Unused(k) => (r.live => Live(k))
      PROVE  IInv'
  <2>1. rows' \in [Key -> KeyRow] /\ \A x \in Key : rows'[x] = IF x = k THEN r ELSE rows[x]
    BY <1>0, <1>2 DEF TypeOK
  <2>2. RowsOK'
    BY <1>0, <1>2, <2>1 DEF RowsOK, Unused, Live
  <2>3. \A x \in Key : ~Unused(x) => ~(Unused(x)') /\ (Live(x)' => Live(x))
    BY <1>0, <1>2, <2>1 DEF Unused, Live
  <2> QED
    BY <1>1, <2>1, <2>2, <2>3, RowsChange
<1>3. CASE UNCHANGED rows
  BY <1>1, <1>3, EndsQuietly DEF IInv, TypeOK
<1>4. CASE InsertKey(p) /\ ~UNCHANGED rows
  <2>1. [live |-> TRUE, enabled |-> FALSE, ver |-> 1] \in KeyRow
    BY DEF KeyRow
  <2> QED
    BY <1>2, <1>4, <2>1 DEF InsertKey
<1>5. CASE EditKey(p) /\ ~UNCHANGED rows
  <2>1. rows' = [rows EXCEPT ![k].ver = job[p].ver + 1] /\ Live(k)
    BY <1>5 DEF EditKey, KeyMatches
  <2> DEFINE r == [rows[k] EXCEPT !.ver = job[p].ver + 1]
  <2>2. r \in KeyRow /\ r.ver > 0 /\ rows' = [rows EXCEPT ![k] = r]
    BY <1>0, <2>1 DEF KeyRow, TypeOK
  <2> HIDE DEF r
  <2> QED
    BY <1>2, <2>1, <2>2
<1>6. CASE SoftDeleteTx(p) /\ ~UNCHANGED rows
  <2>1. DeadKeyRow \in KeyRow /\ DeadKeyRow.ver > 0 /\ ~DeadKeyRow.live
    BY DEF DeadKeyRow, KeyRow
  <2> QED
    BY <1>2, <1>6, <2>1 DEF SoftDeleteTx
<1>7. ASSUME NEW b \in BOOLEAN, ToggleKey(p, b), ~UNCHANGED rows
      PROVE  IInv'
  <2>1. [live |-> TRUE, enabled |-> b, ver |-> job[p].ver + 1] \in KeyRow /\ job[p].ver + 1 > 0
    BY <1>0 DEF KeyRow
  <2>2. Live(k) /\ rows' = [rows EXCEPT ![k] = [live |-> TRUE, enabled |-> b, ver |-> job[p].ver + 1]]
    BY <1>7 DEF ToggleKey, KeyMatches
  <2> QED
    BY <1>2, <2>1, <2>2
<1> QED
  BY <1>3, <1>4, <1>5, <1>6, <1>7

\* A machine or tree h gets the row r and the references R; whoever else is at h
\* has not written it, and finds another version.
LEMMA HolderChange ==
  ASSUME IInv, NEW p \in Request, Finish(p), UNCHANGED <<rows, typeOn, solo>>,
         NEW h \in Holder, NEW r \in HolderRow, NEW R \in SUBSET Key,
         holders' = [holders EXCEPT ![h] = r], refs' = [refs EXCEPT ![h] = R],
         r.uses \in Configs(h), r.ver > 0, ~r.live => r.uses = {} /\ R = {},
         \A k \in R : ~Unused(k) /\ (h \in Fsm /\ Live(k) => k[2] \in KeysOf(r.uses)),
         \A q \in Request \ {p} : pc[q] \in OnHolder /\ job[q].holder = h =>
           pc[q] \notin Writing /\ job[q].op # "create" /\ (r.live => job[q].ver < r.ver),
         \A k \in R \ refs[h] : ~Shared(p, {k})
  PROVE  IInv'
<1>0. TypeOK /\ RefsOK /\ HoldersOK /\ \A q \in Request : HolderRead(q) /\ Resolved(q) /\ Unreferred(q)
  BY DEF IInv
<1>1. /\ pc' \in [Request -> PC] /\ job' \in [Request -> Job]
      /\ pc'[p] = "idle" /\ job'[p] = NoJob
      /\ \A q \in Request : q # p => pc'[q] = pc[q] /\ job'[q] = job[q]
      /\ OneWriter'
      /\ \A q \in Request : Pending(q)' \subseteq Pending(q)
  BY EndsPlace
<1>2. /\ holders' \in [Holder -> HolderRow] /\ refs' \in [Holder -> SUBSET Key]
      /\ holders'[h] = r /\ refs'[h] = R
      /\ \A g \in Holder : g # h => holders'[g] = holders[g] /\ refs'[g] = refs[g]
  BY <1>0 DEF TypeOK
<1>3. TypeOK'
  BY <1>0, <1>1, <1>2 DEF TypeOK
<1>4. HoldersOK'
  <2> SUFFICES ASSUME NEW g \in Holder
               PROVE  /\ holders'[g].uses \in Configs(g)
                      /\ holders'[g].ver = 0 => ~holders'[g].live
                      /\ ~holders'[g].live => holders'[g].uses = {} /\ refs'[g] = {}
    BY DEF HoldersOK
  <2> QED
    BY <1>0, <1>2 DEF HoldersOK
<1>5. RefsOK'
  <2> SUFFICES ASSUME NEW g \in Holder, NEW k \in refs'[g]
               PROVE  ~Unused(k) /\ (g \in Fsm /\ Live(k) => k[2] \in KeysOf(holders'[g].uses))
    BY DEF RefsOK, Unused, Live
  <2> QED
    BY <1>0, <1>2 DEF RefsOK
<1>6. RowsOK'
  BY DEF IInv, RowsOK, Unused, Live
<1>7. ASSUME NEW q \in Request PROVE HolderRead(q)' /\ Resolved(q)' /\ Unreferred(q)'
  <2>1. CASE q = p
    <3>1. "idle" \notin OnHolder \cup {"fields", "link", "keys", "commit", "disabled", "old", "new", "refs", "delete"}
      BY DEF OnHolder, Writing
    <3> QED
      BY <1>1, <2>1, <3>1 DEF HolderRead, Resolved, Unreferred
  <2>2. CASE q # p
    <3>1. pc'[q] = pc[q] /\ job'[q] = job[q] /\ Diff(q)' = Diff(q)
      BY <1>1, <2>2 DEF Diff, Added, Removed
    <3>2. /\ job[q].holder \in Holder /\ job[q].ver \in Nat /\ r.ver \in Nat
          /\ {"link", "keys", "commit"} \subseteq Writing /\ Writing \subseteq OnHolder
      BY <1>0 DEF TypeOK, Job, HolderRow, Writing, OnHolder
    <3>3. HolderRead(q)'
      <4>1. CASE job[q].holder = h
        BY <1>0, <1>2, <2>2, <3>1, <3>2, <4>1 DEF HolderRead
      <4>2. CASE job[q].holder # h
        BY <1>0, <1>2, <3>1, <3>2, <4>2 DEF HolderRead
      <4> QED
        BY <4>1, <4>2
    <3>4. Resolved(q)'
      <4>1. CASE job[q].holder = h
        BY <1>0, <1>2, <2>2, <3>1, <3>2, <4>1 DEF Resolved, Unused, Live
      <4>2. CASE job[q].holder # h
        BY <1>0, <1>2, <3>1, <3>2, <4>2 DEF Resolved, Unused, Live
      <4> QED
        BY <4>1, <4>2
    <3>5. Unreferred(q)'
      <4> SUFFICES ASSUME pc[q] = "delete"
                   PROVE  /\ \A g \in Holder : job[q].key \notin refs'[g]
                          /\ \A x \in Request : job[q].key \notin Pending(x)'
        BY <1>0, <3>1 DEF Unreferred, Referred, Unused
      <4>1. /\ \A g \in Holder : job[q].key \notin refs[g]
            /\ \A x \in Request : job[q].key \notin Pending(x)
        BY <1>0 DEF Unreferred, Referred
      <4>2. job[q].key \notin R
        BY <2>2, <4>1 DEF Shared
      <4> QED
        BY <1>1, <1>2, <4>1, <4>2
    <3> QED
      BY <3>3, <3>4, <3>5
  <2> QED
    BY <2>1, <2>2
<1> QED
  BY <1>1, <1>3, <1>4, <1>5, <1>6, <1>7 DEF IInv

\* What a commit leaves: rows that were there and, for a machine, that it names.
LEMMA SyncedFollows ==
  ASSUME IInv, NEW p \in Request, pc[p] = "commit"
  PROVE  /\ Synced(p) \in SUBSET Key
         /\ \A k \in Synced(p) : ~Unused(k)
         /\ \A k \in Synced(p) \ refs[job[p].holder] : k \in job[p].found /\ k[2] \in Added(p)
         /\ \A k \in refs[job[p].holder] : k[2] \notin Removed(p) => k \in Synced(p)
         /\ job[p].holder \in Fsm =>
              /\ job[p].before = KeysOf(holders[job[p].holder].uses)
              /\ job[p].after = KeysOf(job[p].uses)
              /\ \A k \in Synced(p) : Live(k) => k[2] \in job[p].after
<1> DEFINE h == job[p].holder
<1>0. /\ job[p] \in Job /\ h \in Holder /\ refs[h] \in SUBSET Key
      /\ HolderRead(p) /\ Resolved(p) /\ RefsOK /\ HoldersOK
  BY DEF IInv, TypeOK, Job
<1>1. "commit" \in OnHolder /\ "commit" \in Writing
  BY DEF OnHolder, Writing
<1>2. \A k \in job[p].found : k \in Key /\ ~Unused(k)
  BY <1>0, <1>1 DEF Resolved, Job
<1>3. \A k \in refs[h] : k \in Key /\ ~Unused(k)
  BY <1>0 DEF RefsOK
<1>4. /\ \A k \in Synced(p) : k \in refs[h] \/ (k \in job[p].found /\ k[2] \in Added(p))
      /\ \A k \in refs[h] : k[2] \notin Removed(p) => k \in Synced(p)
      /\ \A k \in Synced(p) : k \in job[p].found => k[2] \in Added(p) \/ k[2] \notin Removed(p)
  BY DEF Synced
<1>5. ASSUME h \in Fsm
      PROVE  /\ job[p].before = KeysOf(holders[h].uses)
             /\ job[p].after = KeysOf(job[p].uses)
             /\ \A k \in Synced(p) : Live(k) => k[2] \in job[p].after
  <2>1. job[p].before = KeysOf(job[p].old) /\ job[p].after = KeysOf(job[p].uses)
    BY <1>0, <1>5 DEF Resolved
  <2>2. holders[h].uses = job[p].old
    <3>1. CASE job[p].op = "create"
      <4>1. job[p].old = {} /\ holders[h].ver = 0
        BY <1>0, <1>1, <3>1 DEF HolderRead
      <4> QED
        BY <1>0, <4>1 DEF HoldersOK
    <3>2. CASE job[p].op # "create"
      <4>1. job[p].op = "edit"
        BY <1>0, <1>1, <3>2 DEF HolderRead
      <4> QED
        BY <1>0, <1>1, <4>1 DEF HolderRead
    <3> QED
      BY <3>1, <3>2
  <2>3. ASSUME NEW k \in Synced(p), Live(k), k[2] \notin job[p].after
        PROVE  FALSE
    <3>1. k \in refs[h] /\ k[2] \notin Added(p)
      BY <1>4, <2>3 DEF Added
    <3>2. k[2] \in job[p].before
      BY <1>0, <1>5, <2>1, <2>2, <2>3, <3>1 DEF RefsOK
    <3>3. k[2] \in Removed(p) /\ k[2] \in Diff(p)
      BY <2>3, <3>2 DEF Removed, Diff
    <3>4. k \in job[p].found
      BY <1>0, <2>3, <3>1, <3>3 DEF Resolved
    <3> QED
      BY <1>4, <3>1, <3>3, <3>4
  <2> QED
    BY <2>1, <2>2, <2>3
<1>6. \A k \in Synced(p) : k \in Key /\ ~Unused(k)
  BY <1>2, <1>3, <1>4
<1>7. \A k \in Synced(p) \ refs[h] : k \in job[p].found /\ k[2] \in Added(p)
  BY <1>4
<1>8. Synced(p) \in SUBSET Key
  BY <1>6
<1> HIDE DEF h
<1> QED
  BY <1>4, <1>5, <1>6, <1>7, <1>8 DEF h

LEMMA CommitKeeps ==
  ASSUME IInv, NEW p \in Request, Commit(p)
  PROVE  IInv'
<1> DEFINE h == job[p].holder
           r == [live |-> TRUE, ver |-> job[p].ver + 1, uses |-> job[p].uses]
<1>0. /\ pc[p] = "commit" /\ Finish(p) /\ UNCHANGED <<rows, typeOn, solo>>
      /\ refs' = [refs EXCEPT ![h] = Synced(p)] /\ holders' = [holders EXCEPT ![h] = r]
      /\ ~Shared(p, job[p].found)
  BY DEF Commit, At, CanGo, Locked
<1>1. /\ job[p] \in Job /\ h \in Holder /\ job[p].ver \in Nat
      /\ OneWriter /\ HolderRead(p)
      /\ \A q \in Request : HolderRead(q) /\ job[q].ver \in Nat
      /\ holders[h].ver \in Nat
  BY DEF IInv, TypeOK, Job, HolderRow
<1>2. "commit" \in OnHolder /\ "commit" \in Writing /\ "commit" \notin {"row", "remove"}
  BY DEF OnHolder, Writing
<1>3. r \in HolderRow /\ r.uses = job[p].uses /\ r.ver > 0 /\ r.ver = job[p].ver + 1 /\ r.live
  BY <1>1 DEF HolderRow, Job
<1>4. r.uses \in Configs(h)
  BY <1>0, <1>1, <1>2, <1>3 DEF HolderRead
<1>5. /\ Synced(p) \in SUBSET Key
      /\ \A k \in Synced(p) : ~Unused(k) /\ (h \in Fsm /\ Live(k) => k[2] \in KeysOf(r.uses))
      /\ \A k \in Synced(p) \ refs[h] : k \in job[p].found
  BY <1>0, <1>3, SyncedFollows
<1>6. \A k \in Synced(p) \ refs[h] : ~Shared(p, {k})
  BY <1>0, <1>5 DEF Shared
<1>7. ASSUME NEW q \in Request \ {p}, pc[q] \in OnHolder, job[q].holder = h
      PROVE  pc[q] \notin Writing /\ job[q].op # "create" /\ job[q].ver < r.ver
  <2>1. pc[q] \notin Writing /\ job[q].op # "create" /\ job[p].op # "create"
    BY <1>0, <1>1, <1>2, <1>7 DEF OneWriter
  <2>2. job[p].op = "edit"
    BY <1>0, <1>1, <1>2, <2>1 DEF HolderRead
  <2>3. holders[h].live /\ holders[h].ver = job[p].ver
    BY <1>0, <1>1, <1>2, <2>2 DEF HolderRead
  <2>4. job[q].ver <= holders[h].ver
    BY <1>1, <1>7, <2>1, <2>3 DEF HolderRead
  <2> QED
    BY <1>1, <1>3, <2>1, <2>3, <2>4
<1>8. \A q \in Request \ {p} : pc[q] \in OnHolder /\ job[q].holder = h =>
        pc[q] \notin Writing /\ job[q].op # "create" /\ (r.live => job[q].ver < r.ver)
  BY <1>7
<1>9. r.live /\ h \in Holder
  BY <1>1, <1>3
<1> HIDE DEF r, h
<1> QED
  BY <1>0, <1>3, <1>4, <1>5, <1>6, <1>8, <1>9, HolderChange

LEMMA RemoveHolderKeeps ==
  ASSUME IInv, NEW p \in Request, RemoveHolder(p)
  PROVE  IInv'
<1> DEFINE h == job[p].holder
<1>0. /\ pc[p] = "remove" /\ Finish(p) /\ UNCHANGED <<rows, typeOn, solo>> /\ ~RowLocked(p)
      /\ h \in Holder /\ HolderRead(p) /\ OneWriter
  BY DEF RemoveHolder, At, CanGo, Locked, IInv, TypeOK, Job
<1>1. CASE ~holders[h].live
  <2>1. UNCHANGED <<rows, holders, refs, typeOn>> /\ solo' \in BOOLEAN
    BY <1>0, <1>1 DEF RemoveHolder, IInv, TypeOK
  <2> QED
    BY <1>0, <2>1, EndsQuietly
<1>2. CASE holders[h].live
  <2>1. refs' = [refs EXCEPT ![h] = {}] /\ holders' = [holders EXCEPT ![h] = DeadHolderRow]
    BY <1>2 DEF RemoveHolder
  <2>2. /\ DeadHolderRow \in HolderRow /\ DeadHolderRow.uses = {} /\ DeadHolderRow.ver > 0
        /\ ~DeadHolderRow.live /\ {} \in Configs(h) /\ {} \in SUBSET Key
    BY NoJobType DEF DeadHolderRow, Configs
  <2>3. "remove" \in OnHolder
    BY DEF OnHolder
  <2>4. ASSUME NEW q \in Request \ {p}, pc[q] \in OnHolder, job[q].holder = h
        PROVE  pc[q] \notin Writing /\ job[q].op # "create"
    BY <1>0, <2>3, <2>4 DEF OneWriter, RowLocked
  <2> DEFINE r == DeadHolderRow
             R == {}
  <2>5. /\ r \in HolderRow /\ R \in SUBSET Key /\ r.uses \in Configs(h) /\ r.ver > 0
        /\ ~r.live /\ r.uses = {} /\ R = {}
        /\ refs' = [refs EXCEPT ![h] = R] /\ holders' = [holders EXCEPT ![h] = r]
        /\ \A q \in Request \ {p} : pc[q] \in OnHolder /\ job[q].holder = h =>
             pc[q] \notin Writing /\ job[q].op # "create" /\ (r.live => job[q].ver < r.ver)
    BY <2>1, <2>2, <2>4
  <2> HIDE DEF h, r, R
  <2> QED
    BY <1>0, <2>5, HolderChange
<1> QED
  BY <1>1, <1>2

LEMMA InitKeeps == Init => IInv
<1> SUFFICES ASSUME Init PROVE IInv
  OBVIOUS
<1>1. TypeOK
  BY NoJobType DEF Init, TypeOK, PC
<1>2. "idle" \notin OnHolder \cup {"fields", "link", "keys", "commit", "disabled", "old", "new", "refs", "delete"}
  BY DEF OnHolder, Writing
<1>3. \A p \in Request : HolderRead(p) /\ Resolved(p) /\ Unreferred(p)
  BY <1>2 DEF Init, HolderRead, Resolved, Unreferred
<1>4. OneWriter
  BY <1>2 DEF Init, OneWriter
<1>5. RowsOK /\ HoldersOK /\ RefsOK
  BY DEF Init, RowsOK, HoldersOK, RefsOK, NoKeyRow, NoHolderRow, Live, Configs
<1> QED
  BY <1>1, <1>3, <1>4, <1>5 DEF IInv

LEMMA StepKeeps ==
  ASSUME IInv, Next
  PROVE  IInv'
<1>1. ASSUME NEW t \in NodeType, ToggleType(t) PROVE IInv'
  BY <1>1, ToggleTypeKeeps
<1>2. ASSUME NEW p \in Request, StartKey(p) \/ StartHolder(p) PROVE IInv'
  BY <1>2, StartsKeep
<1>3. ASSUME NEW p \in Request, KeyStep(p) PROVE IInv'
  BY <1>3, CheckOtherKeeps, HasRefsTxKeeps, RowStepsKeep DEF KeyStep
<1>4. ASSUME NEW p \in Request, HolderStep(p) PROVE IInv'
  BY <1>4, ReadHolderKeeps, WriteHolderKeeps, ExtractsKeep, CheckDisabledRefsKeeps,
     ResolvesKeep, SyncFieldRefsKeeps, CommitKeeps, RemoveHolderKeeps DEF HolderStep
<1>5. ASSUME NEW p \in Request, Fail(p) PROVE IInv'
  BY <1>5, FailKeeps
<1> QED
  BY <1>1, <1>2, <1>3, <1>4, <1>5 DEF Next, Step

LEMMA StutterKeeps ==
  ASSUME IInv, UNCHANGED vars
  PROVE  IInv'
<1>1. TypeOK'
  BY DEF vars, IInv, TypeOK
<1>2. \A q \in Request : HolderRead(q)' /\ Resolved(q)' /\ Unreferred(q)'
  BY DEF vars, IInv, HolderRead, Resolved, Unreferred, Diff, Added, Removed,
         Unused, Live, Referred, Pending
<1> QED
  BY <1>1, <1>2 DEF vars, IInv, RowsOK, HoldersOK, RefsOK, OneWriter, Unused, Live

-----------------------------------------------------------------------------
(* Theorems *)

\* In every interleaving, with failures and for any number of connections: the
\* references of a machine stay within the names of its conditions, each machine
\* and tree has one writer, and a row about to be deleted has no references
\* (HasRefsTx FOR SHARE, WHERE version of UpdateInTx).
THEOREM InvariantHolds == Spec => []IInv
<1>1. IInv /\ [Next]_vars => IInv'
  BY StepKeeps, StutterKeeps
<1> QED
  BY <1>1, InitKeeps, PTL DEF Spec

\* The tables and the requests are what the code can make of them.
THEOREM Types == Spec => []TypeOK
<1>1. IInv => TypeOK
  BY DEF IInv
<1> QED
  BY <1>1, InvariantHolds, PTL

\* A delete that has checked its references can end.
LEMMA DeletesGo ==
  ASSUME NEW p \in Request, pc[p] = "delete"
  PROVE  CanGo(p)
BY DEF CanGo, Reads, Locked

\* A writer waits for the pool, or for such a delete.
LEMMA WritersWait ==
  ASSUME NEW p \in Request, pc[p] \in Writing, ~CanGo(p)
  PROVE  (~Free /\ Reads(p)) \/ \E q \in Request : pc[q] = "delete"
BY DEF CanGo, Locked, Shared, Writing

\* Without either, nobody waits for a lock.
LEMMA OthersWait ==
  ASSUME NEW p \in Request, ~CanGo(p)
  PROVE  (~Free /\ Reads(p)) \/ \E q \in Request : pc[q] = "delete" \/ pc[q] \in Writing
<1>1. CASE Locked(p)
  BY <1>1 DEF Locked, Shared, RowLocked, Pending, Writing
<1>2. CASE ~Locked(p)
  BY <1>2 DEF CanGo
<1> QED
  BY <1>1, <1>2

\* A pool has a connection unless a transaction has it.
LEMMA TakenPool ==
  ASSUME ~Free
  PROVE  \E q \in Request : pc[q] \in InTx
<1> SUFFICES ASSUME ~ \E q \in Request : pc[q] \in InTx
             PROVE  Free
  OBVIOUS
<1>1. {p \in Request : pc[p] \in InTx} = {}
  OBVIOUS
<1> QED
  BY <1>1, FS_EmptySet, PoolAssumption DEF Free

LEMMA StuckOnly == StuckOnlyByPool
<1> SUFFICES ASSUME ~Alone, \A p \in Request : pc[p] # "idle" => ~CanGo(p)
             PROVE  ~Free /\ \E p \in Request : pc[p] \in InTx /\ Reads(p)
  BY DEF StuckOnlyByPool
<1>0. "idle" \notin InTx /\ Writing \subseteq InTx
  BY DEF InTx, Writing
<1>1. \A q \in Request : pc[q] # "delete"
  BY DeletesGo
<1>2. CASE \E q \in Request : pc[q] \in Writing
  BY <1>0, <1>1, <1>2, WritersWait
<1>3. CASE ~ \E q \in Request : pc[q] \in Writing
  <2>1. \A q \in Request : pc[q] # "idle" => ~Free /\ Reads(q)
    BY <1>1, <1>3, OthersWait
  <2>2. ~Free
    BY <2>1 DEF Alone
  <2> QED
    BY <1>0, <2>1, <2>2, TakenPool
<1> QED
  BY <1>2, <1>3

\* Row locks, share locks and the order in which transactions take them leave no
\* cycle: whatever stops every request, it is the pool of max_open_conns.
THEOREM LocksStopNobody == Spec => []StuckOnlyByPool
BY StuckOnly, PTL

\* With more connections than requests the pool stops nobody either: one that has
\* not ended can always go on.
THEOREM EnoughConnections ==
  ASSUME Cardinality(Request) < MaxOpenConns
  PROVE  Spec => [](Alone \/ \E p \in Request : pc[p] # "idle" /\ CanGo(p))
<1>1. Free
  <2> DEFINE T == {p \in Request : pc[p] \in InTx}
  <2>1. T \subseteq Request
    OBVIOUS
  <2>2. /\ Cardinality(T) \in Nat /\ Cardinality(Request) \in Nat
        /\ Cardinality(T) <= Cardinality(Request)
    BY <2>1, PoolAssumption, FS_Subset, FS_CardinalityType
  <2> QED
    BY <2>2, PoolAssumption DEF Free
<1>2. Alone \/ \E p \in Request : pc[p] # "idle" /\ CanGo(p)
  BY <1>1, StuckOnly DEF StuckOnlyByPool
<1> QED
  BY <1>2, PTL

-----------------------------------------------------------------------------
(* What BBKeyTable promises *)

-----------------------------------------------------------------------------
(* What BBKeyTable promises *)

LEMMA TableRows == KeyTable!Row = Key
BY DEF KeyTable!Row, Key

\* A step that writes no table, and what it leaves, is a stutter.
LEMMA TablesStutter ==
  ASSUME UNCHANGED <<rows, holders, refs>>
  PROVE  UNCHANGED KeyTable!vars
BY DEF KeyTable!vars, Status, Unused, Live

\* Most steps of a request write no table.
Quiet(p) ==
  \/ StartKey(p) \/ StartHolder(p) \/ Fail(p)
  \/ CheckOther(p) \/ HasRefsTx(p)
  \/ ReadHolder(p) \/ WriteHolder(p) \/ ExtractOld(p) \/ ExtractNew(p)
  \/ CheckDisabledRefs(p) \/ ResolveFields(p) \/ SyncFieldRefs(p) \/ ResolveKeys(p)

LEMMA QuietWritesNothing ==
  ASSUME NEW p \in Request, Quiet(p)
  PROVE  UNCHANGED <<rows, holders, refs>>
<1>1. CASE StartKey(p) \/ StartHolder(p)
  BY <1>1 DEF StartKey, StartHolder, BeginCreate, BeginDelete, BeginToggle, BeginEdit,
     BeginDeleteHolder, BeginCreateHolder, BeginUpdateHolder, Begin
<1>2. CASE Fail(p) \/ CheckOther(p) \/ HasRefsTx(p)
  BY <1>2 DEF Fail, CheckOther, HasRefsTx
<1>3. CASE ReadHolder(p) \/ WriteHolder(p) \/ ExtractOld(p) \/ ExtractNew(p)
  BY <1>3 DEF ReadHolder, WriteHolder, ExtractOld, ExtractNew
<1>4. CASE CheckDisabledRefs(p) \/ ResolveFields(p) \/ SyncFieldRefs(p) \/ ResolveKeys(p)
  BY <1>4 DEF CheckDisabledRefs, ResolveFields, SyncFieldRefs, ResolveKeys, Resolve
<1> QED
  BY <1>1, <1>2, <1>3, <1>4 DEF Quiet

LEMMA NextCases ==
  ASSUME [Next]_vars
  PROVE  \/ UNCHANGED <<rows, holders, refs>>
         \/ \E p \in Request :
              \/ InsertKey(p) \/ EditKey(p) \/ SoftDeleteTx(p) \/ Commit(p) \/ RemoveHolder(p)
              \/ \E b \in BOOLEAN : ToggleKey(p, b)
<1>1. ASSUME NEW t \in NodeType, ToggleType(t) PROVE UNCHANGED <<rows, holders, refs>>
  BY <1>1 DEF ToggleType
<1>2. ASSUME NEW p \in Request, Quiet(p) PROVE UNCHANGED <<rows, holders, refs>>
  BY <1>2, QuietWritesNothing
<1> QED
  BY <1>1, <1>2 DEF Next, vars, Step, KeyStep, HolderStep, Quiet

\* The row k gets another status, or the same.
LEMMA RowMaps ==
  ASSUME TypeOK, UNCHANGED <<holders, refs>>, NEW k \in Key, NEW r \in KeyRow,
         rows' = [rows EXCEPT ![k] = r],
         \/ Status(k)' = Status(k)
         \/ Unused(k) /\ r.ver > 0 /\ r.live
         \/ Live(k) /\ ~Unused(k) /\ ~Referred(k) /\ r.ver > 0 /\ ~r.live
  PROVE  [KeyTable!Next]_(KeyTable!vars)
<1> DEFINE st == [x \in Key |-> Status(x)]
<1>1. \A x \in Key : x # k => Status(x)' = Status(x)
  BY DEF TypeOK, Status, Unused, Live
<1>2. rows'[k] = r
  BY DEF TypeOK
<1>3. [f \in Fsm |-> KeysOf(holders[f].uses)]' = [f \in Fsm |-> KeysOf(holders[f].uses)]
  OBVIOUS
<1>4. CASE Status(k)' = Status(k)
  <2>1. st' = st
    BY <1>1, <1>4
  <2> QED
    BY <1>3, <2>1 DEF KeyTable!vars
<1>5. CASE Unused(k) /\ r.ver > 0 /\ r.live
  <2>1. Status(k) = "unused" /\ Status(k)' = "live"
    BY <1>2, <1>5 DEF Status, Unused, Live
  <2>2. st' = [st EXCEPT ![k] = "live"] /\ st[k] = "unused"
    BY <1>1, <2>1
  <2>3. KeyTable!Insert(k)
    BY <1>3, <2>2 DEF KeyTable!Insert
  <2> QED
    BY <2>3, TableRows DEF KeyTable!Next
<1>6. CASE Live(k) /\ ~Unused(k) /\ ~Referred(k) /\ r.ver > 0 /\ ~r.live
  <2>1. Status(k) = "live" /\ Status(k)' = "deleted"
    BY <1>2, <1>6 DEF Status, Unused, Live
  <2>2. st' = [st EXCEPT ![k] = "deleted"] /\ st[k] = "live"
    BY <1>1, <2>1
  <2>3. KeyTable!Remove(k)
    BY <1>3, <1>6, <2>2 DEF KeyTable!Remove, Referred, Holder
  <2> QED
    BY <2>3, TableRows DEF KeyTable!Next
<1> QED
  BY <1>4, <1>5, <1>6

LEMMA RowStepMaps ==
  ASSUME IInv, NEW p \in Request, NEW k \in Key, k = job[p].key,
         \/ InsertKey(p) \/ EditKey(p) \/ SoftDeleteTx(p)
         \/ \E b \in BOOLEAN : ToggleKey(p, b)
  PROVE  [KeyTable!Next]_(KeyTable!vars)
<1>0. /\ TypeOK /\ k \in Key /\ job[p].ver \in Nat /\ rows[k] \in KeyRow /\ rows[k].ver \in Nat
      /\ Live(k) => ~Unused(k)
      /\ UNCHANGED <<holders, refs>>
  BY DEF IInv, TypeOK, Job, KeyRow, RowsOK, InsertKey, EditKey, SoftDeleteTx, ToggleKey
<1>1. CASE UNCHANGED rows
  BY <1>0, <1>1, TablesStutter
<1>2. CASE InsertKey(p) /\ ~UNCHANGED rows
  <2>1. [live |-> TRUE, enabled |-> FALSE, ver |-> 1] \in KeyRow
    BY DEF KeyRow
  <2> QED
    BY <1>0, <1>2, <2>1, RowMaps DEF InsertKey
<1>3. CASE EditKey(p) /\ ~UNCHANGED rows
  <2> DEFINE r == [rows[k] EXCEPT !.ver = job[p].ver + 1]
  <2>1. r \in KeyRow /\ r.ver > 0 /\ r.live = Live(k) /\ rows' = [rows EXCEPT ![k] = r] /\ Live(k)
    BY <1>0, <1>3 DEF EditKey, KeyMatches, KeyRow, TypeOK, Live
  <2>2. Status(k)' = Status(k)
    BY <1>0, <2>1 DEF Status, Unused, Live, TypeOK
  <2> HIDE DEF r
  <2> QED
    BY <1>0, <2>1, <2>2, RowMaps
<1>4. ASSUME NEW b \in BOOLEAN, ToggleKey(p, b), ~UNCHANGED rows
      PROVE  [KeyTable!Next]_(KeyTable!vars)
  <2> DEFINE r == [live |-> TRUE, enabled |-> b, ver |-> job[p].ver + 1]
  <2>1. r \in KeyRow /\ r.ver > 0 /\ r.live /\ rows' = [rows EXCEPT ![k] = r] /\ Live(k)
    BY <1>0, <1>4 DEF ToggleKey, KeyMatches, KeyRow
  <2>2. Status(k)' = Status(k)
    BY <1>0, <2>1 DEF Status, Unused, Live, TypeOK
  <2> HIDE DEF r
  <2> QED
    BY <1>0, <2>1, <2>2, RowMaps
<1>5. CASE SoftDeleteTx(p) /\ ~UNCHANGED rows
  <2>1. pc[p] = "delete" /\ rows' = [rows EXCEPT ![k] = DeadKeyRow]
    BY <1>5 DEF SoftDeleteTx, At
  <2>2. ~Unused(k) /\ ~Referred(k)
    BY <2>1 DEF IInv, Unreferred
  <2>3. DeadKeyRow \in KeyRow /\ DeadKeyRow.ver > 0 /\ ~DeadKeyRow.live
    BY DEF DeadKeyRow, KeyRow
  <2>4. Live(k) \/ Status(k)' = Status(k)
    BY <1>0, <2>1, <2>2, <2>3 DEF Status, Unused, Live, TypeOK
  <2> QED
    BY <1>0, <2>1, <2>2, <2>3, <2>4, RowMaps
<1> QED
  BY <1>1, <1>2, <1>3, <1>4, <1>5

LEMMA CommitMaps ==
  ASSUME IInv, NEW p \in Request, Commit(p), NEW h \in Holder, h = job[p].holder
  PROVE  [KeyTable!Next]_(KeyTable!vars)
<1> DEFINE N == KeysOf(job[p].uses)
           R == Synced(p)
<1>0. /\ TypeOK /\ pc[p] = "commit" /\ UNCHANGED rows /\ job[p] \in Job
      /\ refs' = [refs EXCEPT ![h] = R]
      /\ holders' = [holders EXCEPT ![h] = [live |-> TRUE, ver |-> job[p].ver + 1, uses |-> job[p].uses]]
  BY DEF Commit, At, IInv, TypeOK
<1>1. /\ R \in SUBSET Key
      /\ \A k \in R : ~Unused(k)
      /\ \A k \in R \ refs[h] : k[2] \in Added(p)
      /\ \A k \in refs[h] : k[2] \notin Removed(p) => k \in R
      /\ h \in Fsm => /\ job[p].before = KeysOf(holders[h].uses)
                      /\ job[p].after = N
                      /\ \A k \in R : Live(k) => k[2] \in N
  BY <1>0, SyncedFollows
<1>2. N \in SUBSET Name
  BY <1>0, ConfigNames DEF Job
<1>3. [k \in Key |-> Status(k)]' = [k \in Key |-> Status(k)]
  BY <1>0 DEF Status, Unused, Live
<1>4. /\ holders'[h].uses = job[p].uses
      /\ \A f \in Fsm : f # h => holders'[f] = holders[f]
  BY <1>0 DEF TypeOK, Holder
<1>5. \A k \in R : [x \in Key |-> Status(x)][k] = Status(k)
  BY <1>1
<1>6. CASE h \in Fsm
  <2> HIDE DEF N, R
  <2>1. [f \in Fsm |-> KeysOf(holders[f].uses)]' =
          [[f \in Fsm |-> KeysOf(holders[f].uses)] EXCEPT ![h] = N]
    BY <1>4, <1>6 DEF N
  <2>2. [f \in Fsm |-> KeysOf(holders[f].uses)][h] = job[p].before
    BY <1>1, <1>6
  <2>3. \A k \in refs[h] : k[2] \in N => k \in R
    BY <1>1, <1>6 DEF Removed
  <2>4. \A k \in R : [x \in Key |-> Status(x)][k] = "live" => k[2] \in N
    BY <1>1, <1>5, <1>6 DEF Status
  <2>5. \A k \in R \ refs[h] :
          /\ [x \in Key |-> Status(x)][k] # "unused"
          /\ k[2] \in N \ [f \in Fsm |-> KeysOf(holders[f].uses)][h]
    BY <1>1, <1>5, <1>6, <2>2 DEF Status, Added
  <2>6. KeyTable!Rewrite(h, N, R)
    BY <1>0, <1>3, <2>1, <2>3, <2>4, <2>5 DEF KeyTable!Rewrite
  <2> QED
    BY <1>1, <1>2, <1>6, <2>6, TableRows DEF KeyTable!Next
<1>7. CASE h \in Tree
  <2> HIDE DEF N, R
  <2>1. h \notin Fsm
    BY <1>7, HolderAssumption
  <2>2. [f \in Fsm |-> KeysOf(holders[f].uses)]' = [f \in Fsm |-> KeysOf(holders[f].uses)]
    BY <1>4, <2>1
  <2>3. \A k \in R \ refs[h] : [x \in Key |-> Status(x)][k] # "unused"
    BY <1>1, <1>5 DEF Status
  <2>4. KeyTable!RewriteTree(h, R)
    BY <1>0, <1>3, <2>2, <2>3 DEF KeyTable!RewriteTree
  <2> QED
    BY <1>1, <1>7, <2>4, TableRows DEF KeyTable!Next
<1> QED
  BY <1>6, <1>7 DEF Holder

LEMMA RemoveMaps ==
  ASSUME IInv, NEW p \in Request, RemoveHolder(p), NEW h \in Holder, h = job[p].holder
  PROVE  [KeyTable!Next]_(KeyTable!vars)
<1>1. CASE UNCHANGED <<holders, refs>>
  BY <1>1, TablesStutter DEF RemoveHolder
<1>2. CASE ~UNCHANGED <<holders, refs>>
  <2>1. /\ UNCHANGED rows /\ refs' = [refs EXCEPT ![h] = {}]
        /\ holders' = [holders EXCEPT ![h] = DeadHolderRow]
    BY <1>2 DEF RemoveHolder
  <2>2. KeysOf(DeadHolderRow.uses) = {}
    BY DEF KeysOf, DeadHolderRow
  <2>3. /\ holders'[h] = DeadHolderRow
        /\ \A f \in Fsm : f # h => holders'[f] = holders[f]
    BY <2>1 DEF IInv, TypeOK, Holder
  <2>4. [k \in Key |-> Status(k)]' = [k \in Key |-> Status(k)]
    BY <2>1 DEF Status, Unused, Live
  <2>5. \A f \in Fsm : KeysOf(holders'[f].uses) = IF f = h THEN {} ELSE KeysOf(holders[f].uses)
    BY <2>2, <2>3
  <2>6. [f \in Fsm |-> KeysOf(holders[f].uses)]' =
          [f \in Fsm |-> IF f = h THEN {} ELSE [g \in Fsm |-> KeysOf(holders[g].uses)][f]]
    BY <2>5
  <2>7. KeyTable!Release(h)
    BY <2>1, <2>4, <2>6 DEF KeyTable!Release
  <2> QED
    BY <2>7 DEF KeyTable!Next, Holder
<1> QED
  BY <1>1, <1>2

LEMMA StepMaps ==
  ASSUME IInv, [Next]_vars
  PROVE  [KeyTable!Next]_(KeyTable!vars)
<1>1. \A p \in Request : job[p].key \in Key /\ job[p].holder \in Holder
  BY DEF IInv, TypeOK, Job
<1>2. CASE UNCHANGED <<rows, holders, refs>>
  BY <1>2, TablesStutter
<1>3. ASSUME NEW p \in Request, Commit(p) \/ RemoveHolder(p)
      PROVE  [KeyTable!Next]_(KeyTable!vars)
  BY <1>1, <1>3, CommitMaps, RemoveMaps
<1>4. ASSUME NEW p \in Request,
             \/ InsertKey(p) \/ EditKey(p) \/ SoftDeleteTx(p)
             \/ \E b \in BOOLEAN : ToggleKey(p, b)
      PROVE  [KeyTable!Next]_(KeyTable!vars)
  BY <1>1, <1>4, RowStepMaps
<1> QED
  BY <1>2, <1>3, <1>4, NextCases

LEMMA InitMaps ==
  ASSUME Init
  PROVE  KeyTable!Init
<1>1. [k \in Key |-> Status(k)] = [k \in Key |-> "unused"]
  BY DEF Init, Status, Unused, NoKeyRow
<1>2. KeysOf({}) = {}
  BY DEF KeysOf
<1>3. \A f \in Fsm : holders[f].uses = {}
  BY DEF Init, Holder, NoHolderRow
<1>4. [f \in Fsm |-> KeysOf(holders[f].uses)] = [f \in Fsm |-> {}]
  BY <1>2, <1>3
<1>5. refs = [h \in Fsm \cup Tree |-> {}]
  BY DEF Init, Holder
<1> QED
  BY <1>1, <1>4, <1>5, TableRows DEF KeyTable!Init

\* The requests do what BBKeyTable promises: no delete takes a row with references
\* (HasRefsTx FOR SHARE), and the references of a machine follow the names in its
\* conditions (SyncFsmBBKeyRefs, syncRefs).
THEOREM KeyTableImplemented == Spec => ImplementsTable
<1>1. Init => KeyTable!Init
  BY InitMaps
<1>2. IInv /\ [Next]_vars => [KeyTable!Next]_(KeyTable!vars)
  BY StepMaps
<1> QED
  BY <1>1, <1>2, InvariantHolds, PTL DEF Spec, ImplementsTable, KeyTable!Spec

-----------------------------------------------------------------------------
(* Requests that never overlap *)

\* p alone goes on with the job j, and what it has found is there.
LEMMA SoloStep ==
  ASSUME IInv, SoloInv, solo', NEW p \in Request, NEW l \in PC, NEW j \in Job, Goes(p, l, j),
         solo, \A q \in Request : q # p => pc[q] = "idle",
         NamesDisjoint', RefsLive',
         l = "insert" => ~rows'[Other(j.key)].live,
         l \in OnHolder => \A k \in j.found : Live(k)'
  PROVE  SoloInv'
<1>1. /\ pc'[p] = l /\ job'[p] = j
      /\ \A q \in Request : q # p => pc'[q] = "idle" /\ job'[q] = job[q]
  BY GoesTypes DEF IInv
<1>2. "idle" \notin OnHolder
  BY DEF OnHolder, Writing
<1>3. \A q \in Request : pc'[q] = "insert" => FreeInOther(q)'
  BY <1>1 DEF FreeInOther, Live
<1> QED
  BY <1>1, <1>2, <1>3 DEF SoloInv

\* One that ends alone leaves the tables as they should be.
LEMMA SoloEnd ==
  ASSUME IInv, SoloInv, solo', solo, NEW p \in Request, Finish(p),
         \A q \in Request : q # p => pc[q] = "idle",
         NamesDisjoint', RefsLive'
  PROVE  SoloInv'
<1>1. Goes(p, "idle", NoJob) /\ NoJob \in Job /\ "idle" \in PC /\ "idle" \notin OnHolder
  BY FinishGoes, NoJobType DEF PC, OnHolder, Writing
<1> QED
  BY <1>1, SoloStep

\* A step that writes no table leaves the two facts about them.
LEMMA SoloTables ==
  ASSUME SoloInv, solo, UNCHANGED <<rows, refs>>
  PROVE  NamesDisjoint' /\ RefsLive' /\ \A k : Live(k)' = Live(k)
BY DEF SoloInv, NamesDisjoint, RefsLive, Live

LEMMA SoloBegins ==
  ASSUME IInv, SoloInv, solo', NEW p \in Request, NEW j, NEW l \in {"other", "refs", "toggle", "edit", "row"},
         Begin(p, j, l), j.found = {}
  PROVE  SoloInv'
<1>1. solo /\ Alone /\ UNCHANGED <<rows, refs>>
  BY DEF Begin
<1>2. /\ pc'[p] = l /\ job'[p] = j
      /\ \A q \in Request : q # p => pc'[q] = "idle"
  BY <1>1 DEF Begin, Goto, IInv, TypeOK, Alone
<1>3. NamesDisjoint' /\ RefsLive'
  BY <1>1, SoloTables
<1>4. "idle" \notin OnHolder
  BY DEF OnHolder, Writing
<1> QED
  BY <1>2, <1>3, <1>4 DEF SoloInv

LEMMA SoloStarts ==
  ASSUME IInv, SoloInv, solo', NEW p \in Request, StartKey(p) \/ StartHolder(p)
  PROVE  SoloInv'
<1>0. NoJob.found = {}
  BY DEF NoJob
<1>1. CASE StartKey(p)
  <2>1. PICK k \in Key : \/ BeginCreate(p, k) \/ BeginDelete(p, k)
                         \/ \E v \in 1..MaxVersion[k[1]] : BeginToggle(p, k, v) \/ BeginEdit(p, k, v)
    BY <1>1 DEF StartKey
  <2>2. CASE BeginCreate(p, k)
    <3> DEFINE j == [NoJob EXCEPT !.op = "create", !.key = k]
    <3>1. j.found = {} /\ Begin(p, j, "other")
      BY <1>0, <2>2 DEF BeginCreate, NoJob
    <3> HIDE DEF j
    <3> QED
      BY <3>1, SoloBegins
  <2>3. CASE BeginDelete(p, k)
    <3> DEFINE j == [NoJob EXCEPT !.op = "delete", !.key = k]
    <3>1. j.found = {} /\ Begin(p, j, "refs")
      BY <1>0, <2>3 DEF BeginDelete, NoJob
    <3> HIDE DEF j
    <3> QED
      BY <3>1, SoloBegins
  <2>4. ASSUME NEW v \in 1..MaxVersion[k[1]], BeginToggle(p, k, v) PROVE SoloInv'
    <3> DEFINE j == [NoJob EXCEPT !.op = "toggle", !.key = k, !.ver = v]
    <3>1. j.found = {} /\ Begin(p, j, "toggle")
      BY <1>0, <2>4 DEF BeginToggle, NoJob
    <3> HIDE DEF j
    <3> QED
      BY <3>1, SoloBegins
  <2>5. ASSUME NEW v \in 1..MaxVersion[k[1]], BeginEdit(p, k, v) PROVE SoloInv'
    <3> DEFINE j == [NoJob EXCEPT !.op = "edit", !.key = k, !.ver = v]
    <3>1. j.found = {} /\ Begin(p, j, "edit")
      BY <1>0, <2>5 DEF BeginEdit, NoJob
    <3> HIDE DEF j
    <3> QED
      BY <3>1, SoloBegins
  <2> QED
    BY <2>1, <2>2, <2>3, <2>4, <2>5
<1>2. CASE StartHolder(p)
  <2>1. PICK h \in Holder :
          \/ BeginDeleteHolder(p, h)
          \/ \E C \in Configs(h) :
               \/ BeginCreateHolder(p, h, C)
               \/ \E v \in 1..MaxRevision : BeginUpdateHolder(p, h, v, C)
    BY <1>2 DEF StartHolder
  <2>2. CASE BeginDeleteHolder(p, h)
    <3> DEFINE j == [NoJob EXCEPT !.op = "delete", !.holder = h]
    <3>1. j.found = {} /\ Begin(p, j, "row")
      BY <1>0, <2>2 DEF BeginDeleteHolder, NoJob
    <3> HIDE DEF j
    <3> QED
      BY <3>1, SoloBegins
  <2>3. ASSUME NEW C \in Configs(h), BeginCreateHolder(p, h, C) PROVE SoloInv'
    <3> DEFINE j == [NoJob EXCEPT !.op = "create", !.holder = h, !.uses = C]
    <3>1. j.found = {} /\ Begin(p, j, "row")
      BY <1>0, <2>3 DEF BeginCreateHolder, NoJob
    <3> HIDE DEF j
    <3> QED
      BY <3>1, SoloBegins
  <2>4. ASSUME NEW C \in Configs(h), NEW v \in 1..MaxRevision, BeginUpdateHolder(p, h, v, C)
        PROVE  SoloInv'
    <3> DEFINE j == [NoJob EXCEPT !.op = "edit", !.holder = h, !.ver = v, !.uses = C]
    <3>1. j.found = {} /\ Begin(p, j, "row")
      BY <1>0, <2>4 DEF BeginUpdateHolder, NoJob
    <3> HIDE DEF j
    <3> QED
      BY <3>1, SoloBegins
  <2> QED
    BY <2>1, <2>2, <2>3, <2>4
<1> QED
  BY <1>1, <1>2

\* The steps of requests, with nobody beside them.
Only(p) == solo /\ solo' /\ \A q \in Request : q # p => pc[q] = "idle"

LEMMA StepsOnly ==
  ASSUME SoloInv, solo', NEW p \in Request, Step(p) \/ Fail(p)
  PROVE  Only(p)
<1>1. pc[p] # "idle"
  BY DEF Step, KeyStep, HolderStep, Fail, CheckOther, InsertKey, EditKey, ToggleKey, HasRefsTx,
     SoftDeleteTx, ReadHolder, WriteHolder, ExtractOld, ExtractNew, CheckDisabledRefs,
     ResolveFields, ResolveKeys, Resolve, SyncFieldRefs, Commit, RemoveHolder, At
<1>2. UNCHANGED solo
  BY DEF Step, KeyStep, HolderStep, Fail, CheckOther, InsertKey, EditKey, ToggleKey, HasRefsTx,
     SoftDeleteTx, ReadHolder, WriteHolder, ExtractOld, ExtractNew, CheckDisabledRefs,
     ResolveFields, ResolveKeys, Resolve, SyncFieldRefs, Commit, RemoveHolder, At
<1> QED
  BY <1>1, <1>2 DEF SoloInv, Only

LEMMA SoloKeySteps ==
  ASSUME IInv, SoloInv, NEW p \in Request, Only(p), KeyStep(p), NEW k \in Key, k = job[p].key
  PROVE  SoloInv'
<1>0. solo /\ solo' /\ TypeOK /\ RowsOK /\ rows[k] \in KeyRow /\ NamesDisjoint /\ RefsLive
  BY DEF Only, SoloInv, IInv, TypeOK
<1>1. CASE Finish(p) /\ UNCHANGED <<rows, refs>>
  BY <1>0, <1>1, SoloTables, SoloEnd DEF Only
<1>2. CASE CheckOther(p) /\ Goto(p, "insert") /\ UNCHANGED job /\ FreeInOther(p)
  <2>1. "insert" \in PC /\ "insert" \notin OnHolder
    BY DEF PC, OnHolder, Writing
  <2>2. UNCHANGED <<rows, refs>>
    BY <1>2 DEF CheckOther
  <2>3. ~rows'[Other(job[p].key)].live
    BY <1>2, <2>2 DEF FreeInOther, Live
  <2> QED
    BY <1>0, <1>2, <2>1, <2>2, <2>3, GotoGoes, SoloTables, SoloStep DEF Only
<1>3. CASE HasRefsTx(p) /\ Goto(p, "delete") /\ UNCHANGED job
  <2>1. "delete" \in PC /\ "delete" \notin OnHolder
    BY DEF PC, InTx, OnHolder, Writing
  <2>2. UNCHANGED <<rows, refs>>
    BY <1>3 DEF HasRefsTx
  <2> QED
    BY <1>0, <1>3, <2>1, <2>2, GotoGoes, SoloTables, SoloStep DEF Only
<1>4. CASE InsertKey(p) /\ ~UNCHANGED rows
  <2>1. /\ Finish(p) /\ UNCHANGED refs /\ Unused(k) /\ ~Live(Other(k))
        /\ \A x \in Key : x # k => rows'[x] = rows[x]
        /\ rows'[k].live
    BY <1>0, <1>4 DEF InsertKey, At, SoloInv, FreeInOther, TypeOK
  <2>2. RefsLive'
    <3>1. \A h \in Holder : \A x \in refs[h] : x \in Key
      BY <1>0 DEF TypeOK
    <3> QED
      BY <1>0, <2>1, <3>1 DEF RefsLive, Live
  <2>3. NamesDisjoint'
    <3> SUFFICES ASSUME NEW n \in Name, rows'[<<"fields", n>>].live, rows'[<<"runtime_bb_keys", n>>].live
                 PROVE  FALSE
      BY DEF NamesDisjoint, Live
    <3>1. <<"fields", n>> \in Key /\ <<"runtime_bb_keys", n>> \in Key
      BY DEF Key, Table
    <3>2. CASE k = <<"fields", n>>
      BY <2>1, <3>1, <3>2 DEF Other, Live
    <3>3. CASE k = <<"runtime_bb_keys", n>>
      BY <2>1, <3>1, <3>3 DEF Other, Live
    <3> QED
      BY <1>0, <2>1, <3>1, <3>2, <3>3 DEF NamesDisjoint, Live
  <2> QED
    BY <1>0, <2>1, <2>2, <2>3, SoloEnd DEF Only
<1>5. CASE (EditKey(p) \/ \E b \in BOOLEAN : ToggleKey(p, b)) /\ ~UNCHANGED rows
  <2>1. Finish(p) /\ UNCHANGED refs
    BY <1>5 DEF EditKey, ToggleKey
  <2>2. \A x \in Key : rows'[x].live = rows[x].live
    <3>1. CASE EditKey(p)
      <4>1. rows' = [rows EXCEPT ![k].ver = job[p].ver + 1]
        BY <1>5, <3>1 DEF EditKey
      <4> QED
        BY <1>0, <4>1 DEF TypeOK, KeyRow
    <3>2. ASSUME NEW b \in BOOLEAN, ToggleKey(p, b)
          PROVE  \A x \in Key : rows'[x].live = rows[x].live
      <4>1. rows[k].live /\ rows' = [rows EXCEPT ![k] = [live |-> TRUE, enabled |-> b, ver |-> job[p].ver + 1]]
        BY <1>5, <3>2 DEF ToggleKey, KeyMatches, Live
      <4>2. rows[k].live = TRUE
        BY <1>0, <4>1 DEF KeyRow
      <4> QED
        BY <1>0, <4>1, <4>2 DEF TypeOK
    <3> QED
      BY <1>5, <3>1, <3>2
  <2>3. /\ \A h \in Holder : \A x \in refs[h] : x \in Key
        /\ \A n \in Name : <<"fields", n>> \in Key /\ <<"runtime_bb_keys", n>> \in Key
    BY <1>0 DEF TypeOK, Key, Table
  <2>4. RefsLive' /\ NamesDisjoint'
    BY <1>0, <2>1, <2>2, <2>3 DEF RefsLive, NamesDisjoint, Live
  <2> QED
    BY <1>0, <2>1, <2>4, SoloEnd DEF Only
<1>6. CASE SoftDeleteTx(p)
  <2>1. /\ Finish(p) /\ UNCHANGED refs /\ rows' = [rows EXCEPT ![k] = DeadKeyRow] /\ ~Referred(k)
    BY <1>6 DEF SoftDeleteTx, At, IInv, Unreferred
  <2>2. \A x \in Key : x # k => rows'[x] = rows[x]
    BY <1>0, <2>1 DEF TypeOK
  <2>3. \A x \in Key : rows'[x].live => rows[x].live
    BY <1>0, <2>1, <2>2 DEF TypeOK, DeadKeyRow
  <2>4. /\ \A h \in Holder : \A x \in refs[h] : x \in Key /\ x # k
        /\ \A n \in Name : <<"fields", n>> \in Key /\ <<"runtime_bb_keys", n>> \in Key
    BY <1>0, <2>1 DEF TypeOK, Key, Table, Referred
  <2>5. RefsLive' /\ NamesDisjoint'
    BY <1>0, <2>1, <2>2, <2>3, <2>4 DEF RefsLive, NamesDisjoint, Live
  <2> QED
    BY <1>0, <2>1, <2>5, SoloEnd DEF Only
<1>7. \/ Finish(p) /\ UNCHANGED <<rows, refs>>
      \/ CheckOther(p) /\ Goto(p, "insert") /\ UNCHANGED job /\ FreeInOther(p)
      \/ HasRefsTx(p) /\ Goto(p, "delete") /\ UNCHANGED job
      \/ InsertKey(p) /\ ~UNCHANGED rows
      \/ (EditKey(p) \/ \E b \in BOOLEAN : ToggleKey(p, b)) /\ ~UNCHANGED rows
      \/ SoftDeleteTx(p)
  BY DEF KeyStep, CheckOther, HasRefsTx, Check, InsertKey, EditKey, ToggleKey
<1> QED
  BY <1>1, <1>2, <1>3, <1>4, <1>5, <1>6, <1>7

\* Of the steps on a machine or tree, those that write no table find rows that are there.
LEMMA QuietFinds ==
  ASSUME IInv, NEW p \in Request, HolderStep(p), ~Commit(p), ~RemoveHolder(p)
  PROVE  /\ UNCHANGED <<rows, refs>>
         /\ \E l \in PC \ {"insert"}, j \in Job :
              /\ Goes(p, l, j)
              /\ \A k \in j.found : k \in job[p].found \/ Live(k)
<1>0. TypeOK /\ job[p] \in Job /\ IInv'
  BY FailKeeps, ReadHolderKeeps, WriteHolderKeeps, ExtractsKeep, CheckDisabledRefsKeeps,
     ResolvesKeep, SyncFieldRefsKeeps DEF IInv, TypeOK, HolderStep
<1>1. /\ pc'[p] \in PC /\ job'[p] \in Job /\ UNCHANGED <<rows, refs>>
  BY <1>0 DEF IInv, TypeOK, HolderStep, ReadHolder, WriteHolder, ExtractOld, ExtractNew,
     CheckDisabledRefs, ResolveFields, ResolveKeys, Resolve, SyncFieldRefs
<1>2. CASE Finish(p)
  <2>1. Goes(p, "idle", NoJob) /\ NoJob \in Job /\ "idle" \in PC \ {"insert"} /\ NoJob.found = {}
    BY <1>2, FinishGoes, NoJobType DEF PC
  <2> QED
    BY <1>1, <2>1
<1>3. CASE ~Finish(p)
  <2>1. CASE ReadHolder(p) \/ WriteHolder(p) \/ ExtractOld(p) \/ ExtractNew(p)
    <3>1. Goes(p, pc'[p], job'[p]) /\ pc'[p] # "insert"
      BY <1>0, <1>3, <2>1 DEF ReadHolder, WriteHolder, ExtractOld, ExtractNew, Goto, Goes, TypeOK
    <3>2. job'[p].found = job[p].found
      BY <1>0, <1>3, <2>1 DEF ReadHolder, WriteHolder, ExtractOld, ExtractNew, TypeOK, Job
    <3> QED
      BY <1>1, <3>1, <3>2
  <2>2. CASE CheckDisabledRefs(p) \/ SyncFieldRefs(p)
    <3>1. UNCHANGED job /\ (Goto(p, "fields") \/ Goto(p, "keys"))
      BY <1>3, <2>2 DEF CheckDisabledRefs, Check, SyncFieldRefs
    <3>2. {"fields", "keys"} \subseteq PC \ {"insert"}
      BY DEF PC, InTx, Writing
    <3> QED
      BY <1>0, <1>1, <3>1, <3>2, GotoGoes
  <2>3. CASE ResolveFields(p) \/ ResolveKeys(p)
    <3>1. PICK t \in Table, l \in {"link", "commit"} :
            /\ job' = [job EXCEPT ![p].found = job[p].found \cup GetByNames(p, t)]
            /\ Goto(p, l)
      BY <2>3 DEF ResolveFields, ResolveKeys, Resolve, Table
    <3>2. l \in PC \ {"insert"}
      BY DEF PC, InTx, Writing
    <3>3. Goes(p, l, job'[p]) /\ job'[p].found = job[p].found \cup GetByNames(p, t)
      BY <1>0, <3>1 DEF Goto, Goes, TypeOK, Job
    <3>4. \A k \in GetByNames(p, t) : Live(k)
      BY DEF GetByNames
    <3> QED
      BY <1>1, <3>2, <3>3, <3>4
  <2> QED
    BY <2>1, <2>2, <2>3 DEF HolderStep
<1> QED
  BY <1>2, <1>3

LEMMA SoloHolderSteps ==
  ASSUME IInv, SoloInv, NEW p \in Request, Only(p), HolderStep(p), NEW h \in Holder, h = job[p].holder
  PROVE  SoloInv'
<1>0. /\ solo /\ solo' /\ TypeOK /\ NamesDisjoint /\ RefsLive
      /\ pc[p] \in OnHolder => \A k \in job[p].found : Live(k)
  BY DEF Only, SoloInv, IInv, TypeOK
<1>1. CASE ~Commit(p) /\ ~RemoveHolder(p)
  <2>1. PICK l \in PC \ {"insert"}, j \in Job :
          /\ Goes(p, l, j)
          /\ \A k \in j.found : k \in job[p].found \/ Live(k)
    BY <1>1, QuietFinds
  <2>2. UNCHANGED <<rows, refs>>
    BY <1>1, QuietFinds
  <2>3. pc[p] \in OnHolder
    BY DEF HolderStep, ReadHolder, WriteHolder, ExtractOld, ExtractNew, CheckDisabledRefs,
       ResolveFields, ResolveKeys, Resolve, SyncFieldRefs, Commit, RemoveHolder, At, OnHolder, Writing
  <2>4. NamesDisjoint' /\ RefsLive' /\ \A k : Live(k)' = Live(k)
    BY <1>0, <2>2, SoloTables
  <2>5. \A k \in j.found : Live(k)'
    BY <1>0, <2>1, <2>3, <2>4
  <2> QED
    BY <1>0, <2>1, <2>4, <2>5, SoloStep DEF Only
<1>2. CASE Commit(p)
  <2>1. pc[p] = "commit" /\ Finish(p) /\ UNCHANGED rows /\ refs' = [refs EXCEPT ![h] = Synced(p)]
    BY <1>2 DEF Commit, At
  <2>2. \A k \in Synced(p) : k \in refs[h] \/ k \in job[p].found
    BY <2>1, SyncedFollows
  <2>3. \A k \in Synced(p) : Live(k)
    BY <1>0, <2>1, <2>2 DEF RefsLive, OnHolder, Writing
  <2>4. NamesDisjoint' /\ RefsLive'
    BY <1>0, <2>1, <2>3 DEF NamesDisjoint, RefsLive, Live, TypeOK
  <2> QED
    BY <1>0, <2>1, <2>4, SoloEnd DEF Only
<1>3. CASE RemoveHolder(p)
  <2>1. Finish(p) /\ UNCHANGED rows /\ (UNCHANGED refs \/ refs' = [refs EXCEPT ![h] = {}])
    BY <1>3 DEF RemoveHolder
  <2>2. NamesDisjoint' /\ RefsLive'
    BY <1>0, <2>1 DEF NamesDisjoint, RefsLive, Live, TypeOK
  <2> QED
    BY <1>0, <2>1, <2>2, SoloEnd DEF Only
<1> QED
  BY <1>1, <1>2, <1>3

LEMMA SoloNext ==
  ASSUME IInv, SoloInv, [Next]_vars
  PROVE  SoloInv'
<1> SUFFICES ASSUME solo' PROVE SoloInv'
  BY DEF SoloInv
<1>0. \A p \in Request : job[p].key \in Key /\ job[p].holder \in Holder
  BY DEF IInv, TypeOK, Job
<1>1. ASSUME NEW p \in Request, StartKey(p) \/ StartHolder(p) PROVE SoloInv'
  BY <1>1, SoloStarts
<1>2. ASSUME NEW p \in Request, Step(p) PROVE SoloInv'
  BY <1>0, <1>2, StepsOnly, SoloKeySteps, SoloHolderSteps DEF Step
<1>3. ASSUME NEW p \in Request, Fail(p) PROVE SoloInv'
  <2>1. Only(p) /\ Finish(p) /\ UNCHANGED <<rows, refs>>
    BY <1>3, StepsOnly DEF Fail
  <2> QED
    BY <2>1, SoloTables, SoloEnd DEF Only
<1>4. ASSUME NEW t \in NodeType, ToggleType(t) PROVE SoloInv'
  <2>1. solo /\ Alone /\ UNCHANGED <<rows, refs, pc, job>>
    BY <1>4 DEF ToggleType
  <2>2. "idle" \notin OnHolder
    BY DEF OnHolder, Writing
  <2> QED
    BY <2>1, <2>2, SoloTables DEF SoloInv, Alone
<1>5. CASE UNCHANGED vars
  BY <1>5 DEF vars, SoloInv, NamesDisjoint, RefsLive, Live, FreeInOther
<1> QED
  BY <1>1, <1>2, <1>3, <1>4, <1>5 DEF Next

\* Of requests that never overlapped: no name belongs to both tables, and no
\* reference is to a deleted row.  Only their overlapping breaks either (the plain
\* reads of FieldService.Create, RuntimeBbKeyService.Create and the syncs).
THEOREM SoloHolds == Spec => []SoloIntegrity
<1>1. Init => SoloInv
  BY DEF Init, SoloInv, NamesDisjoint, RefsLive, Live, NoKeyRow, Key, Table, OnHolder, Writing
<1>2. IInv /\ SoloInv /\ [Next]_vars => SoloInv'
  BY SoloNext
<1>3. SoloInv => SoloIntegrity
  BY DEF SoloInv, SoloIntegrity
<1> QED
  BY <1>1, <1>2, <1>3, InvariantHolds, PTL DEF Spec
-----------------------------------------------------------------------------
(* What a write brings, of requests that never overlapped *)

\* SoloKnows, of one request.
Knows(p) ==
  /\ pc[p] \in {"row", "write"} => job[p].before = {}
  /\ pc[p] \in Writing \ {"old"} => job[p].before = Extract(job[p].old, typeOn)
  /\ pc[p] \in Writing \ {"old", "new"} => job[p].after = Extract(job[p].uses, typeOn)
  /\ pc[p] \in {"fields", "link", "keys", "commit"} => NoneDisabled(p)
  /\ pc[p] \in {"link", "keys", "commit"} => GetByNames(p, "fields") \subseteq job[p].found
  /\ pc[p] = "commit" => GetByNames(p, "runtime_bb_keys") \subseteq job[p].found

LEMMA KnowsParts ==
  /\ SoloKnows <=> (solo => \A p \in Request : Knows(p))
  /\ SoloKnows' <=> (solo' => \A p \in Request : Knows(p)')
BY DEF SoloKnows, Knows

\* Whoever is idle knows nothing.
LEMMA KnowsIdle ==
  ASSUME NEW p \in Request, pc'[p] \in {"idle", "old", "remove"}
  PROVE  Knows(p)'
BY DEF Knows, Writing

\* The node types that are enabled do not matter to a machine.
LEMMA FsmNamesOn ==
  ASSUME NEW f \in Fsm, NEW C \in Configs(f), NEW on
  PROVE  Extract(C, {}) = Extract(C, on)
<1>1. \A u \in C : u[1] = Cond
  BY DEF Configs
<1>2. {u \in C : u[1] \in {} \cup {Cond}} = {u \in C : u[1] \in on \cup {Cond}}
  BY <1>1
<1> QED
  BY <1>2 DEF Extract

\* The names that come and go, and their rows, as long as the job has the same.
LEMMA SameNames ==
  ASSUME NEW p \in Request, UNCHANGED rows,
         job'[p].before = job[p].before, job'[p].after = job[p].after
  PROVE  /\ NoneDisabled(p)' <=> NoneDisabled(p)
         /\ \A t : GetByNames(p, t)' = GetByNames(p, t)
<1>1. Added(p)' = Added(p) /\ Diff(p)' = Diff(p)
  BY DEF Added, Removed, Diff
<1> QED
  BY <1>1 DEF NoneDisabled, GetByNames, Live

\* The row is read, and the names are taken from the two configurations.
LEMMA KnowsNames ==
  ASSUME IInv, NEW p \in Request, Knows(p), ~Finish(p),
         ReadHolder(p) \/ WriteHolder(p) \/ ExtractOld(p) \/ ExtractNew(p)
  PROVE  Knows(p)'
<1>0. /\ job[p] \in Job /\ HolderRead(p) /\ UNCHANGED typeOn
      /\ pc \in [Request -> PC] /\ job \in [Request -> Job]
  BY DEF IInv, TypeOK, ReadHolder, WriteHolder, ExtractOld, ExtractNew, At
<1>1. CASE ReadHolder(p)
  <2>1. pc[p] = "row" /\ pc'[p] \in {"remove", "write"} /\ job'[p].before = job[p].before
    BY <1>0, <1>1 DEF ReadHolder, At, Goto, Job
  <2> QED
    BY <2>1 DEF Knows, Writing
<1>2. CASE WriteHolder(p) /\ job[p].holder \in Fsm
  <2>1. /\ pc[p] = "write" /\ pc'[p] = "disabled"
        /\ job'[p] = [job[p] EXCEPT !.before = Extract(job[p].old, {}),
                                    !.after = Extract(job[p].uses, {})]
    BY <1>0, <1>2 DEF WriteHolder, At, Goto
  <2>2. /\ job'[p].old = job[p].old /\ job'[p].uses = job[p].uses
        /\ job'[p].before = Extract(job[p].old, {})
        /\ job'[p].after = Extract(job[p].uses, {})
    BY <1>0, <2>1 DEF Job
  <2>3. job[p].old \in Configs(job[p].holder) /\ job[p].uses \in Configs(job[p].holder)
    BY <1>0, <2>1 DEF HolderRead, OnHolder
  <2>4. /\ Extract(job[p].old, {}) = Extract(job[p].old, typeOn)
        /\ Extract(job[p].uses, {}) = Extract(job[p].uses, typeOn)
    BY <1>2, <2>3, FsmNamesOn
  <2> QED
    BY <1>0, <2>1, <2>2, <2>4 DEF Knows
<1>3. CASE WriteHolder(p) /\ job[p].holder \notin Fsm
  <2>1. /\ pc[p] = "write" /\ UNCHANGED job
        /\ pc'[p] = IF job[p].op = "create" THEN "new" ELSE "old"
    BY <1>0, <1>3 DEF WriteHolder, At, Goto
  <2>2. CASE job[p].op = "create"
    <3>1. job[p].old = {} /\ job[p].before = {}
      BY <1>0, <2>1, <2>2 DEF HolderRead, OnHolder, Knows
    <3>2. Extract(job[p].old, typeOn) = {}
      BY <3>1 DEF Extract, KeysOf
    <3> QED
      BY <1>0, <2>1, <2>2, <3>1, <3>2 DEF Knows
  <2>3. CASE job[p].op # "create"
    BY <2>1, <2>3, KnowsIdle
  <2> QED
    BY <2>2, <2>3
<1>4. CASE ExtractOld(p)
  <2>1. /\ pc'[p] = "new"
        /\ job'[p] = [job[p] EXCEPT !.before = Extract(job[p].old, typeOn)]
    BY <1>0, <1>4 DEF ExtractOld, Goto
  <2>2. job'[p].old = job[p].old /\ job'[p].before = Extract(job[p].old, typeOn)
    BY <1>0, <2>1 DEF Job
  <2> QED
    BY <1>0, <2>1, <2>2 DEF Knows
<1>5. CASE ExtractNew(p)
  <2>1. /\ pc[p] = "new" /\ pc'[p] = "disabled"
        /\ job'[p] = [job[p] EXCEPT !.after = Extract(job[p].uses, typeOn)]
    BY <1>0, <1>5 DEF ExtractNew, At, Goto
  <2>2. /\ job'[p].old = job[p].old /\ job'[p].uses = job[p].uses
        /\ job'[p].before = job[p].before
        /\ job'[p].after = Extract(job[p].uses, typeOn)
    BY <1>0, <2>1 DEF Job
  <2>3. job[p].before = Extract(job[p].old, typeOn)
    BY <2>1 DEF Knows, Writing
  <2> QED
    BY <1>0, <2>1, <2>2, <2>3 DEF Knows
<1> QED
  BY <1>1, <1>2, <1>3, <1>4, <1>5

\* The keys are judged and looked up.
LEMMA KnowsRows ==
  ASSUME IInv, NEW p \in Request, Knows(p), ~Finish(p),
         CheckDisabledRefs(p) \/ ResolveFields(p) \/ SyncFieldRefs(p) \/ ResolveKeys(p)
  PROVE  Knows(p)'
<1>0. /\ job[p] \in Job /\ UNCHANGED <<typeOn, rows>>
      /\ pc \in [Request -> PC] /\ job \in [Request -> Job]
  BY DEF IInv, TypeOK, CheckDisabledRefs, ResolveFields, SyncFieldRefs, ResolveKeys,
         Resolve, At
<1>1. /\ pc[p] \in Writing \ {"old", "new", "commit"}
      /\ pc'[p] \in {"fields", "link", "keys", "commit"}
      /\ pc'[p] # "fields" => pc[p] # "disabled"
      /\ pc'[p] = "fields" => NoneDisabled(p)
  BY <1>0 DEF CheckDisabledRefs, Check, ResolveFields, SyncFieldRefs, ResolveKeys, Resolve,
              At, Goto, Writing
<1>2. /\ job'[p].old = job[p].old /\ job'[p].uses = job[p].uses
      /\ job'[p].before = job[p].before /\ job'[p].after = job[p].after
      /\ job[p].found \subseteq job'[p].found
  BY <1>0 DEF CheckDisabledRefs, Check, ResolveFields, SyncFieldRefs, ResolveKeys, Resolve, Job
<1>3. /\ NoneDisabled(p)' <=> NoneDisabled(p)
      /\ \A t : GetByNames(p, t)' = GetByNames(p, t)
  BY <1>0, <1>2, SameNames
<1>4. /\ pc'[p] = "link" => GetByNames(p, "fields") \subseteq job'[p].found
      /\ pc'[p] \in {"keys", "commit"} => pc[p] \in {"link", "keys"}
      /\ pc'[p] = "commit" => GetByNames(p, "runtime_bb_keys") \subseteq job'[p].found
  <2>1. CASE CheckDisabledRefs(p) \/ SyncFieldRefs(p)
    BY <1>0, <2>1 DEF CheckDisabledRefs, Check, SyncFieldRefs, At, Goto
  <2>2. CASE ResolveFields(p)
    BY <1>0, <2>2 DEF ResolveFields, Resolve, At, Goto, Job
  <2>3. CASE ResolveKeys(p)
    BY <1>0, <2>3 DEF ResolveKeys, Resolve, At, Goto, Job
  <2> QED
    BY <2>1, <2>2, <2>3
<1>5. /\ job[p].before = Extract(job[p].old, typeOn)
      /\ job[p].after = Extract(job[p].uses, typeOn)
      /\ pc[p] # "disabled" => NoneDisabled(p)
      /\ pc[p] \in {"link", "keys"} => GetByNames(p, "fields") \subseteq job[p].found
  BY <1>1 DEF Knows, Writing
<1>6. /\ job'[p].before = Extract(job'[p].old, typeOn')
      /\ job'[p].after = Extract(job'[p].uses, typeOn')
      /\ NoneDisabled(p)'
  BY <1>0, <1>1, <1>2, <1>3, <1>5
<1>7. pc'[p] \in {"link", "keys", "commit"} => GetByNames(p, "fields")' \subseteq job'[p].found
  BY <1>2, <1>3, <1>4, <1>5
<1>8. pc'[p] = "commit" => GetByNames(p, "runtime_bb_keys")' \subseteq job'[p].found
  BY <1>3, <1>4
<1> QED
  BY <1>1, <1>6, <1>7, <1>8 DEF Knows

\* A request begins with no names.
LEMMA KnowsStarts ==
  ASSUME IInv, NEW p \in Request, StartKey(p) \/ StartHolder(p)
  PROVE  /\ Knows(p)' /\ (solo' => Alone)
         /\ \A q \in Request : q # p => pc'[q] = pc[q]
<1>1. /\ pc'[p] \in {"other", "refs", "toggle", "edit", "row"}
      /\ pc'[p] = "row" => job'[p].before = {}
      /\ solo' => Alone
      /\ \A q \in Request : q # p => pc'[q] = pc[q]
  <2>0. pc \in [Request -> PC] /\ job \in [Request -> Job]
    BY DEF IInv, TypeOK
  <2>1. CASE StartKey(p)
    BY <2>0, <2>1 DEF StartKey, BeginCreate, BeginDelete, BeginToggle, BeginEdit, Begin, Goto
  <2>2. CASE StartHolder(p)
    <3>1. PICK g \in Holder :
            \/ BeginDeleteHolder(p, g)
            \/ \E C \in Configs(g) :
                 \/ BeginCreateHolder(p, g, C)
                 \/ \E v \in 1..MaxRevision : BeginUpdateHolder(p, g, v, C)
      BY <2>2 DEF StartHolder
    <3>2. PICK j : Begin(p, j, "row") /\ j.before = {}
      <4>1. NoJob.before = {}
        BY DEF NoJob
      <4>2. \A h, op, C, v :
              /\ [NoJob EXCEPT !.op = op, !.holder = h].before = {}
              /\ [NoJob EXCEPT !.op = op, !.holder = h, !.uses = C].before = {}
              /\ [NoJob EXCEPT !.op = op, !.holder = h, !.ver = v, !.uses = C].before = {}
        BY <4>1 DEF NoJob
      <4> QED
        BY <3>1, <4>2 DEF BeginDeleteHolder, BeginCreateHolder, BeginUpdateHolder
    <3> QED
      BY <2>0, <3>2 DEF Begin, Goto
  <2> QED
    BY <2>1, <2>2
<1> QED
  BY <1>1 DEF Knows, Writing

LEMMA KnowsNext ==
  ASSUME IInv, SoloInv, SoloKnows, [Next]_vars
  PROVE  SoloKnows'
<1> SUFFICES ASSUME solo', NEW q \in Request PROVE Knows(q)'
  BY KnowsParts
<1>0. pc \in [Request -> PC] /\ job \in [Request -> Job]
  BY DEF IInv, TypeOK
<1>1. ASSUME NEW p \in Request, StartKey(p) \/ StartHolder(p) PROVE Knows(q)'
  BY <1>1, KnowsStarts, KnowsIdle DEF Alone
<1>2. ASSUME NEW p \in Request, Step(p) \/ Fail(p) PROVE Knows(q)'
  <2>1. Only(p) /\ Knows(p)
    BY <1>2, StepsOnly, KnowsParts DEF Only
  <2>2. CASE Finish(p)
    BY <1>0, <2>1, <2>2, KnowsIdle DEF Finish, Goto, Only
  <2>3. CASE ~Finish(p)
    <3>1. \A r \in Request : r # p => pc'[r] = pc[r]
      BY <1>0, <1>2, <2>3 DEF Step, KeyStep, HolderStep, Fail, CheckOther, InsertKey, EditKey,
         ToggleKey, HasRefsTx, Check, SoftDeleteTx, ReadHolder, WriteHolder, ExtractOld,
         ExtractNew, CheckDisabledRefs, ResolveFields, ResolveKeys, Resolve, SyncFieldRefs,
         Commit, RemoveHolder, Goto
    <3>2. CASE q # p
      BY <2>1, <3>1, <3>2, KnowsIdle DEF Only
    <3>3. CASE q = p /\ KeyStep(p)
      <4>1. pc'[p] \in {"insert", "delete"}
        BY <1>0, <2>3, <3>3 DEF KeyStep, CheckOther, InsertKey, EditKey, ToggleKey, HasRefsTx,
           Check, SoftDeleteTx, Goto
      <4> QED
        BY <3>3, <4>1 DEF Knows, Writing
    <3>4. CASE q = p /\ HolderStep(p)
      BY <2>1, <2>3, <3>4, KnowsNames, KnowsRows DEF HolderStep, Commit, RemoveHolder
    <3> QED
      BY <1>2, <2>3, <3>2, <3>3, <3>4 DEF Step, Fail
  <2> QED
    BY <2>2, <2>3
<1>3. ASSUME NEW t \in NodeType, ToggleType(t) PROVE Knows(q)'
  BY <1>3, KnowsIdle DEF ToggleType, Alone
<1>4. CASE UNCHANGED vars
  <2>1. Knows(q) /\ UNCHANGED <<typeOn, rows, pc, job>>
    BY <1>4, KnowsParts DEF vars
  <2>2. /\ NoneDisabled(q)' <=> NoneDisabled(q)
        /\ \A t : GetByNames(q, t)' = GetByNames(q, t)
    BY <2>1, SameNames
  <2> QED
    BY <2>1, <2>2 DEF Knows
<1> QED
  BY <1>1, <1>2, <1>3, <1>4 DEF Next

\* The transaction of a request that was alone brings what its configuration names.
LEMMA CommitAttaches ==
  ASSUME IInv, SoloInv, SoloKnows, solo, NEW p \in Request, Commit(p),
         NEW h \in Holder, h = job[p].holder
  PROVE  /\ \A k \in refs'[h] \ refs[h] : k[1] = "fields" \/ rows[k].enabled
         /\ \A k \in Key : Live(k) /\ k[2] \in Named(h)' \ Named(h) => k \in refs'[h]
         /\ \A k \in refs[h] : k[2] \in Named(h)' => k \in refs'[h]
<1>0. /\ pc[p] = "commit" /\ UNCHANGED typeOn
      /\ refs'[h] = Synced(p) /\ holders'[h].uses = job[p].uses
      /\ job[p] \in Job /\ HolderRead(p) /\ Resolved(p) /\ HoldersOK
  BY DEF IInv, TypeOK, Commit, At
<1>1. "commit" \in OnHolder /\ "commit" \in Writing
  BY DEF OnHolder, Writing
<1>2. /\ job[p].before = Extract(job[p].old, typeOn)
      /\ job[p].after = Extract(job[p].uses, typeOn)
      /\ NoneDisabled(p)
      /\ GetByNames(p, "fields") \subseteq job[p].found
      /\ GetByNames(p, "runtime_bb_keys") \subseteq job[p].found
  BY <1>0, <1>1 DEF SoloKnows
<1>3. holders[h].uses = job[p].old
  <2>1. CASE job[p].op = "create"
    BY <1>0, <1>1, <2>1 DEF HolderRead, HoldersOK
  <2>2. CASE job[p].op # "create"
    <3>1. job[p].op = "edit"
      BY <1>0, <1>1, <2>2 DEF HolderRead
    <3> QED
      BY <1>0, <1>1, <3>1 DEF HolderRead
  <2> QED
    BY <2>1, <2>2
<1>4. Named(h) = job[p].before /\ Named(h)' = job[p].after
  BY <1>0, <1>2, <1>3 DEF Named
<1>5. ASSUME NEW k \in Synced(p) \ refs[h]
      PROVE  k[1] = "fields" \/ rows[k].enabled
  <2>1. k \in job[p].found /\ k[2] \in Added(p)
    BY <1>0, <1>5, SyncedFollows
  <2>2. Live(k) /\ k \in Key
    BY <1>0, <1>1, <2>1 DEF SoloInv, Job
  <2>3. CASE k[1] = "runtime_bb_keys"
    <3>1. k = <<"runtime_bb_keys", k[2]>>
      BY <2>2, <2>3 DEF Key
    <3> QED
      BY <1>2, <2>1, <2>2, <3>1 DEF NoneDisabled
  <2> QED
    BY <2>2, <2>3 DEF Key, Table
<1>6. ASSUME NEW k \in Key, Live(k), k[2] \in Named(h)' \ Named(h)
      PROVE  k \in Synced(p)
  <2>1. k[2] \in Added(p) /\ k[2] \in Diff(p)
    BY <1>4, <1>6 DEF Added, Diff
  <2>2. k \in {k[1]} \X Diff(p) /\ k[1] \in {"fields", "runtime_bb_keys"}
    BY <2>1 DEF Key, Table
  <2>3. k \in job[p].found
    BY <1>2, <1>6, <2>2 DEF GetByNames
  <2> QED
    BY <2>1, <2>3 DEF Synced
<1>7. ASSUME NEW k \in refs[h], k[2] \in Named(h)'
      PROVE  k \in Synced(p)
  <2>1. k[2] \notin Removed(p)
    BY <1>4, <1>7 DEF Removed
  <2> QED
    BY <1>0, <2>1, SyncedFollows
<1> QED
  BY <1>0, <1>5, <1>6, <1>7

\* Of requests that never overlapped: a write of a machine or a tree brings
\* references to fields and enabled runtime keys only, to every row that a new name
\* has, and takes none of a name that stays.
THEOREM AttachesAlone == Spec => SoloAttaches
<1> DEFINE Attaches ==
      solo' => \A h \in Holder : holders'[h].live /\ holders'[h].ver # holders[h].ver =>
        /\ \A k \in refs'[h] \ refs[h] : k[1] = "fields" \/ rows[k].enabled
        /\ \A k \in Key : Live(k) /\ k[2] \in Named(h)' \ Named(h) => k \in refs'[h]
        /\ \A k \in refs[h] : k[2] \in Named(h)' => k \in refs'[h]
<1>1. IInv /\ SoloInv /\ SoloKnows /\ [Next]_vars => [Attaches]_vars
  <2> SUFFICES ASSUME IInv, SoloInv, SoloKnows, [Next]_vars, solo', NEW h \in Holder,
                      holders'[h].live, holders'[h].ver # holders[h].ver
               PROVE  /\ \A k \in refs'[h] \ refs[h] : k[1] = "fields" \/ rows[k].enabled
                      /\ \A k \in Key : Live(k) /\ k[2] \in Named(h)' \ Named(h) => k \in refs'[h]
                      /\ \A k \in refs[h] : k[2] \in Named(h)' => k \in refs'[h]
    OBVIOUS
  <2>1. PICK p \in Request : Commit(p) \/ RemoveHolder(p)
    BY NextCases DEF InsertKey, EditKey, SoftDeleteTx, ToggleKey
  <2>2. solo /\ job[p].holder \in Holder /\ holders \in [Holder -> HolderRow]
    BY <2>1 DEF Commit, RemoveHolder, At, IInv, TypeOK, Job
  <2>3. ~RemoveHolder(p)
    BY <2>2 DEF RemoveHolder, DeadHolderRow
  <2>4. h = job[p].holder
    BY <2>1, <2>2, <2>3 DEF Commit
  <2> QED
    BY <2>1, <2>2, <2>3, <2>4, CommitAttaches
<1>2. Init => SoloInv /\ SoloKnows
  BY DEF Init, SoloInv, SoloKnows, NamesDisjoint, RefsLive, Live, NoKeyRow, Key, Table,
         OnHolder, Writing
<1>3. IInv /\ SoloInv /\ SoloKnows /\ [Next]_vars => SoloInv' /\ SoloKnows'
  BY SoloNext, KnowsNext
<1>4. Spec => [][Attaches]_vars
  BY <1>1, <1>2, <1>3, InvariantHolds, PTL DEF Spec
<1> QED
  BY <1>4 DEF SoloAttaches
=============================================================================
