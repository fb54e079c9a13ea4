------------------------ MODULE SchemaRegistryProofs ------------------------
(***************************************************************************)
(* Proofs about SchemaRegistry for every value of the constants.  A step   *)
(* is summed up by what it does to the place of each request (Moves) and   *)
(* to each table (SchemasGrow, EventsGrow, RefsKept, KeysKept); the        *)
(* invariant follows from these alone (Preserved).                         *)
(***************************************************************************)
EXTENDS SchemaRegistry, ConstraintCheckProofs

-----------------------------------------------------------------------------
(* What a step does to a request *)

Stays(p) == pc'[p] = pc[p] /\ job'[p] = job[p]

Finishes(p) == pc'[p] = "idle" /\ job'[p] = NoJob

\* A schema has been written, or the table has been read for the cache.
Reloads(p) ==
  /\ pc'[p] \in {"reload", "install"}
  /\ job'[p].op \notin {"createEvent", "updateEvent"}
  /\ \A s \in Schema : job'[p].copy[s] # Absent => schemas'[s].ver > 0

BeginsSchema(p) ==
  /\ pc'[p] = "refs" /\ job'[p].op \in {"update", "delete"}
  /\ job'[p].copy = NoMemory
  /\ job'[p].op = "update" => LET row == schemas'[job'[p].schema] IN
                              job'[p].ver = row.ver /\ job'[p].old = row.c

LocksRefs(p) == /\ pc[p] = "refs" /\ pc'[p] = "write" /\ job'[p] = job[p]
                /\ ~Refused(p) /\ refs' = refs

BeginsEvent(p) ==
  /\ pc'[p] = "validate" /\ job'[p].copy = NoMemory
  /\ job'[p].todo = Keys(job'[p].ext)
  /\ LET row == events'[job'[p].event] IN
     \/ /\ job'[p].op = "updateEvent"
        /\ job'[p].ver = row.ver /\ job'[p].oldExt = row.ext
     \/ /\ job'[p].op = "createEvent"
        /\ row.ver = 0 /\ job'[p].ver = 0 /\ job'[p].oldExt = NoExtensions
        /\ \A q \in Request : job[q].op = "createEvent" => job[q].event # job'[p].event

\* One key has been found in the memory cache.
Validates(p) ==
  /\ pc[p] = "validate" /\ pc'[p] = "validate"
  /\ \E s \in Schema : /\ memory[s] # Absent
                       /\ job'[p] = [job[p] EXCEPT !.todo = job[p].todo \ {s}]

LooksUp(p) ==
  /\ pc[p] = "validate" /\ job[p].todo = {} /\ pc'[p] = "commit"
  /\ \E T \in SUBSET Schema :
       /\ job'[p] = [job[p] EXCEPT !.todo = T]
       /\ \A s \in Keys(job[p].ext) \ Keys(job[p].oldExt) : schemas'[s].live => s \in T

BeginsRemoval(p) ==
  pc'[p] = "remove" /\ job'[p].op = "deleteEvent" /\ job'[p].copy = NoMemory

Moves(p) == \/ Finishes(p) \/ Reloads(p) \/ BeginsSchema(p) \/ LocksRefs(p)
            \/ BeginsEvent(p) \/ Validates(p) \/ LooksUp(p) \/ BeginsRemoval(p)

\* At most one request moves, unless all of them end.
Steps ==
  /\ \A p \in Request : Stays(p) \/ Moves(p)
  /\ \A p, q \in Request : BeginsEvent(p) /\ ~Stays(p) /\ q # p => Stays(q)

-----------------------------------------------------------------------------
(* What a step does to the tables *)

SchemasGrow ==
  \A s \in Schema :
    /\ schemas[s].ver <= schemas'[s].ver
    /\ schemas'[s].ver = schemas[s].ver => schemas'[s].c = schemas[s].c
    /\ schemas'[s].live => schemas'[s].ver > 0
    /\ schemas'[s].live => schemas[s].live \/ schemas[s].ver = 0

EventsGrow ==
  \A e \in EventType :
    /\ events[e].ver <= events'[e].ver
    /\ events'[e].live => events'[e].ver > 0
    /\ events'[e].live /\ events'[e].ver = events[e].ver =>
         events[e].live /\ events'[e].ext = events[e].ext
    /\ events[e].ver = 0 /\ events'[e].ver # 0 =>
         \A p \in Request : job[p].op = "createEvent" /\ job[p].event = e => Finishes(p)

\* Where FOR SHARE locks are held nothing is inserted or deleted.
RefsKept ==
  \A p \in Request : pc[p] = "write" /\ pc'[p] = "write" =>
    refs'[job[p].schema] = refs[job[p].schema]

\* A key that comes into use has a row.
KeysKept ==
  \A s \in Schema : schemas'[s].ver = 0 =>
    memory'[s] = Absent /\ \A e \in EventType : events'[e].ext[s] = Absent

Tables == SchemasGrow /\ EventsGrow /\ RefsKept /\ KeysKept /\ ConfigIsReferred'

-----------------------------------------------------------------------------
(* From there the invariant follows *)

\* Phases: each place has its operations.
LEMMA PhasesPreserved ==
  ASSUME IInv, TypeOK', Steps, Tables
  PROVE  Phases'
<1> SUFFICES ASSUME NEW p \in Request
             PROVE  /\ pc'[p] \in {"refs", "write"} => job'[p].op \in {"update", "delete"}
                    /\ pc'[p] \in {"validate", "commit"} <=>
                         job'[p].op \in {"createEvent", "updateEvent"}
  BY DEF Phases
<1>1. /\ pc[p] \in {"refs", "write"} => job[p].op \in {"update", "delete"}
      /\ pc[p] \in {"validate", "commit"} <=>
           job[p].op \in {"createEvent", "updateEvent"}
      /\ job[p] \in Job
  BY DEF IInv, Phases, TypeOK
<1>2. CASE Stays(p)
  BY <1>1, <1>2 DEF Stays
<1>3. CASE Finishes(p)
  BY <1>3 DEF Finishes, NoJob
<1>4. CASE Reloads(p)
  BY <1>4 DEF Reloads
<1>5. CASE BeginsSchema(p)
  BY <1>5 DEF BeginsSchema
<1>6. CASE LocksRefs(p)
  BY <1>1, <1>6 DEF LocksRefs
<1>7. CASE BeginsEvent(p)
  BY <1>7 DEF BeginsEvent
<1>8. CASE Validates(p)
  BY <1>1, <1>8 DEF Validates, Job
<1>9. CASE LooksUp(p)
  BY <1>1, <1>9 DEF LooksUp, Job
<1>10. CASE BeginsRemoval(p)
  BY <1>10 DEF BeginsRemoval
<1> QED
  BY <1>2, <1>3, <1>4, <1>5, <1>6, <1>7, <1>8, <1>9, <1>10 DEF Steps, Moves

\* SchemaRead and LockKeeps: of requests on schemas.
LEMMA SchemaPreserved ==
  ASSUME IInv, TypeOK', Steps, Tables
  PROVE  SchemaRead' /\ LockKeeps'
<1> SUFFICES ASSUME NEW p \in Request
             PROVE  /\ pc'[p] \in {"refs", "write"} /\ job'[p].op = "update" =>
                         /\ job'[p].ver <= schemas'[job'[p].schema].ver
                         /\ job'[p].ver = schemas'[job'[p].schema].ver =>
                              job'[p].old = schemas'[job'[p].schema].c
                    /\ pc'[p] = "write" => ~Refused(p)'
  BY DEF SchemaRead, LockKeeps
<1> DEFINE s == job[p].schema
<1>1. /\ job[p] \in Job /\ s \in Schema /\ job[p].ver \in Nat
      /\ schemas[s].ver \in Nat /\ schemas'[s].ver \in Nat
      /\ job'[p] \in Job /\ job'[p].schema \in Schema /\ job'[p].ver \in Nat
      /\ schemas'[job'[p].schema].ver \in Nat
  BY DEF IInv, TypeOK, Job, SchemaRow
<1>2. pc[p] \in {"refs", "write"} /\ job[p].op = "update" =>
        job[p].ver <= schemas[s].ver /\ (job[p].ver = schemas[s].ver => job[p].old = schemas[s].c)
  BY DEF IInv, SchemaRead
<1>3. /\ schemas[s].ver <= schemas'[s].ver
      /\ schemas'[s].ver = schemas[s].ver => schemas'[s].c = schemas[s].c
  BY <1>1 DEF Tables, SchemasGrow
<1>4. ASSUME job'[p] = job[p], pc[p] \in {"refs", "write"}, job[p].op = "update"
      PROVE  job[p].ver <= schemas'[s].ver
             /\ (job[p].ver = schemas'[s].ver => job[p].old = schemas'[s].c)
  BY <1>1, <1>2, <1>3, <1>4
<1>5. CASE Stays(p)
  <2>1. ASSUME pc[p] = "write" PROVE ~Refused(p)'
    <3>1. refs'[s] = refs[s] /\ ~Refused(p)
      BY <1>5, <2>1 DEF Stays, Tables, RefsKept, IInv, LockKeeps
    <3> QED
      BY <1>5, <3>1 DEF Stays, Refused
  <2> QED
    BY <1>4, <1>5, <2>1 DEF Stays
<1>6. CASE LocksRefs(p)
  <2>1. ~Refused(p)'
    BY <1>6 DEF LocksRefs, Refused
  <2> QED
    BY <1>4, <1>6, <2>1 DEF LocksRefs
<1>7. CASE BeginsSchema(p)
  BY <1>1, <1>7 DEF BeginsSchema
<1>8. CASE Finishes(p) \/ Reloads(p) \/ BeginsEvent(p) \/ Validates(p)
           \/ LooksUp(p) \/ BeginsRemoval(p)
  <2>1. pc'[p] \notin {"refs", "write"}
    BY <1>8 DEF Finishes, Reloads, BeginsEvent, Validates, LooksUp, BeginsRemoval
  <2> QED
    BY <2>1
<1> QED
  BY <1>5, <1>6, <1>7, <1>8 DEF Steps, Moves

\* EventRead: of requests on event types.
LEMMA EventPreserved ==
  ASSUME IInv, TypeOK', Steps, Tables, Phases'
  PROVE  EventRead'
<1> SUFFICES ASSUME NEW p \in Request
             PROVE  LET row == events'[job'[p].event] IN
                    /\ job'[p].op = "updateEvent" =>
                         /\ job'[p].ver <= row.ver
                         /\ row.live /\ job'[p].ver = row.ver => job'[p].oldExt = row.ext
                    /\ job'[p].op = "createEvent" =>
                         /\ row.ver = 0 /\ job'[p].ver = 0
                         /\ job'[p].oldExt = NoExtensions
                         /\ \A q \in Request \ {p} :
                              job'[q].op = "createEvent" => job'[q].event # job'[p].event
  BY DEF EventRead
<1> DEFINE e == job[p].event
<1>1. /\ job[p] \in Job /\ e \in EventType /\ job[p].ver \in Nat
      /\ events[e].ver \in Nat /\ events'[e].ver \in Nat
      /\ job'[p] \in Job /\ job'[p].event \in EventType
      /\ events'[job'[p].event].ver \in Nat
      /\ \A q \in Request : job[q] \in Job
  BY DEF IInv, TypeOK, Job, EventRow
<1>2. /\ events[e].ver <= events'[e].ver
      /\ events'[e].live /\ events'[e].ver = events[e].ver =>
           events[e].live /\ events'[e].ext = events[e].ext
      /\ events[e].ver = 0 /\ events'[e].ver # 0 /\ job[p].op = "createEvent" => Finishes(p)
  BY <1>1 DEF Tables, EventsGrow
<1>3. /\ job[p].op = "updateEvent" =>
           /\ job[p].ver <= events[e].ver
           /\ events[e].live /\ job[p].ver = events[e].ver => job[p].oldExt = events[e].ext
      /\ job[p].op = "createEvent" =>
           /\ events[e].ver = 0 /\ job[p].ver = 0 /\ job[p].oldExt = NoExtensions
           /\ \A q \in Request \ {p} :
                job[q].op = "createEvent" => job[q].event # e
  BY DEF IInv, EventRead
\* No other request takes the id of a create that goes on.
<1>4. ASSUME job[p].op = "createEvent", job'[p].op = "createEvent", job'[p].event = e,
             NEW q \in Request \ {p}, job'[q].op = "createEvent"
      PROVE  job'[q].event # e
  <2>1. job[q] \in Job /\ pc'[q] \in {"validate", "commit"}
    BY <1>1, <1>4 DEF Phases
  <2>2. CASE Stays(q)
    BY <1>3, <1>4, <2>2 DEF Stays
  <2>3. CASE BeginsEvent(q)
    BY <1>4, <2>3 DEF BeginsEvent
  <2>4. CASE Validates(q) \/ LooksUp(q)
    <3>1. job'[q].op = job[q].op /\ job'[q].event = job[q].event
      BY <2>1, <2>4 DEF Validates, LooksUp, Job
    <3> QED
      BY <1>3, <1>4, <3>1
  <2>5. CASE Finishes(q) \/ Reloads(q) \/ BeginsSchema(q) \/ LocksRefs(q)
             \/ BeginsRemoval(q)
    BY <2>1, <2>5 DEF Finishes, Reloads, BeginsSchema, LocksRefs, BeginsRemoval
  <2> QED
    BY <2>2, <2>3, <2>4, <2>5 DEF Steps, Moves
\* A request that keeps its event type and what it has read.
<1>5. ASSUME job'[p].op = job[p].op, job'[p].event = e, job'[p].ver = job[p].ver,
             job'[p].oldExt = job[p].oldExt, ~Finishes(p)
      PROVE  LET row == events'[job'[p].event] IN
             /\ job'[p].op = "updateEvent" =>
                  /\ job'[p].ver <= row.ver
                  /\ row.live /\ job'[p].ver = row.ver => job'[p].oldExt = row.ext
             /\ job'[p].op = "createEvent" =>
                  /\ row.ver = 0 /\ job'[p].ver = 0
                  /\ job'[p].oldExt = NoExtensions
                  /\ \A q \in Request \ {p} :
                       job'[q].op = "createEvent" => job'[q].event # job'[p].event
  <2>1. ASSUME job[p].op = "updateEvent"
        PROVE  /\ job[p].ver <= events'[e].ver
               /\ events'[e].live /\ job[p].ver = events'[e].ver =>
                    job[p].oldExt = events'[e].ext
    BY <1>1, <1>2, <1>3, <2>1
  <2>2. ASSUME job[p].op = "createEvent"
        PROVE  events'[e].ver = 0 /\ job[p].ver = 0 /\ job[p].oldExt = NoExtensions
    BY <1>2, <1>3, <1>5, <2>2
  <2> QED
    BY <1>4, <1>5, <2>1, <2>2
<1>6. CASE Finishes(p)
  BY <1>6 DEF Finishes, NoJob
<1>7. CASE Stays(p) \/ LocksRefs(p)
  BY <1>5, <1>6, <1>7 DEF Stays, LocksRefs
<1>8. CASE Validates(p) \/ LooksUp(p)
  <2>1. /\ job'[p].op = job[p].op /\ job'[p].event = e /\ job'[p].ver = job[p].ver
        /\ job'[p].oldExt = job[p].oldExt
    BY <1>1, <1>8 DEF Validates, LooksUp, Job
  <2> QED
    BY <1>5, <1>6, <2>1
<1>9. CASE BeginsEvent(p) /\ ~Stays(p)
  <2>1. \A q \in Request \ {p} : job'[q] = job[q]
    BY <1>9 DEF Steps, Stays
  <2> QED
    BY <1>1, <1>9, <2>1 DEF BeginsEvent
<1>10. CASE Reloads(p) \/ BeginsSchema(p) \/ BeginsRemoval(p)
  <2>1. job'[p].op \notin {"createEvent", "updateEvent"}
    BY <1>10 DEF Reloads, BeginsSchema, BeginsRemoval
  <2> QED
    BY <2>1
<1> QED
  BY <1>6, <1>7, <1>8, <1>9, <1>10 DEF Steps, Moves

\* KeysKnown: keys that have been found have a row, for good.
LEMMA KeysPreserved ==
  ASSUME IInv, TypeOK', Steps, Tables
  PROVE  KeysKnown'
<1> SUFFICES ASSUME NEW s \in Schema, schemas'[s].ver = 0
             PROVE  /\ memory'[s] = Absent
                    /\ \A e \in EventType : events'[e].ext[s] = Absent
                    /\ \A p \in Request :
                         /\ job'[p].copy[s] = Absent
                         /\ pc'[p] = "validate" => s \notin Keys(job'[p].ext) \ job'[p].todo
                         /\ pc'[p] = "commit" => s \notin Keys(job'[p].ext)
  BY DEF KeysKnown, Keys
<1>1. memory'[s] = Absent /\ \A e \in EventType : events'[e].ext[s] = Absent
  BY DEF Tables, KeysKept
<1>2. schemas[s].ver = 0
  BY DEF IInv, TypeOK, SchemaRow, Tables, SchemasGrow
<1>3. ASSUME NEW p \in Request
      PROVE  /\ job'[p].copy[s] = Absent
             /\ pc'[p] = "validate" => s \notin Keys(job'[p].ext) \ job'[p].todo
             /\ pc'[p] = "commit" => s \notin Keys(job'[p].ext)
  <2>1. /\ job[p].copy[s] = Absent /\ job[p] \in Job /\ job'[p] \in Job
        /\ pc[p] = "validate" => s \notin Keys(job[p].ext) \ job[p].todo
        /\ pc[p] = "commit" => s \notin Keys(job[p].ext)
        /\ memory[s] = Absent
    BY <1>2 DEF IInv, KeysKnown, TypeOK
  <2>2. NoMemory[s] = Absent
    BY DEF NoMemory
  <2>3. CASE Stays(p) \/ LocksRefs(p)
    BY <2>1, <2>3 DEF Stays, LocksRefs
  <2>4. CASE Finishes(p)
    BY <2>2, <2>4 DEF Finishes, NoJob
  <2>5. CASE Reloads(p)
    BY <2>5 DEF Reloads
  <2>6. CASE BeginsSchema(p) \/ BeginsRemoval(p)
    BY <2>2, <2>6 DEF BeginsSchema, BeginsRemoval
  <2>7. CASE BeginsEvent(p)
    BY <2>2, <2>7 DEF BeginsEvent
  <2>8. CASE Validates(p)
    <3>1. PICK x \in Schema : /\ memory[x] # Absent
                              /\ job'[p] = [job[p] EXCEPT !.todo = job[p].todo \ {x}]
      BY <2>8 DEF Validates
    <3>2. x # s /\ job'[p].copy = job[p].copy /\ job'[p].ext = job[p].ext
          /\ job'[p].todo = job[p].todo \ {x}
      BY <2>1, <3>1 DEF Job
    <3>3. pc[p] = "validate" /\ pc'[p] = "validate"
      BY <2>8 DEF Validates
    <3> QED
      BY <2>1, <3>2, <3>3
  <2>9. CASE LooksUp(p)
    <3>1. /\ job'[p].copy = job[p].copy /\ job'[p].ext = job[p].ext
          /\ pc[p] = "validate" /\ job[p].todo = {} /\ pc'[p] = "commit"
      BY <2>1, <2>9 DEF LooksUp, Job
    <3> QED
      BY <2>1, <3>1
  <2> QED
    BY <2>3, <2>4, <2>5, <2>6, <2>7, <2>8, <2>9 DEF Steps, Moves
<1> QED
  BY <1>1, <1>3

\* LookedUp: a schema that was not there when it was looked up does not come back.
LEMMA LookedUpPreserved ==
  ASSUME IInv, TypeOK', Steps, Tables
  PROVE  LookedUp'
<1> SUFFICES ASSUME NEW p \in Request, pc'[p] = "commit",
                    NEW s \in Keys(job'[p].ext) \ Keys(job'[p].oldExt),
                    schemas'[s].live
             PROVE  s \in job'[p].todo
  BY DEF LookedUp, Keys
<1>1. s \in Schema /\ job[p] \in Job
  BY DEF Keys, IInv, TypeOK
<1>2. CASE Stays(p)
  <2>1. pc[p] = "commit" /\ s \in Keys(job[p].ext) \ Keys(job[p].oldExt)
    BY <1>2 DEF Stays
  <2>2. schemas[s].ver # 0
    BY <1>1, <2>1 DEF IInv, KeysKnown
  <2>3. schemas[s].live
    BY <1>1, <2>2 DEF Tables, SchemasGrow
  <2> QED
    BY <1>2, <2>1, <2>3 DEF Stays, IInv, LookedUp
<1>3. CASE LooksUp(p)
  <2>1. PICK T \in SUBSET Schema :
          /\ job'[p] = [job[p] EXCEPT !.todo = T]
          /\ \A x \in Keys(job[p].ext) \ Keys(job[p].oldExt) : schemas'[x].live => x \in T
    BY <1>3 DEF LooksUp
  <2>2. job'[p].todo = T /\ job'[p].ext = job[p].ext /\ job'[p].oldExt = job[p].oldExt
    BY <1>1, <2>1 DEF Job
  <2> QED
    BY <2>1, <2>2
<1>4. CASE Finishes(p) \/ Reloads(p) \/ BeginsSchema(p) \/ LocksRefs(p)
           \/ BeginsEvent(p) \/ Validates(p) \/ BeginsRemoval(p)
  BY <1>4 DEF Finishes, Reloads, BeginsSchema, LocksRefs, BeginsEvent, Validates,
     BeginsRemoval
<1> QED
  BY <1>2, <1>3, <1>4 DEF Steps, Moves

\* The whole invariant.
LEMMA Preserved ==
  ASSUME IInv, TypeOK', Steps, Tables
  PROVE  IInv'
<1>1. Phases'
  BY PhasesPreserved
<1>2. RowsOK'
  BY DEF Tables, SchemasGrow, EventsGrow, RowsOK
<1> QED
  BY <1>1, <1>2, SchemaPreserved, EventPreserved, KeysPreserved, LookedUpPreserved
  DEF IInv, Tables

-----------------------------------------------------------------------------
(* Each action moves one request, or none, and keeps the types *)

Alone(p) == \A q \in Request \ {p} : Stays(q)
PlacesTyped == pc' \in [Request -> PC] /\ job' \in [Request -> Job]

LEMMA NoJobType ==
  /\ NoJob \in Job /\ NoMemory \in Memory /\ NoExtensions \in Extensions
  /\ Unconstrained \in Constraint
  /\ \A s \in Schema : NoMemory[s] = Absent
<1>1. (CHOOSE s \in Schema : TRUE) \in Schema /\ (CHOOSE e \in EventType : TRUE) \in EventType
  BY IdAssumption
<1>2. Unconstrained \in Constraint
  BY DEF Unconstrained, Constraint, Bound
<1> QED
  BY <1>1, <1>2 DEF NoJob, Job, Op, NoMemory, Memory, NoExtensions, Extensions

LEMMA Overwrites ==
  ASSUME TypeOK, NEW p \in Request, NEW l \in PC, NEW j \in Job,
         Goto(p, l), job' = [job EXCEPT ![p] = j]
  PROVE  pc'[p] = l /\ job'[p] = j /\ Alone(p) /\ PlacesTyped
BY DEF TypeOK, Goto, Alone, Stays, PlacesTyped

LEMMA Goes ==
  ASSUME TypeOK, NEW p \in Request, NEW l \in PC, Goto(p, l), UNCHANGED job
  PROVE  pc'[p] = l /\ job'[p] = job[p] /\ Alone(p) /\ PlacesTyped
BY DEF TypeOK, Goto, Alone, Stays, PlacesTyped

LEMMA Ends ==
  ASSUME TypeOK, NEW p \in Request, Finish(p)
  PROVE  Finishes(p) /\ Alone(p) /\ PlacesTyped
BY NoJobType, Overwrites DEF Finish, Finishes, PC

LEMMA AloneSteps ==
  ASSUME NEW p \in Request, Alone(p), Moves(p)
  PROVE  Steps
BY DEF Alone, Steps

LEMMA NobodySteps ==
  ASSUME UNCHANGED <<pc, job>>
  PROVE  Steps
BY DEF Steps, Stays

\* The tables, when at most event_type_schema is written, and that only forward.
LEMMA SchemaTables ==
  ASSUME IInv, TypeOK', SchemasGrow, UNCHANGED <<events, refs, memory>>
  PROVE  Tables
<1>1. \A s \in Schema : schemas'[s].ver = 0 => schemas[s].ver = 0
  BY DEF IInv, TypeOK, SchemaRow, SchemasGrow
<1>2. KeysKept
  BY <1>1 DEF KeysKept, IInv, KeysKnown
<1>3. EventsGrow
  BY DEF EventsGrow, IInv, TypeOK, EventRow, RowsOK
<1>4. RefsKept
  BY DEF RefsKept
<1>5. ConfigIsReferred'
  <2> SUFFICES ASSUME NEW e \in EventType, NEW s \in Schema,
                      events[e].live, schemas'[s].live, events[e].ext[s] # Absent
               PROVE  e \in refs[s]
    BY DEF ConfigIsReferred
  <2>1. schemas[s].live
    BY DEF SchemasGrow, IInv, KeysKnown
  <2> QED
    BY <2>1 DEF IInv, ConfigIsReferred
<1> QED
  BY <1>2, <1>3, <1>4, <1>5 DEF Tables

LEMMA SameTables ==
  ASSUME IInv, TypeOK', UNCHANGED mysql, UNCHANGED memory
  PROVE  Tables
<1>1. SchemasGrow
  BY DEF SchemasGrow, IInv, TypeOK, SchemaRow, RowsOK, mysql
<1> QED
  BY <1>1, SchemaTables DEF mysql

\* Nothing but the place of one request changes.
LEMMA Quietly ==
  ASSUME IInv, NEW p \in Request, Moves(p), Alone(p), PlacesTyped,
         UNCHANGED mysql, UNCHANGED memory
  PROVE  TypeOK' /\ Steps /\ Tables
<1>1. TypeOK'
  BY DEF IInv, TypeOK, PlacesTyped, mysql
<1> QED
  BY <1>1, SameTables, AloneSteps

-----------------------------------------------------------------------------
(* The actions that only move a request *)

LEMMA StepBeginUpdateSchema ==
  ASSUME IInv, NEW p \in Request, NEW s \in Schema, NEW c \in Constraints,
         BeginUpdateSchema(p, s, c)
  PROVE  TypeOK' /\ Steps /\ Tables
<1> DEFINE j == [NoJob EXCEPT !.op = "update", !.schema = s, !.c = c,
                              !.ver = schemas[s].ver, !.old = schemas[s].c]
<1>1. c \in Constraint /\ schemas[s].ver \in Nat /\ schemas[s].c \in Constraint
  BY InputAssumption DEF IInv, TypeOK, SchemaRow
<1>2. j \in Job
  BY <1>1, NoJobType DEF Job, Op
<1>3. /\ j.op = "update" /\ j.schema = s /\ j.ver = schemas[s].ver
      /\ j.old = schemas[s].c /\ j.copy = NoMemory
  BY NoJobType DEF NoJob
<1>4. /\ pc'[p] = "refs" /\ job'[p] = j /\ Alone(p) /\ PlacesTyped
      /\ UNCHANGED mysql /\ UNCHANGED memory
  BY <1>2, Overwrites DEF BeginUpdateSchema, Begin, IInv, PC
<1>5. Moves(p)
  BY <1>3, <1>4 DEF Moves, BeginsSchema, mysql
<1> QED
  BY <1>4, <1>5, Quietly

LEMMA StepBeginDeletes ==
  ASSUME IInv, NEW p \in Request,
         \/ \E s \in Schema : BeginDeleteSchema(p, s)
         \/ \E e \in EventType : BeginDeleteEvent(p, e)
  PROVE  TypeOK' /\ Steps /\ Tables
<1>1. ASSUME NEW s \in Schema, BeginDeleteSchema(p, s)
      PROVE  TypeOK' /\ Steps /\ Tables
  <2> DEFINE j == [NoJob EXCEPT !.op = "delete", !.schema = s]
  <2>1. j \in Job /\ j.op = "delete" /\ j.copy = NoMemory
    BY NoJobType DEF Job, Op, NoJob
  <2>2. /\ pc'[p] = "refs" /\ job'[p] = j /\ Alone(p) /\ PlacesTyped
        /\ UNCHANGED mysql /\ UNCHANGED memory
    BY <1>1, <2>1, Overwrites DEF BeginDeleteSchema, Begin, IInv, PC
  <2>3. Moves(p)
    BY <2>1, <2>2 DEF Moves, BeginsSchema
  <2> QED
    BY <2>2, <2>3, Quietly
<1>2. ASSUME NEW e \in EventType, BeginDeleteEvent(p, e)
      PROVE  TypeOK' /\ Steps /\ Tables
  <2> DEFINE j == [NoJob EXCEPT !.op = "deleteEvent", !.event = e]
  <2>1. j \in Job /\ j.op = "deleteEvent" /\ j.copy = NoMemory
    BY NoJobType DEF Job, Op, NoJob
  <2>2. /\ pc'[p] = "remove" /\ job'[p] = j /\ Alone(p) /\ PlacesTyped
        /\ UNCHANGED mysql /\ UNCHANGED memory
    BY <1>2, <2>1, Overwrites DEF BeginDeleteEvent, Begin, IInv, PC
  <2>3. Moves(p)
    BY <2>1, <2>2 DEF Moves, BeginsRemoval
  <2> QED
    BY <2>2, <2>3, Quietly
<1> QED
  BY <1>1, <1>2

LEMMA StepHasRefsTx ==
  ASSUME IInv, NEW p \in Request, HasRefsTx(p)
  PROVE  TypeOK' /\ Steps /\ Tables
<1>1. UNCHANGED mysql /\ UNCHANGED memory /\ pc[p] = "refs"
  BY DEF HasRefsTx
<1>2. CASE Refused(p)
  BY <1>1, <1>2, Ends, Quietly DEF HasRefsTx, IInv, Moves
<1>3. CASE ~Refused(p)
  <2>1. pc'[p] = "write" /\ job'[p] = job[p] /\ Alone(p) /\ PlacesTyped
    BY <1>3, Goes DEF HasRefsTx, IInv, PC
  <2>2. Moves(p)
    BY <1>1, <1>3, <2>1 DEF Moves, LocksRefs, mysql
  <2> QED
    BY <1>1, <2>1, <2>2, Quietly
<1> QED
  BY <1>2, <1>3

LEMMA StepLoadRows ==
  ASSUME IInv, NEW p \in Request, LoadRows(p)
  PROVE  TypeOK' /\ Steps /\ Tables
<1> DEFINE j == [job[p] EXCEPT !.copy = ListEnabled]
<1>1. job[p] \in Job /\ pc[p] = "reload"
  BY DEF IInv, TypeOK, LoadRows
<1>2. ListEnabled \in Memory /\ \A s \in Schema : ListEnabled[s] # Absent => schemas[s].live
  BY DEF ListEnabled, Memory, IInv, TypeOK, SchemaRow
<1>3. j \in Job /\ j.copy = ListEnabled /\ j.op = job[p].op
  BY <1>1, <1>2 DEF Job
<1>4. /\ pc'[p] = "install" /\ job'[p] = j /\ Alone(p) /\ PlacesTyped
      /\ UNCHANGED mysql /\ UNCHANGED memory
  <2>1. job' = [job EXCEPT ![p] = j]
    BY DEF LoadRows
  <2> QED
    BY <1>3, <2>1, Overwrites DEF LoadRows, IInv, PC
<1>5. Moves(p)
  <2>1. j.op \notin {"createEvent", "updateEvent"}
    BY <1>1, <1>3 DEF IInv, Phases
  <2>2. \A s \in Schema : ListEnabled[s] # Absent => schemas'[s].ver > 0
    BY <1>2, <1>4 DEF IInv, RowsOK, mysql
  <2> QED
    BY <1>3, <1>4, <2>1, <2>2 DEF Moves, Reloads
<1> QED
  BY <1>4, <1>5, Quietly

LEMMA StepBeginEvents ==
  ASSUME IInv, NEW p \in Request, NEW e \in EventType, NEW ext \in ExtensionInput,
         BeginCreateEvent(p, e, ext) \/ BeginUpdateEvent(p, e, ext)
  PROVE  BeginsEvent(p) /\ TypeOK' /\ Steps /\ Tables
<1>1. /\ ext \in Extensions /\ Keys(ext) \subseteq Schema
      /\ events[e].ver \in Nat /\ events[e].ext \in Extensions
  BY InputAssumption DEF ExtensionInput, Extensions, Keys, IInv, TypeOK, EventRow
<1>2. CASE BeginCreateEvent(p, e, ext)
  <2> DEFINE j == [NoJob EXCEPT !.op = "createEvent", !.event = e,
                                !.ext = ext, !.todo = Keys(ext)]
  <2>1. /\ j \in Job /\ j.op = "createEvent" /\ j.event = e /\ j.ext = ext
        /\ j.todo = Keys(ext) /\ j.copy = NoMemory /\ j.ver = 0
        /\ j.oldExt = NoExtensions
    BY <1>1, NoJobType DEF Job, Op, NoJob
  <2>2. /\ pc'[p] = "validate" /\ job'[p] = j /\ Alone(p) /\ PlacesTyped
        /\ UNCHANGED mysql /\ UNCHANGED memory
    BY <1>2, <2>1, Overwrites DEF BeginCreateEvent, Begin, IInv, PC
  <2>3. BeginsEvent(p)
    <3>1. events'[e].ver = 0
          /\ \A q \in Request : job[q].op = "createEvent" => job[q].event # e
      BY <1>2 DEF BeginCreateEvent, mysql
    <3> HIDE DEF j
    <3> QED
      BY <2>1, <2>2, <3>1 DEF BeginsEvent
  <2> QED
    BY <2>2, <2>3, Quietly DEF Moves
<1>3. CASE BeginUpdateEvent(p, e, ext)
  <2> DEFINE j == [NoJob EXCEPT !.op = "updateEvent", !.event = e,
                                !.ver = events[e].ver, !.ext = ext,
                                !.oldExt = events[e].ext, !.todo = Keys(ext)]
  <2>1. /\ j \in Job /\ j.op = "updateEvent" /\ j.event = e /\ j.ext = ext
        /\ j.todo = Keys(ext) /\ j.copy = NoMemory /\ j.ver = events[e].ver
        /\ j.oldExt = events[e].ext
    BY <1>1, NoJobType DEF Job, Op, NoJob
  <2>2. /\ pc'[p] = "validate" /\ job'[p] = j /\ Alone(p) /\ PlacesTyped
        /\ UNCHANGED mysql /\ UNCHANGED memory
    BY <1>3, <2>1, Overwrites DEF BeginUpdateEvent, Begin, IInv, PC
  <2>3. BeginsEvent(p)
    <3> HIDE DEF j
    <3> QED
      BY <2>1, <2>2 DEF BeginsEvent, mysql
  <2> QED
    BY <2>2, <2>3, Quietly DEF Moves
<1> QED
  BY <1>2, <1>3

LEMMA StepValidateExtension ==
  ASSUME IInv, NEW p \in Request, NEW s \in Schema, ValidateExtension(p, s)
  PROVE  TypeOK' /\ Steps /\ Tables
<1>1. UNCHANGED mysql /\ UNCHANGED memory /\ pc[p] = "validate" /\ job[p] \in Job
  BY DEF ValidateExtension, IInv, TypeOK
<1>2. CASE ~ValidInMemory(p, s)
  BY <1>1, <1>2, Ends, Quietly DEF ValidateExtension, IInv, Moves
<1>3. CASE ValidInMemory(p, s)
  <2> DEFINE j == [job[p] EXCEPT !.todo = job[p].todo \ {s}]
  <2>1. j \in Job
    BY <1>1 DEF Job
  <2>2. job' = [job EXCEPT ![p] = j] /\ pc' = pc
    BY <1>3 DEF ValidateExtension
  <2>3. pc'[p] = "validate" /\ job'[p] = j /\ Alone(p) /\ PlacesTyped
    BY <1>1, <2>1, <2>2 DEF IInv, TypeOK, Alone, Stays, PlacesTyped
  <2>4. Moves(p)
    <3>1. memory[s] # Absent
      BY <1>3 DEF ValidInMemory
    <3> QED
      BY <1>1, <2>3, <3>1 DEF Moves, Validates
  <2> QED
    BY <1>1, <2>3, <2>4, Quietly
<1> QED
  BY <1>2, <1>3

LEMMA StepLookupSchemas ==
  ASSUME IInv, NEW p \in Request, NEW missed \in SUBSET Schema, LookupSchemas(p, missed)
  PROVE  TypeOK' /\ Steps /\ Tables
<1> DEFINE T == {s \in DiffKeys(p, missed) : schemas[s].live}
           j == [job[p] EXCEPT !.todo = T]
<1>1. /\ UNCHANGED mysql /\ UNCHANGED memory /\ pc[p] = "validate"
      /\ job[p].todo = {} /\ job[p] \in Job
  BY DEF LookupSchemas, IInv, TypeOK
<1>2. T \in SUBSET Schema
  BY DEF DiffKeys, Keys
<1>3. j \in Job
  BY <1>1, <1>2 DEF Job
<1>4. job' = [job EXCEPT ![p] = j]
  BY DEF LookupSchemas
<1>5. pc'[p] = "commit" /\ job'[p] = j /\ Alone(p) /\ PlacesTyped
  BY <1>3, <1>4, Overwrites DEF LookupSchemas, IInv, PC
<1>6. \A s \in Keys(job[p].ext) \ Keys(job[p].oldExt) : schemas'[s].live => s \in T
  BY <1>1 DEF DiffKeys, mysql
<1>7. Moves(p)
  <2> HIDE DEF T
  <2> QED
    BY <1>1, <1>2, <1>5, <1>6 DEF Moves, LooksUp
<1> QED
  BY <1>1, <1>5, <1>7, Quietly

LEMMA StepFail ==
  ASSUME IInv, NEW p \in Request, Fail(p)
  PROVE  TypeOK' /\ Steps /\ Tables
BY Ends, Quietly DEF Fail, IInv, Moves

-----------------------------------------------------------------------------
(* The actions that write event_type_schema *)

\* One row of event_type_schema is written, with a later version or not live.
LEMMA SchemaWrite ==
  ASSUME IInv, NEW p \in Request, NEW s \in Schema, NEW row \in SchemaRow,
         schemas' = [schemas EXCEPT ![s] = row],
         \/ row.ver = schemas[s].ver + 1 /\ (schemas[s].live \/ schemas[s].ver = 0)
         \/ row.ver = schemas[s].ver /\ row.c = schemas[s].c /\ ~row.live,
         UNCHANGED <<events, refs, memory>>,
         pc'[p] = "reload", job'[p].op \notin {"createEvent", "updateEvent"},
         \A x \in Schema : job'[p].copy[x] # Absent => schemas[x].ver # 0,
         Alone(p), PlacesTyped
  PROVE  TypeOK' /\ Steps /\ Tables
<1>1. TypeOK'
  BY DEF IInv, TypeOK, PlacesTyped
<1>2. /\ schemas \in [Schema -> SchemaRow] /\ row.ver \in Nat
      /\ \A x \in Schema : schemas[x].ver \in Nat /\ (schemas[x].live => schemas[x].ver > 0)
  BY DEF IInv, TypeOK, SchemaRow, RowsOK
<1>3. \A x \in Schema : schemas'[x] = IF x = s THEN row ELSE schemas[x]
  BY <1>2
<1>4. SchemasGrow
  BY <1>2, <1>3 DEF SchemasGrow
<1>5. \A x \in Schema : schemas[x].ver # 0 => schemas'[x].ver > 0
  BY <1>2, <1>3
<1>6. Moves(p)
  BY <1>5 DEF Moves, Reloads
<1> QED
  BY <1>1, <1>4, <1>6, AloneSteps, SchemaTables

LEMMA StepCreateSchema ==
  ASSUME IInv, NEW p \in Request, NEW s \in Schema, NEW c \in Constraints,
         CreateSchema(p, s, c)
  PROVE  TypeOK' /\ Steps /\ Tables
<1> DEFINE j == [NoJob EXCEPT !.op = "schema"]
           row == [live |-> TRUE, enabled |-> TRUE, ver |-> 1, c |-> c]
<1>1. j \in Job /\ j.op = "schema" /\ j.copy = NoMemory
  BY NoJobType DEF Job, Op, NoJob
<1>2. row \in SchemaRow /\ row.ver = schemas[s].ver + 1
  BY InputAssumption DEF SchemaRow, CreateSchema
<1>3. pc'[p] = "reload" /\ job'[p] = j /\ Alone(p) /\ PlacesTyped
  BY <1>1, Overwrites DEF CreateSchema, Begin, IInv, PC
<1>4. /\ schemas' = [schemas EXCEPT ![s] = row] /\ schemas[s].ver = 0
      /\ UNCHANGED <<events, refs, memory>>
  BY DEF CreateSchema
<1> HIDE DEF j, row
<1> QED
  BY <1>1, <1>2, <1>3, <1>4, NoJobType, SchemaWrite

\* Rows stay rows, whatever is written.
LEMMA RowEdits ==
  ASSUME NEW r \in SchemaRow, NEW b \in BOOLEAN, NEW n \in Nat, NEW c \in Constraint
  PROVE  /\ [r EXCEPT !.enabled = b] \in SchemaRow /\ [r EXCEPT !.enabled = b].ver = r.ver
         /\ [r EXCEPT !.ver = n] \in SchemaRow /\ [r EXCEPT !.ver = n].ver = n
         /\ [r EXCEPT !.c = c, !.ver = n] \in SchemaRow
         /\ [r EXCEPT !.c = c, !.ver = n].ver = n
         /\ [r EXCEPT !.live = FALSE] \in SchemaRow
         /\ [r EXCEPT !.live = FALSE].ver = r.ver /\ [r EXCEPT !.live = FALSE].c = r.c
         /\ ~[r EXCEPT !.live = FALSE].live
<1>1. [r EXCEPT !.enabled = b] \in SchemaRow /\ [r EXCEPT !.enabled = b].ver = r.ver
  BY DEF SchemaRow
<1>2. [r EXCEPT !.ver = n] \in SchemaRow /\ [r EXCEPT !.ver = n].ver = n
  BY DEF SchemaRow
<1>3. [r EXCEPT !.c = c, !.ver = n] \in SchemaRow /\ [r EXCEPT !.c = c, !.ver = n].ver = n
  BY DEF SchemaRow
<1>4. /\ [r EXCEPT !.live = FALSE] \in SchemaRow
      /\ [r EXCEPT !.live = FALSE].ver = r.ver /\ [r EXCEPT !.live = FALSE].c = r.c
      /\ ~[r EXCEPT !.live = FALSE].live
  BY DEF SchemaRow
<1> QED
  BY <1>1, <1>2, <1>3, <1>4

LEMMA StepToggleSchema ==
  ASSUME IInv, NEW p \in Request, NEW s \in Schema, NEW b \in BOOLEAN,
         ToggleSchema(p, s, b)
  PROVE  TypeOK' /\ Steps /\ Tables
<1> DEFINE j == [NoJob EXCEPT !.op = "schema"]
           set == [schemas[s] EXCEPT !.enabled = b]
           row == [set EXCEPT !.ver = schemas[s].ver + 1]
<1>1. j \in Job /\ j.op = "schema" /\ j.copy = NoMemory
  BY NoJobType DEF Job, Op, NoJob
<1>2. schemas \in [Schema -> SchemaRow] /\ schemas[s] \in SchemaRow
  BY DEF IInv, TypeOK
<1>3. row \in SchemaRow /\ row.ver = schemas[s].ver + 1
  <2>1. set \in SchemaRow
    BY <1>2 DEF SchemaRow
  <2>2. schemas[s].ver + 1 \in Nat /\ Unconstrained \in Constraint
    BY <1>2, NoJobType DEF SchemaRow
  <2> HIDE DEF set
  <2> QED
    BY <2>1, <2>2, RowEdits
<1>4. pc'[p] = "reload" /\ job'[p] = j /\ Alone(p) /\ PlacesTyped
  BY <1>1, Overwrites DEF ToggleSchema, Begin, IInv, PC
<1>5. schemas' = [schemas EXCEPT ![s] = row]
  BY <1>2 DEF ToggleSchema, SchemaRow
<1>6. schemas[s].live /\ UNCHANGED <<events, refs, memory>>
  BY DEF ToggleSchema
<1> HIDE DEF j, row
<1> QED
  BY <1>1, <1>3, <1>4, <1>5, <1>6, NoJobType, SchemaWrite

LEMMA StepWriteSchema ==
  ASSUME IInv, NEW p \in Request, WriteSchema(p)
  PROVE  TypeOK' /\ Steps /\ Tables
<1> DEFINE j == job[p]
           s == job[p].schema
<1>1. /\ pc[p] = "write" /\ j \in Job /\ s \in Schema /\ j.c \in Constraint
      /\ j.ver \in Nat /\ j.op \in {"update", "delete"}
      /\ schemas \in [Schema -> SchemaRow] /\ schemas[s] \in SchemaRow
      /\ UNCHANGED <<events, refs, memory>>
  BY DEF WriteSchema, IInv, TypeOK, Job, Phases
<1>2. CASE ~SchemaMatches(p)
  <2>1. UNCHANGED mysql /\ UNCHANGED memory
    BY <1>1, <1>2 DEF WriteSchema, mysql
  <2> QED
    BY <1>2, <2>1, Ends, Quietly DEF WriteSchema, IInv, Moves
<1>3. CASE SchemaMatches(p)
  <2> DEFINE row == Rewritten(schemas[s], j)
  <2>1. schemas' = [schemas EXCEPT ![s] = row] /\ Goto(p, "reload") /\ UNCHANGED job
    BY <1>3 DEF WriteSchema
  <2>2. schemas[s].live /\ (j.op = "update" => schemas[s].ver = j.ver)
    BY <1>3 DEF SchemaMatches
  <2>3. /\ row \in SchemaRow
        /\ \/ row.ver = schemas[s].ver + 1 /\ schemas[s].live
           \/ row.ver = schemas[s].ver /\ row.c = schemas[s].c /\ ~row.live
    <3>1. CASE j.op = "delete"
      BY <1>1, <3>1, RowEdits DEF Rewritten
    <3>2. CASE j.op # "delete"
      <4>1. j.ver + 1 \in Nat /\ row = [schemas[s] EXCEPT !.c = j.c, !.ver = j.ver + 1]
        BY <1>1, <3>2 DEF Rewritten
      <4>2. row \in SchemaRow /\ row.ver = j.ver + 1
        <5> HIDE DEF row, j, s
        <5> QED
          BY <1>1, <4>1, RowEdits
      <4> QED
        BY <1>1, <2>2, <3>2, <4>2
    <3> QED
      BY <3>1, <3>2
  <2>5. pc'[p] = "reload" /\ job'[p] = j /\ Alone(p) /\ PlacesTyped
    BY <2>1, Goes DEF IInv, PC
  <2>6. \A x \in Schema : j.copy[x] # Absent => schemas[x].ver # 0
    BY DEF IInv, KeysKnown
  <2> HIDE DEF row
  <2>7. j.op \notin {"createEvent", "updateEvent"}
    BY <1>1
  <2> QED
    BY <1>1, <2>1, <2>3, <2>5, <2>6, <2>7, SchemaWrite
<1> QED
  BY <1>2, <1>3

-----------------------------------------------------------------------------
(* The memory cache *)

LEMMA StepInstallMaps ==
  ASSUME IInv, NEW p \in Request, InstallMaps(p)
  PROVE  TypeOK' /\ Steps /\ Tables
<1>1. /\ UNCHANGED mysql /\ memory' = job[p].copy /\ job[p].copy \in Memory
      /\ Finishes(p) /\ Alone(p) /\ PlacesTyped
  BY Ends DEF InstallMaps, IInv, TypeOK, Job
<1>2. TypeOK'
  BY <1>1 DEF IInv, TypeOK, PlacesTyped, mysql
<1>3. KeysKept
  BY <1>1 DEF KeysKept, IInv, KeysKnown, mysql
<1>4. SchemasGrow /\ EventsGrow /\ RefsKept /\ ConfigIsReferred'
  BY <1>1 DEF SchemasGrow, EventsGrow, RefsKept, ConfigIsReferred, IInv, TypeOK,
     SchemaRow, EventRow, RowsOK, mysql
<1> QED
  BY <1>1, <1>2, <1>3, <1>4, AloneSteps DEF Tables, Moves

LEMMA StepRestart ==
  ASSUME IInv, Restart
  PROVE  TypeOK' /\ Steps /\ Tables
<1>1. /\ UNCHANGED mysql /\ memory' = ListEnabled
      /\ \A p \in Request : Finishes(p)
  BY DEF Restart, Finishes
<1>2. ListEnabled \in Memory /\ \A s \in Schema : ListEnabled[s] # Absent => schemas[s].live
  BY DEF ListEnabled, Memory, IInv, TypeOK, SchemaRow
<1>3. TypeOK'
  BY <1>1, <1>2, NoJobType DEF IInv, TypeOK, Restart, mysql, PC
<1>4. KeysKept
  BY <1>1, <1>2 DEF KeysKept, IInv, KeysKnown, RowsOK, mysql
<1>5. SchemasGrow /\ EventsGrow /\ ConfigIsReferred'
  BY <1>1 DEF SchemasGrow, EventsGrow, ConfigIsReferred, IInv, TypeOK,
     SchemaRow, EventRow, RowsOK, mysql
<1>6. RefsKept
  BY <1>1 DEF RefsKept, mysql
<1>7. Steps
  BY <1>1 DEF Steps, Moves, Finishes, BeginsEvent
<1> QED
  BY <1>3, <1>4, <1>5, <1>6, <1>7 DEF Tables

-----------------------------------------------------------------------------
(* The actions that write event_types and schema_refs *)

\* What is the same whatever is written there.
LEMMA EventTables ==
  ASSUME IInv, UNCHANGED schemas, EventsGrow, RefsKept, KeysKept, ConfigIsReferred'
  PROVE  Tables
<1>1. SchemasGrow
  BY DEF SchemasGrow, IInv, TypeOK, SchemaRow, RowsOK
<1> QED
  BY <1>1 DEF Tables

LEMMA StepCommitEvent ==
  ASSUME IInv, NEW p \in Request, CommitEvent(p)
  PROVE  TypeOK' /\ Steps /\ Tables
<1> DEFINE j == job[p]
           e == job[p].event
           added == j.todo \cap Keys(j.ext)
           row == [live |-> TRUE, enabled |-> FALSE, ver |-> j.ver + 1, ext |-> j.ext]
<1>1. /\ pc[p] = "commit" /\ j.op \in {"createEvent", "updateEvent"}
      /\ e \in EventType /\ j.ver \in Nat /\ j.ext \in Extensions
      /\ j.todo \subseteq Schema /\ UNCHANGED <<schemas, memory>>
      /\ \A s \in j.todo : ~Shared(s)
  BY DEF CommitEvent, IInv, TypeOK, Job, Phases
<1>2. Finishes(p) /\ Alone(p) /\ PlacesTyped
  BY Ends DEF CommitEvent, IInv
<1>3. CASE ~EventMatches(p)
  <2>1. UNCHANGED mysql /\ UNCHANGED memory
    BY <1>1, <1>3 DEF CommitEvent, mysql
  <2> QED
    BY <1>2, <2>1, Quietly DEF Moves
<1>4. CASE EventMatches(p)
  <2>1. /\ events' = [events EXCEPT ![e] = row]
        /\ refs' = [s \in Schema |-> IF s \in added THEN refs[s] \cup {e}
                                     ELSE IF s \in j.todo THEN refs[s] \ {e}
                                     ELSE refs[s]]
    BY <1>4 DEF CommitEvent
  <2>2. /\ row \in EventRow /\ row.live /\ row.ver = j.ver + 1 /\ row.ext = j.ext
    BY <1>1 DEF EventRow
  <2>3. /\ events \in [EventType -> EventRow]
        /\ refs \in [Schema -> SUBSET (EventType \cup Holder)]
        /\ \A x \in EventType : events[x].ver \in Nat
                                /\ (events[x].live => events[x].ver > 0)
    BY DEF IInv, TypeOK, EventRow, RowsOK
  <2>4. /\ events[e].ver = j.ver
        /\ j.op = "updateEvent" => events[e].live /\ j.oldExt = events[e].ext
        /\ j.op = "createEvent" =>
             /\ j.oldExt = NoExtensions
             /\ \A q \in Request \ {p} : job[q].op = "createEvent" => job[q].event # e
    BY <1>1, <1>4 DEF EventMatches, IInv, EventRead
  <2> HIDE DEF row
  <2>5. \A x \in EventType : events'[x] = IF x = e THEN row ELSE events[x]
    BY <2>1, <2>3
  <2>6. TypeOK'
    <3>1. refs' \in [Schema -> SUBSET (EventType \cup Holder)]
      BY <1>1, <2>1, <2>3
    <3> QED
      BY <1>1, <1>2, <2>1, <2>2, <2>3, <3>1 DEF IInv, TypeOK, PlacesTyped
  <2>7. EventsGrow
    <3> SUFFICES ASSUME NEW x \in EventType
                 PROVE  /\ events[x].ver <= events'[x].ver
                        /\ events'[x].live => events'[x].ver > 0
                        /\ events'[x].live /\ events'[x].ver = events[x].ver =>
                             events[x].live /\ events'[x].ext = events[x].ext
                        /\ events[x].ver = 0 /\ events'[x].ver # 0 =>
                             \A q \in Request :
                               job[q].op = "createEvent" /\ job[q].event = x => Finishes(q)
      BY DEF EventsGrow
    <3>1. CASE x # e
      BY <2>3, <2>5, <3>1
    <3>2. CASE x = e
      <4>1. events'[x].ver = events[x].ver + 1
        BY <2>2, <2>4, <2>5, <3>2
      <4>2. ASSUME events[x].ver = 0, NEW q \in Request,
                   job[q].op = "createEvent", job[q].event = x
            PROVE  Finishes(q)
        <5>1. j.op = "createEvent"
          BY <1>1, <2>3, <2>4, <3>2, <4>2
        <5> QED
          BY <1>2, <2>4, <3>2, <4>2, <5>1
      <4> QED
        BY <2>3, <4>1, <4>2
    <3> QED
      BY <3>1, <3>2
  <2>8. RefsKept
    <3> SUFFICES ASSUME NEW q \in Request, pc[q] = "write"
                 PROVE  refs'[job[q].schema] = refs[job[q].schema]
      BY DEF RefsKept
    <3>1. job[q].schema \in Schema /\ Shared(job[q].schema)
      BY DEF Shared, IInv, TypeOK, Job
    <3> QED
      BY <1>1, <2>1, <3>1
  <2>9. KeysKept
    BY <1>1, <2>2, <2>5 DEF KeysKept, IInv, KeysKnown, Keys
  <2>10. ConfigIsReferred'
    <3> SUFFICES ASSUME NEW x \in EventType, NEW s \in Schema, events'[x].live,
                        schemas[s].live, events'[x].ext[s] # Absent
                 PROVE  x \in refs'[s]
      BY <1>1 DEF ConfigIsReferred
    <3>1. CASE x # e
      <4>1. x \in refs[s]
        BY <2>5, <3>1 DEF IInv, ConfigIsReferred
      <4> QED
        BY <2>1, <3>1, <4>1
    <3>2. CASE x = e
      <4>1. s \in Keys(j.ext)
        BY <2>2, <2>5, <3>2 DEF Keys
      <4>2. CASE s \in j.todo
        BY <2>1, <3>2, <4>1, <4>2
      <4>3. CASE s \notin j.todo
        <5>1. s \in Keys(j.oldExt)
          BY <1>1, <4>1, <4>3 DEF IInv, LookedUp
        <5>2. j.op = "updateEvent"
          BY <1>1, <2>4, <5>1 DEF Keys, NoExtensions
        <5>3. e \in refs[s]
          BY <1>1, <2>4, <5>1, <5>2 DEF IInv, ConfigIsReferred, Keys
        <5> QED
          BY <2>1, <3>2, <4>3, <5>3
      <4> QED
        BY <4>2, <4>3
    <3> QED
      BY <3>1, <3>2
  <2> QED
    BY <1>1, <1>2, <2>6, <2>7, <2>8, <2>9, <2>10, AloneSteps, EventTables DEF Moves
<1> QED
  BY <1>3, <1>4

LEMMA StepRemoveEvent ==
  ASSUME IInv, NEW p \in Request, RemoveEvent(p)
  PROVE  TypeOK' /\ Steps /\ Tables
<1> DEFINE e == job[p].event
<1>1. e \in EventType /\ UNCHANGED <<schemas, memory>>
  BY DEF RemoveEvent, IInv, TypeOK, Job
<1>2. Finishes(p) /\ Alone(p) /\ PlacesTyped
  BY Ends DEF RemoveEvent, IInv
<1>3. CASE ~events[e].live
  <2>1. UNCHANGED mysql /\ UNCHANGED memory
    BY <1>1, <1>3 DEF RemoveEvent, mysql
  <2> QED
    BY <1>2, <2>1, Quietly DEF Moves
<1>4. CASE events[e].live
  <2> DEFINE row == [events[e] EXCEPT !.live = FALSE]
  <2>1. /\ \A s \in Schema : e \in refs[s] => ~Shared(s)
        /\ events' = [events EXCEPT ![e].live = FALSE]
        /\ refs' = [s \in Schema |-> refs[s] \ {e}]
    BY <1>4 DEF RemoveEvent
  <2>2. /\ events \in [EventType -> EventRow]
        /\ refs \in [Schema -> SUBSET (EventType \cup Holder)]
        /\ \A x \in EventType : events[x].ver \in Nat
                                /\ (events[x].live => events[x].ver > 0)
    BY DEF IInv, TypeOK, EventRow, RowsOK
  <2>3. row \in EventRow /\ ~row.live /\ row.ver = events[e].ver /\ row.ext = events[e].ext
    BY <1>1, <2>2 DEF EventRow
  <2>4. events' = [events EXCEPT ![e] = row]
    BY <1>1, <2>1, <2>2 DEF EventRow
  <2> HIDE DEF row
  <2>5. \A x \in EventType : events'[x] = IF x = e THEN row ELSE events[x]
    BY <2>2, <2>4
  <2>6. TypeOK'
    <3>1. refs' \in [Schema -> SUBSET (EventType \cup Holder)]
      BY <2>1, <2>2
    <3> QED
      BY <1>1, <1>2, <2>2, <2>3, <2>4, <3>1 DEF IInv, TypeOK, PlacesTyped
  <2>7. EventsGrow
    BY <1>1, <2>2, <2>3, <2>5 DEF EventsGrow
  <2>8. RefsKept
    <3> SUFFICES ASSUME NEW q \in Request, pc[q] = "write"
                 PROVE  refs'[job[q].schema] = refs[job[q].schema]
      BY DEF RefsKept
    <3>1. job[q].schema \in Schema /\ Shared(job[q].schema)
      BY DEF Shared, IInv, TypeOK, Job
    <3> QED
      BY <2>1, <3>1
  <2>9. KeysKept
    BY <1>1, <2>3, <2>5 DEF KeysKept, IInv, KeysKnown
  <2>10. ConfigIsReferred'
    <3> SUFFICES ASSUME NEW x \in EventType, NEW s \in Schema, events'[x].live,
                        schemas[s].live, events'[x].ext[s] # Absent
                 PROVE  x \in refs'[s]
      BY <1>1 DEF ConfigIsReferred
    <3>1. x # e /\ events'[x] = events[x]
      BY <2>3, <2>5
    <3>2. x \in refs[s]
      BY <3>1 DEF IInv, ConfigIsReferred
    <3> QED
      BY <2>1, <3>1, <3>2
  <2> QED
    BY <1>1, <1>2, <2>6, <2>7, <2>8, <2>9, <2>10, AloneSteps, EventTables DEF Moves
<1> QED
  BY <1>3, <1>4

LEMMA StepToggleEvent ==
  ASSUME IInv, NEW e \in EventType, NEW b \in BOOLEAN, ToggleEvent(e, b)
  PROVE  TypeOK' /\ Steps /\ Tables
<1> DEFINE set == [events[e] EXCEPT !.enabled = b]
           row == [set EXCEPT !.ver = events[e].ver + 1]
<1>1. /\ events[e].live /\ UNCHANGED <<schemas, refs, memory, pc, job>>
      /\ events \in [EventType -> EventRow]
      /\ \A x \in EventType : events[x].ver \in Nat
                              /\ (events[x].live => events[x].ver > 0)
  BY DEF ToggleEvent, IInv, TypeOK, EventRow, RowsOK
<1>2. events' = [events EXCEPT ![e] = row]
  BY <1>1 DEF ToggleEvent, EventRow
<1>3. set \in EventRow /\ set.ext = events[e].ext
  BY <1>1 DEF EventRow
<1>4. row \in EventRow /\ row.ver = events[e].ver + 1 /\ row.ext = events[e].ext
  <2> HIDE DEF set
  <2> QED
    BY <1>1, <1>3 DEF EventRow
<1> HIDE DEF row, set
<1>5. \A x \in EventType : events'[x] = IF x = e THEN row ELSE events[x]
  BY <1>1, <1>2
<1>6. TypeOK'
  BY <1>1, <1>2, <1>4 DEF IInv, TypeOK
<1>7. EventsGrow
  BY <1>1, <1>4, <1>5 DEF EventsGrow
<1>8. RefsKept /\ KeysKept
  BY <1>1, <1>4, <1>5 DEF RefsKept, KeysKept, IInv, KeysKnown
<1>9. ConfigIsReferred'
  BY <1>1, <1>4, <1>5 DEF ConfigIsReferred, IInv
<1> QED
  BY <1>1, <1>6, <1>7, <1>8, <1>9, NobodySteps, EventTables

LEMMA StepSyncHolderRef ==
  ASSUME IInv, NEW h \in Holder, NEW s \in Schema, SyncHolderRef(h, s)
  PROVE  TypeOK' /\ Steps /\ Tables
<1>1. /\ ~Shared(s) /\ UNCHANGED <<schemas, events, memory, pc, job>>
      /\ refs \in [Schema -> SUBSET (EventType \cup Holder)]
      /\ refs' = [refs EXCEPT ![s] = IF h \in refs[s] THEN refs[s] \ {h}
                                     ELSE refs[s] \cup {h}]
  BY DEF SyncHolderRef, IInv, TypeOK
<1>2. TypeOK'
  BY <1>1 DEF IInv, TypeOK
<1>3. RefsKept
  <2> SUFFICES ASSUME NEW q \in Request, pc[q] = "write"
               PROVE  refs'[job[q].schema] = refs[job[q].schema]
    BY DEF RefsKept
  <2>1. job[q].schema \in Schema /\ Shared(job[q].schema)
    BY DEF Shared, IInv, TypeOK, Job
  <2> QED
    BY <1>1, <2>1
<1>4. KeysKept
  BY <1>1 DEF KeysKept, IInv, KeysKnown
<1>5. EventsGrow
  BY <1>1 DEF EventsGrow, IInv, TypeOK, EventRow, RowsOK
<1>6. ConfigIsReferred'
  <2>1. \A x \in EventType, t \in Schema : x \in refs[t] => x \in refs'[t]
    BY <1>1, IdAssumption
  <2> QED
    BY <1>1, <2>1 DEF ConfigIsReferred, IInv
<1> QED
  BY <1>1, <1>2, <1>3, <1>4, <1>5, <1>6, NobodySteps, EventTables

-----------------------------------------------------------------------------
(* The theorems *)

LEMMA InitInv == Init => IInv
<1> SUFFICES ASSUME Init PROVE IInv
  OBVIOUS
<1>1. NoSchema \in SchemaRow /\ NoEvent \in EventRow
  BY NoJobType DEF NoSchema, NoEvent, SchemaRow, EventRow
<1>2. TypeOK
  BY <1>1, NoJobType DEF Init, TypeOK, PC
<1>3. \A p \in Request : pc[p] = "idle" /\ job[p] = NoJob /\ job[p].op = "none"
  BY DEF Init, NoJob
<1>4. Phases /\ SchemaRead /\ LockKeeps /\ EventRead /\ LookedUp
  BY <1>3 DEF Phases, SchemaRead, LockKeeps, EventRead, LookedUp
<1>5. RowsOK
  BY DEF Init, RowsOK, NoSchema, NoEvent
<1>6. KeysKnown
  <2>1. \A p \in Request, s \in Schema : job[p].copy[s] = Absent
    BY <1>3, NoJobType DEF NoJob
  <2>2. \A e \in EventType, s \in Schema : events[e].ext[s] = Absent
    BY DEF Init, NoEvent, NoExtensions
  <2>3. \A s \in Schema : memory[s] = Absent
    BY NoJobType DEF Init
  <2> QED
    BY <1>3, <2>1, <2>2, <2>3 DEF KeysKnown
<1>7. ConfigIsReferred
  BY DEF Init, ConfigIsReferred, NoEvent
<1> QED
  BY <1>2, <1>4, <1>5, <1>6, <1>7 DEF IInv

LEMMA StepServeSchema ==
  ASSUME IInv, NEW p \in Request, ServeSchema(p)
  PROVE  TypeOK' /\ Steps /\ Tables
BY StepCreateSchema, StepBeginUpdateSchema, StepToggleSchema, StepBeginDeletes,
   StepHasRefsTx, StepWriteSchema, StepLoadRows, StepInstallMaps DEF ServeSchema

LEMMA StepServeEvent ==
  ASSUME IInv, NEW p \in Request, ServeEvent(p)
  PROVE  TypeOK' /\ Steps /\ Tables
BY StepBeginEvents, StepBeginDeletes, StepValidateExtension, StepLookupSchemas,
   StepCommitEvent, StepRemoveEvent DEF ServeEvent

LEMMA NextInv == IInv /\ [Next]_vars => IInv'
<1> SUFFICES ASSUME IInv, [Next]_vars PROVE IInv'
  OBVIOUS
<1>1. CASE UNCHANGED vars
  <2>1. TypeOK'
    BY <1>1 DEF IInv, TypeOK, vars, mysql
  <2> QED
    BY <1>1, <2>1, SameTables, NobodySteps, Preserved DEF vars
<1>2. CASE Next
  <2>1. TypeOK' /\ Steps /\ Tables
    BY <1>2, StepServeSchema, StepServeEvent, StepFail, StepToggleEvent,
       StepSyncHolderRef, StepRestart DEF Next
  <2> QED
    BY <2>1, Preserved
<1> QED
  BY <1>1, <1>2

\* The invariant: what each request has read, found and locked so far still
\* means what its commit takes it to mean.
THEOREM SchemaInvariance == Spec => []IInv
<1>1. Init => IInv
  BY InitInv
<1>2. IInv /\ [Next]_vars => IInv'
  BY NextInv
<1> QED
  BY <1>1, <1>2, PTL DEF Spec

\* Type correctness.
THEOREM SchemaTypes == Spec => []TypeOK
<1>1. IInv => TypeOK
  BY DEF IInv
<1> QED
  BY <1>1, SchemaInvariance, PTL

\* Every key that an event type has of a live schema is counted by its references,
\* although SyncSchemaRefs skips keys it cannot find and look-ups that fail.
THEOREM ConfigReferred == Spec => []ConfigIsReferred
<1>1. IInv => ConfigIsReferred
  BY DEF IInv
<1> QED
  BY <1>1, SchemaInvariance, PTL

\* One step neither deletes nor tightens a schema that is referred to.
LEMMA NextLoosens ==
  ASSUME IInv, [Next]_vars, NEW s \in Schema, schemas[s].live, refs[s] # {}
  PROVE  /\ schemas'[s].live
         /\ ~CheckConstraintTightened(Type[s], schemas[s].c, schemas'[s].c)
<1>1. /\ schemas \in [Schema -> SchemaRow] /\ schemas[s].c \in Constraint
      /\ schemas[s].ver > 0 /\ schemas[s] \in SchemaRow
  BY DEF IInv, TypeOK, SchemaRow, RowsOK
<1>2. ASSUME schemas'[s].live, schemas'[s].c = schemas[s].c
      PROVE  ~CheckConstraintTightened(Type[s], schemas[s].c, schemas'[s].c)
  BY <1>1, <1>2, SameIsLoose
<1>3. CASE UNCHANGED schemas
  BY <1>2, <1>3
<1>4. ASSUME NEW p \in Request, NEW x \in Schema, NEW c \in Constraints,
             CreateSchema(p, x, c)
      PROVE  schemas'[s] = schemas[s]
  BY <1>1, <1>4 DEF CreateSchema
<1>5. ASSUME NEW p \in Request, NEW x \in Schema, NEW b \in BOOLEAN,
             ToggleSchema(p, x, b)
      PROVE  schemas'[s].live /\ schemas'[s].c = schemas[s].c
  <2> DEFINE set == [schemas[x] EXCEPT !.enabled = b]
             row == [set EXCEPT !.ver = schemas[x].ver + 1]
  <2>1. schemas' = [schemas EXCEPT ![x] = row]
    BY <1>1, <1>5 DEF ToggleSchema, SchemaRow
  <2>2. /\ set \in SchemaRow /\ set.live = schemas[x].live /\ set.c = schemas[x].c
    BY <1>1 DEF SchemaRow
  <2>3. row.live = set.live /\ row.c = set.c
    <3> HIDE DEF set
    <3> QED
      BY <2>2 DEF SchemaRow
  <2> HIDE DEF row, set
  <2> QED
    BY <1>1, <2>1, <2>2, <2>3
<1>6. ASSUME NEW p \in Request, WriteSchema(p)
      PROVE  /\ schemas'[s].live
             /\ ~CheckConstraintTightened(Type[s], schemas[s].c, schemas'[s].c)
  <2> DEFINE j == job[p]
  <2>1. CASE SchemaMatches(p) /\ j.schema = s
    <3>1. /\ pc[p] = "write" /\ ~Refused(p) /\ j.op \in {"update", "delete"}
          /\ schemas' = [schemas EXCEPT ![s] = Rewritten(schemas[s], j)]
      BY <1>6, <2>1 DEF WriteSchema, IInv, Phases, LockKeeps
    <3>2. j.op = "update" /\ ~CheckConstraintTightened(Type[s], j.old, j.c)
      BY <2>1, <3>1 DEF Refused
    <3>3. j.old = schemas[s].c
      BY <2>1, <3>1, <3>2 DEF SchemaMatches, IInv, SchemaRead
    <3>4. /\ schemas'[s] = [schemas[s] EXCEPT !.c = j.c, !.ver = j.ver + 1]
      BY <1>1, <3>1, <3>2 DEF Rewritten
    <3>5. schemas'[s].live /\ schemas'[s].c = j.c
      BY <1>1, <3>4 DEF SchemaRow
    <3> QED
      BY <3>2, <3>3, <3>5
  <2>2. CASE ~(SchemaMatches(p) /\ j.schema = s)
    <3>1. schemas'[s] = schemas[s]
      BY <1>1, <1>6, <2>2 DEF WriteSchema
    <3> QED
      BY <1>2, <3>1
  <2> QED
    BY <2>1, <2>2
<1>7. ASSUME NEW p \in Request, ServeSchema(p)
      PROVE  /\ schemas'[s].live
             /\ ~CheckConstraintTightened(Type[s], schemas[s].c, schemas'[s].c)
  <2>1. CASE \/ \E x \in Schema, c \in Constraints : BeginUpdateSchema(p, x, c)
             \/ \E x \in Schema : BeginDeleteSchema(p, x)
             \/ HasRefsTx(p) \/ LoadRows(p) \/ InstallMaps(p)
    <3>1. UNCHANGED schemas
      BY <2>1 DEF BeginUpdateSchema, BeginDeleteSchema, HasRefsTx, LoadRows,
         InstallMaps, mysql
    <3> QED
      BY <1>3, <3>1
  <2>2. CASE \E x \in Schema, c \in Constraints : CreateSchema(p, x, c)
    BY <1>2, <1>4, <2>2
  <2>3. CASE \E x \in Schema, b \in BOOLEAN : ToggleSchema(p, x, b)
    BY <1>2, <1>5, <2>3
  <2> QED
    BY <1>6, <1>7, <2>1, <2>2, <2>3 DEF ServeSchema
<1>8. ASSUME \/ \E p \in Request : ServeEvent(p) \/ Fail(p)
             \/ \E e \in EventType, b \in BOOLEAN : ToggleEvent(e, b)
             \/ \E h \in Holder, x \in Schema : SyncHolderRef(h, x)
             \/ Restart
      PROVE  UNCHANGED schemas
  BY <1>8 DEF ServeEvent, BeginCreateEvent, BeginUpdateEvent, BeginDeleteEvent,
     ValidateExtension, LookupSchemas, CommitEvent, RemoveEvent, Fail, ToggleEvent,
     SyncHolderRef, Restart, mysql
<1> QED
  BY <1>3, <1>7, <1>8 DEF Next, vars, mysql

\* The old constraints are read before the transaction and the row is written by
\* a version that was read then too; between them, the share lock on the
\* references.  Together they are enough.
THEOREM ReferredLoosens == Spec => ReferredOnlyLoosens
<1> DEFINE Loosens ==
      \A s \in Schema : schemas[s].live /\ refs[s] # {} =>
        /\ schemas'[s].live
        /\ ~CheckConstraintTightened(Type[s], schemas[s].c, schemas'[s].c)
<1>1. IInv /\ [Next]_vars => [Loosens]_vars
  BY NextLoosens
<1>2. Spec => [][Loosens]_vars
  BY <1>1, SchemaInvariance, PTL DEF Spec
<1> QED
  BY <1>2 DEF ReferredOnlyLoosens

-----------------------------------------------------------------------------
(* One request at a time, without failures *)

\* A step that leaves the tables and the memory cache alone, by what it does to
\* the request.
LEMMA SerialQuietly ==
  ASSUME Serial, SerialInv, NEW p \in Request, UNCHANGED mysql, UNCHANGED memory,
         pc[p] \notin {"reload", "install"},
         pc'[p] \notin {"reload", "install"},
         pc'[p] = "commit" =>
           job'[p].todo = {s \in DiffKeys(p, {})' : schemas[s].live}
  PROVE  SerialInv'
<1>1. \A q \in Request : q = p
  BY DEF Serial
<1>2. RefsMatchConfig' /\ ReferredExist'
  BY DEF SerialInv, RefsMatchConfig, ReferredExist, mysql
<1>3. DifferenceInHand'
  BY <1>1 DEF DifferenceInHand, mysql
<1>4. CacheInHand'
  BY <1>1 DEF SerialInv, CacheInHand, ListEnabled, mysql
<1> QED
  BY <1>2, <1>3, <1>4 DEF SerialInv

\* A step that writes schemas; only new ones become live.
LEMMA SerialSchema ==
  ASSUME IInv, TypeOK', Serial, SerialInv, NEW p \in Request, SchemasGrow,
         UNCHANGED <<events, refs>>, pc'[p] = "reload"
  PROVE  SerialInv'
<1>1. \A q \in Request : q = p
  BY DEF Serial
<1>2. \A s \in Schema : schemas'[s].ver = 0 => schemas[s].ver = 0
  BY DEF SchemasGrow, IInv, TypeOK, SchemaRow
<1>3. ReferredExist'
  BY <1>2 DEF SerialInv, ReferredExist
<1>4. RefsMatchConfig'
  <2> SUFFICES ASSUME NEW e \in EventType, NEW s \in Schema, schemas'[s].live
               PROVE  e \in refs[s] <=> events[e].live /\ events[e].ext[s] # Absent
    BY DEF RefsMatchConfig
  <2>1. CASE schemas[s].live
    BY <2>1 DEF SerialInv, RefsMatchConfig
  <2>2. CASE schemas[s].ver = 0
    BY <2>2 DEF SerialInv, ReferredExist, IInv, KeysKnown
  <2> QED
    BY <2>1, <2>2 DEF SchemasGrow
<1>5. DifferenceInHand' /\ CacheInHand'
  BY <1>1 DEF DifferenceInHand, CacheInHand
<1> QED
  BY <1>3, <1>4, <1>5 DEF SerialInv

\* The place of a request after Begin, Goto and Finish.
LEMMA BeginPlace ==
  ASSUME TypeOK, NEW p \in Request, NEW l, NEW j, Begin(p, l, j)
  PROVE  pc[p] = "idle" /\ pc'[p] = l /\ job'[p] = j
BY DEF Begin, Goto, TypeOK

LEMMA SerialServeSchema ==
  ASSUME IInv, TypeOK', Serial, SerialInv, NEW p \in Request, ServeSchema(p)
  PROVE  SerialInv'
<1>0. TypeOK /\ SchemasGrow /\ \A q \in Request : q = p
  BY StepServeSchema DEF Serial, IInv, Tables
<1>1. ASSUME NEW s \in Schema, NEW c \in Constraints, CreateSchema(p, s, c)
      PROVE  SerialInv'
  BY <1>0, <1>1, BeginPlace, SerialSchema DEF CreateSchema
<1>2. ASSUME NEW s \in Schema, NEW b \in BOOLEAN, ToggleSchema(p, s, b)
      PROVE  SerialInv'
  BY <1>0, <1>2, BeginPlace, SerialSchema DEF ToggleSchema
<1>3. ASSUME NEW s \in Schema, NEW c \in Constraints, BeginUpdateSchema(p, s, c)
      PROVE  SerialInv'
  BY <1>0, <1>3, BeginPlace, SerialQuietly DEF BeginUpdateSchema
<1>4. ASSUME NEW s \in Schema, BeginDeleteSchema(p, s)
      PROVE  SerialInv'
  BY <1>0, <1>4, BeginPlace, SerialQuietly DEF BeginDeleteSchema
<1>5. CASE HasRefsTx(p)
  <2>1. pc[p] = "refs" /\ pc'[p] \in {"idle", "write"}
    BY <1>0, <1>5 DEF HasRefsTx, Finish, Goto, TypeOK
  <2> QED
    BY <1>5, <2>1, SerialQuietly DEF HasRefsTx
<1>6. CASE WriteSchema(p)
  <2>1. CASE SchemaMatches(p)
    <3>1. pc'[p] = "reload" /\ UNCHANGED <<events, refs>>
      BY <1>0, <1>6, <2>1 DEF WriteSchema, Goto, TypeOK
    <3> QED
      BY <1>0, <3>1, SerialSchema
  <2>2. CASE ~SchemaMatches(p)
    <3>1. pc[p] = "write" /\ pc'[p] = "idle" /\ UNCHANGED mysql /\ UNCHANGED memory
      BY <1>0, <1>6, <2>2 DEF WriteSchema, Finish, Goto, TypeOK, mysql
    <3> QED
      BY <3>1, SerialQuietly
  <2> QED
    BY <2>1, <2>2
<1>7. CASE LoadRows(p)
  <2>1. /\ pc'[p] = "install" /\ job'[p].copy = ListEnabled
        /\ UNCHANGED mysql /\ UNCHANGED memory
    BY <1>0, <1>7 DEF LoadRows, Goto, TypeOK, Job
  <2>2. RefsMatchConfig' /\ ReferredExist'
    BY <2>1 DEF SerialInv, RefsMatchConfig, ReferredExist, mysql
  <2>3. DifferenceInHand' /\ CacheInHand'
    BY <1>0, <2>1 DEF DifferenceInHand, CacheInHand, ListEnabled, mysql
  <2> QED
    BY <2>2, <2>3 DEF SerialInv
<1>8. CASE InstallMaps(p)
  <2>1. pc[p] = "install" /\ memory' = job[p].copy /\ pc'[p] = "idle" /\ UNCHANGED mysql
    BY <1>0, <1>8 DEF InstallMaps, Finish, Goto, TypeOK
  <2>2. RefsMatchConfig' /\ ReferredExist'
    BY <2>1 DEF SerialInv, RefsMatchConfig, ReferredExist, mysql
  <2>3. DifferenceInHand' /\ CacheInHand'
    BY <1>0, <2>1 DEF SerialInv, DifferenceInHand, CacheInHand, ListEnabled, mysql
  <2> QED
    BY <2>2, <2>3 DEF SerialInv
<1> QED
  BY <1>1, <1>2, <1>3, <1>4, <1>5, <1>6, <1>7, <1>8 DEF ServeSchema

\* The difference that is written is the one between the row and the request: the
\* references are the keys again.
LEMMA SerialCommitEvent ==
  ASSUME IInv, TypeOK', Serial, SerialInv, NEW p \in Request, CommitEvent(p)
  PROVE  SerialInv'
<1> DEFINE j == job[p]
           e == job[p].event
<1>0. /\ TypeOK /\ j \in Job /\ e \in EventType /\ pc[p] = "commit"
      /\ \A q \in Request : q = p
      /\ pc'[p] = "idle" /\ UNCHANGED schemas /\ UNCHANGED memory
      /\ j.op \in {"createEvent", "updateEvent"}
  BY DEF CommitEvent, Finish, Goto, Serial, IInv, TypeOK, Job, Phases
<1>1. CASE ~EventMatches(p)
  BY <1>0, <1>1, SerialQuietly DEF CommitEvent, mysql
<1>2. CASE EventMatches(p)
  <2> DEFINE Row == [live |-> TRUE, enabled |-> FALSE, ver |-> j.ver + 1, ext |-> j.ext]
             Added == j.todo \cap Keys(j.ext)
  <2>1. /\ events' = [events EXCEPT ![e] = Row]
        /\ refs' = [s \in Schema |-> IF s \in Added THEN refs[s] \cup {e}
                                     ELSE IF s \in j.todo THEN refs[s] \ {e}
                                     ELSE refs[s]]
    BY <1>2 DEF CommitEvent
  <2>2. \A s \in Schema : s \in j.todo <=>
          schemas[s].live /\ (j.ext[s] # Absent <=> j.oldExt[s] = Absent)
    BY <1>0 DEF SerialInv, DifferenceInHand, DiffKeys, Keys
  <2>3. \A s \in Schema : schemas[s].live =>
          (e \in refs[s] <=> j.oldExt[s] # Absent)
    <3>1. CASE j.op = "updateEvent"
      BY <1>0, <1>2, <3>1 DEF EventMatches, IInv, EventRead, SerialInv, RefsMatchConfig
    <3>2. CASE j.op = "createEvent"
      <4>1. ~events[e].live /\ j.oldExt = NoExtensions
        BY <1>0, <3>2 DEF IInv, EventRead, RowsOK
      <4> QED
        BY <1>0, <4>1 DEF NoExtensions, SerialInv, RefsMatchConfig
    <3> QED
      BY <1>0, <3>1, <3>2
  <2>4. events \in [EventType -> EventRow] /\ events'[e].live /\ events'[e].ext = j.ext
    BY <1>0, <2>1 DEF TypeOK
  <2>5. RefsMatchConfig'
    <3> SUFFICES ASSUME NEW f \in EventType, NEW s \in Schema, schemas[s].live
                 PROVE  f \in refs'[s] <=> events'[f].live /\ events'[f].ext[s] # Absent
      BY <1>0 DEF RefsMatchConfig
    <3>1. CASE f = e
      BY <2>1, <2>2, <2>3, <2>4, <3>1 DEF Keys
    <3>2. CASE f # e
      <4>1. events'[f] = events[f] /\ (f \in refs'[s] <=> f \in refs[s])
        BY <2>1, <2>4, <3>2
      <4> QED
        BY <4>1 DEF SerialInv, RefsMatchConfig
    <3> QED
      BY <3>1, <3>2
  <2>6. ReferredExist'
    <3> SUFFICES ASSUME NEW s \in Schema, schemas[s].ver = 0
                 PROVE  refs'[s] \cap EventType = {}
      BY <1>0 DEF ReferredExist
    <3>1. s \notin j.todo
      BY <2>2 DEF IInv, RowsOK
    <3> QED
      BY <2>1, <3>1 DEF SerialInv, ReferredExist
  <2>7. DifferenceInHand' /\ CacheInHand'
    BY <1>0 DEF DifferenceInHand, CacheInHand, SerialInv, ListEnabled
  <2> QED
    BY <2>5, <2>6, <2>7 DEF SerialInv
<1> QED
  BY <1>1, <1>2

LEMMA SerialRemoveEvent ==
  ASSUME IInv, TypeOK', Serial, SerialInv, NEW p \in Request, RemoveEvent(p)
  PROVE  SerialInv'
<1> DEFINE e == job[p].event
<1>0. /\ TypeOK /\ e \in EventType /\ pc[p] = "remove" /\ pc'[p] = "idle"
      /\ UNCHANGED schemas /\ UNCHANGED memory /\ \A q \in Request : q = p
  BY DEF RemoveEvent, Finish, Goto, Serial, IInv, TypeOK, Job
<1>1. CASE ~events[e].live
  BY <1>0, <1>1, SerialQuietly DEF RemoveEvent, mysql
<1>2. CASE events[e].live
  <2>1. /\ events' = [events EXCEPT ![e].live = FALSE]
        /\ refs' = [s \in Schema |-> refs[s] \ {e}]
    BY <1>2 DEF RemoveEvent
  <2>2. /\ ~events'[e].live
        /\ \A f \in EventType \ {e} : events'[f] = events[f]
    BY <1>0, <2>1 DEF TypeOK, EventRow
  <2>3. RefsMatchConfig' /\ ReferredExist'
    BY <1>0, <2>1, <2>2 DEF SerialInv, RefsMatchConfig, ReferredExist
  <2>4. DifferenceInHand' /\ CacheInHand'
    BY <1>0 DEF DifferenceInHand, CacheInHand, SerialInv, ListEnabled
  <2> QED
    BY <2>3, <2>4 DEF SerialInv
<1> QED
  BY <1>1, <1>2

LEMMA SerialServeEvent ==
  ASSUME IInv, TypeOK', Serial, SerialInv, NEW p \in Request, ServeEvent(p)
  PROVE  SerialInv'
<1>0. TypeOK
  BY DEF IInv
<1>1. ASSUME NEW e \in EventType, NEW ext \in ExtensionInput,
             BeginCreateEvent(p, e, ext) \/ BeginUpdateEvent(p, e, ext)
      PROVE  SerialInv'
  BY <1>0, <1>1, BeginPlace, SerialQuietly DEF BeginCreateEvent, BeginUpdateEvent
<1>2. ASSUME NEW e \in EventType, BeginDeleteEvent(p, e)
      PROVE  SerialInv'
  BY <1>0, <1>2, BeginPlace, SerialQuietly DEF BeginDeleteEvent
<1>3. ASSUME NEW s \in Schema, ValidateExtension(p, s)
      PROVE  SerialInv'
  <2>1. pc[p] = "validate" /\ pc'[p] \in {"idle", "validate"}
    BY <1>0, <1>3 DEF ValidateExtension, Finish, Goto, TypeOK
  <2> QED
    BY <1>3, <2>1, SerialQuietly DEF ValidateExtension
<1>4. ASSUME NEW missed \in SUBSET Schema, LookupSchemas(p, missed)
      PROVE  SerialInv'
  <2>1. missed = {} /\ pc[p] = "validate"
    BY <1>4 DEF LookupSchemas, Serial
  <2>2. /\ pc'[p] = "commit" /\ job[p] \in Job
        /\ job' = [job EXCEPT ![p].todo = {s \in DiffKeys(p, {}) : schemas[s].live}]
    BY <1>0, <1>4, <2>1 DEF LookupSchemas, Goto, TypeOK
  <2>3. /\ job'[p].todo = {s \in DiffKeys(p, {}) : schemas[s].live}
        /\ job'[p].ext = job[p].ext /\ job'[p].oldExt = job[p].oldExt
    BY <1>0, <2>2 DEF TypeOK, Job
  <2>4. DiffKeys(p, {})' = DiffKeys(p, {})
    BY <2>3 DEF DiffKeys, Keys
  <2> QED
    BY <1>4, <2>1, <2>2, <2>3, <2>4, SerialQuietly DEF LookupSchemas
<1> QED
  BY <1>1, <1>2, <1>3, <1>4, SerialCommitEvent, SerialRemoveEvent DEF ServeEvent

LEMMA SerialBeside ==
  ASSUME IInv, Serial, SerialInv, UNCHANGED <<schemas, memory, pc, job>>,
         RefsMatchConfig', ReferredExist'
  PROVE  SerialInv'
BY DEF SerialInv, DifferenceInHand, CacheInHand, ListEnabled, DiffKeys, Keys

\* The steps of others that run beside the request.
LEMMA SerialToggleEvent ==
  ASSUME IInv, Serial, SerialInv, NEW e \in EventType, NEW b \in BOOLEAN, ToggleEvent(e, b)
  PROVE  SerialInv'
<1>1. \A f \in EventType : events'[f].live = events[f].live /\ events'[f].ext = events[f].ext
  <2>1. events' = [events EXCEPT ![e] = [events[e] EXCEPT !.enabled = b, !.ver = @ + 1]]
    BY DEF ToggleEvent, IInv, TypeOK
  <2> QED
    BY <2>1 DEF IInv, TypeOK, EventRow
<1>2. UNCHANGED <<schemas, refs, memory, pc, job>>
  BY DEF ToggleEvent
<1>3. RefsMatchConfig'
  BY <1>1, <1>2 DEF SerialInv, RefsMatchConfig
<1>4. ReferredExist'
  BY <1>2 DEF SerialInv, ReferredExist
<1> QED
  BY <1>2, <1>3, <1>4, SerialBeside

LEMMA SerialSyncHolderRef ==
  ASSUME IInv, Serial, SerialInv, NEW h \in Holder, NEW s \in Schema, SyncHolderRef(h, s)
  PROVE  SerialInv'
<1>1. \A x \in Schema, e \in EventType : e \in refs'[x] <=> e \in refs[x]
  BY IdAssumption DEF SyncHolderRef, IInv, TypeOK
<1>2. RefsMatchConfig' /\ ReferredExist'
  BY <1>1 DEF SyncHolderRef, SerialInv, RefsMatchConfig, ReferredExist
<1> QED
  BY <1>2, SerialBeside DEF SyncHolderRef

LEMMA SerialStep ==
  ASSUME Serial
  PROVE  IInv /\ IInv' /\ SerialInv /\ [Next]_vars => SerialInv'
<1> SUFFICES ASSUME IInv, IInv', SerialInv, [Next]_vars PROVE SerialInv'
  OBVIOUS
<1>1. TypeOK'
  BY DEF IInv
<1>2. CASE UNCHANGED vars
  BY <1>2, SerialBeside
  DEF vars, mysql, SerialInv, RefsMatchConfig, ReferredExist
<1>3. ~Restart /\ \A p \in Request : ~Fail(p)
  BY DEF Serial, Restart, Fail
<1> QED
  BY <1>1, <1>2, <1>3, SerialServeSchema, SerialServeEvent, SerialToggleEvent,
     SerialSyncHolderRef DEF Next

LEMMA SerialStart == Init => SerialInv
<1> SUFFICES ASSUME Init PROVE SerialInv
  OBVIOUS
<1>1. \A s \in Schema : ~schemas[s].live /\ refs[s] = {}
  BY DEF Init, NoSchema
<1>2. memory = ListEnabled
  BY <1>1 DEF Init, NoMemory, ListEnabled
<1> QED
  BY <1>1, <1>2 DEF Init, SerialInv, RefsMatchConfig, ReferredExist, DifferenceInHand,
                    CacheInHand

\* One request at a time, without failures: what the request has looked up is the
\* difference to the row as it is, and only it is behind with the cache.
THEOREM SerialInvariance ==
  ASSUME Serial
  PROVE  Spec => []SerialInv
<1>1. IInv /\ IInv' /\ SerialInv /\ [Next]_vars => SerialInv'
  BY SerialStep
<1> QED
  BY <1>1, SerialStart, SchemaInvariance, PTL DEF Spec

\* One request at a time, without failures: of a live schema, the rows in
\* schema_refs are the event types that have a value for it and no others.
THEOREM RefsMatch ==
  ASSUME Serial
  PROVE  Spec => []RefsMatchConfig
<1>1. SerialInv => RefsMatchConfig
  BY DEF SerialInv
<1> QED
  BY <1>1, SerialInvariance, PTL

\* One request at a time, without failures: whenever none is under way, the memory
\* cache has the enabled schemas with the constraints they have in the table.
THEOREM CacheIsCurrent ==
  ASSUME Serial
  PROVE  Spec => []CacheCurrent
<1>1. SerialInv => CacheCurrent
  BY DEF SerialInv, CacheInHand, CacheCurrent, Quiet
<1> QED
  BY <1>1, SerialInvariance, PTL

-----------------------------------------------------------------------------
(* The values that are stored *)

\* No request's constraints bring a bound or options where another's have none;
\* what CheckConstraintTightened does not see does not occur then.
NothingIntroduced == \A c, d \in Constraints : ~Introduces(c, d)

\* A value that fits a schema that is referred to fits it after any step.
LEMMA FitsStays ==
  ASSUME NothingIntroduced, IInv, FromRequests, FromRequests', [Next]_vars,
         NEW s \in Schema, NEW v \in Value, FitsSchema(s, v), refs[s] # {}
  PROVE  FitsSchema(s, v)'
<1>1. schemas[s].live
  BY DEF FitsSchema
<1>2. schemas'[s].live /\ ~CheckConstraintTightened(Type[s], schemas[s].c, schemas'[s].c)
  BY <1>1, NextLoosens
<1>3. schemas[s].ver > 0 /\ schemas'[s].ver > 0
  BY <1>1, <1>2, NextInv DEF IInv, RowsOK
<1>4. schemas[s].c \in Constraints /\ schemas'[s].c \in Constraints
  BY <1>3 DEF FromRequests
<1>5. ~Introduces(schemas[s].c, schemas'[s].c)
  BY <1>4 DEF NothingIntroduced
<1> QED
  BY <1>2, <1>4, <1>5, InputAssumption, LooserKeepsValues DEF FitsSchema

\* The constraints of schemas are those of requests.
LEMMA FitFromRequests ==
  ASSUME Serial, IInv, IInv', FromRequests, [Next]_vars
  PROVE  FromRequests'
<1>0. /\ TypeOK /\ TypeOK'
      /\ \A p, q \in Request : p = q
  BY DEF Serial, IInv
<1>1. CASE UNCHANGED vars
  BY <1>1 DEF vars, mysql, FromRequests
<1>2. ASSUME UNCHANGED schemas, NEW p \in Request,
             pc'[p] \in {"refs", "write"} /\ job'[p].op = "update" =>
               job'[p].c \in Constraints
      PROVE  FromRequests'
  BY <1>0, <1>2 DEF FromRequests
<1>3. ASSUME NEW p \in Request, NEW s \in Schema, NEW c \in Constraints,
             CreateSchema(p, s, c)
      PROVE  FromRequests'
  <2>1. pc'[p] = "reload"
    BY <1>0, <1>3, BeginPlace DEF CreateSchema
  <2>2. /\ schemas'[s].c = c /\ \A x \in Schema \ {s} : schemas'[x] = schemas[x]
    BY <1>0, <1>3 DEF CreateSchema, TypeOK
  <2> QED
    BY <1>0, <2>1, <2>2 DEF FromRequests
<1>4. ASSUME NEW p \in Request, NEW s \in Schema, NEW b \in BOOLEAN, ToggleSchema(p, s, b)
      PROVE  FromRequests'
  <2>1. pc'[p] = "reload"
    BY <1>0, <1>4, BeginPlace DEF ToggleSchema
  <2>2. schemas'[s].c = schemas[s].c /\ schemas[s].ver > 0
    <3>1. schemas[s] \in SchemaRow /\ schemas[s].live
      BY <1>0, <1>4 DEF ToggleSchema, TypeOK
    <3>2. schemas'[s] = [schemas[s] EXCEPT !.enabled = b, !.ver = @ + 1]
      BY <1>0, <1>4 DEF ToggleSchema, TypeOK
    <3> QED
      BY <3>1, <3>2 DEF SchemaRow, IInv, RowsOK
  <2>3. \A x \in Schema \ {s} : schemas'[x] = schemas[x]
    BY <1>0, <1>4 DEF ToggleSchema, TypeOK
  <2> QED
    BY <1>0, <2>1, <2>2, <2>3 DEF FromRequests
<1>5. ASSUME NEW p \in Request, WriteSchema(p)
      PROVE  FromRequests'
  <2> DEFINE s == job[p].schema
  <2>1. /\ pc[p] = "write" /\ s \in Schema /\ schemas[s] \in SchemaRow
        /\ job[p].op \in {"update", "delete"}
    BY <1>0, <1>5 DEF WriteSchema, TypeOK, Job, IInv, Phases
  <2>2. CASE ~SchemaMatches(p)
    <3>1. pc'[p] = "idle" /\ UNCHANGED schemas
      BY <1>0, <1>5, <2>2 DEF WriteSchema, Finish, Goto, TypeOK
    <3> QED
      BY <1>2, <3>1
  <2>3. CASE SchemaMatches(p)
    <3>1. /\ pc'[p] = "reload" /\ schemas'[s] = Rewritten(schemas[s], job[p])
          /\ \A x \in Schema \ {s} : schemas'[x] = schemas[x]
      BY <1>0, <1>5, <2>1, <2>3 DEF WriteSchema, Goto, TypeOK
    <3>2. CASE job[p].op = "update"
      <4>1. schemas'[s].c = job[p].c
        BY <2>1, <3>1, <3>2 DEF Rewritten, SchemaRow
      <4> QED
        BY <1>0, <2>1, <3>1, <3>2, <4>1 DEF FromRequests
    <3>3. CASE job[p].op = "delete"
      <4>1. schemas'[s].c = schemas[s].c /\ schemas[s].ver > 0
        BY <2>1, <2>3, <3>1, <3>3 DEF Rewritten, SchemaRow, SchemaMatches, IInv, RowsOK
      <4> QED
        BY <1>0, <2>1, <3>1, <4>1 DEF FromRequests
    <3> QED
      BY <2>1, <3>2, <3>3
  <2> QED
    BY <2>2, <2>3
<1>6. ASSUME NEW p \in Request, NEW s \in Schema, NEW c \in Constraints,
             BeginUpdateSchema(p, s, c)
      PROVE  FromRequests'
  <2> DEFINE j == [NoJob EXCEPT !.op = "update", !.schema = s, !.c = c,
                   !.ver = schemas[s].ver, !.old = schemas[s].c]
  <2>1. job'[p].c = c /\ UNCHANGED schemas
    <3>1. j.c = c
      BY DEF NoJob
    <3>2. Begin(p, "refs", j) /\ UNCHANGED schemas
      BY <1>6 DEF BeginUpdateSchema, mysql
    <3> HIDE DEF j
    <3> QED
      BY <1>0, <3>1, <3>2, BeginPlace
  <2> QED
    BY <1>2, <2>1
<1>7. ASSUME NEW p \in Request,
             \/ \E s \in Schema : BeginDeleteSchema(p, s)
             \/ HasRefsTx(p) \/ LoadRows(p) \/ InstallMaps(p) \/ ServeEvent(p)
      PROVE  FromRequests'
  <2>1. UNCHANGED schemas
    BY <1>7 DEF BeginDeleteSchema, HasRefsTx, LoadRows, InstallMaps, ServeEvent,
       BeginCreateEvent, BeginUpdateEvent, BeginDeleteEvent, ValidateExtension,
       LookupSchemas, CommitEvent, RemoveEvent, mysql
  <2>2. CASE \E s \in Schema : BeginDeleteSchema(p, s)
    <3>1. job'[p].op = "delete"
      <4>1. PICK s \in Schema : BeginDeleteSchema(p, s)
        BY <2>2
      <4> DEFINE j == [NoJob EXCEPT !.op = "delete", !.schema = s]
      <4>2. Begin(p, "refs", j) /\ j.op = "delete"
        BY <4>1 DEF BeginDeleteSchema, NoJob
      <4> HIDE DEF j
      <4> QED
        BY <1>0, <4>2, BeginPlace
    <3> QED
      BY <1>2, <2>1, <3>1
  <2>3. CASE HasRefsTx(p)
    <3>0. pc[p] = "refs"
      BY <2>3 DEF HasRefsTx
    <3>1. pc'[p] = "idle" \/ (pc'[p] = "write" /\ job' = job)
      <4>1. \/ Finish(p)
            \/ Goto(p, "write") /\ UNCHANGED job
        BY <2>3 DEF HasRefsTx
      <4>2. Finish(p) => pc'[p] = "idle"
        BY <1>0, Ends DEF Finishes
      <4>3. Goto(p, "write") /\ UNCHANGED job => pc'[p] = "write" /\ job' = job
        BY <1>0, Goes DEF PC
      <4> QED
        BY <4>1, <4>2, <4>3
    <3> QED
      BY <1>2, <2>1, <3>0, <3>1 DEF FromRequests
  <2>4. CASE LoadRows(p) \/ InstallMaps(p) \/ ServeEvent(p)
    <3>1. pc'[p] \notin {"refs", "write"}
      BY <1>0, <2>4
      DEF LoadRows, InstallMaps, ServeEvent, BeginCreateEvent, BeginUpdateEvent,
          BeginDeleteEvent, ValidateExtension, LookupSchemas, CommitEvent, RemoveEvent,
          Begin, Finish, Goto, TypeOK
    <3> QED
      BY <1>2, <2>1, <3>1
  <2> QED
    BY <1>7, <2>2, <2>3, <2>4
<1>8. ASSUME \/ \E e \in EventType, b \in BOOLEAN : ToggleEvent(e, b)
             \/ \E h \in Holder, s \in Schema : SyncHolderRef(h, s)
      PROVE  FromRequests'
  BY <1>8 DEF ToggleEvent, SyncHolderRef, FromRequests
<1>9. ~Restart /\ \A p \in Request : ~Fail(p)
  BY DEF Serial, Restart, Fail
<1> QED
  BY <1>1, <1>3, <1>4, <1>5, <1>6, <1>7, <1>8, <1>9 DEF Next, ServeSchema

\* What has been validated against the cache fits the table.
LEMMA FitValidated ==
  ASSUME Serial, IInv, IInv', SerialInv, ValidatedFit, [Next]_vars
  PROVE  ValidatedFit'
<1>0. /\ TypeOK /\ TypeOK'
      /\ \A p, q \in Request : p = q
  BY DEF Serial, IInv
<1>1. ASSUME UNCHANGED schemas, UNCHANGED pc, UNCHANGED job
      PROVE  ValidatedFit'
  BY <1>1 DEF ValidatedFit, FitsSchema, Keys
<1>2. ASSUME NEW p \in Request, pc'[p] \notin {"validate", "commit"}
      PROVE  ValidatedFit'
  BY <1>0, <1>2 DEF ValidatedFit
<1>3. ASSUME NEW p \in Request, ServeSchema(p)
      PROVE  ValidatedFit'
  <2>1. pc'[p] \notin {"validate", "commit"}
    BY <1>0, <1>3
    DEF ServeSchema, CreateSchema, ToggleSchema, BeginUpdateSchema, BeginDeleteSchema,
        HasRefsTx, WriteSchema, LoadRows, InstallMaps, Begin, Finish, Goto, TypeOK
  <2> QED
    BY <1>2, <2>1
<1>4. ASSUME NEW p \in Request, NEW e \in EventType, NEW ext \in ExtensionInput,
             BeginCreateEvent(p, e, ext) \/ BeginUpdateEvent(p, e, ext)
      PROVE  ValidatedFit'
  <2>1. BeginsEvent(p)
    BY <1>4, StepBeginEvents
  <2> QED
    BY <1>0, <2>1 DEF BeginsEvent, ValidatedFit
<1>5. ASSUME NEW p \in Request, NEW s \in Schema, ValidateExtension(p, s)
      PROVE  ValidatedFit'
  <2>0. pc[p] = "validate" /\ UNCHANGED schemas /\ job[p] \in Job
    BY <1>0, <1>5 DEF ValidateExtension, mysql, TypeOK
  <2>1. CASE ~ValidInMemory(p, s)
    <3>1. pc'[p] = "idle"
      BY <1>0, <1>5, <2>1 DEF ValidateExtension, Finish, Goto, TypeOK
    <3> QED
      BY <1>2, <3>1
  <2>2. CASE ValidInMemory(p, s)
    <3>1. /\ pc'[p] = "validate" /\ job'[p].todo = job[p].todo \ {s}
          /\ job'[p].ext = job[p].ext
      BY <1>0, <1>5, <2>0, <2>2 DEF ValidateExtension, TypeOK, Job
    <3>2. memory = ListEnabled
      BY <1>0, <2>0 DEF SerialInv, CacheInHand
    <3>3. FitsSchema(s, job[p].ext[s])
      BY <2>2, <3>2 DEF ValidInMemory, ListEnabled, FitsSchema
    <3> QED
      BY <1>0, <2>0, <3>1, <3>3 DEF ValidatedFit, FitsSchema, Keys
  <2> QED
    BY <2>1, <2>2
<1>6. ASSUME NEW p \in Request, NEW missed \in SUBSET Schema, LookupSchemas(p, missed)
      PROVE  ValidatedFit'
  <2>1. /\ pc[p] = "validate" /\ job[p].todo = {} /\ UNCHANGED schemas /\ job[p] \in Job
        /\ job'[p].ext = job[p].ext
    BY <1>0, <1>6 DEF LookupSchemas, mysql, TypeOK, Job
  <2> QED
    BY <1>0, <2>1 DEF ValidatedFit, FitsSchema, Keys
<1>7. ASSUME NEW p \in Request,
             \/ \E e \in EventType : BeginDeleteEvent(p, e)
             \/ CommitEvent(p) \/ RemoveEvent(p)
      PROVE  ValidatedFit'
  <2>1. pc'[p] \notin {"validate", "commit"}
    BY <1>0, <1>7 DEF BeginDeleteEvent, CommitEvent, RemoveEvent, Begin, Finish, Goto, TypeOK
  <2> QED
    BY <1>2, <2>1
<1>8. ~Restart /\ \A p \in Request : ~Fail(p)
  BY DEF Serial, Restart, Fail
<1> QED
  BY <1>1, <1>3, <1>4, <1>5, <1>6, <1>7, <1>8
  DEF Next, ServeEvent, ToggleEvent, SyncHolderRef, vars, mysql

\* A row that is written has been validated, and the others' schemas loosen only.
LEMMA FitStored ==
  ASSUME NothingIntroduced, Serial, IInv, IInv', FromRequests, FromRequests',
         ValidatedFit, AllStoredFit, [Next]_vars
  PROVE  AllStoredFit'
<1> SUFFICES ASSUME NEW e \in EventType, NEW s \in Schema,
                    events'[e].live, events'[e].ext[s] # Absent
             PROVE  /\ schemas'[s].live
                    /\ ValidateValue(Type[s], schemas'[s].c, events'[e].ext[s])
  BY DEF AllStoredFit, FitsSchema
<1>0. /\ TypeOK /\ TypeOK'
      /\ events[e] \in EventRow /\ events'[e] \in EventRow
  BY DEF IInv, TypeOK
<1>1. CASE events[e].live /\ events'[e].ext = events[e].ext
  <2>1. events[e].ext[s] \in Value
    BY <1>0, <1>1 DEF EventRow, Extensions
  <2>2. FitsSchema(s, events[e].ext[s])
    BY <1>1 DEF AllStoredFit
  <2>3. e \in refs[s]
    BY <1>1, <2>2 DEF FitsSchema, IInv, ConfigIsReferred
  <2> DEFINE v == events[e].ext[s]
  <2>4. schemas'[s].live /\ ValidateValue(Type[s], schemas'[s].c, v)
    BY <2>1, <2>2, <2>3, FitsStays DEF FitsSchema
  <2> QED
    BY <1>1, <2>4
<1>2. CASE ~(events[e].live /\ events'[e].ext = events[e].ext)
  <2>1. PICK p \in Request : CommitEvent(p) /\ EventMatches(p) /\ job[p].event = e
    <3>1. events'[e] # events[e]
      BY <1>2
    <3>2. ASSUME NEW p \in Request, RemoveEvent(p)
          PROVE  FALSE
      <4>1. job[p].event \in EventType
        BY <1>0 DEF TypeOK, Job
      <4>2. events' = [events EXCEPT ![job[p].event].live = FALSE]
        BY <3>1, <3>2 DEF RemoveEvent
      <4>3. events[e].live /\ events'[e].ext = events[e].ext
        BY <1>0, <4>1, <4>2 DEF TypeOK, EventRow
      <4> QED
        BY <1>2, <4>3
    <3>3. ASSUME NEW f \in EventType, NEW b \in BOOLEAN, ToggleEvent(f, b)
          PROVE  FALSE
      <4>1. events' = [events EXCEPT ![f] = [events[f] EXCEPT !.enabled = b, !.ver = @ + 1]]
        BY <1>0, <3>3 DEF ToggleEvent, TypeOK
      <4>2. events[e].live /\ events'[e].ext = events[e].ext
        BY <1>0, <3>3, <4>1 DEF ToggleEvent, TypeOK, EventRow
      <4> QED
        BY <1>2, <4>2
    <3>4. ASSUME NEW p \in Request, ServeSchema(p)
          PROVE  FALSE
      BY <3>1, <3>4
      DEF ServeSchema, CreateSchema, ToggleSchema, BeginUpdateSchema, BeginDeleteSchema,
          HasRefsTx, WriteSchema, LoadRows, InstallMaps, mysql
    <3>5. ASSUME NEW p \in Request, ServeEvent(p), ~CommitEvent(p)
          PROVE  FALSE
      BY <3>1, <3>2, <3>5
      DEF ServeEvent, BeginCreateEvent, BeginUpdateEvent, BeginDeleteEvent,
          ValidateExtension, LookupSchemas, mysql
    <3>6. ~Restart /\ \A p \in Request : ~Fail(p)
      BY DEF Serial, Restart, Fail
    <3>7. PICK p \in Request : CommitEvent(p)
      BY <3>1, <3>3, <3>4, <3>5, <3>6 DEF Next, SyncHolderRef, vars, mysql
    <3>8. EventMatches(p) /\ job[p].event = e
      BY <1>0, <3>1, <3>7 DEF CommitEvent, TypeOK
    <3> QED
      BY <3>7, <3>8
  <2>2. events'[e].ext = job[p].ext /\ pc[p] = "commit" /\ UNCHANGED schemas
    BY <1>0, <2>1 DEF CommitEvent, TypeOK
  <2>3. s \in Keys(job[p].ext)
    BY <2>2 DEF Keys
  <2> QED
    BY <2>2, <2>3 DEF ValidatedFit, FitsSchema
<1> QED
  BY <1>1, <1>2

LEMMA FitStart == Init => FitInv
<1> SUFFICES ASSUME Init PROVE FitInv
  OBVIOUS
<1>1. \A s \in Schema : schemas[s].ver = 0
  BY DEF Init, NoSchema
<1> QED
  BY <1>1 DEF Init, NoEvent, FitInv, FromRequests, ValidatedFit, AllStoredFit

\* One request at a time, without failures, and no request's constraints bring a
\* bound or options where another's have none: every value an event type has
\* stored fits the schema as it is now, although a schema may be edited while
\* event types have values for it.
THEOREM StoredFit ==
  ASSUME Serial, NothingIntroduced
  PROVE  Spec => []StoredValuesFit
<1>1. IInv /\ IInv' /\ SerialInv /\ FitInv /\ [Next]_vars => FitInv'
  BY FitFromRequests, FitValidated, FitStored DEF FitInv
<1>2. Spec => []FitInv
  BY <1>1, FitStart, SchemaInvariance, SerialInvariance, PTL DEF Spec
<1>3. FitInv => StoredValuesFit
  BY DEF FitInv, AllStoredFit, FitsSchema, StoredValuesFit
<1> QED
  BY <1>2, <1>3, PTL
=============================================================================
