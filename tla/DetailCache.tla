---------------------------- MODULE DetailCache ----------------------------
(***************************************************************************)
(* The detail cache of one row: GetByID of service/field.go over           *)
(* store/redis/field_cache.go, against the writers of that row.  Templates, *)
(* NPCs, FSM configs, trees and the rest have the same code over their own  *)
(* keys; rows do not share keys, so one row is enough.                      *)
(*                                                                         *)
(* What the row holds is the number of the commit that wrote it; 0 is the  *)
(* row that does not exist yet, which is cached as NullMarker.             *)
(***************************************************************************)
EXTENDS Naturals

CONSTANTS
  Reader,      \* goroutines that run GetByID
  Writer,      \* goroutines that write the row
  WriteOrder,  \* the orders of commit and DelDetail that occur, see Orders
  Miss,        \* no such key in Redis
  Nobody,      \* no lock key in Redis
  MaxCommit,   \* bound on the commits
  Faults       \* may a Redis command fail, or a writer die?

\* "del_first": Update and Delete clear the cache before they commit;
\* "commit_first": ToggleEnabled clears it after its UPDATE.
Orders == {"del_first", "commit_first"}

ASSUME OrderAssumption == WriteOrder \subseteq Orders
ASSUME NameAssumption == Miss \notin Nat /\ Nobody \notin Reader \cup Writer
ASSUME LimitAssumption == MaxCommit \in Nat /\ Faults \in BOOLEAN

VARIABLES
  db,          \* the committed content of the row
  cache,       \* the value of fields:detail:<id>
  lock,        \* the value of fields:lock:<id>
  pc,          \* where each goroutine stands
  read,        \* the content a reader has read from MySQL
  locked,      \* did TryLock return a lockID to the reader?
  reply,       \* the last answer of a reader
  rowLock      \* the writer that holds the row lock of InnoDB, or Nobody

vars == <<db, cache, lock, pc, read, locked, reply, rowLock>>
mysql == <<db, rowLock>>

TypeOK ==
  /\ db \in 0..MaxCommit
  /\ cache \in 0..MaxCommit \cup {Miss}
  /\ lock \in Reader \cup {Nobody}
  /\ pc \in [Reader \cup Writer -> {"idle", "trylock", "recheck", "db", "set",
                                    "refs", "unlock", "del", "commit", "clear"}]
  /\ read \in [Reader -> 0..MaxCommit]
  /\ locked \in [Reader -> BOOLEAN]
  /\ reply \in [Reader -> 0..MaxCommit]
  /\ rowLock \in Writer \cup {Nobody}

Init ==
  /\ db = 0 /\ cache = Miss /\ lock = Nobody /\ rowLock = Nobody
  /\ pc = [g \in Reader \cup Writer |-> "idle"]
  /\ read = [r \in Reader |-> 0]
  /\ locked = [r \in Reader |-> FALSE]
  /\ reply = [r \in Reader |-> 0]

Goto(g, label) == pc' = [pc EXCEPT ![g] = label]
Respond(r, c) == reply' = [reply EXCEPT ![r] = c]

-----------------------------------------------------------------------------
(* GetByID *)

\* Mutant: redis.Nil taken for an answer.
HitAny == TRUE

\* The key is there: a row, or NullMarker.
Hit == cache # Miss

\* Two lookups, before and after the lock.
GetDetail(r) ==
  /\ pc[r] \in {"idle", "recheck"}
  /\ \/ /\ Hit
        /\ Respond(r, cache)
        /\ Goto(r, IF pc[r] = "recheck" THEN "unlock" ELSE "idle")
     \/ /\ ~Hit \/ Faults
        /\ Goto(r, IF pc[r] = "recheck" THEN "db" ELSE "trylock")
        /\ UNCHANGED reply
  /\ UNCHANGED <<mysql, cache, lock, read, locked>>

\* SETNX; a reader that does not get the lock goes on without it.
TryLock(r) ==
  /\ pc[r] = "trylock"
  /\ \/ /\ lock = Nobody
        /\ lock' = r
        /\ locked' = [locked EXCEPT ![r] = TRUE]
        /\ Goto(r, "recheck")
     \/ /\ lock # Nobody \/ Faults
        /\ Goto(r, "db")
        /\ UNCHANGED <<lock, locked>>
  /\ UNCHANGED <<mysql, cache, read, reply>>

GetFromMySQL(r) ==
  /\ pc[r] = "db"
  /\ read' = [read EXCEPT ![r] = db]
  /\ Goto(r, "set")
  /\ UNCHANGED <<mysql, cache, lock, locked, reply>>

SetDetail(r) ==
  /\ pc[r] = "set"
  /\ \/ cache' = read[r]
     \/ Faults /\ cache' = cache
  /\ Goto(r, "refs")
  /\ UNCHANGED <<mysql, lock, read, locked, reply>>

\* HasRefs, a statement between SetDetail and the answer, and only on this way:
\* a hit answers without it.
FillHasRefs(r) ==
  /\ pc[r] = "refs"
  /\ Respond(r, read[r])
  /\ Goto(r, "unlock")
  /\ UNCHANGED <<mysql, cache, lock, read, locked>>

\* Mutant: DEL without comparing the value of the key.
OwnLockAny(r) == TRUE

\* LuaUnlock deletes the key only if it still holds the reader's lockID.
OwnLock(r) == lock = r

\* The deferred Unlock, for a reader that got a lockID.
Unlock(r) ==
  /\ pc[r] = "unlock"
  /\ \/ lock' = IF locked[r] /\ OwnLock(r) THEN Nobody ELSE lock
     \/ Faults /\ lock' = lock
  /\ locked' = [locked EXCEPT ![r] = FALSE]
  /\ Goto(r, "idle")
  /\ UNCHANGED <<mysql, cache, read, reply>>

Read(r) == \/ TryLock(r) \/ GetFromMySQL(r) \/ SetDetail(r) \/ FillHasRefs(r)
           \/ Unlock(r) \/ (pc[r] # "idle" /\ GetDetail(r))

-----------------------------------------------------------------------------
(* Writers *)

\* Create inserts the row and clears no detail key, NullMarker included.
Create(w) ==
  /\ pc[w] = "idle" /\ db = 0 /\ MaxCommit > 0
  /\ db' = 1
  /\ UNCHANGED <<rowLock, cache, lock, pc, read, locked, reply>>

\* The UPDATE of a transaction takes the row lock.
UpdateTx(w) ==
  /\ "del_first" \in WriteOrder
  /\ pc[w] = "idle" /\ rowLock = Nobody /\ db \in 1..(MaxCommit - 1)
  /\ rowLock' = w
  /\ Goto(w, "del")
  /\ UNCHANGED <<db, cache, lock, read, locked, reply>>

DelDetail(w) ==
  /\ pc[w] \in {"del", "clear"}
  /\ cache' = Miss \/ (Faults /\ cache' = cache)
  /\ Goto(w, IF pc[w] = "del" THEN "commit" ELSE "idle")
  /\ UNCHANGED <<mysql, lock, read, locked, reply>>

Commit(w) ==
  /\ pc[w] = "commit"
  /\ db' = db + 1
  /\ rowLock' = Nobody
  /\ Goto(w, "idle")
  /\ UNCHANGED <<cache, lock, read, locked, reply>>

\* ToggleEnabled: one autocommitted UPDATE, which waits for the row lock.
Toggle(w) ==
  /\ "commit_first" \in WriteOrder
  /\ pc[w] = "idle" /\ rowLock = Nobody /\ db \in 1..(MaxCommit - 1)
  /\ db' = db + 1
  /\ Goto(w, "clear")
  /\ UNCHANGED <<rowLock, cache, lock, read, locked, reply>>

\* The writer fails or dies: an open transaction is rolled back.
Die(w) ==
  /\ Faults /\ pc[w] # "idle"
  /\ rowLock' = IF rowLock = w THEN Nobody ELSE rowLock
  /\ Goto(w, "idle")
  /\ UNCHANGED <<db, cache, lock, read, locked, reply>>

-----------------------------------------------------------------------------
(* Redis *)

\* Mutant: a key without a TTL.
ExpireDetailNever == FALSE

\* TTL(DetailTTLBase, DetailTTLJitter) has passed.
ExpireDetail ==
  /\ cache # Miss
  /\ cache' = Miss
  /\ UNCHANGED <<mysql, lock, pc, read, locked, reply>>

\* LockExpire has passed, whatever the holder is doing.
ExpireLock ==
  /\ lock # Nobody
  /\ lock' = Nobody
  /\ UNCHANGED <<mysql, cache, pc, read, locked, reply>>

-----------------------------------------------------------------------------
Write(w) == DelDetail(w) \/ Commit(w)

Next ==
  \/ \E r \in Reader : Read(r) \/ (pc[r] = "idle" /\ GetDetail(r))
  \/ \E w \in Writer : Create(w) \/ UpdateTx(w) \/ Toggle(w) \/ Write(w) \/ Die(w)
  \/ ExpireDetail \/ ExpireLock

Spec == Init /\ [][Next]_vars

\* Goroutines run on and keys expire; nobody has to send requests.
Fairness ==
  /\ \A r \in Reader : WF_vars(Read(r))
  /\ \A w \in Writer : WF_vars(Write(w))
  /\ WF_vars(ExpireDetail)

FairSpec == Spec /\ Fairness

-----------------------------------------------------------------------------
(* Properties *)

\* An expired lock that another reader has taken meanwhile is not released by
\* its first owner: the key of r goes by r's own Unlock or by its expiry.
LockReleasedByOwner ==
  [][\A r \in Reader : lock = r /\ lock' # r =>
       pc' = pc \/ (pc[r] = "unlock" /\ pc'[r] = "idle")]_vars

\* However readers and writers interleave, and whatever DelDetail lost, the
\* cache is right in the end: when nobody writes any more, some time all that
\* is ever cached is the row as it is, also after a NullMarker.
EventuallyFresh == <>[](cache \in {Miss, db})

-----------------------------------------------------------------------------
(* The inductive invariant *)

\* A transaction that has executed its UPDATE holds the row lock until it ends,
\* and while it is held nobody else commits: not even an autocommitted UPDATE.
RowLockHeld ==
  /\ \A w \in Writer : pc[w] \in {"del", "commit"} => rowLock = w
  /\ rowLock # Nobody => db \in 1..(MaxCommit - 1)

IInv == TypeOK /\ RowLockHeld
=============================================================================
