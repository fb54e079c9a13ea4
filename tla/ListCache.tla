----------------------------- MODULE ListCache -----------------------------
(***************************************************************************)
(* The list cache of one query: List of service/field.go over GetList,     *)
(* SetList and InvalidateList of store/redis/field_cache.go.  Every key    *)
(* carries the list version; a writer increments the version and leaves    *)
(* the keys of older versions to their TTL.  The other modules' lists have *)
(* the same code.                                                          *)
(*                                                                         *)
(* A result list is the number of the commit it was read at.               *)
(***************************************************************************)
EXTENDS Naturals, FiniteSets

CONSTANTS
  Reader, Writer,  \* goroutines that run List, and that write the table
  WriteOrder,      \* "incr_first": Update, Delete; "commit_first": Create, Toggle
  Miss,            \* no such key in Redis
  MaxCommit,       \* bound on the commits
  MaxVersion,      \* bound on the list versions
  Faults           \* may a Redis command fail, or a writer die?

\* What the constants must be; the modules that instantiate this one assume it.
Admissible == /\ WriteOrder \subseteq {"incr_first", "commit_first"}
              /\ MaxCommit \in Nat /\ MaxVersion \in Nat
              /\ Faults \in BOOLEAN

VARIABLES
  db,        \* the result the query has now
  version,   \* fields:list:version, absent = 0
  lists,     \* lists[v]: the value of the query's key under version v
  pc,        \* where each goroutine stands
  under,     \* the version a reader has read last
  read       \* the result a reader has read from MySQL

vars == <<db, version, lists, pc, under, read>>

TypeOK ==
  /\ db \in 0..MaxCommit
  /\ version \in 0..MaxVersion
  /\ lists \in [0..MaxVersion -> 0..MaxCommit \cup {Miss}]
  /\ pc \in [Reader \cup Writer -> {"idle", "get", "db", "version", "set",
                                    "incr", "late_commit", "commit",
                                    "late_incr"}]
  /\ under \in [Reader -> 0..MaxVersion]
  /\ read \in [Reader -> 0..MaxCommit]

Init ==
  /\ db = 0 /\ version = 0
  /\ lists = [v \in 0..MaxVersion |-> Miss]
  /\ pc = [g \in Reader \cup Writer |-> "idle"]
  /\ under = [r \in Reader |-> 0]
  /\ read = [r \in Reader |-> 0]

Goto(g, label) == pc' = [pc EXCEPT ![g] = label]

\* Mutant: an error reads as no version.
FallbackVersionNone == Miss

\* getListVersion returns 0 when Redis fails, as when there is no version yet.
FallbackVersion == 0

\* Before the lookup and, again, before the fill.
GetListVersion(r) ==
  /\ pc[r] \in {"idle", "version"}
  /\ \E v \in {version} \cup (IF Faults THEN {FallbackVersion} ELSE {}) :
       under' = [under EXCEPT ![r] = v]
  /\ Goto(r, IF pc[r] = "idle" THEN "get" ELSE "set")
  /\ UNCHANGED <<db, version, lists, read>>

GetList(r) ==
  /\ pc[r] = "get"
  /\ \/ lists[under[r]] # Miss /\ Goto(r, "idle")
     \/ (lists[under[r]] = Miss \/ Faults) /\ Goto(r, "db")
  /\ UNCHANGED <<db, version, lists, under, read>>

ListFromMySQL(r) ==
  /\ pc[r] = "db"
  /\ read' = [read EXCEPT ![r] = db]
  /\ Goto(r, "version")
  /\ UNCHANGED <<db, version, lists, under>>

SetList(r) ==
  /\ pc[r] = "set"
  /\ \/ lists' = [lists EXCEPT ![under[r]] = read[r]]
     \/ Faults /\ lists' = lists
  /\ Goto(r, "idle")
  /\ UNCHANGED <<db, version, under, read>>

Read(r) == \/ pc[r] # "idle" /\ GetListVersion(r)
           \/ GetList(r) \/ ListFromMySQL(r) \/ SetList(r)

\* A writer starts only if all of them can still finish within the bounds.
BeginWrite(w) ==
  /\ pc[w] = "idle"
  /\ db + Cardinality(Writer) <= MaxCommit
  /\ version + Cardinality(Writer) <= MaxVersion
  /\ \/ "incr_first" \in WriteOrder /\ Goto(w, "incr")
     \/ "commit_first" \in WriteOrder /\ Goto(w, "commit")
  /\ UNCHANGED <<db, version, lists, under, read>>

\* The keys of older versions are left alone.
InvalidateList(w) ==
  /\ pc[w] \in {"incr", "late_incr"}
  /\ \/ version' = version + 1
     \/ Faults /\ version' = version
  /\ Goto(w, IF pc[w] = "incr" THEN "late_commit" ELSE "idle")
  /\ UNCHANGED <<db, lists, under, read>>

Commit(w) ==
  /\ pc[w] \in {"commit", "late_commit"}
  /\ db' = db + 1
  /\ Goto(w, IF pc[w] = "commit" THEN "late_incr" ELSE "idle")
  /\ UNCHANGED <<version, lists, under, read>>

Die(w) ==
  /\ Faults /\ pc[w] # "idle"
  /\ Goto(w, "idle")
  /\ UNCHANGED <<db, version, lists, under, read>>

\* Mutant: a list key without a TTL.
ExpireListNever(v) == FALSE

\* TTL(ListTTLBase, ListTTLJitter) has passed.
ExpireList(v) ==
  /\ lists[v] # Miss
  /\ lists' = [lists EXCEPT ![v] = Miss]
  /\ UNCHANGED <<db, version, pc, under, read>>

Write(w) == InvalidateList(w) \/ Commit(w)

Next ==
  \/ \E r \in Reader : Read(r) \/ (pc[r] = "idle" /\ GetListVersion(r))
  \/ \E w \in Writer : BeginWrite(w) \/ Write(w) \/ Die(w)
  \/ \E v \in 0..MaxVersion : ExpireList(v)

Spec == Init /\ [][Next]_vars

\* Goroutines run on and keys expire; nobody has to send requests.
Fairness ==
  /\ \A r \in Reader : WF_vars(Read(r))
  /\ \A w \in Writer : WF_vars(Write(w))
  /\ \A v \in 0..MaxVersion : WF_vars(ExpireList(v))

FairSpec == Spec /\ Fairness

-----------------------------------------------------------------------------
(* Properties *)

\* When nobody writes any more, some time every list that a reader may still
\* be given is the list as it is: no key of a version that a reader could
\* compute, 0 after an error included, keeps an older result for ever.
ListsEventuallyFresh == <>[](\A v \in 0..MaxVersion : lists[v] \in {Miss, db})

-----------------------------------------------------------------------------
(* The inductive invariant *)

\* The writers that have still to commit, and to increment the version.
ToCommit == {w \in Writer : pc[w] \in {"incr", "commit", "late_commit"}}
ToIncr == {w \in Writer : pc[w] \in {"incr", "commit", "late_incr"}}

\* What a writer that has started still needs stays free for it.
RoomLeft == /\ db + Cardinality(ToCommit) <= MaxCommit
            /\ version + Cardinality(ToIncr) <= MaxVersion

IInv == TypeOK /\ RoomLeft
=============================================================================
