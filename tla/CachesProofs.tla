---------------------------- MODULE CachesProofs ----------------------------
(***************************************************************************)
(* The two caches, for every number of readers and writers: the lock of    *)
(* the detail cache, and the types of both, which say that the counters    *)
(* stay within their bounds however the writers interleave and die.        *)
(***************************************************************************)
EXTENDS MCCaches, FiniteSetTheorems, TLAPS

(* The detail cache *)

LEMMA DetailInit == Init => IInv
BY NameAssumption, LimitAssumption DEF Init, IInv, TypeOK, RowLockHeld

\* A reader's step, whatever it finds in Redis.
LEMMA DetailRead ==
  ASSUME IInv, NEW r \in Reader, Read(r) \/ GetDetail(r)
  PROVE  IInv'
<1> USE DEF IInv, TypeOK, RowLockHeld, Goto, Respond, mysql
<1>1. CASE GetDetail(r)
  BY <1>1 DEF GetDetail, Hit
<1>2. CASE TryLock(r)
  BY <1>2 DEF TryLock
<1>3. CASE GetFromMySQL(r)
  BY <1>3 DEF GetFromMySQL
<1>4. CASE SetDetail(r)
  BY <1>4 DEF SetDetail
<1>5. CASE FillHasRefs(r)
  BY <1>5 DEF FillHasRefs
<1>6. CASE Unlock(r)
  BY <1>6 DEF Unlock, OwnLock
<1> QED
  BY <1>1, <1>2, <1>3, <1>4, <1>5, <1>6 DEF Read

\* A writer's step: whoever has the row lock finds room for its commit.
LEMMA DetailWrite ==
  ASSUME IInv, NEW w \in Writer,
         Create(w) \/ UpdateTx(w) \/ Toggle(w) \/ Write(w) \/ Die(w)
  PROVE  IInv'
<1> USE NameAssumption, LimitAssumption DEF IInv, TypeOK, RowLockHeld, Goto, mysql
<1>1. CASE Create(w)
  BY <1>1 DEF Create
<1>2. CASE UpdateTx(w)
  BY <1>2 DEF UpdateTx
<1>3. CASE Toggle(w)
  BY <1>3 DEF Toggle
<1>4. CASE DelDetail(w)
  BY <1>4 DEF DelDetail
<1>5. CASE Commit(w)
  BY <1>5 DEF Commit
<1>6. CASE Die(w)
  BY <1>6 DEF Die
<1> QED
  BY <1>1, <1>2, <1>3, <1>4, <1>5, <1>6 DEF Write

\* Whatever readers and writers do, the row's content stays within the commits
\* there may be and each goroutine at a place of GetByID or of its write.
THEOREM DetailTypes == Spec => []TypeOK
<1>1. IInv /\ [Next]_vars => IInv'
  <2> SUFFICES ASSUME IInv, [Next]_vars PROVE IInv'
    OBVIOUS
  <2>1. CASE ExpireDetail \/ ExpireLock \/ UNCHANGED vars
    BY <2>1 DEF ExpireDetail, ExpireLock, vars, mysql, IInv, TypeOK, RowLockHeld
  <2> QED
    BY <2>1, DetailRead, DetailWrite DEF Next
<1>2. IInv => TypeOK
  BY DEF IInv
<1> QED
  BY DetailInit, <1>1, <1>2, PTL DEF Spec

\* The lock key of a reader goes by its own Unlock or by its expiry, also when
\* a reader outlives its lock and another one has taken it.
THEOREM ReleasedByOwner == Spec => LockReleasedByOwner
<1> DEFINE A == \A r \in Reader : lock = r /\ lock' # r =>
                  pc' = pc \/ (pc[r] = "unlock" /\ pc'[r] = "idle")
<1>1. TypeOK /\ [Next]_vars => [A]_vars
  <2> SUFFICES ASSUME TypeOK, [Next]_vars, NEW r \in Reader, lock = r, lock' # r
               PROVE  pc' = pc \/ (pc[r] = "unlock" /\ pc'[r] = "idle")
    OBVIOUS
  <2>1. r # Nobody
    BY NameAssumption
  <2>2. ASSUME NEW q \in Reader, TryLock(q)
        PROVE  FALSE
    BY <2>1, <2>2 DEF TryLock
  <2>3. ASSUME NEW q \in Reader, Unlock(q)
        PROVE  pc[r] = "unlock" /\ pc'[r] = "idle"
    BY <2>3 DEF Unlock, OwnLock, Goto, TypeOK
  <2>4. CASE ExpireLock
    BY <2>4 DEF ExpireLock
  <2> QED
    BY <2>2, <2>3, <2>4
    DEF Next, vars, Read, Write, GetDetail, GetFromMySQL, SetDetail, FillHasRefs,
        Create, UpdateTx, DelDetail, Commit, Toggle, Die, ExpireDetail
<1> QED
  BY <1>1, DetailTypes, PTL DEF Spec, LockReleasedByOwner

-----------------------------------------------------------------------------
(* The list cache *)

\* The instance counts as this module does.
LEMMA SameCount == \A S : List!Cardinality(S) = Cardinality(S)
BY DEF List!Cardinality, Cardinality

LEMMA ListInit == List!Init => List!IInv
<1> SUFFICES ASSUME List!Init PROVE List!IInv
  OBVIOUS
<1>1. List!ToCommit = {} /\ List!ToIncr = {}
  BY DEF List!Init, List!ToCommit, List!ToIncr
<1>2. List!RoomLeft
  BY <1>1, SameCount, FS_EmptySet, ListAssumption DEF List!Init, List!RoomLeft, List!Admissible
<1>3. List!TypeOK
  BY ListAssumption DEF List!Init, List!TypeOK, List!Admissible
<1> QED
  BY <1>2, <1>3 DEF List!IInv

\* If fewer writers have still to act and nothing has been counted, room remains.
LEMMA RoomRemains ==
  ASSUME List!IInv, List!TypeOK', listDb' = listDb, version' = version,
         List!ToCommit' \subseteq List!ToCommit, List!ToIncr' \subseteq List!ToIncr
  PROVE  List!IInv'
<1> DEFINE C == List!ToCommit
           I == List!ToIncr
<1>1. IsFiniteSet(C) /\ IsFiniteSet(I)
  BY FS_Subset, ListAssumption DEF List!ToCommit, List!ToIncr
<1>2. /\ C' \in SUBSET C /\ I' \in SUBSET I
  OBVIOUS
<1>3. /\ Cardinality(C) \in Nat /\ Cardinality(I) \in Nat
      /\ Cardinality(C') \in Nat /\ Cardinality(I') \in Nat
      /\ Cardinality(C') <= Cardinality(C) /\ Cardinality(I') <= Cardinality(I)
  BY <1>1, <1>2, FS_Subset, FS_CardinalityType
<1>4. listDb \in Nat /\ version \in Nat /\ MaxCommit \in Nat /\ MaxVersion \in Nat
  BY ListAssumption DEF List!IInv, List!TypeOK, List!Admissible
<1>5. List!RoomLeft
  BY DEF List!IInv
<1> QED
  BY <1>3, <1>4, <1>5, SameCount DEF List!IInv, List!RoomLeft

LEMMA ListRead ==
  ASSUME List!IInv, NEW r \in Reader, List!Read(r) \/ List!GetListVersion(r)
  PROVE  List!IInv'
<1> USE DEF List!Goto
<1>1. List!TypeOK
  BY DEF List!IInv
<1>2. List!TypeOK'
  <2>1. ASSUME List!GetListVersion(r) PROVE List!TypeOK'
    <3>1. PICK v \in 0..MaxVersion : under' = [under EXCEPT ![r] = v]
      <4>1. PICK v \in {version} \cup (IF Faults THEN {0} ELSE {}) :
              under' = [under EXCEPT ![r] = v]
        BY <2>1 DEF List!GetListVersion, List!FallbackVersion
      <4>2. v \in 0..MaxVersion
        BY <1>1, ListAssumption DEF List!TypeOK, List!Admissible
      <4> QED
        BY <4>1, <4>2
    <3>2. UNCHANGED <<listDb, version, lists, listRead>>
      BY <2>1 DEF List!GetListVersion
    <3>3. listPc' = [listPc EXCEPT ![r] = IF listPc[r] = "idle" THEN "get" ELSE "set"]
      BY <2>1 DEF List!GetListVersion, List!Goto
    <3> QED
      BY <1>1, <3>1, <3>2, <3>3 DEF List!TypeOK
  <2>2. ASSUME List!GetList(r) \/ List!ListFromMySQL(r) PROVE List!TypeOK'
    BY <1>1, <2>2 DEF List!GetList, List!ListFromMySQL, List!TypeOK
  <2>3. ASSUME List!SetList(r) PROVE List!TypeOK'
    BY <1>1, <2>3 DEF List!SetList, List!TypeOK
  <2> QED
    BY <2>1, <2>2, <2>3 DEF List!Read
<1>3. listDb' = listDb /\ version' = version
  BY DEF List!Read, List!GetListVersion, List!GetList, List!ListFromMySQL, List!SetList
<1>4. List!ToCommit' \subseteq List!ToCommit /\ List!ToIncr' \subseteq List!ToIncr
  BY <1>1
  DEF List!TypeOK, List!ToCommit, List!ToIncr, List!Read, List!GetListVersion,
      List!GetList, List!ListFromMySQL, List!SetList
<1> QED
  BY <1>2, <1>3, <1>4, RoomRemains

\* A writer that commits, or increments, was among those to do so and is no more.
LEMMA CountDown ==
  ASSUME NEW S \in SUBSET ListWriter, NEW T \in SUBSET S, NEW w \in S, w \notin T
  PROVE  /\ Cardinality(S) \in Nat /\ Cardinality(T) \in Nat
         /\ Cardinality(T) + 1 <= Cardinality(S)
<1>1. IsFiniteSet(S)
  BY FS_Subset, ListAssumption
<1>2. T \in SUBSET (S \ {w})
  OBVIOUS
<1>3. /\ IsFiniteSet(S \ {w}) /\ Cardinality(S \ {w}) = Cardinality(S) - 1
  BY <1>1, FS_RemoveElement
<1>4. IsFiniteSet(T) /\ Cardinality(T) <= Cardinality(S \ {w})
  BY <1>2, <1>3, FS_Subset
<1>5. /\ Cardinality(S) \in Nat /\ Cardinality(T) \in Nat
  BY <1>1, <1>4, FS_CardinalityType
<1> QED
  BY <1>3, <1>4, <1>5

LEMMA Counts ==
  List!TypeOK => /\ Cardinality(List!ToCommit) \in Nat /\ Cardinality(List!ToIncr) \in Nat
                 /\ Cardinality(ListWriter) \in Nat
                 /\ Cardinality(List!ToCommit) <= Cardinality(ListWriter)
                 /\ Cardinality(List!ToIncr) <= Cardinality(ListWriter)
BY FS_Subset, FS_CardinalityType, ListAssumption DEF List!ToCommit, List!ToIncr

LEMMA ListWrite ==
  ASSUME List!IInv, NEW w \in ListWriter,
         List!BeginWrite(w) \/ List!Write(w) \/ List!Die(w)
  PROVE  List!IInv'
<1> DEFINE C == List!ToCommit
           I == List!ToIncr
<1>0. /\ List!TypeOK /\ MaxCommit \in Nat /\ MaxVersion \in Nat
      /\ listDb + Cardinality(C) <= MaxCommit
      /\ version + Cardinality(I) <= MaxVersion
  BY SameCount, ListAssumption DEF List!IInv, List!RoomLeft, List!Admissible
<1>1. CASE List!BeginWrite(w)
  <2>1. /\ listDb + Cardinality(ListWriter) <= MaxCommit
        /\ version + Cardinality(ListWriter) <= MaxVersion
        /\ UNCHANGED <<listDb, version>>
    BY <1>1, SameCount DEF List!BeginWrite
  <2>2. List!TypeOK'
    BY <1>0, <1>1 DEF List!BeginWrite, List!Goto, List!TypeOK
  <2>3. /\ Cardinality(C') \in Nat /\ Cardinality(I') \in Nat
        /\ Cardinality(C') <= Cardinality(ListWriter)
        /\ Cardinality(I') <= Cardinality(ListWriter)
        /\ Cardinality(ListWriter) \in Nat
    BY <2>2, Counts, FS_Subset, FS_CardinalityType, ListAssumption
    DEF List!ToCommit, List!ToIncr
  <2> QED
    BY <1>0, <2>1, <2>2, <2>3, SameCount DEF List!IInv, List!RoomLeft, List!TypeOK
<1>2. CASE List!InvalidateList(w)
  <2>1. /\ w \in I /\ w \notin I' /\ I' \subseteq I /\ C' = C
        /\ listDb' = listDb /\ version' \in {version, version + 1}
    BY <1>0, <1>2 DEF List!InvalidateList, List!Goto, List!TypeOK, List!ToCommit, List!ToIncr
  <2>2. /\ Cardinality(I) \in Nat /\ Cardinality(I') \in Nat
        /\ Cardinality(I') + 1 <= Cardinality(I)
    BY <2>1, CountDown DEF List!ToIncr
  <2>3. version' + Cardinality(I') <= MaxVersion /\ version' \in 0..MaxVersion
    BY <1>0, <2>1, <2>2 DEF List!TypeOK
  <2>4. List!TypeOK'
    BY <1>0, <1>2, <2>3 DEF List!InvalidateList, List!Goto, List!TypeOK
  <2> QED
    BY <1>0, <2>1, <2>3, <2>4, SameCount DEF List!IInv, List!RoomLeft
<1>3. CASE List!Commit(w)
  <2>1. /\ w \in C /\ w \notin C' /\ C' \subseteq C /\ I' = I
        /\ version' = version /\ listDb' = listDb + 1
    BY <1>0, <1>3 DEF List!Commit, List!Goto, List!TypeOK, List!ToCommit, List!ToIncr
  <2>2. /\ Cardinality(C) \in Nat /\ Cardinality(C') \in Nat
        /\ Cardinality(C') + 1 <= Cardinality(C)
    BY <2>1, CountDown DEF List!ToCommit
  <2>3. listDb' + Cardinality(C') <= MaxCommit /\ listDb' \in 0..MaxCommit
    BY <1>0, <2>1, <2>2 DEF List!TypeOK
  <2>4. List!TypeOK'
    BY <1>0, <1>3, <2>3 DEF List!Commit, List!Goto, List!TypeOK
  <2> QED
    BY <1>0, <2>1, <2>3, <2>4, SameCount DEF List!IInv, List!RoomLeft
<1>4. CASE List!Die(w)
  <2>1. /\ listDb' = listDb /\ version' = version
        /\ List!ToCommit' \subseteq List!ToCommit /\ List!ToIncr' \subseteq List!ToIncr
    BY <1>0, <1>4 DEF List!Die, List!Goto, List!TypeOK, List!ToCommit, List!ToIncr
  <2>2. List!TypeOK'
    BY <1>0, <1>4 DEF List!Die, List!Goto, List!TypeOK
  <2> QED
    BY <2>1, <2>2, RoomRemains
<1> QED
  BY <1>1, <1>2, <1>3, <1>4 DEF List!Write

\* However many writers are between their commit and their INCR, and wherever
\* they die, the table's content and the list version stay within their bounds,
\* and no reader looks up or fills a key of a version there never was.
THEOREM ListTypes == BothSpec => []ListTypeOK
<1> USE DEF ListTypeOK
<1>1. BothInit => List!IInv
  BY ListInit DEF BothInit
<1>2. List!IInv /\ [BothNext]_bothVars => List!IInv'
  <2> SUFFICES ASSUME List!IInv, [BothNext]_bothVars PROVE List!IInv'
    OBVIOUS
  <2>1. CASE UNCHANGED listVars
    BY <2>1 DEF listVars, List!IInv, List!TypeOK, List!RoomLeft, List!ToCommit, List!ToIncr
  <2>2. ASSUME NEW v \in 0..MaxVersion, List!ExpireList(v)
        PROVE  List!IInv'
    BY <2>2 DEF List!ExpireList, List!IInv, List!TypeOK, List!RoomLeft, List!ToCommit,
                List!ToIncr
  <2> QED
    BY <2>1, <2>2, ListRead, ListWrite DEF BothNext, bothVars, List!Next
<1>3. List!IInv => ListTypeOK
  BY DEF List!IInv
<1> QED
  BY <1>1, <1>2, <1>3, PTL DEF BothSpec
=============================================================================
