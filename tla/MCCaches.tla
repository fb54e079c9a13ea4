------------------------------ MODULE MCCaches ------------------------------
(* The two caches of a module, which share no key, in one run: a behaviour is *)
(* one of either, from its initial state.                                     *)
EXTENDS DetailCache, FiniteSets

CONSTANTS
  MaxVersion,  \* bound on the list versions
  ListWriter   \* goroutines that write the table
VARIABLES side, listDb, version, lists, listPc, under, listRead

List == INSTANCE ListCache WITH
  db <- listDb, pc <- listPc, read <- listRead,
  WriteOrder <- {"incr_first", "commit_first"}, Writer <- ListWriter

ASSUME ListAssumption == List!Admissible /\ IsFiniteSet(ListWriter)

listVars == <<listDb, version, lists, listPc, under, listRead>>
bothVars == <<vars, listVars, side>>

BothInit == Init /\ List!Init /\ side \in {"detail", "list"}

BothNext == \/ side = "detail" /\ Next /\ UNCHANGED <<listVars, side>>
            \/ side = "list" /\ List!Next /\ UNCHANGED <<vars, side>>

BothSpec == BothInit /\ [][BothNext]_bothVars
            /\ (side = "detail" => Fairness)
            /\ (side = "list" => List!Fairness)

\* The types of the list cache.
ListTypeOK == List!TypeOK
\* No list that a reader may be given stays behind the table for ever: the versions
\* that InvalidateList leaves to their TTL, and 0, to which an error falls back.
ListsEventuallyFresh == List!ListsEventuallyFresh
=============================================================================
