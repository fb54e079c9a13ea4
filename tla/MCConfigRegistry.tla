-------------------------- MODULE MCConfigRegistry --------------------------
EXTENDS ConfigRegistry, TLC

\* The bound on the versions, by table.
CONSTANTS WordMax, TypeMax, FSMMax, TreeMax, NPCMax, RegionMax

MCMaxVersion == [i \in Item |->
  CASE i \in Word -> WordMax [] i \in NodeType -> TypeMax [] i \in FSM -> FSMMax
    [] i \in Tree -> TreeMax [] i \in NPC -> NPCMax [] OTHER -> RegionMax]

Symm == Permutations(Request)
=============================================================================
