-------------------------- MODULE MCBBKeyRegistry --------------------------
EXTENDS BBKeyRegistry, TLC

CONSTANTS FieldMax, KeyMax

MCMaxVersion == [t \in Table |-> IF t = "fields" THEN FieldMax ELSE KeyMax]

Symm == Permutations(Request)
=============================================================================
