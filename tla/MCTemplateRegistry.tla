------------------------- MODULE MCTemplateRegistry -------------------------
EXTENDS TemplateRegistry, TLC

Symm == Permutations(Request) \cup Permutations(Field) \cup Permutations(NPC)
=============================================================================
