CONSTANTS
  entry = entry state = state type = type fsm = fsm tree = tree tree2 = tree2 event = event
  field = field hp = hp template = template npc = npc key = key kind = kind region = region
  Row = {entry, state, type, fsm, tree, tree2, event, field, hp, template, npc, key, kind, region}
  StageOf <- FixtureStage
  Names <- FixtureNames
  Category = {c1}
  MaxCrashes = 1
  MaxEdits = 2
SPECIFICATION FairSpec
INVARIANTS PrefixClosed DoneComplete
PROPERTY Completes
