------------------------------- MODULE MCSeed -------------------------------
(* One fixture of each group, two fields and two trees; the names in them are *)
(* those of guard_basic, which names a field that is not in its template.     *)
EXTENDS Seed, TLC

CONSTANTS entry, state, type, fsm, tree, tree2, event, field, hp, template, npc, key, kind, region

FixtureStage == (entry :> "dictionaries") @@ (state :> "fsm_state_dicts") @@ (type :> "bt_node_types")
  @@ (fsm :> "fsm_configs") @@ (tree :> "bt_trees") @@ (tree2 :> "bt_trees") @@ (event :> "event_types")
  @@ (field :> "fields") @@ (hp :> "fields") @@ (template :> "templates") @@ (npc :> "npcs")
  @@ (key :> "runtime_bb_keys") @@ (kind :> "region_types") @@ (region :> "regions")

FixtureNames == [r \in Row |->
  CASE r \in {field, hp} -> {entry}
    [] r \in {tree, tree2} -> {type}
    [] r = template -> {field}
    [] r = npc -> {hp, template, fsm, tree, tree2}
    [] r = region -> {npc, kind}
    [] OTHER -> {}]
=============================================================================
