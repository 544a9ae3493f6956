---------------------------- MODULE MCInventory ----------------------------
(* Inventory with a sword, a trophy of the same category that is no        *)
(* equipment, and a gem no preset has a place for; two presets, two        *)
(* sockets, and a socket id beyond them.                                   *)
EXTENDS Inventory, TLC

CONSTANTS sword, trophy, gem, p1, p2, k0, k1, k2, weapon, jewel

MCItemIds == {sword, trophy, gem}
MCEquipment == {sword}
MCCategories == {weapon}
MCCategory == [i \in MCItemIds |-> IF i = gem THEN jewel ELSE weapon]
MCPresetIds == {p1, p2}
MCSocketIds == {k0, k1}
MCAskedSockets == {k0, k1, k2}

\* Presets differ in nothing but their names, nor do the sockets of an item.
MCSymmetry == Permutations(MCPresetIds) \union Permutations(MCSocketIds)
=============================================================================
