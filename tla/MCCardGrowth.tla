---------------------------- MODULE MCCardGrowth ----------------------------
(***************************************************************************)
(* CardGrowth with two cards of one kind, two levels, one waking, and      *)
(* requests that name no item, one to level up with, one for the skill     *)
(* that adds two levels, one for the skill of cards of another grade, or   *)
(* as many as a byte cannot hold.                                          *)
(***************************************************************************)
EXTENDS CardGrowth

CONSTANTS c1, c2, supporter

MCUids == {c1, c2}
MCTableIds == {supporter}
MCTableId == [c \in MCUids |-> supporter]
MCMaxLevel == [w \in 0..1 |-> 2 + w]

LevelItems(n) == [cnt |-> n, lvs |-> 0, level |-> TRUE, skill |-> {}]
SkillItems(n, for) == [cnt |-> n, lvs |-> 2 * n, level |-> FALSE, skill |-> for]

MCItemLists ==
  {NoItems, LevelItems(1), LevelItems(256), SkillItems(1, {supporter}), SkillItems(1, {}),
   SkillItems(256, {supporter})}
=============================================================================
