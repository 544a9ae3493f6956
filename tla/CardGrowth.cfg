CONSTANTS
  c1 = c1
  c2 = c2
  supporter = supporter
  Uids <- MCUids
  TableIds <- MCTableIds
  TableId <- MCTableId
  MaxLevel <- MCMaxLevel
  MaxWake = 1
  MaxSkillLv = 3
  MaxFavorLv = 2
  ItemLists <- MCItemLists
  MaxMaterCnt = 2

SPECIFICATION Spec

INVARIANTS
  TypeOK
  MaxedCardsAreInTheBook
  RewardsMatchBook

PROPERTIES
  GrowthIsKept
  ImplementsKeeping
