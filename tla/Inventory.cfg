CONSTANTS
  sword = sword
  trophy = trophy
  gem = gem
  p1 = p1
  p2 = p2
  k0 = k0
  k1 = k1
  k2 = k2
  weapon = weapon
  jewel = jewel
  ItemIds <- MCItemIds
  Equipment <- MCEquipment
  Categories <- MCCategories
  Category <- MCCategory
  PresetIds <- MCPresetIds
  SocketIds <- MCSocketIds
  AskedSockets <- MCAskedSockets
  MaxItemCount = 2
  NoItem = NoItem

SYMMETRY MCSymmetry

SPECIFICATION Spec

INVARIANTS
  TypeOK
  OneItemPerPlace
  CacheMatchesDatabase
  UpdatesFindTheirItems
