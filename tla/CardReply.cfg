CONSTANTS
  c1 = c1
  c2 = c2
  c3 = c3
  char = char
  char2 = char2
  facility = facility
  dispatch = dispatch
  Uids <- MCUids
  TableId <- MCTableId
  Chars <- MCChars
  Facilities <- MCFacilities
  Dispatches <- MCDispatches
  CharSlots = 2
  FacilitySlots = 1
  SlotMax = 2
  NoCard = NoCard
  NoValue = NoValue
  ReplyFields <- MCReused

SPECIFICATION Spec

INVARIANT OldCardWasInTheSlot
