---------------------------- MODULE MCCardSlots ----------------------------
(***************************************************************************)
(* CardSlots with three cards, two of the same kind; two characters with   *)
(* two slots, two facilities with one, one of which has a character's      *)
(* value, and a dispatch.                                                  *)
(***************************************************************************)
EXTENDS CardSlots

CONSTANTS c1, c2, c3, char, char2, facility, dispatch

MCUids == {c1, c2, c3}
MCTableId == [c \in MCUids |-> IF c = c3 THEN 2 ELSE 1]
MCChars == {char, char2}
MCFacilities == {char, facility}
MCDispatches == {dispatch}
MCUnset == {Unset}
MCReused == {Unset} \union [old : {c3}, oldSlot : {0, SlotMax}]
=============================================================================
