---------------------------- MODULE CardKeeping ----------------------------
(***************************************************************************)
(* What C++/CardContents.cpp promises about a user's cards: a card that is *)
(* held, by a lock or by a position, is kept.  CardSlots has the locks and *)
(* the positions and CardGrowth uses cards up; each is shown to implement  *)
(* this module, so that what CardGrowth takes the other to do to a card    *)
(* (Hold) is no more than it may do.                                       *)
(***************************************************************************)
CONSTANT Uids

VARIABLES
  owned,  \* the user's cards
  held    \* those that are locked or in a position

\* The cards the user had before.
Init ==
  /\ owned \subseteq Uids
  /\ held \subseteq owned

\* A new card may be locked from the start.
Add(c) ==
  /\ c \in Uids \ owned
  /\ owned' = owned \union {c}
  /\ held' \in {held, held \union {c}}

\* A move frees the cards it displaces; only the user's cards can be held.
Hold ==
  /\ held' \in SUBSET owned
  /\ UNCHANGED owned

\* Sold, or used up by growing another card.
Remove(S) ==
  /\ S \subseteq owned \ held
  /\ owned' = owned \ S
  /\ UNCHANGED held

Next ==
  \/ \E c \in Uids : Add(c)
  \/ Hold
  \/ \E S \in SUBSET owned : Remove(S)

Spec == Init /\ [][Next]_<<owned, held>>
=============================================================================
