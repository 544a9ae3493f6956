----------------------------- MODULE CardSlots -----------------------------
(***************************************************************************)
(* Where a user's cards are placed, C++/CardContents.cpp: every card knows *)
(* its position (posKind_, posValue_, posSlotNum_), and m_PosContVec holds *)
(* the card of every slot of every position.                               *)
(*                                                                         *)
(* A request is checked and turned into a packet (IsCan...), the packet    *)
(* goes to the database, and is then applied (DoSet..., DoDel).  The       *)
(* caller is not in the repository: a user's requests are served one after *)
(* the other, and cards may be added while one is under way.  Leveling     *)
(* cards up is CardGrowth's; here it only deletes the cards it uses up.    *)
(*                                                                         *)
(* A request to place a card is a struct that also has the fields of the   *)
(* answer, oldCardUID_ and oldCardChangeSlotNum_.  The check writes them   *)
(* when a card is displaced, and otherwise leaves what they came with.     *)
(***************************************************************************)
EXTENDS Naturals, Sequences, FiniteSets

CONSTANTS
  Uids,           \* card uids
  TableId,        \* TableId[c]: which kind of card c is
  Chars,          \* positions of eContentsPosKind::CHAR
  Facilities,     \* positions of eContentsPosKind::FACILITY
  Dispatches,     \* positions filled by a list of cards, of some other kind
  CharSlots,      \* eCardSlotPosMax::CHAR
  FacilitySlots,  \* eCardSlotPosMax::FACILITY
  SlotMax,        \* eCardSlotPosMax::_SLOT_MAX_
  NoCard,         \* Piece::ms_Null and INVALID_UID
  ReplyFields,    \* what those fields of a request may come with
  NoValue         \* posValue_ of a card in no position

Reply == [old : Uids \union {NoCard}, oldSlot : 0..SlotMax]

\* Characters and facilities may have posValue_s in common.
ASSUME CardSlotsAssumption ==
  /\ SlotMax \in Nat
  /\ CharSlots \in 0..SlotMax
  /\ FacilitySlots \in 0..SlotMax
  /\ NoValue \notin Chars \union Facilities \union Dispatches
  /\ NoCard \notin Uids
  /\ ReplyFields \subseteq Reply

VARIABLES
  owned,    \* keys of m_Cont
  locked,   \* the cards with lock_
  place,    \* place[c]: the position and slot card c says it is in
  slotMap,  \* m_PosContVec: the card of every slot, or NoCard
  busy,     \* the facilities that let no card in or out for now
  packet    \* the checked request that is not applied yet

cardVars == <<owned, locked, place, slotMap>>
vars == <<cardVars, busy, packet>>

Slots == 0..(SlotMax - 1)

At(kind, value, slot) == [kind |-> kind, value |-> value, slot |-> slot]
NoPlace == At("none", NoValue, 0)

Places ==
  [kind : {"char"}, value : Chars, slot : Slots]
    \union [kind : {"facility"}, value : Facilities, slot : Slots]
    \union [kind : {"dispatch"}, value : Dispatches, slot : Slots]

SamePosition(p, q) == p.kind = q.kind /\ p.value = q.value

\* IsCanApplyPosCard compares posValue_ without posKind_: a facility whose
\* value is also a character's is taken for that character.
Sound == {p \in Places : p.kind = "facility" => p.value \notin Chars}

Packet ==
  [type : {"none"}]
    \union [type : {"apply"}, card : Uids, to : Places, old : Uids \union {NoCard},
            oldSlot : 0..SlotMax]
    \union [type : {"list"}, value : Dispatches, cards : Seq(Uids)]
    \union [type : {"out"}, cards : SUBSET Uids]
    \union [type : {"lock"}, card : Uids, flag : BOOLEAN]
    \union [type : {"delete"}, cards : SUBSET Uids]

NoPacket == [type |-> "none"]

TypeOK ==
  /\ owned \subseteq Uids
  /\ locked \subseteq Uids
  /\ place \in [Uids -> Places \union {NoPlace}]
  /\ slotMap \in [Places -> Uids \union {NoCard}]
  /\ busy \subseteq Facilities
  /\ packet \in Packet

SlotsOf(kind) == IF kind = "char" THEN CharSlots ELSE FacilitySlots

\* The cards of S in the positions they were in when the user was last there.
LoadedPlaces(S) ==
  {f \in [Uids -> Places \union {NoPlace}] :
     /\ \A c \in Uids \ S : f[c] = NoPlace
     /\ \A c \in S : f[c].kind \in {"char", "facility"} => f[c].slot < SlotsOf(f[c].kind)
     /\ \A c, d \in S :
          /\ f[c] # NoPlace /\ SamePosition(f[c], f[d])
          /\ f[c].slot = f[d].slot \/ TableId[c] = TableId[d]
          => c = d}

\* DoInit: DoAdd puts the loaded cards into their slots.
Init ==
  /\ owned \in SUBSET Uids
  /\ locked \in SUBSET owned
  /\ place \in LoadedPlaces(owned)
  /\ slotMap = [p \in Places |->
       IF \E c \in Uids : place[c] = p THEN CHOOSE c \in Uids : place[c] = p ELSE NoCard]
  /\ busy = {}
  /\ packet = NoPacket

\* Later on DoAdd adds new cards, which are in no position.
DoAdd(c) ==
  /\ c \notin owned
  /\ owned' = owned \union {c}
  /\ \E lock \in BOOLEAN : locked' = IF lock THEN locked \union {c} ELSE locked \ {c}
  /\ UNCHANGED <<place, slotMap, busy, packet>>

\* A facility starts or ends an operation.
Operate(f) ==
  /\ busy' = IF f \in busy THEN busy \ {f} ELSE busy \union {f}
  /\ UNCHANGED <<cardVars, packet>>

-----------------------------------------------------------------------------
(* Checks: a request that passes becomes the packet (Check).               *)

Ask(p) ==
  /\ packet = NoPacket
  /\ packet' = p
  /\ UNCHANGED <<cardVars, busy>>

\* The slots the check looks at: not the card's own, when the value of the
\* position says that the card only changes slots.
Scanned(c, to) ==
  {k \in 0..(SlotsOf(to.kind) - 1) : place[c].value = to.value => place[c].slot # k}

CardIn(to, k) == slotMap[[to EXCEPT !.slot = k]]

\* The card that is found in the slot.
Displaced(c, to) == IF to.slot \in Scanned(c, to) THEN slotMap[to] ELSE NoCard

\* Mutant: slots are counted from one.
SlotsFromOne(c, to, reply) ==
  [type |-> "apply", card |-> c, to |-> [to EXCEPT !.slot = @ + 1],
   old |-> Displaced(c, to), oldSlot |-> SlotMax]

\* The card that is displaced is taken out, or gets the slot the card came from
\* in the same position.  If there is none, the request keeps what it came with.
ApplyPacket(c, to, reply) ==
  LET old == Displaced(c, to) IN
  [type |-> "apply", card |-> c, to |-> to,
   old |-> IF old = NoCard THEN reply.old ELSE old,
   oldSlot |-> IF old = NoCard THEN reply.oldSlot
               ELSE IF place[c].kind # "none" /\ place[c].value = to.value
               THEN place[c].slot ELSE SlotMax]

\* Mutant: the other slots may hold the same kind of card.
ApplyAmongTwins(c, to) ==
  /\ c \in owned
  /\ place[c] # to
  /\ place[c].kind \in {"none", "char"}
  /\ to.kind \in {"char", "facility"}
  /\ to.kind = "facility" => to.value \notin busy
  /\ to.slot < SlotsOf(to.kind)

\* A card moves from nowhere or from a character, into a slot of a character
\* or facility that lets it in and has no other card of its kind.
IsCanApplyPosCard(c, to) ==
  /\ c \in owned
  /\ place[c] # to
  /\ place[c].kind \in {"none", "char"}
  /\ to.kind \in {"char", "facility"}
  /\ to.kind = "facility" => to.value \notin busy
  /\ to.slot < SlotsOf(to.kind)
  /\ \A k \in Scanned(c, to) \ {to.slot} :
       CardIn(to, k) # NoCard => TableId[CardIn(to, k)] # TableId[c]

\* Mutant: a card of the list may be one the user does not have.
ApplyUnownedCards(value, cards) ==
  /\ \A i \in DOMAIN cards : place[cards[i]].kind = "none"
  /\ \A i, j \in DOMAIN cards : i # j => TableId[cards[i]] # TableId[cards[j]]
  /\ \A k \in Slots : slotMap[At("dispatch", value, k)] = NoCard

\* A list of free cards of different kinds.  Whether the position is free, and
\* has room, is left to the caller's _checkWork: it is taken to be.
IsCanApplyPosCards(value, cards) ==
  /\ \A i \in DOMAIN cards : cards[i] \in owned /\ place[cards[i]].kind = "none"
  /\ \A i, j \in DOMAIN cards : i # j => TableId[cards[i]] # TableId[cards[j]]
  /\ Len(cards) <= SlotMax
  /\ \A k \in Slots : slotMap[At("dispatch", value, k)] = NoCard

\* A busy facility does not let the card go.
IsCanApplyOutPosCard(cards) ==
  /\ cards \subseteq owned
  /\ \A c \in cards : /\ place[c].kind # "none"
                      /\ place[c].kind = "facility" => place[c].value \notin busy

IsCanLockFlag(c, flag) ==
  /\ c \in owned
  /\ flag # (c \in locked)

\* Mutant: a card in use may be sold.
SellInUse(cards) ==
  /\ cards \subseteq owned
  /\ cards \intersect locked = {}

\* Cards are sold, or used up by growing another one, when they are neither
\* locked nor in a position.
IsCanSell(cards) ==
  /\ cards \subseteq owned
  /\ cards \intersect locked = {}
  /\ \A c \in cards : place[c].kind = "none"

Lists == UNION {[1..n -> Uids] : n \in 1..SlotMax}

Check ==
  \/ \E c \in Uids, to \in Places, reply \in ReplyFields :
       IsCanApplyPosCard(c, to) /\ Ask(ApplyPacket(c, to, reply))
  \/ \E value \in Dispatches, cards \in Lists :
       /\ IsCanApplyPosCards(value, cards)
       /\ Ask([type |-> "list", value |-> value, cards |-> cards])
  \/ \E cards \in SUBSET Uids :
       IsCanApplyOutPosCard(cards) /\ Ask([type |-> "out", cards |-> cards])
  \/ \E cards \in SUBSET Uids :
       IsCanSell(cards) /\ Ask([type |-> "delete", cards |-> cards])
  \/ \E c \in Uids, flag \in BOOLEAN :
       IsCanLockFlag(c, flag) /\ Ask([type |-> "lock", card |-> c, flag |-> flag])

-----------------------------------------------------------------------------
(* Packets are applied, or the database refuses them.                      *)

Answered(type) ==
  /\ packet.type = type
  /\ packet' = NoPacket
  /\ UNCHANGED busy

Refused ==
  /\ packet # NoPacket
  /\ packet' = NoPacket
  /\ UNCHANGED <<cardVars, busy>>

\* The slots of map with those of S emptied.
DelPosValue(map, S) == [p \in Places |-> IF p \in S THEN NoCard ELSE map[p]]

\* Mutant: the slot the card came from keeps it.
ApplyKeepsOldSlot ==
  /\ Answered("apply")
  /\ LET swap == packet.old # NoCard /\ packet.oldSlot # SlotMax
         back == [packet.to EXCEPT !.slot = packet.oldSlot]
     IN  /\ slotMap' = [slotMap EXCEPT ![packet.to] = packet.card]
         /\ place' = [c \in Uids |->
              IF c = packet.old THEN IF swap THEN back ELSE NoPlace
              ELSE IF c = packet.card THEN packet.to ELSE place[c]]
  /\ UNCHANGED <<owned, locked>>

\* The card goes into its slot; then the old card of the packet, if the user
\* has it, is taken out, or put into the slot the packet has for it.
DoSetApplyPosCard ==
  /\ Answered("apply")
  /\ LET old == IF packet.old \in owned THEN packet.old ELSE NoCard
         swap == packet.old # NoCard /\ packet.oldSlot # SlotMax
         back == [packet.to EXCEPT !.slot = packet.oldSlot]
         moved == [DelPosValue(slotMap, {place[packet.card]})
                     EXCEPT ![packet.to] = packet.card]
     IN  /\ slotMap' = IF swap THEN [moved EXCEPT ![back] = old] ELSE moved
         /\ place' = [c \in Uids |->
              IF c = old THEN IF swap THEN back ELSE NoPlace
              ELSE IF c = packet.card THEN packet.to ELSE place[c]]
  /\ UNCHANGED <<owned, locked>>

DoSetApplyPosCards ==
  /\ Answered("list")
  /\ slotMap' = [p \in Places |->
       IF p.kind = "dispatch" /\ p.value = packet.value /\ p.slot + 1 \in DOMAIN packet.cards
       THEN packet.cards[p.slot + 1] ELSE slotMap[p]]
  /\ place' = [c \in Uids |->
       IF \E i \in DOMAIN packet.cards : packet.cards[i] = c
       THEN At("dispatch", packet.value,
               (CHOOSE i \in DOMAIN packet.cards : packet.cards[i] = c) - 1)
       ELSE place[c]]
  /\ UNCHANGED <<owned, locked>>

DoSetApplyOutPosCards ==
  /\ Answered("out")
  /\ slotMap' = DelPosValue(slotMap, {place[c] : c \in packet.cards})
  /\ place' = [c \in Uids |-> IF c \in packet.cards THEN NoPlace ELSE place[c]]
  /\ UNCHANGED <<owned, locked>>

DoSetLock ==
  /\ Answered("lock")
  /\ locked' = IF packet.flag THEN locked \union {packet.card} ELSE locked \ {packet.card}
  /\ UNCHANGED <<owned, place, slotMap>>

DoDel ==
  /\ Answered("delete")
  /\ owned' = owned \ packet.cards
  /\ slotMap' = DelPosValue(slotMap, {place[c] : c \in packet.cards})
  /\ place' = [c \in Uids |-> IF c \in packet.cards THEN NoPlace ELSE place[c]]
  /\ UNCHANGED locked

-----------------------------------------------------------------------------
Apply ==
  \/ DoSetApplyPosCard
  \/ DoSetApplyPosCards
  \/ DoSetApplyOutPosCards
  \/ DoSetLock
  \/ DoDel

Next ==
  \/ \E c \in Uids : DoAdd(c)
  \/ \E f \in Facilities : Operate(f)
  \/ Check
  \/ Refused
  \/ Apply

Spec == Init /\ [][Next]_vars

-----------------------------------------------------------------------------
(* Properties.                                                             *)

\* A request that comes with nothing in the fields of the answer.
Unset == [old |-> NoCard, oldSlot |-> SlotMax]

\* The cards and the slot map, changed by moves, swaps, detachments, lists
\* and deletions, are the two directions of one relation: a slot holds no card
\* that is elsewhere or gone, and a card is in the slot it says it is in,
\* unless that is a facility's that is taken for a character.
SlotsMatchCards ==
  /\ \A p \in Places : slotMap[p] # NoCard => place[slotMap[p]] = p
  /\ \A c \in Uids : place[c] \in Sound => slotMap[place[c]] = c
  /\ \A c \in Uids : place[c] # NoPlace => c \in owned

\* No position has two cards of the same kind, though cards swap slots, and
\* push each other out, without being compared with the card they replace.
NoTwins ==
  \A c, d \in Uids :
    /\ place[c] \in Sound
    /\ SamePosition(place[c], place[d])
    /\ TableId[c] = TableId[d]
    => c = d

\* CardContents.cpp:236 and 616: the card that is taken out, or gets another
\* slot, is the one that was in the slot the card goes to.
OldCardWasInTheSlot ==
  packet.type = "apply" => packet.old \in {NoCard, slotMap[packet.to]}

\* No card that is locked, or in a position, is deleted: what was checked when
\* the request came in holds when the database has answered.
HeldCardsStay ==
  [][\A c \in owned \ owned' : c \notin locked /\ place[c] = NoPlace]_vars

Held == {c \in Uids : c \in locked \/ place[c] # NoPlace}

Keeping == INSTANCE CardKeeping WITH held <- Held

\* Locks, moves, swaps, displacements, lists and deletions are what CardKeeping
\* allows: only cards of the user's come to be held, and held ones stay.
ImplementsKeeping == Keeping!Spec
=============================================================================
