-------------------------- MODULE CardSlotsProofs --------------------------
(***************************************************************************)
(* TLAPS proofs about CardSlots, for any cards, kinds of card, positions   *)
(* and numbers of slots.  Whatever a request comes with, held cards are    *)
(* kept (KeepInv).  Where requests come with nothing in the fields of the  *)
(* answer, the slots and the cards are in step and no twins meet           *)
(* (FitInv).                                                               *)
(***************************************************************************)
EXTENDS CardSlots, TLAPS

PlacedAreOwned == \A c \in Uids : place[c] # NoPlace => c \in owned

LocksAreOwned == locked \subseteq owned

\* A packet is about the user's cards, and what it deletes is not held.
PacketKeeps ==
  /\ packet.type \in {"apply", "lock"} => packet.card \in owned
  /\ packet.type = "list" =>
       /\ Len(packet.cards) <= SlotMax
       /\ \A i \in DOMAIN packet.cards : packet.cards[i] \in owned
  /\ packet.type = "delete" =>
       /\ packet.cards \subseteq owned \ locked
       /\ \A c \in packet.cards : place[c].kind = "none"

\* Inductive, whatever requests come with.
KeepInv ==
  /\ TypeOK
  /\ PlacedAreOwned
  /\ LocksAreOwned
  /\ PacketKeeps

\* A card is in a slot its position has.
SlotsInRange ==
  \A c \in Uids :
    place[c] \in Sound /\ place[c].kind \in {"char", "facility"} =>
      place[c].slot < SlotsOf(place[c].kind)

\* A move that was checked and is not applied yet: the checks still hold, and
\* the packet tells who is in the slot.
ApplyOK(c, to) ==
  /\ c \in owned /\ to \in Places
  /\ place[c] # to
  /\ place[c].kind \in {"none", "char"}
  /\ to.kind \in {"char", "facility"}
  /\ to.slot < SlotsOf(to.kind)
  /\ \A k \in Scanned(c, to) \ {to.slot} :
       CardIn(to, k) # NoCard => TableId[CardIn(to, k)] # TableId[c]
  /\ packet = ApplyPacket(c, to, Unset)

ListOK(value, cards) ==
  /\ value \in Dispatches
  /\ cards \in Seq(Uids) /\ Len(cards) <= SlotMax
  /\ \A i \in DOMAIN cards : cards[i] \in owned /\ place[cards[i]].kind = "none"
  /\ \A i, j \in DOMAIN cards : i # j => TableId[cards[i]] # TableId[cards[j]]
  /\ \A k \in Slots : slotMap[At("dispatch", value, k)] = NoCard

\* What was checked when the request came in holds until it is applied.
PacketFits ==
  /\ packet.type = "apply" => ApplyOK(packet.card, packet.to)
  /\ packet.type = "list" => ListOK(packet.value, packet.cards)

\* Inductive with KeepInv, where requests come with nothing in those fields.
FitInv ==
  /\ SlotsMatchCards
  /\ NoTwins
  /\ SlotsInRange
  /\ PacketFits

-----------------------------------------------------------------------------
(* Lemmas about places.                                                    *)

\* Whatever number of slots a position has, none is past SlotMax.
LEMMA SlotsOfBound ==
  ASSUME NEW kind \in {"char", "facility"}
  PROVE  SlotsOf(kind) \in 0..SlotMax
BY CardSlotsAssumption DEF SlotsOf

\* Places are three kinds of records, each with values of its own.
LEMMA PlaceFields ==
  ASSUME NEW p \in Places
  PROVE  /\ p.kind \in {"char", "facility", "dispatch"}
         /\ p.slot \in Slots
         /\ p.value # NoValue
         /\ p.kind = "char" => p.value \in Chars
         /\ p.kind = "facility" => p.value \in Facilities
         /\ p.kind = "dispatch" => p.value \in Dispatches
BY CardSlotsAssumption DEF Places

LEMMA NoPlaceFields ==
  /\ NoPlace.kind = "none"
  /\ NoPlace.value = NoValue
  /\ NoPlace \notin Places
BY PlaceFields DEF NoPlace, At

\* A place is known by its kind, its value and its slot.
LEMMA PlaceEqual ==
  ASSUME NEW p \in Places, NEW q \in Places,
         p.kind = q.kind, p.value = q.value, p.slot = q.slot
  PROVE  p = q
BY DEF Places

\* Another slot of the same position is a place too.
LEMMA OtherSlot ==
  ASSUME NEW p \in Places, NEW k \in Slots
  PROVE  /\ [p EXCEPT !.slot = k] \in Places
         /\ [p EXCEPT !.slot = k].kind = p.kind
         /\ [p EXCEPT !.slot = k].value = p.value
         /\ [p EXCEPT !.slot = k].slot = k
BY DEF Places

\* Whether a place is taken for another is a matter of its position.
LEMMA SoundPosition ==
  ASSUME NEW p \in Places, NEW q \in Places, SamePosition(p, q)
  PROVE  p \in Sound <=> q \in Sound
BY DEF Sound, SamePosition

\* A card says that it is in no position, or where.
LEMMA KindOfPlace ==
  ASSUME TypeOK, NEW c \in Uids
  PROVE  /\ place[c] \in Places \/ place[c] = NoPlace
         /\ place[c].kind = "none" <=> place[c] = NoPlace
BY PlaceFields, NoPlaceFields DEF TypeOK

\* No slot holds two cards, and no card is in two slots.
LEMMA OneSlot ==
  ASSUME SlotsMatchCards, NEW c \in Uids, NEW d \in Uids,
         place[c] \in Sound, place[d] = place[c]
  PROVE  c = d
BY DEF SlotsMatchCards

-----------------------------------------------------------------------------
(* Held cards are kept.                                                    *)

LEMMA InitKeepInv == Init => KeepInv
<1>. SUFFICES ASSUME Init PROVE KeepInv
  OBVIOUS
<1>1. /\ owned \subseteq Uids /\ locked \subseteq owned
      /\ place \in [Uids -> Places \union {NoPlace}]
      /\ \A c \in Uids \ owned : place[c] = NoPlace
      /\ packet = NoPacket /\ busy = {}
  BY DEF Init, LoadedPlaces
<1>2. slotMap \in [Places -> Uids \union {NoCard}]
  <2>1. \A p \in Places :
          (IF \E c \in Uids : place[c] = p THEN CHOOSE c \in Uids : place[c] = p ELSE NoCard)
            \in Uids \union {NoCard}
    OBVIOUS
  <2>. QED  BY <2>1 DEF Init
<1>3. packet \in Packet /\ packet.type = "none"
  BY <1>1 DEF Packet, NoPacket
<1>. QED  BY <1>1, <1>2, <1>3 DEF KeepInv, TypeOK, PlacedAreOwned, LocksAreOwned, PacketKeeps

\* A check only makes the packet.
LEMMA AskKeeps ==
  ASSUME KeepInv, NEW p \in Packet, Ask(p), PacketKeeps'
  PROVE  KeepInv'
BY DEF Ask, KeepInv, TypeOK, PlacedAreOwned, LocksAreOwned, cardVars

LEMMA CheckKeeps ==
  ASSUME KeepInv, Check
  PROVE  KeepInv'
<1>1. ASSUME NEW c \in Uids, NEW to \in Places, NEW reply \in ReplyFields,
             IsCanApplyPosCard(c, to), Ask(ApplyPacket(c, to, reply))
      PROVE  KeepInv'
  <2>1. Ask(ApplyPacket(c, to, reply))
    BY <1>1
  <2>2. ApplyPacket(c, to, reply) \in Packet
    <3>1. Displaced(c, to) \in Uids \union {NoCard}
      BY DEF KeepInv, TypeOK, Displaced
    <3>2. place[c].slot \in 0..SlotMax
      BY KindOfPlace, PlaceFields, CardSlotsAssumption DEF KeepInv, Slots, NoPlace, At
    <3>3. reply.old \in Uids \union {NoCard} /\ reply.oldSlot \in 0..SlotMax
      BY CardSlotsAssumption DEF Reply
    <3>. QED  BY <3>1, <3>2, <3>3, CardSlotsAssumption DEF ApplyPacket, Packet
  <2>3. packet'.type = "apply" /\ packet'.card = c
    BY <2>1 DEF Ask, ApplyPacket
  <2>4. PacketKeeps'
    BY <1>1, <2>1, <2>3 DEF IsCanApplyPosCard, PacketKeeps, Ask, cardVars
  <2>. QED  BY <2>1, <2>2, <2>4, AskKeeps
<1>2. ASSUME NEW value \in Dispatches, NEW cards \in Lists, IsCanApplyPosCards(value, cards),
             Ask([type |-> "list", value |-> value, cards |-> cards])
      PROVE  KeepInv'
  <2>. DEFINE p == [type |-> "list", value |-> value, cards |-> cards]
  <2>1. Ask(p)
    BY <1>2
  <2>2. cards \in Seq(Uids)
    BY CardSlotsAssumption DEF Lists
  <2>3. p \in Packet
    BY <2>2 DEF Packet
  <2>4. PacketKeeps'
    BY <1>2, <2>1, <2>2 DEF IsCanApplyPosCards, PacketKeeps, Ask, cardVars
  <2>. QED  BY <2>1, <2>3, <2>4, AskKeeps
<1>3. ASSUME NEW cards \in SUBSET Uids, Ask([type |-> "out", cards |-> cards])
      PROVE  KeepInv'
  <2>. DEFINE p == [type |-> "out", cards |-> cards]
  <2>1. Ask(p) /\ p \in Packet
    BY <1>3 DEF Packet
  <2>2. PacketKeeps'
    BY <2>1 DEF PacketKeeps, Ask
  <2>. QED  BY <2>1, <2>2, AskKeeps
<1>4. ASSUME NEW cards \in SUBSET Uids, IsCanSell(cards),
             Ask([type |-> "delete", cards |-> cards])
      PROVE  KeepInv'
  <2>. DEFINE p == [type |-> "delete", cards |-> cards]
  <2>1. Ask(p) /\ p \in Packet
    BY <1>4 DEF Packet
  <2>2. PacketKeeps'
    BY <1>4, <2>1 DEF IsCanSell, PacketKeeps, Ask, cardVars
  <2>. QED  BY <2>1, <2>2, AskKeeps
<1>5. ASSUME NEW c \in Uids, NEW flag \in BOOLEAN, IsCanLockFlag(c, flag),
             Ask([type |-> "lock", card |-> c, flag |-> flag])
      PROVE  KeepInv'
  <2>. DEFINE p == [type |-> "lock", card |-> c, flag |-> flag]
  <2>1. Ask(p) /\ p \in Packet
    BY <1>5 DEF Packet
  <2>2. PacketKeeps'
    BY <1>5, <2>1 DEF IsCanLockFlag, PacketKeeps, Ask, cardVars
  <2>. QED  BY <2>1, <2>2, AskKeeps
<1>. QED  BY <1>1, <1>2, <1>3, <1>4, <1>5 DEF Check

\* Applying leaves no packet.
LEMMA AnsweredPacket ==
  ASSUME NEW type, Answered(type)
  PROVE  packet' \in Packet /\ PacketKeeps' /\ PacketFits' /\ busy' = busy
BY DEF Answered, PacketKeeps, PacketFits, Packet, NoPacket

\* What a move does, whatever old card the packet names.
LEMMA MoveEffect ==
  ASSUME KeepInv, DoSetApplyPosCard
  PROVE  LET old == IF packet.old \in owned THEN packet.old ELSE NoCard
             swap == packet.old # NoCard /\ packet.oldSlot # SlotMax
             back == [packet.to EXCEPT !.slot = packet.oldSlot]
         IN  /\ packet.card \in owned /\ packet.to \in Places
             /\ swap => back \in Places
             /\ \A p \in Places :
                  slotMap'[p] = IF swap /\ p = back THEN old
                                ELSE IF p = packet.to THEN packet.card
                                ELSE IF p = place[packet.card] THEN NoCard ELSE slotMap[p]
             /\ \A d \in Uids :
                  place'[d] = IF d = old THEN IF swap THEN back ELSE NoPlace
                              ELSE IF d = packet.card THEN packet.to ELSE place[d]
             /\ place' \in [Uids -> Places \union {NoPlace}]
             /\ slotMap' \in [Places -> Uids \union {NoCard}]
             /\ UNCHANGED <<owned, locked>>
<1>. DEFINE old == IF packet.old \in owned THEN packet.old ELSE NoCard
            swap == packet.old # NoCard /\ packet.oldSlot # SlotMax
            back == [packet.to EXCEPT !.slot = packet.oldSlot]
            moved == [DelPosValue(slotMap, {place[packet.card]})
                        EXCEPT ![packet.to] = packet.card]
<1>1. /\ packet.type = "apply"
      /\ slotMap' = IF swap THEN [moved EXCEPT ![back] = old] ELSE moved
      /\ place' = [d \in Uids |->
           IF d = old THEN IF swap THEN back ELSE NoPlace
           ELSE IF d = packet.card THEN packet.to ELSE place[d]]
      /\ UNCHANGED <<owned, locked>>
  BY DEF DoSetApplyPosCard, Answered
<1>2. /\ place \in [Uids -> Places \union {NoPlace}]
      /\ slotMap \in [Places -> Uids \union {NoCard}]
      /\ owned \subseteq Uids /\ packet \in Packet /\ packet.card \in owned
  BY <1>1 DEF KeepInv, TypeOK, PacketKeeps
<1>3. packet.to \in Places /\ packet.oldSlot \in 0..SlotMax
  BY <1>1, <1>2 DEF Packet
<1>4. swap => back \in Places
  <2>1. swap => packet.oldSlot \in Slots
    BY <1>3, CardSlotsAssumption DEF Slots
  <2>. QED  BY <1>3, <2>1, OtherSlot
<1>5. old \in Uids \union {NoCard}
  BY <1>2
<1>. HIDE DEF old, back
<1>6. /\ moved \in [Places -> Uids \union {NoCard}]
      /\ \A p \in Places : moved[p] = IF p = packet.to THEN packet.card
                                      ELSE IF p = place[packet.card] THEN NoCard ELSE slotMap[p]
  BY <1>2, <1>3 DEF DelPosValue
<1>7. /\ slotMap' \in [Places -> Uids \union {NoCard}]
      /\ \A p \in Places : slotMap'[p] = IF swap /\ p = back THEN old ELSE moved[p]
  <2>. HIDE DEF moved
  <2>1. CASE swap
    BY <1>1, <1>4, <1>5, <1>6, <2>1
  <2>2. CASE ~swap
    BY <1>1, <1>6, <2>2
  <2>. QED  BY <2>1, <2>2
<1>8. place' \in [Uids -> Places \union {NoPlace}]
  BY <1>1, <1>2, <1>3, <1>4
<1>9. \A p \in Places :
        slotMap'[p] = IF swap /\ p = back THEN old
                      ELSE IF p = packet.to THEN packet.card
                      ELSE IF p = place[packet.card] THEN NoCard ELSE slotMap[p]
  <2>. HIDE DEF moved, swap
  <2>. QED  BY <1>6, <1>7
<1>10. \A d \in Uids :
         place'[d] = IF d = old THEN IF swap THEN back ELSE NoPlace
                     ELSE IF d = packet.card THEN packet.to ELSE place[d]
  BY <1>1
<1>. QED  BY <1>1, <1>2, <1>3, <1>4, <1>7, <1>8, <1>9, <1>10 DEF old, back

LEMMA MoveKeeps ==
  ASSUME KeepInv, DoSetApplyPosCard
  PROVE  KeepInv'
<1>1. packet' \in Packet /\ PacketKeeps' /\ busy' = busy
  BY AnsweredPacket DEF DoSetApplyPosCard
<1>2. /\ place' \in [Uids -> Places \union {NoPlace}]
      /\ slotMap' \in [Places -> Uids \union {NoCard}]
      /\ UNCHANGED <<owned, locked>>
  BY MoveEffect
<1>3. \A d \in Uids : d \in owned \/ place'[d] = place[d]
  <2>. SUFFICES ASSUME NEW d \in Uids, d \notin owned
                PROVE  place'[d] = place[d]
    OBVIOUS
  <2>1. packet.card \in owned /\ d # NoCard
    BY MoveEffect, CardSlotsAssumption
  <2>2. d # (IF packet.old \in owned THEN packet.old ELSE NoCard)
    BY <2>1
  <2>. QED  BY <2>1, <2>2, MoveEffect
<1>. QED  BY <1>1, <1>2, <1>3 DEF KeepInv, TypeOK, PlacedAreOwned, LocksAreOwned

LEMMA ListKeeps ==
  ASSUME KeepInv, DoSetApplyPosCards
  PROVE  KeepInv'
<1>. DEFINE value == packet.value
            cards == packet.cards
            Taken(p) == p.kind = "dispatch" /\ p.value = value /\ p.slot + 1 \in DOMAIN cards
<1>1. packet.type = "list" /\ packet' \in Packet /\ PacketKeeps' /\ busy' = busy
  BY AnsweredPacket DEF DoSetApplyPosCards, Answered
<1>2. /\ slotMap' = [p \in Places |-> IF Taken(p) THEN cards[p.slot + 1] ELSE slotMap[p]]
      /\ place' = [c \in Uids |->
              IF \E i \in DOMAIN cards : cards[i] = c
              THEN At("dispatch", value, (CHOOSE i \in DOMAIN cards : cards[i] = c) - 1)
              ELSE place[c]]
      /\ UNCHANGED <<owned, locked>>
  BY DEF DoSetApplyPosCards
<1>3. /\ value \in Dispatches /\ cards \in Seq(Uids) /\ Len(cards) <= SlotMax
      /\ \A i \in DOMAIN cards : cards[i] \in owned
  <2>1. packet \in Packet
    BY DEF KeepInv, TypeOK
  <2>2. packet \in [type : {"list"}, value : Dispatches, cards : Seq(Uids)]
    BY <1>1, <2>1 DEF Packet
  <2>. QED  BY <1>1, <2>2 DEF KeepInv, PacketKeeps
<1>. HIDE DEF value, cards
<1>4. \A i \in DOMAIN cards : At("dispatch", value, i - 1) \in Places /\ cards[i] \in Uids
  <2>. SUFFICES ASSUME NEW i \in DOMAIN cards
                PROVE  At("dispatch", value, i - 1) \in Places /\ cards[i] \in Uids
    OBVIOUS
  <2>1. i - 1 \in Slots
    BY <1>3, CardSlotsAssumption DEF Slots
  <2>. QED  BY <1>3, <2>1 DEF At, Places
<1>5. place' \in [Uids -> Places \union {NoPlace}]
  BY <1>2, <1>4 DEF KeepInv, TypeOK
<1>6. slotMap' \in [Places -> Uids \union {NoCard}]
  BY <1>2, <1>4 DEF KeepInv, TypeOK
<1>7. PlacedAreOwned'
  BY <1>2, <1>3 DEF KeepInv, PlacedAreOwned
<1>. QED  BY <1>1, <1>2, <1>5, <1>6, <1>7 DEF KeepInv, TypeOK, LocksAreOwned

\* Cards that are taken out are in no position any more.
LEMMA OutKeeps ==
  ASSUME KeepInv, DoSetApplyOutPosCards \/ DoDel
  PROVE  KeepInv'
<1>1. packet' \in Packet /\ PacketKeeps' /\ busy' = busy
  BY AnsweredPacket DEF DoSetApplyOutPosCards, DoDel
<1>2. /\ slotMap' = DelPosValue(slotMap, {place[c] : c \in packet.cards})
      /\ place' = [c \in Uids |-> IF c \in packet.cards THEN NoPlace ELSE place[c]]
      /\ UNCHANGED locked
  BY DEF DoSetApplyOutPosCards, DoDel
<1>3. /\ place' \in [Uids -> Places \union {NoPlace}]
      /\ slotMap' \in [Places -> Uids \union {NoCard}]
  BY <1>2 DEF KeepInv, TypeOK, DelPosValue
<1>4. \/ owned' = owned
      \/ packet.type = "delete" /\ owned' = owned \ packet.cards
  BY DEF DoSetApplyOutPosCards, DoDel, Answered
<1>5. owned' \subseteq owned /\ LocksAreOwned'
  BY <1>2, <1>4 DEF KeepInv, LocksAreOwned, PacketKeeps
<1>6. PlacedAreOwned'
  BY <1>2, <1>4 DEF KeepInv, PlacedAreOwned
<1>. QED  BY <1>1, <1>2, <1>3, <1>5, <1>6 DEF KeepInv, TypeOK

LEMMA NextKeepInv ==
  ASSUME KeepInv, [Next]_vars
  PROVE  KeepInv'
<1>1. ASSUME NEW c \in Uids, DoAdd(c)
      PROVE  KeepInv'
  <2>1. /\ owned' = owned \union {c} /\ c \notin owned
        /\ UNCHANGED <<place, slotMap, busy, packet>>
        /\ locked' = locked \union {c} \/ locked' = locked \ {c}
    BY <1>1 DEF DoAdd
  <2>2. TypeOK' /\ PlacedAreOwned' /\ LocksAreOwned'
    BY <2>1 DEF KeepInv, TypeOK, PlacedAreOwned, LocksAreOwned
  <2>3. PacketKeeps'
    BY <2>1 DEF KeepInv, PacketKeeps
  <2>. QED  BY <2>2, <2>3 DEF KeepInv
<1>2. ASSUME NEW f \in Facilities, Operate(f)
      PROVE  KeepInv'
  BY <1>2 DEF Operate, KeepInv, TypeOK, PlacedAreOwned, LocksAreOwned, PacketKeeps, cardVars
<1>3. CASE Check
  BY <1>3, CheckKeeps
<1>4. CASE Refused
  BY <1>4 DEF Refused, KeepInv, TypeOK, PlacedAreOwned, LocksAreOwned, PacketKeeps, Packet, NoPacket, cardVars
<1>5. CASE DoSetLock
  <2>1. packet.type = "lock" /\ packet' \in Packet /\ PacketKeeps' /\ busy' = busy
    BY <1>5, AnsweredPacket DEF DoSetLock, Answered
  <2>2. /\ UNCHANGED <<owned, place, slotMap>>
        /\ locked' \in {locked \union {packet.card}, locked \ {packet.card}}
    BY <1>5 DEF DoSetLock
  <2>. QED  BY <2>1, <2>2 DEF KeepInv, TypeOK, PlacedAreOwned, LocksAreOwned, PacketKeeps
<1>6. CASE Apply /\ ~DoSetLock
  BY <1>6, MoveKeeps, ListKeeps, OutKeeps DEF Apply
<1>7. CASE UNCHANGED vars
  BY <1>7 DEF vars, cardVars, KeepInv, TypeOK, PlacedAreOwned, LocksAreOwned, PacketKeeps
<1>. QED  BY <1>1, <1>2, <1>3, <1>4, <1>5, <1>6, <1>7 DEF Next

-----------------------------------------------------------------------------
(* Cards and slots stay in step: the initial states and the steps that     *)
(* move no card.                                                           *)

LEMMA InitFitInv == Init => FitInv
<1>. SUFFICES ASSUME Init PROVE FitInv
  OBVIOUS
<1>1. /\ owned \subseteq Uids
      /\ place \in [Uids -> Places \union {NoPlace}]
      /\ \A c \in Uids \ owned : place[c] = NoPlace
      /\ \A c \in owned : place[c].kind \in {"char", "facility"} =>
                            place[c].slot < SlotsOf(place[c].kind)
      /\ \A c, d \in owned :
           /\ place[c] # NoPlace /\ SamePosition(place[c], place[d])
           /\ place[c].slot = place[d].slot \/ TableId[c] = TableId[d]
           => c = d
      /\ packet.type = "none"
  BY DEF Init, LoadedPlaces, NoPacket
<1>2. ASSUME NEW p \in Places
      PROVE  \/ slotMap[p] \in Uids /\ place[slotMap[p]] = p
             \/ slotMap[p] = NoCard /\ \A c \in Uids : place[c] # p
  BY <1>2 DEF Init
<1>3. \A c \in Uids : place[c] \in Sound => c \in owned /\ place[c] # NoPlace
  BY <1>1, NoPlaceFields DEF Sound
<1>4. SlotsMatchCards
  <2>1. ASSUME NEW c \in Uids, place[c] \in Sound
        PROVE  slotMap[place[c]] = c
    <3>. DEFINE d == slotMap[place[c]]
    <3>1. d \in Uids /\ place[d] = place[c]
      BY <1>2, <2>1 DEF Sound
    <3>2. c \in owned /\ d \in owned /\ place[c] # NoPlace
      BY <1>3, <2>1, <3>1
    <3>. HIDE DEF d
    <3>3. c = d
      BY <1>1, <3>1, <3>2 DEF SamePosition
    <3>. QED  BY <3>3 DEF d
  <2>2. \A p \in Places : slotMap[p] # NoCard => place[slotMap[p]] = p
    BY <1>2
  <2>. QED  BY <1>1, <2>1, <2>2 DEF SlotsMatchCards
<1>5. NoTwins
  <2>. SUFFICES ASSUME NEW c \in Uids, NEW d \in Uids, place[c] \in Sound,
                       SamePosition(place[c], place[d]), TableId[c] = TableId[d]
                PROVE  c = d
    BY DEF NoTwins
  <2>1. c \in owned /\ place[c] # NoPlace /\ place[c] \in Places
    BY <1>3 DEF Sound
  <2>2. d \in owned
    BY <1>1, <2>1, PlaceFields, NoPlaceFields DEF SamePosition
  <2>. QED  BY <1>1, <2>1, <2>2
<1>6. SlotsInRange
  BY <1>1, <1>3 DEF SlotsInRange
<1>7. PacketFits
  BY <1>1 DEF PacketFits
<1>. QED  BY <1>4, <1>5, <1>6, <1>7 DEF FitInv

\* Placing cards and naming slots is all that the relation depends on.
LEMMA UnmovedFits ==
  ASSUME FitInv, UNCHANGED <<place, slotMap>>, owned \subseteq owned', PacketFits'
  PROVE  FitInv'
BY DEF FitInv, SlotsMatchCards, NoTwins, SlotsInRange

\* What was checked holds as long as no card moves and none goes.
LEMMA WaitingFits ==
  ASSUME FitInv, UNCHANGED <<place, slotMap, packet>>, owned \subseteq owned'
  PROVE  FitInv'
<1>1. /\ packet.type = "apply" => ApplyOK(packet.card, packet.to)'
      /\ packet.type = "list" => ListOK(packet.value, packet.cards)'
  BY DEF FitInv, PacketFits, ApplyOK, ListOK, ApplyPacket, Displaced, Scanned, CardIn
<1>2. PacketFits'
  BY <1>1 DEF PacketFits
<1>. QED  BY <1>2, UnmovedFits

\* A check makes a packet that fits.
LEMMA CheckFits ==
  ASSUME ReplyFields \subseteq {Unset}, FitInv, Check
  PROVE  FitInv'
<1>1. UNCHANGED <<owned, place, slotMap>>
  BY DEF Check, Ask, cardVars
<1>2. ASSUME NEW c \in Uids, NEW to \in Places, NEW reply \in ReplyFields,
             IsCanApplyPosCard(c, to), Ask(ApplyPacket(c, to, reply))
      PROVE  PacketFits'
  <2>1. packet' = ApplyPacket(c, to, Unset)
    BY <1>2 DEF Ask
  <2>2. ApplyOK(c, to)'
    BY <1>1, <1>2, <2>1
    DEF IsCanApplyPosCard, ApplyOK, ApplyPacket, Displaced, Scanned, CardIn
  <2>3. packet'.type = "apply" /\ packet'.card = c /\ packet'.to = to
    BY <2>1 DEF ApplyPacket
  <2>. QED  BY <2>2, <2>3 DEF PacketFits
<1>3. ASSUME NEW value \in Dispatches, NEW cards \in Lists, IsCanApplyPosCards(value, cards),
             Ask([type |-> "list", value |-> value, cards |-> cards])
      PROVE  PacketFits'
  <2>1. cards \in Seq(Uids)
    BY CardSlotsAssumption DEF Lists
  <2>. QED  BY <1>1, <1>3, <2>1 DEF IsCanApplyPosCards, PacketFits, ListOK, Ask
<1>4. ASSUME NEW cards \in SUBSET Uids,
             \/ Ask([type |-> "out", cards |-> cards])
             \/ Ask([type |-> "delete", cards |-> cards])
      PROVE  PacketFits'
  BY <1>4 DEF Ask, PacketFits
<1>5. ASSUME NEW c \in Uids, NEW flag \in BOOLEAN,
             Ask([type |-> "lock", card |-> c, flag |-> flag])
      PROVE  PacketFits'
  BY <1>5 DEF Ask, PacketFits
<1>6. PacketFits'
  BY <1>2, <1>3, <1>4, <1>5 DEF Check
<1>. QED  BY <1>1, <1>6, UnmovedFits

-----------------------------------------------------------------------------
(* A move keeps cards and slots in step.                                   *)

\* What a checked move knows: the old card, if any, is the one in the slot, and
\* the two swap only if the values of their positions say so.
LEMMA ApplyPacketFacts ==
  ASSUME KeepInv, FitInv, NEW c \in Uids, NEW to \in Places, ApplyOK(c, to)
  PROVE  /\ packet.card = c /\ packet.to = to
         /\ packet.old = Displaced(c, to)
         /\ packet.old # NoCard =>
              /\ packet.old = slotMap[to] /\ packet.old \in owned
              /\ place[packet.old] = to
         /\ packet.old # c
         /\ packet.old # NoCard =>
              (packet.oldSlot # SlotMax <=> place[c].value = to.value)
         /\ packet.old # NoCard /\ packet.oldSlot # SlotMax =>
              /\ place[c] \in Places /\ place[c].kind = "char" /\ place[c].value = to.value
              /\ packet.oldSlot = place[c].slot /\ place[c].slot # to.slot
<1>1. packet = ApplyPacket(c, to, Unset) /\ place[c] # to
  BY DEF ApplyOK
<1>2. /\ packet.card = c /\ packet.to = to
      /\ packet.old = Displaced(c, to)
      /\ packet.oldSlot = IF Displaced(c, to) = NoCard THEN SlotMax
                          ELSE IF place[c].kind # "none" /\ place[c].value = to.value
                          THEN place[c].slot ELSE SlotMax
  BY <1>1 DEF ApplyPacket, Unset
<1>3. packet.old # NoCard => /\ packet.old = slotMap[to] /\ packet.old \in Uids
                             /\ place[packet.old] = to /\ to.slot \in Scanned(c, to)
  BY <1>2 DEF Displaced, KeepInv, TypeOK, FitInv, SlotsMatchCards
<1>4. packet.old # NoCard => packet.old \in owned
  BY <1>3, NoPlaceFields DEF KeepInv, PlacedAreOwned
<1>5. packet.old # c
  BY <1>1, <1>3, CardSlotsAssumption
<1>6. place[c].value = to.value =>
        place[c] \in Places /\ place[c].kind = "char" /\ place[c].slot \in Slots
  <2>1. place[c].value = to.value => place[c] \in Places
    BY KindOfPlace, PlaceFields, NoPlaceFields DEF KeepInv
  <2>. QED  BY <2>1, PlaceFields DEF ApplyOK
<1>7. place[c].value = to.value => place[c].slot # SlotMax
  BY <1>6, CardSlotsAssumption DEF Slots
<1>8. packet.old # NoCard => (packet.oldSlot # SlotMax <=> place[c].value = to.value)
  BY <1>2, <1>6, <1>7
<1>9. packet.old # NoCard /\ place[c].value = to.value =>
        packet.oldSlot = place[c].slot /\ place[c].slot # to.slot
  BY <1>2, <1>3, <1>6 DEF Scanned
<1>. QED  BY <1>2, <1>3, <1>4, <1>5, <1>6, <1>8, <1>9

\* In a position that is taken for what it is, the slot a card goes to is always
\* looked at, and a card from the same position leaves its own slot free.
LEMMA SoundApplyFacts ==
  ASSUME KeepInv, FitInv, NEW c \in Uids, NEW to \in Sound, ApplyOK(c, to)
  PROVE  /\ Displaced(c, to) = slotMap[to]
         /\ place[c].value = to.value <=> SamePosition(place[c], to)
         /\ SamePosition(place[c], to) =>
              /\ place[c] \in Sound
              /\ [to EXCEPT !.slot = place[c].slot] = place[c]
<1>1. to \in Places /\ (to.kind = "facility" => to.value \notin Chars)
  BY DEF Sound
<1>2. to.slot \in 0..(SlotsOf(to.kind) - 1)
  BY <1>1, PlaceFields, SlotsOfBound DEF ApplyOK, Slots
<1>3. ASSUME place[c].value = to.value
      PROVE  place[c] \in Places /\ place[c].kind = to.kind
  <2>1. place[c] \in Places
    BY <1>1, <1>3, KindOfPlace, PlaceFields, NoPlaceFields DEF KeepInv
  <2>2. place[c].kind = "char" /\ place[c].value \in Chars
    BY <2>1, PlaceFields DEF ApplyOK
  <2>. QED  BY <1>1, <1>3, <2>1, <2>2 DEF ApplyOK
<1>4. place[c].value = to.value => place[c].slot # to.slot
  BY <1>1, <1>3, PlaceEqual DEF ApplyOK
<1>5. Displaced(c, to) = slotMap[to]
  BY <1>2, <1>4 DEF Displaced, Scanned
<1>6. ASSUME SamePosition(place[c], to)
      PROVE  /\ place[c] \in Sound
             /\ [to EXCEPT !.slot = place[c].slot] = place[c]
  <2>1. place[c] \in Places /\ place[c].kind = to.kind /\ place[c].value = to.value
    BY <1>3, <1>6 DEF SamePosition
  <2>2. place[c].slot \in Slots
    BY <2>1, PlaceFields
  <2>3. place[c] \in Sound
    BY <1>1, <1>6, <2>1, SoundPosition
  <2>4. /\ [to EXCEPT !.slot = place[c].slot] \in Places
        /\ [to EXCEPT !.slot = place[c].slot].kind = to.kind
        /\ [to EXCEPT !.slot = place[c].slot].value = to.value
        /\ [to EXCEPT !.slot = place[c].slot].slot = place[c].slot
    BY <1>1, <2>2, OtherSlot
  <2>5. [to EXCEPT !.slot = place[c].slot] = place[c]
    BY <2>1, <2>4, PlaceEqual
  <2>. QED  BY <2>3, <2>5
<1>. QED  BY <1>3, <1>5, <1>6 DEF SamePosition

\* A move into such a position: a card that comes in was compared with all but
\* the one it displaces.
LEMMA SoundMoveFits ==
  ASSUME KeepInv, FitInv, DoSetApplyPosCard, KeepInv', packet.to \in Sound
  PROVE  FitInv'
<1>. DEFINE c == packet.card
            to == packet.to
            old == slotMap[to]
            stays == SamePosition(place[c], to)
<1>1. packet.type = "apply" /\ PacketFits'
  BY AnsweredPacket DEF DoSetApplyPosCard, Answered
<1>2. ApplyOK(c, to) /\ packet.card = c /\ packet.to = to
  BY <1>1 DEF FitInv, PacketFits
<1>3. c \in Uids /\ to \in Places /\ c \in owned /\ to \in Sound /\ place[c] # to
  BY <1>2 DEF ApplyOK, KeepInv, TypeOK
<1>. HIDE DEF c, to
<1>4. /\ packet.old = old /\ old # c
      /\ old # NoCard => old \in owned /\ place[old] = to
      /\ old # NoCard => (packet.oldSlot # SlotMax <=> stays)
      /\ old # NoCard /\ stays => packet.oldSlot = place[c].slot
      /\ stays => place[c] \in Sound /\ [to EXCEPT !.slot = place[c].slot] = place[c]
  BY <1>2, <1>3, ApplyPacketFacts, SoundApplyFacts
<1>. DEFINE named == IF packet.old \in owned THEN packet.old ELSE NoCard
            swap == packet.old # NoCard /\ packet.oldSlot # SlotMax
            back == [packet.to EXCEPT !.slot = packet.oldSlot]
<1>5. /\ \A p \in Places :
           slotMap'[p] = IF swap /\ p = back THEN named
                         ELSE IF p = to THEN c ELSE IF p = place[c] THEN NoCard ELSE slotMap[p]
      /\ \A d \in Uids :
           place'[d] = IF d = named THEN IF swap THEN back ELSE NoPlace
                       ELSE IF d = c THEN to ELSE place[d]
      /\ UNCHANGED <<owned, locked>>
  BY <1>2, MoveEffect
<1>6. /\ named = old
      /\ swap <=> old # NoCard /\ stays
      /\ swap => back = place[c]
  <2>1. old \in Uids \union {NoCard} /\ (old = NoCard => old \notin owned)
    BY <1>3, CardSlotsAssumption DEF KeepInv, TypeOK
  <2>2. named = old
    BY <1>4, <2>1
  <2>3. swap <=> old # NoCard /\ stays
    BY <1>4
  <2>4. swap => back = place[c]
    BY <1>2, <1>4, <2>3
  <2>. QED  BY <2>2, <2>3, <2>4
<1>. HIDE DEF named, swap, back
<1>7. \A d \in Uids : place'[d] = IF d = c THEN to
                                  ELSE IF d = old THEN IF stays THEN place[c] ELSE NoPlace
                                  ELSE place[d]
  BY <1>4, <1>5, <1>6, CardSlotsAssumption
<1>8. \A p \in Places : slotMap'[p] = IF p = to THEN c
                                      ELSE IF p = place[c] THEN IF stays THEN old ELSE NoCard
                                      ELSE slotMap[p]
  BY <1>3, <1>5, <1>6
<1>. HIDE DEF old, stays
<1>9. SlotsMatchCards'
  <2>1. ASSUME NEW p \in Places, slotMap'[p] # NoCard
        PROVE  place'[slotMap'[p]] = p
    <3>1. CASE p = to
      BY <1>3, <1>4, <1>7, <1>8, <3>1
    <3>2. CASE p # to /\ p = place[c]
      <4>1. stays /\ slotMap'[p] = old /\ old # NoCard
        BY <1>8, <2>1, <3>2
      <4>2. old \in Uids
        BY <1>4, <4>1 DEF KeepInv, TypeOK
      <4>. QED  BY <1>4, <1>7, <3>2, <4>1, <4>2
    <3>3. CASE p # to /\ p # place[c]
      <4>. DEFINE d == slotMap[p]
      <4>1. slotMap'[p] = d /\ d \in Uids /\ place[d] = p
        BY <1>8, <2>1, <3>3 DEF KeepInv, TypeOK, FitInv, SlotsMatchCards
      <4>2. d # c /\ d # old
        BY <1>4, <2>1, <3>3, <4>1
      <4>. QED  BY <1>7, <4>1, <4>2
    <3>. QED  BY <3>1, <3>2, <3>3
  <2>2. ASSUME NEW d \in Uids, place'[d] \in Sound
        PROVE  slotMap'[place'[d]] = d
    <3>0. place'[d] \in Places /\ place'[d] # NoPlace
      BY <2>2, NoPlaceFields DEF Sound
    <3>1. CASE d = c
      BY <1>3, <1>7, <1>8, <3>1
    <3>2. CASE d # c /\ d = old
      BY <1>3, <1>7, <1>8, <3>0, <3>2
    <3>3. CASE d # c /\ d # old
      <4>1. place'[d] = place[d] /\ slotMap[place[d]] = d
        BY <1>7, <2>2, <3>3 DEF FitInv, SlotsMatchCards
      <4>2. place[d] # to
        BY <3>3, <4>1 DEF old
      <4>3. place[d] # place[c]
        BY <1>3, <2>2, <3>3, <4>1, OneSlot DEF FitInv
      <4>. QED  BY <1>8, <3>0, <4>1, <4>2, <4>3
    <3>. QED  BY <3>1, <3>2, <3>3
  <2>3. \A d \in Uids : place'[d] # NoPlace => d \in owned'
    BY DEF KeepInv, PlacedAreOwned
  <2>. QED  BY <2>1, <2>2, <2>3 DEF SlotsMatchCards
<1>10. SlotsInRange'
  <2>1. to.kind \in {"char", "facility"} => to.slot < SlotsOf(to.kind)
    BY <1>2 DEF ApplyOK
  <2>2. NoPlace \notin Sound
    BY NoPlaceFields DEF Sound
  <2>3. \A d \in Uids : place'[d] \in {to, NoPlace, place[c], place[d]}
    BY <1>7
  <2>. QED  BY <1>3, <2>1, <2>2, <2>3 DEF FitInv, SlotsInRange, SlotsOf
<1>11. NoTwins'
  \* Who is in the position of to, but neither c nor the card in to, was compared.
  <2>1. ASSUME NEW d \in Uids, d # c, d # old, place[d] \in Places, SamePosition(place[d], to)
        PROVE  TableId[d] # TableId[c]
    <3>. DEFINE k == place[d].slot
    <3>1. k \in Slots /\ to.slot \in Slots /\ place[d] = [to EXCEPT !.slot = k]
      <4>1. k \in Slots /\ to.slot \in Slots
        BY <1>3, <2>1, PlaceFields
      <4>2. /\ [to EXCEPT !.slot = k] \in Places
            /\ [to EXCEPT !.slot = k].kind = to.kind
            /\ [to EXCEPT !.slot = k].value = to.value
            /\ [to EXCEPT !.slot = k].slot = k
        BY <1>3, <4>1, OtherSlot
      <4>3. place[d] = [to EXCEPT !.slot = k]
        BY <2>1, <4>2, PlaceEqual DEF SamePosition
      <4>. QED  BY <4>1, <4>3
    <3>2. place[d] \in Sound
      BY <1>3, <2>1, SoundPosition
    <3>3. slotMap[place[d]] = d
      BY <3>2 DEF FitInv, SlotsMatchCards
    <3>4. CardIn(to, k) = d /\ d # NoCard
      BY <3>1, <3>3, CardSlotsAssumption DEF CardIn
    <3>5. k # to.slot
      BY <1>3, <2>1, <3>3, PlaceEqual DEF SamePosition, old
    <3>6. k < SlotsOf(to.kind)
      BY <1>2, <2>1, <3>2 DEF FitInv, SlotsInRange, ApplyOK, SamePosition
    <3>7. place[c].value = to.value => place[c].slot # k
      <4>. SUFFICES ASSUME place[c].value = to.value, place[c].slot = k
                    PROVE  FALSE
        OBVIOUS
      <4>1. place[c] \in Sound /\ SamePosition(place[c], to)
        BY <1>2, <1>3, SoundApplyFacts
      <4>2. place[c] = place[d]
        BY <2>1, <4>1, PlaceEqual DEF SamePosition, Sound
      <4>. QED  BY <1>3, <2>1, <4>1, <4>2, OneSlot DEF FitInv
    <3>8. k \in Scanned(c, to) \ {to.slot}
      <4>1. SlotsOf(to.kind) \in Nat /\ k \in Nat
        BY <1>2, <3>1, SlotsOfBound, CardSlotsAssumption DEF ApplyOK, Slots
      <4>. QED  BY <3>5, <3>6, <3>7, <4>1 DEF Scanned
    <3>. QED  BY <1>2, <3>4, <3>8 DEF ApplyOK
  \* The card in to was in c's position only if both stay there.
  <2>2. ASSUME NEW d \in Uids, d # c, d = old, stays
        PROVE  TableId[d] # TableId[c] /\ place[d] = to
    <3>1. place[d] = to
      BY <1>4, <2>2, CardSlotsAssumption
    <3>2. place[c] \in Sound /\ SamePosition(place[c], place[d])
      BY <1>4, <2>2, <3>1 DEF stays
    <3>. QED  BY <1>3, <2>2, <3>1, <3>2 DEF FitInv, NoTwins
  <2>3. ASSUME NEW d \in Uids, d # c, SamePosition(place'[d], to)
        PROVE  TableId[d] # TableId[c]
    <3>1. CASE d = old
      <4>1. stays
        BY <1>3, <1>7, <2>3, <3>1, NoPlaceFields, PlaceFields DEF SamePosition
      <4>. QED  BY <2>2, <2>3, <3>1, <4>1
    <3>2. CASE d # old
      <4>1. place'[d] = place[d]
        BY <1>7, <2>3, <3>2
      <4>2. place[d] \in Places
        BY <1>3, <2>3, <4>1, KindOfPlace, NoPlaceFields, PlaceFields DEF KeepInv, SamePosition
      <4>. QED  BY <2>1, <2>3, <3>2, <4>1, <4>2
    <3>. QED  BY <3>1, <3>2
  \* Others are where they were, or changed slots in their position.
  <2>4. ASSUME NEW d \in Uids, d # c, place'[d] # NoPlace
        PROVE  SamePosition(place[d], place'[d])
    BY <1>7, <2>2, <2>4 DEF SamePosition, stays
  <2>5. place'[c] = to
    BY <1>3, <1>7
  <2>6. ASSUME NEW d \in Uids, NEW e \in Uids, place'[d] \in Sound,
               SamePosition(place'[d], place'[e]), TableId[d] = TableId[e]
        PROVE  d = e
    <3>0. place'[d] \in Places /\ place'[d] # NoPlace /\ place'[e] # NoPlace
      BY <2>6, NoPlaceFields, PlaceFields DEF Sound, SamePosition
    <3>1. CASE d = c
      BY <2>3, <2>5, <2>6, <3>1 DEF SamePosition
    <3>2. CASE e = c
      BY <2>3, <2>5, <2>6, <3>2
    <3>3. CASE d # c /\ e # c
      <4>1. SamePosition(place[d], place'[d]) /\ SamePosition(place[e], place'[e])
        BY <2>4, <3>0, <3>3
      <4>2. place[d] \in Places
        BY <3>0, <4>1, KindOfPlace, NoPlaceFields, PlaceFields DEF KeepInv, SamePosition
      <4>3. place[d] \in Sound
        BY <2>6, <3>0, <4>1, <4>2, SoundPosition
      <4>. QED  BY <2>6, <4>1, <4>3 DEF FitInv, NoTwins, SamePosition
    <3>. QED  BY <3>1, <3>2, <3>3
  <2>. QED  BY <2>6 DEF NoTwins
<1>. QED  BY <1>1, <1>9, <1>10, <1>11 DEF FitInv

\* A move into a facility that is taken for a character: only such slots and the
\* place the card came from change.
LEMMA UnsoundMoveFits ==
  ASSUME KeepInv, FitInv, DoSetApplyPosCard, KeepInv', packet.to \notin Sound
  PROVE  FitInv'
<1>. DEFINE c == packet.card
            to == packet.to
            old == packet.old
            swap == packet.old # NoCard /\ packet.oldSlot # SlotMax
            back == [packet.to EXCEPT !.slot = packet.oldSlot]
<1>1. packet.type = "apply" /\ PacketFits'
  BY AnsweredPacket DEF DoSetApplyPosCard, Answered
<1>2. ApplyOK(c, to)
  BY <1>1 DEF FitInv, PacketFits
<1>3. c \in Uids /\ to \in Places /\ to \notin Sound
  BY <1>2 DEF ApplyOK, KeepInv, TypeOK
<1>4. /\ old # c /\ old \in Uids \union {NoCard}
      /\ old # NoCard => old \in owned /\ place[old] = to
      /\ swap => packet.oldSlot # to.slot
      /\ (IF packet.old \in owned THEN packet.old ELSE NoCard) = old
  <2>1. /\ old # c
        /\ old # NoCard => old \in owned /\ place[old] = to
        /\ swap => packet.oldSlot # to.slot
    BY <1>2, <1>3, ApplyPacketFacts
  <2>. QED  BY <2>1, CardSlotsAssumption DEF KeepInv, TypeOK
<1>5. /\ swap => back \in Places
      /\ \A p \in Places :
           slotMap'[p] = IF swap /\ p = back THEN old
                         ELSE IF p = to THEN c ELSE IF p = place[c] THEN NoCard ELSE slotMap[p]
      /\ \A d \in Uids :
           place'[d] = IF d = old THEN IF swap THEN back ELSE NoPlace
                       ELSE IF d = c THEN to ELSE place[d]
  <2>. HIDE DEF old
  <2>. QED  BY <1>4, MoveEffect
<1>6. swap => back \notin Sound /\ back # to
  <2>. SUFFICES ASSUME swap PROVE back \notin Sound /\ back # to
    OBVIOUS
  <2>1. packet.oldSlot \in Slots
    BY <1>5, PlaceFields, <1>3 DEF Places
  <2>2. back \in Places /\ back.kind = to.kind /\ back.value = to.value
        /\ back.slot = packet.oldSlot
    BY <1>3, <2>1, OtherSlot
  <2>3. back \notin Sound
    BY <1>3, <2>2, SoundPosition DEF SamePosition
  <2>. QED  BY <1>4, <2>2, <2>3
<1>. HIDE DEF c, to, old, swap, back
<1>7. ASSUME NEW d \in Uids, place'[d] \in Sound
      PROVE  d # c /\ d # old /\ place'[d] = place[d]
  BY <1>3, <1>4, <1>5, <1>6, <1>7, NoPlaceFields DEF Sound
<1>8. SlotsMatchCards'
  <2>1. ASSUME NEW p \in Places, slotMap'[p] # NoCard
        PROVE  place'[slotMap'[p]] = p
    <3>1. CASE swap /\ p = back
      <4>1. slotMap'[p] = old /\ old \in Uids
        BY <1>4, <1>5, <2>1, <3>1
      <4>. QED  BY <1>5, <3>1, <4>1
    <3>2. CASE ~(swap /\ p = back) /\ p = to
      <4>1. slotMap'[p] = c
        BY <1>5, <3>2
      <4>. QED  BY <1>3, <1>4, <1>5, <3>2, <4>1
    <3>3. CASE ~(swap /\ p = back) /\ p # to
      <4>. DEFINE d == slotMap[p]
      <4>1. slotMap'[p] = d /\ p # place[c]
        BY <1>5, <2>1, <3>3
      <4>2. d \in Uids /\ place[d] = p
        BY <2>1, <4>1 DEF KeepInv, TypeOK, FitInv, SlotsMatchCards
      <4>3. d # c /\ d # old
        BY <1>4, <2>1, <3>3, <4>1, <4>2
      <4>. QED  BY <1>5, <4>1, <4>2, <4>3
    <3>. QED  BY <3>1, <3>2, <3>3
  <2>2. ASSUME NEW d \in Uids, place'[d] \in Sound
        PROVE  slotMap'[place'[d]] = d
    <3>1. d # c /\ place'[d] = place[d] /\ place[d] \in Sound /\ place[d] \in Places
      BY <1>7, <2>2 DEF Sound
    <3>2. slotMap[place[d]] = d
      BY <3>1 DEF FitInv, SlotsMatchCards
    <3>3. place[d] # place[c]
      BY <1>3, <3>1, OneSlot DEF FitInv
    <3>. QED  BY <1>3, <1>5, <1>6, <3>1, <3>2, <3>3
  <2>3. \A d \in Uids : place'[d] # NoPlace => d \in owned'
    BY DEF KeepInv, PlacedAreOwned
  <2>. QED  BY <2>1, <2>2, <2>3 DEF SlotsMatchCards
<1>9. SlotsInRange'
  BY <1>7 DEF FitInv, SlotsInRange, SlotsOf
<1>10. NoTwins'
  <2>1. ASSUME NEW d \in Uids, NEW e \in Uids, place'[d] \in Sound,
               SamePosition(place'[d], place'[e]), TableId[d] = TableId[e]
        PROVE  d = e
    <3>1. place'[e] \in Places
      <4>1. place'[e] \in Places \/ place'[e] = NoPlace
        BY DEF KeepInv, TypeOK
      <4>. QED  BY <2>1, <4>1, PlaceFields, NoPlaceFields DEF SamePosition, Sound
    <3>2. place'[e] \in Sound
      BY <2>1, <3>1, SoundPosition DEF Sound
    <3>3. place'[d] = place[d] /\ place'[e] = place[e]
      BY <1>7, <2>1, <3>2
    <3>. QED  BY <2>1, <3>3 DEF FitInv, NoTwins
  <2>. QED  BY <2>1 DEF NoTwins
<1>. QED  BY <1>1, <1>8, <1>9, <1>10 DEF FitInv

-----------------------------------------------------------------------------
(* Lists, and cards that are taken out.                                    *)

\* The cards of a list are different ones, and each gets the slot of its
\* number in the list, which was free.
LEMMA ListFits ==
  ASSUME KeepInv, FitInv, DoSetApplyPosCards, KeepInv'
  PROVE  FitInv'
<1>. DEFINE value == packet.value
            cards == packet.cards
            listed == {cards[i] : i \in DOMAIN cards}
            SlotOf(i) == At("dispatch", value, i - 1)
            Taken(p) == p.kind = "dispatch" /\ p.value = value /\ p.slot + 1 \in DOMAIN cards
<1>1. packet.type = "list" /\ PacketFits'
  BY AnsweredPacket DEF DoSetApplyPosCards, Answered
<1>2. ListOK(value, cards)
  BY <1>1 DEF FitInv, PacketFits
<1>3. /\ slotMap' = [p \in Places |-> IF Taken(p) THEN cards[p.slot + 1] ELSE slotMap[p]]
      /\ place' = [c \in Uids |->
              IF \E i \in DOMAIN cards : cards[i] = c
              THEN At("dispatch", value, (CHOOSE i \in DOMAIN cards : cards[i] = c) - 1)
              ELSE place[c]]
      /\ UNCHANGED <<owned, locked>>
  BY DEF DoSetApplyPosCards
<1>. HIDE DEF value, cards
<1>4. /\ value \in Dispatches
      /\ DOMAIN cards \subseteq 1..SlotMax
      /\ \A i \in DOMAIN cards : cards[i] \in Uids /\ place[cards[i]] = NoPlace
      /\ \A i, j \in DOMAIN cards : cards[i] = cards[j] => i = j
  <2>1. cards \in Seq(Uids) /\ Len(cards) <= SlotMax
    BY <1>2 DEF ListOK
  <2>2. DOMAIN cards \subseteq 1..SlotMax
    BY <2>1, CardSlotsAssumption
  <2>3. \A i \in DOMAIN cards : cards[i] \in Uids
    BY <2>1
  <2>4. \A i \in DOMAIN cards : place[cards[i]] = NoPlace
    BY <1>2, <2>3, KindOfPlace DEF KeepInv, ListOK
  <2>. QED  BY <1>2, <2>2, <2>3, <2>4 DEF ListOK
<1>5. \A i \in DOMAIN cards :
        /\ SlotOf(i) \in Places /\ Taken(SlotOf(i)) /\ SlotOf(i).slot + 1 = i
        /\ SlotOf(i).kind = "dispatch" /\ SlotOf(i).value = value
  <2>. SUFFICES ASSUME NEW i \in DOMAIN cards
                PROVE  /\ SlotOf(i) \in Places /\ Taken(SlotOf(i)) /\ SlotOf(i).slot + 1 = i
                       /\ SlotOf(i).kind = "dispatch" /\ SlotOf(i).value = value
    OBVIOUS
  <2>1. i \in 1..SlotMax /\ i - 1 \in Slots
    BY <1>4, CardSlotsAssumption DEF Slots
  <2>. QED  BY <1>4, <2>1, CardSlotsAssumption DEF At, Places
<1>6. ASSUME NEW p \in Places, Taken(p)
      PROVE  p = SlotOf(p.slot + 1) /\ slotMap[p] = NoCard
  <2>1. p.slot \in Slots
    BY PlaceFields
  <2>2. p = At("dispatch", value, p.slot)
    BY <1>6 DEF At, Places
  <2>3. (p.slot + 1) - 1 = p.slot
    BY <2>1, CardSlotsAssumption DEF Slots
  <2>4. p = SlotOf(p.slot + 1)
    BY <2>2, <2>3
  <2>5. slotMap[At("dispatch", value, p.slot)] = NoCard
    BY <1>2, <2>1 DEF ListOK
  <2>6. slotMap[p] = NoCard
    BY <2>2, <2>5, Zenon
  <2>. QED  BY <2>4, <2>6
<1>7. \A i \in DOMAIN cards : place'[cards[i]] = SlotOf(i)
  BY <1>3, <1>4
<1>8. \A c \in Uids : c \notin listed => place'[c] = place[c]
  BY <1>3
<1>9. \A p \in Places : slotMap'[p] = IF Taken(p) THEN cards[p.slot + 1] ELSE slotMap[p]
  BY <1>3
<1>10. SlotsMatchCards'
  <2>1. ASSUME NEW p \in Places, slotMap'[p] # NoCard
        PROVE  place'[slotMap'[p]] = p
    <3>1. CASE Taken(p)
      BY <1>6, <1>7, <1>9, <3>1
    <3>2. CASE ~Taken(p)
      <4>. DEFINE c == slotMap[p]
      <4>1. slotMap'[p] = c /\ c \in Uids /\ place[c] = p
        BY <1>9, <2>1, <3>2 DEF KeepInv, TypeOK, FitInv, SlotsMatchCards
      <4>2. c \notin listed
        BY <1>4, <4>1, NoPlaceFields
      <4>. QED  BY <1>8, <4>1, <4>2
    <3>. QED  BY <3>1, <3>2
  <2>2. ASSUME NEW c \in Uids, place'[c] \in Sound
        PROVE  slotMap'[place'[c]] = c
    <3>1. CASE c \in listed
      <4>1. PICK i \in DOMAIN cards : cards[i] = c
        BY <3>1
      <4>2. place'[c] = SlotOf(i)
        BY <1>7, <4>1
      <4>. QED  BY <1>5, <1>9, <4>1, <4>2
    <3>2. CASE c \notin listed
      <4>1. place'[c] = place[c] /\ slotMap[place[c]] = c /\ place[c] \in Places
        BY <1>8, <2>2, <3>2 DEF FitInv, SlotsMatchCards, Sound
      <4>2. ~Taken(place[c])
        BY <1>6, <4>1, CardSlotsAssumption
      <4>. QED  BY <1>9, <4>1, <4>2
    <3>. QED  BY <3>1, <3>2
  <2>3. \A c \in Uids : place'[c] # NoPlace => c \in owned'
    BY DEF KeepInv, PlacedAreOwned
  <2>. QED  BY <2>1, <2>2, <2>3 DEF SlotsMatchCards
<1>11. SlotsInRange'
  BY <1>5, <1>7, <1>8 DEF FitInv, SlotsInRange, SlotsOf
<1>12. NoTwins'
  \* The position was empty.
  <2>1. ASSUME NEW c \in Uids, c \notin listed, place'[c] \in Places
        PROVE  ~(place'[c].kind = "dispatch" /\ place'[c].value = value)
    <3>1. place[c] = place'[c] /\ place[c] \in Places
      BY <1>8, <2>1
    <3>2. ASSUME place[c].kind = "dispatch", place[c].value = value
          PROVE  FALSE
      <4>1. slotMap[place[c]] = c /\ c # NoCard
        BY <3>1, <3>2, CardSlotsAssumption DEF FitInv, SlotsMatchCards, Sound
      <4>2. place[c].slot \in Slots
        BY <3>1, PlaceFields
      <4>3. place[c] = At("dispatch", value, place[c].slot)
        BY <3>1, <3>2 DEF At, Places
      <4>4. slotMap[At("dispatch", value, place[c].slot)] = NoCard
        BY <1>2, <4>2 DEF ListOK
      <4>. QED  BY <4>1, <4>3, <4>4
    <3>. QED  BY <3>1, <3>2
  <2>2. ASSUME NEW c \in Uids, c \in listed
        PROVE  place'[c].kind = "dispatch" /\ place'[c].value = value
    BY <1>5, <1>7, <2>2
  <2>3. ASSUME NEW c \in Uids, NEW d \in Uids, place'[c] \in Sound,
               SamePosition(place'[c], place'[d]), TableId[c] = TableId[d]
        PROVE  c = d
    <3>0. place'[c] \in Places /\ place'[d] \in Places
      <4>1. place'[d] \in Places \/ place'[d] = NoPlace
        BY DEF KeepInv, TypeOK
      <4>. QED  BY <2>3, <4>1, PlaceFields, NoPlaceFields DEF SamePosition, Sound
    <3>1. c \in listed <=> d \in listed
      BY <2>1, <2>2, <2>3, <3>0 DEF SamePosition
    <3>2. CASE c \in listed /\ d \in listed
      <4>1. PICK i \in DOMAIN cards, j \in DOMAIN cards : c = cards[i] /\ d = cards[j]
        BY <3>2
      <4>. QED  BY <1>2, <2>3, <4>1 DEF ListOK
    <3>3. CASE c \notin listed /\ d \notin listed
      BY <1>8, <2>3, <3>3 DEF FitInv, NoTwins
    <3>. QED  BY <3>1, <3>2, <3>3
  <2>. QED  BY <2>3 DEF NoTwins
<1>. QED  BY <1>1, <1>10, <1>11, <1>12 DEF FitInv

\* Cards that are taken out empty the slots they were in.
LEMMA OutFits ==
  ASSUME KeepInv, FitInv, DoSetApplyOutPosCards \/ DoDel, KeepInv'
  PROVE  FitInv'
<1>. DEFINE S == packet.cards
<1>1. /\ PacketFits'
      /\ slotMap' = DelPosValue(slotMap, {place[c] : c \in S})
      /\ place' = [c \in Uids |-> IF c \in S THEN NoPlace ELSE place[c]]
  BY AnsweredPacket DEF DoSetApplyOutPosCards, DoDel
<1>2. S \subseteq Uids
  BY DEF KeepInv, TypeOK, Packet, DoSetApplyOutPosCards, DoDel, Answered
<1>. HIDE DEF S
<1>3. ASSUME NEW p \in Places
      PROVE  slotMap'[p] = IF \E d \in S : place[d] = p THEN NoCard ELSE slotMap[p]
  BY <1>1 DEF DelPosValue
<1>4. SlotsMatchCards'
  <2>1. ASSUME NEW p \in Places, slotMap'[p] # NoCard
        PROVE  place'[slotMap'[p]] = p
    <3>1. slotMap'[p] = slotMap[p] /\ \A d \in S : place[d] # p
      BY <1>3, <2>1
    <3>2. slotMap[p] \in Uids /\ place[slotMap[p]] = p
      BY <2>1, <3>1 DEF KeepInv, TypeOK, FitInv, SlotsMatchCards
    <3>. QED  BY <1>1, <3>1, <3>2
  <2>2. ASSUME NEW c \in Uids, place'[c] \in Sound
        PROVE  slotMap'[place'[c]] = c
    <3>1. c \notin S /\ place'[c] = place[c] /\ place[c] \in Places
      BY <1>1, <2>2, NoPlaceFields DEF Sound
    <3>2. slotMap[place[c]] = c
      BY <2>2, <3>1 DEF FitInv, SlotsMatchCards
    <3>3. \A d \in S : place[d] # place[c]
      BY <1>2, <2>2, <3>1, OneSlot DEF FitInv
    <3>. QED  BY <1>3, <3>1, <3>2, <3>3
  <2>3. \A c \in Uids : place'[c] # NoPlace => c \in owned'
    BY DEF KeepInv, PlacedAreOwned
  <2>. QED  BY <2>1, <2>2, <2>3 DEF SlotsMatchCards
<1>5. \A c \in Uids : place'[c] = NoPlace \/ place'[c] = place[c]
  BY <1>1
<1>6. NoPlace \notin Sound /\ NoPlace.kind = "none"
  BY NoPlaceFields DEF Sound
<1>7. NoTwins'
  <2>. SUFFICES ASSUME NEW c \in Uids, NEW d \in Uids, place'[c] \in Sound,
                       SamePosition(place'[c], place'[d]), TableId[c] = TableId[d]
                PROVE  c = d
    BY DEF NoTwins
  <2>1. place'[c] = place[c] /\ place'[d] = place[d]
    BY <1>5, <1>6, PlaceFields DEF SamePosition, Sound
  <2>. QED  BY <2>1 DEF FitInv, NoTwins
<1>8. SlotsInRange'
  BY <1>5, <1>6 DEF FitInv, SlotsInRange, SlotsOf
<1>. QED  BY <1>1, <1>4, <1>7, <1>8 DEF FitInv

\* Where requests come with nothing in the fields of the answer, cards and
\* slots stay in step.
LEMMA NextFitInv ==
  ASSUME ReplyFields \subseteq {Unset}, KeepInv, FitInv, [Next]_vars
  PROVE  FitInv'
<1>0. KeepInv'
  BY NextKeepInv
<1>1. CASE (\E c \in Uids : DoAdd(c)) \/ (\E f \in Facilities : Operate(f)) \/ UNCHANGED vars
  <2>1. UNCHANGED <<place, slotMap, packet>> /\ owned \subseteq owned'
    BY <1>1 DEF DoAdd, Operate, vars, cardVars
  <2>. QED  BY <2>1, WaitingFits
<1>2. CASE Check
  BY <1>2, CheckFits
<1>3. CASE Refused \/ DoSetLock
  <2>1. UNCHANGED <<place, slotMap, owned>> /\ packet' = NoPacket
    BY <1>3 DEF Refused, DoSetLock, Answered, cardVars
  <2>2. PacketFits'
    BY <2>1 DEF PacketFits, NoPacket
  <2>. QED  BY <2>1, <2>2, UnmovedFits
<1>4. CASE DoSetApplyPosCard
  BY <1>0, <1>4, SoundMoveFits, UnsoundMoveFits
<1>5. CASE DoSetApplyPosCards
  BY <1>0, <1>5, ListFits
<1>6. CASE DoSetApplyOutPosCards \/ DoDel
  BY <1>0, <1>6, OutFits
<1>. QED  BY <1>1, <1>2, <1>3, <1>4, <1>5, <1>6 DEF Next, Apply

-----------------------------------------------------------------------------
(* The theorems.                                                           *)

\* Whatever requests come with: held cards are kept.
THEOREM Keeps == Spec => []KeepInv
<1>. KeepInv /\ [Next]_vars => KeepInv'
  BY NextKeepInv
<1>. QED  BY InitKeepInv, PTL DEF Spec

\* Every reachable state is well typed.
THEOREM TypeCorrect == Spec => []TypeOK
<1>. KeepInv => TypeOK
  BY DEF KeepInv
<1>. QED  BY Keeps, PTL

\* Where requests come with nothing in the fields of the answer, everything
\* that was checked holds when it is applied.
THEOREM Fits ==
  ASSUME ReplyFields \subseteq {Unset}
  PROVE  Spec => []FitInv
<1>. KeepInv /\ FitInv /\ [Next]_vars => FitInv'
  BY NextFitInv
<1>. QED  BY InitFitInv, Keeps, PTL DEF Spec

\* Cards and slots are two directions of one relation, after any series of
\* moves, swaps, lists and deletions whose requests come with nothing in the
\* fields of the answer.
THEOREM SlotsAndCards ==
  ASSUME ReplyFields \subseteq {Unset}
  PROVE  Spec => []SlotsMatchCards
<1>. FitInv => SlotsMatchCards
  BY DEF FitInv
<1>. QED  BY Fits, PTL

\* No position gets two cards of the same kind from such requests.
THEOREM Twinless ==
  ASSUME ReplyFields \subseteq {Unset}
  PROVE  Spec => []NoTwins
<1>. FitInv => NoTwins
  BY DEF FitInv
<1>. QED  BY Fits, PTL

-----------------------------------------------------------------------------
(* CardSlots implements CardKeeping.                                       *)

\* No card is held that is not the user's.
LEMMA HeldIsOwned ==
  ASSUME KeepInv
  PROVE  Held \subseteq owned
BY DEF KeepInv, Held, PlacedAreOwned, LocksAreOwned

LEMMA InitKeeps ==
  ASSUME Init
  PROVE  Keeping!Init
<1>1. owned \subseteq Uids
  BY DEF Init
<1>. QED  BY <1>1, InitKeepInv, HeldIsOwned DEF Keeping!Init

\* A step that leaves the cards to the user, and ends in a state the invariant
\* allows, is a step of CardKeeping.
LEMMA HoldStep ==
  ASSUME KeepInv', UNCHANGED owned
  PROVE  Keeping!Hold
<1>1. Held' \subseteq owned'
  BY DEF KeepInv, Held, PlacedAreOwned, LocksAreOwned
<1>. QED  BY <1>1 DEF Keeping!Hold

\* What is deleted is not held.
LEMMA DeletedNotHeld ==
  ASSUME KeepInv, DoDel
  PROVE  /\ owned' = owned \ packet.cards
         /\ packet.cards \subseteq owned \ locked
         /\ \A c \in packet.cards : place[c] = NoPlace
<1>1. packet.type = "delete" /\ owned' = owned \ packet.cards
  BY DEF DoDel, Answered
<1>. QED  BY <1>1, KindOfPlace DEF KeepInv, PacketKeeps, TypeOK

LEMMA NextKeeps ==
  ASSUME KeepInv, KeepInv', [Next]_vars
  PROVE  [Keeping!Next]_<<owned, Held>>
<1>1. ASSUME NEW c \in Uids, DoAdd(c)
      PROVE  Keeping!Add(c)
  <2>1. c \notin owned /\ owned' = owned \union {c} /\ UNCHANGED place
    BY <1>1 DEF DoAdd
  <2>2. c \notin Held
    BY <2>1, HeldIsOwned
  <2>3. locked' \in {locked \union {c}, locked \ {c}}
    BY <1>1 DEF DoAdd
  <2>4. Held' \in {Held, Held \union {c}}
    BY <2>1, <2>2, <2>3 DEF Held
  <2>. QED  BY <2>1, <2>4 DEF Keeping!Add
<1>2. CASE DoDel
  <2>1. /\ owned' = owned \ packet.cards
        /\ packet.cards \subseteq owned \ locked
        /\ \A c \in packet.cards : place[c] = NoPlace
    BY <1>2, DeletedNotHeld
  <2>2. packet.cards \subseteq owned \ Held
    BY <2>1 DEF Held
  <2>3. Held' = Held
    BY <1>2, <2>1 DEF Held, DoDel
  <2>4. Keeping!Remove(packet.cards)
    BY <2>1, <2>2, <2>3 DEF Keeping!Remove
  <2>. QED  BY <2>1, <2>4 DEF Keeping!Next
<1>3. CASE (\E f \in Facilities : Operate(f)) \/ Check \/ Refused \/ UNCHANGED vars
  <2>1. UNCHANGED <<owned, locked, place>>
    BY <1>3 DEF Operate, Check, Refused, Ask, vars, cardVars
  <2>. QED  BY <2>1 DEF Held
<1>4. CASE DoSetApplyPosCard \/ DoSetApplyPosCards \/ DoSetApplyOutPosCards \/ DoSetLock
  <2>1. UNCHANGED owned
    BY <1>4 DEF DoSetApplyPosCard, DoSetApplyPosCards, DoSetApplyOutPosCards, DoSetLock
  <2>. QED  BY <2>1, HoldStep DEF Keeping!Next
<1>. QED  BY <1>1, <1>2, <1>3, <1>4 DEF Next, Apply, Keeping!Next

\* Every behaviour of the cards and slots is one CardKeeping allows, whatever
\* requests come with.
THEOREM Refinement == Spec => ImplementsKeeping
BY Keeps, InitKeeps, NextKeeps, PTL DEF Spec, ImplementsKeeping, Keeping!Spec

\* What was checked when a request came in still holds when its cards are
\* deleted.
THEOREM HeldStay == Spec => HeldCardsStay
<1>1. ASSUME KeepInv, [Next]_vars
      PROVE  [\A c \in owned \ owned' : c \notin locked /\ place[c] = NoPlace]_vars
  <2>1. CASE DoDel
    BY <1>1, <2>1, DeletedNotHeld
  <2>2. CASE ~DoDel
    <3>1. UNCHANGED vars \/ owned \subseteq owned'
      BY <1>1, <2>2 DEF Next, Apply, DoAdd, Operate, Check, Refused, Ask, cardVars,
           DoSetApplyPosCard, DoSetApplyPosCards, DoSetApplyOutPosCards, DoSetLock
    <3>. QED  BY <3>1
  <2>. QED  BY <2>1, <2>2
<1>. QED  BY <1>1, Keeps, PTL DEF Spec, HeldCardsStay
=============================================================================
