------------------------- MODULE CardGrowthProofs --------------------------
(***************************************************************************)
(* TLAPS proofs about CardGrowth, for any cards, levels and limits: that   *)
(* the book knows the cards that have reached their last level, that favor *)
(* rewards are given once, that growing implements CardKeeping, and that   *)
(* levels, waking and the marks of the book are not lost.                  *)
(*                                                                         *)
(* IInv, which these rest on, says nothing of skill levels: they are       *)
(* summed up in a byte, and for some limits a sum is carried out of it.    *)
(* Where SkillSumsFit holds none is, the cards keep their type, and skill  *)
(* levels are not lost either.                                             *)
(***************************************************************************)
EXTENDS CardGrowth, FiniteSetTheorems, TLAPS

IsCard(r) ==
  /\ DOMAIN r = {"lv", "wake", "skillLv"}
  /\ r.lv \in Nat
  /\ r.wake \in 0..MaxWake

\* What the proofs need to know of the types.
GrowthTypes ==
  /\ Owned \subseteq Uids
  /\ held \subseteq Owned
  /\ \A c \in Owned : IsCard(cards[c])
  /\ DOMAIN book \subseteq TableIds
  /\ \A t \in DOMAIN book : book[t] \in Entry
  /\ rewards \in [TableIds -> [FavorLevels -> Nat]]

\* Every card's kind is in the book.
KindsAreInTheBook == \A c \in Owned : TableId[c] \in DOMAIN book

\* An entry that is to be written back is the one in the book, grown.
Follows(entry, t) ==
  /\ entry \in Entry
  /\ book[t].flags \subseteq entry.flags
  /\ entry.rewarded = book[t].rewarded
  /\ entry.favorLv >= book[t].favorLv

IsMaxed(r) == r.wake = MaxWake /\ r.lv >= MaxLevel[r.wake]

\* A card that will be maxed brings its mark, unless the book has it.
GrowOK ==
  LET t == TableId[packet.target]
  IN  /\ packet.target \in Owned \ packet.maters
      /\ packet.maters \subseteq Owned \ held
      /\ IsCard(packet.to)
      /\ \A entry \in packet.bookState : Follows(entry, t)
      /\ IsMaxed(packet.to) =>
           IF packet.bookState = {}
           THEN "MAX_WAKE_AND_LV" \in book[t].flags
           ELSE \A entry \in packet.bookState : "MAX_WAKE_AND_LV" \in entry.flags

EntryOK ==
  /\ packet.table \in DOMAIN book
  /\ Follows(packet.entry, packet.table)

RewardOK ==
  /\ packet.table \in DOMAIN book
  /\ packet.level \in FavorLevels
  /\ packet.level \notin book[packet.table].rewarded
  /\ packet.level <= book[packet.table].favorLv
  /\ packet.entry = [book[packet.table] EXCEPT !.rewarded = @ \union {packet.level}]

PacketOK ==
  /\ packet.type = "grow" => GrowOK
  /\ packet.type = "entry" => EntryOK
  /\ packet.type = "reward" => RewardOK

\* The inductive invariant.
IInv ==
  /\ GrowthTypes
  /\ KindsAreInTheBook
  /\ MaxedCardsAreInTheBook
  /\ RewardsMatchBook
  /\ PacketOK

-----------------------------------------------------------------------------
(* Lemmas about cards and entries.                                         *)

\* A new card is at its first level, of several.
LEMMA NewCardFacts == IsCard(NewCard) /\ ~IsMaxed(NewCard)
<1>1. 0 \in 0..MaxWake => MaxLevel[0] \in Nat \ {0, 1}
  BY CardGrowthAssumption
<1>2. 0 \in 0..MaxWake
  BY CardGrowthAssumption
<1>. QED  BY <1>1, <1>2 DEF NewCard, IsCard, IsMaxed

LEMMA NewEntryFacts ==
  /\ NewEntry \in Entry
  /\ NewEntry.rewarded = {}
BY CardGrowthAssumption DEF NewEntry, Entry

\* What a maxed card is, said of the card alone.
LEMMA MaxedIsMaxLv ==
  ASSUME NEW c
  PROVE  cards[c].wake = MaxWake /\ IsMaxLv(c) <=> IsMaxed(cards[c])
BY DEF IsMaxLv, IsMaxed

-----------------------------------------------------------------------------
(* Each action preserves the inductive invariant.                          *)

LEMMA InitEstablishes == Init => IInv
<1>. SUFFICES ASSUME Init PROVE IInv
  OBVIOUS
<1>1. Owned = {} /\ DOMAIN book = {}
  BY DEF Init, Owned
<1>2. rewards \in [TableIds -> [FavorLevels -> Nat]]
  BY DEF Init
<1>3. GrowthTypes /\ KindsAreInTheBook /\ MaxedCardsAreInTheBook
  BY <1>1, <1>2 DEF Init, GrowthTypes, KindsAreInTheBook, MaxedCardsAreInTheBook
<1>4. RewardsMatchBook
  BY <1>1 DEF Init, RewardsMatchBook
<1>5. PacketOK
  BY DEF Init, PacketOK, NoPacket
<1>. QED  BY <1>3, <1>4, <1>5 DEF IInv

\* A product is not maxed, and its kind gets an empty entry unless it has one;
\* the request under way does not notice.
LEMMA AddPreserves ==
  ASSUME IInv, NEW c \in Uids, DoAdd(c)
  PROVE  IInv'
<1>. DEFINE t == TableId[c]
<1>1. /\ c \notin Owned
      /\ cards' = [d \in Owned \union {c} |-> IF d = c THEN NewCard ELSE cards[d]]
      /\ book' = [u \in DOMAIN book \union {t} |->
                    IF u \in DOMAIN book THEN book[u] ELSE NewEntry]
      /\ UNCHANGED <<held, packet, rewards>>
  BY DEF DoAdd
<1>2. /\ Owned' = Owned \union {c}
      /\ cards'[c] = NewCard
      /\ \A d \in Owned : cards'[d] = cards[d]
  BY <1>1 DEF Owned
<1>3. /\ DOMAIN book' = DOMAIN book \union {t}
      /\ \A u \in DOMAIN book : book'[u] = book[u]
      /\ t \notin DOMAIN book => book'[t] = NewEntry
      /\ t \in TableIds
  BY <1>1, CardGrowthAssumption
<1>4. GrowthTypes'
  BY <1>1, <1>2, <1>3, NewCardFacts, NewEntryFacts DEF IInv, GrowthTypes, IsCard
<1>5. KindsAreInTheBook'
  BY <1>2, <1>3 DEF IInv, KindsAreInTheBook
<1>6. MaxedCardsAreInTheBook'
  <2>1. ~(cards'[c].wake = MaxWake /\ IsMaxLv(c)')
    BY <1>2, NewCardFacts DEF IsMaxLv, IsMaxed
  <2>2. \A d \in Owned : book'[TableId[d]] = book[TableId[d]]
    BY <1>3 DEF IInv, KindsAreInTheBook
  <2>. QED  BY <1>2, <2>1, <2>2 DEF IInv, MaxedCardsAreInTheBook, IsMaxLv
<1>7. RewardsMatchBook'
  BY <1>1, <1>3, NewEntryFacts DEF IInv, RewardsMatchBook
<1>8. PacketOK'
  <2>1. packet.type = "grow" => GrowOK'
    <3>. SUFFICES ASSUME packet.type = "grow" PROVE GrowOK'
      OBVIOUS
    <3>1. GrowOK /\ packet' = packet
      BY <1>1 DEF IInv, PacketOK
    <3>2. book'[TableId[packet.target]] = book[TableId[packet.target]]
      BY <1>3, <3>1 DEF IInv, KindsAreInTheBook, GrowOK
    <3>. QED  BY <1>1, <1>2, <3>1, <3>2 DEF GrowOK, Follows
  <2>2. packet.type = "entry" => EntryOK'
    BY <1>1, <1>3 DEF IInv, PacketOK, EntryOK, Follows
  <2>3. packet.type = "reward" => RewardOK'
    BY <1>1, <1>3 DEF IInv, PacketOK, RewardOK
  <2>. QED  BY <1>1, <2>1, <2>2, <2>3 DEF PacketOK
<1>. QED  BY <1>4, <1>5, <1>6, <1>7, <1>8 DEF IInv

\* A step that only changes the packet.
LEMMA PacketStep ==
  ASSUME IInv, UNCHANGED <<cards, held, book, rewards>>, PacketOK'
  PROVE  IInv'
<1>1. GrowthTypes' /\ KindsAreInTheBook'
  BY DEF IInv, GrowthTypes, KindsAreInTheBook, Owned
<1>2. MaxedCardsAreInTheBook' /\ RewardsMatchBook'
  BY DEF IInv, MaxedCardsAreInTheBook, RewardsMatchBook, Owned, IsMaxLv
<1>. QED  BY <1>1, <1>2 DEF IInv

LEMMA HoldPreserves ==
  ASSUME IInv, NEW c \in Uids, Hold(c)
  PROVE  IInv'
<1>1. packet.type = "none" /\ c \in Owned /\ UNCHANGED <<cards, book, packet, rewards>>
      /\ held' \in {held \ {c}, held \union {c}}
  BY DEF Hold, NoPacket
<1>2. GrowthTypes' /\ KindsAreInTheBook'
  BY <1>1 DEF IInv, GrowthTypes, KindsAreInTheBook, Owned
<1>3. MaxedCardsAreInTheBook' /\ RewardsMatchBook'
  BY <1>1 DEF IInv, MaxedCardsAreInTheBook, RewardsMatchBook, Owned, IsMaxLv
<1>. QED  BY <1>1, <1>2, <1>3 DEF IInv, PacketOK

\* Growing is asked for with materials that are the user's and not held, and
\* a card that will be maxed brings its mark.
LEMMA GrowStep ==
  ASSUME IInv, NEW c \in Owned, NEW to, NEW maters, NEW items, NEW bookState,
         Ask(Grow(c, to, maters, items, bookState)),
         maters \subseteq Owned \ {c}, maters \intersect held = {},
         IsCard(to),
         \A entry \in bookState : Follows(entry, TableId[c]),
         IsMaxed(to) => IF bookState = {}
                        THEN "MAX_WAKE_AND_LV" \in book[TableId[c]].flags
                        ELSE \A entry \in bookState : "MAX_WAKE_AND_LV" \in entry.flags
  PROVE  IInv'
<1>1. UNCHANGED <<cards, held, book, rewards>> /\ packet' = Grow(c, to, maters, items, bookState)
  BY DEF Ask
<1>2. /\ packet'.type = "grow" /\ packet'.target = c /\ packet'.to = to
      /\ packet'.maters = maters /\ packet'.bookState = bookState
  BY <1>1 DEF Grow
<1>3. GrowOK'
  BY <1>1, <1>2 DEF GrowOK, Follows, Owned
<1>4. PacketOK'
  BY <1>2, <1>3 DEF PacketOK
<1>. QED  BY <1>1, <1>4, PacketStep

LEMMA LvUpPreserves ==
  ASSUME IInv, NEW c \in Uids, NEW maters \in SUBSET Uids, NEW items \in ItemLists,
         LvUp(c, maters, items)
  PROVE  IInv'
<1>1. IsCheckCommonGrow(c, maters, items)
  BY DEF LvUp, IsCanLvUp
<1>2. c \in Owned /\ maters \subseteq Owned \ {c} /\ maters \intersect held = {}
  BY <1>1 DEF IsCheckCommonGrow
<1>3. PICK lv \in cards[c].lv .. MaxLevel[cards[c].wake] :
        Ask(Grow(c, [cards[c] EXCEPT !.lv = lv], maters, items, MaxLvBookState(c, lv)))
  BY DEF LvUp, IsCanLvUp
<1>. DEFINE to == [cards[c] EXCEPT !.lv = lv]
            t == TableId[c]
<1>4. IsCard(cards[c]) /\ t \in DOMAIN book /\ book[t] \in Entry
  BY <1>2 DEF IInv, GrowthTypes, KindsAreInTheBook
<1>5. lv \in Nat
  BY <1>4, CardGrowthAssumption DEF IsCard
<1>6. IsCard(to) /\ to.lv = lv /\ to.wake = cards[c].wake
  BY <1>4, <1>5 DEF IsCard
<1>7. \A entry \in MaxLvBookState(c, lv) :
        Follows(entry, t) /\ "MAX_WAKE_AND_LV" \in entry.flags
  <2>1. [book[t] EXCEPT !.flags = @ \union {"MAX_WAKE_AND_LV"}] \in Entry
    BY <1>4 DEF Entry, Flags
  <2>2. \A entry \in MaxLvBookState(c, lv) :
          entry = [book[t] EXCEPT !.flags = @ \union {"MAX_WAKE_AND_LV"}]
    BY DEF MaxLvBookState
  <2>3. book[t].favorLv \in Nat
    BY <1>4, CardGrowthAssumption DEF Entry
  <2>. QED  BY <1>4, <2>1, <2>2, <2>3 DEF Entry, Follows
<1>8. IsMaxed(to) /\ MaxLvBookState(c, lv) = {} => "MAX_WAKE_AND_LV" \in book[t].flags
  <2>1. IsMaxed(to) => MaxLevel[cards[c].wake] <= lv /\ cards[c].wake = MaxWake
    BY <1>4, <1>5, <1>6, CardGrowthAssumption DEF IsMaxed, IsCard
  <2>. QED  BY <2>1 DEF MaxLvBookState
<1>. HIDE DEF to
<1>. QED  BY <1>2, <1>3, <1>6, <1>7, <1>8, GrowStep DEF to

LEMMA SkillLvUpPreserves ==
  ASSUME IInv, NEW c \in Uids, NEW maters \in SUBSET Uids, NEW items \in ItemLists,
         SkillLvUp(c, maters, items)
  PROVE  IInv'
<1>1. IsCheckCommonGrow(c, maters, items)
  BY DEF SkillLvUp, IsCanSkillLvUp
<1>2. c \in Owned /\ maters \subseteq Owned \ {c} /\ maters \intersect held = {}
  BY <1>1 DEF IsCheckCommonGrow
<1>3. PICK skillLv : Ask(Grow(c, [cards[c] EXCEPT !.skillLv = skillLv], maters, items, {}))
  BY DEF SkillLvUp, IsCanSkillLvUp
<1>. DEFINE to == [cards[c] EXCEPT !.skillLv = skillLv]
<1>4. IsCard(cards[c])
  BY <1>2 DEF IInv, GrowthTypes
<1>5. IsCard(to) /\ to.lv = cards[c].lv /\ to.wake = cards[c].wake
  BY <1>4 DEF IsCard
<1>6. IsMaxed(to) => "MAX_WAKE_AND_LV" \in book[TableId[c]].flags
  BY <1>2, <1>5 DEF IInv, MaxedCardsAreInTheBook, IsMaxLv, IsMaxed
<1>. HIDE DEF to
<1>. QED  BY <1>2, <1>3, <1>5, <1>6, GrowStep DEF to

\* A card that was just woken is at its first level, of several.
LEMMA WakePreserves ==
  ASSUME IInv, NEW c \in Uids, Wake(c)
  PROVE  IInv'
<1>. DEFINE to == [cards[c] EXCEPT !.lv = 1, !.wake = @ + 1]
<1>1. c \in Owned /\ cards[c].wake < MaxWake /\ Ask(Grow(c, to, {}, NoItems, {}))
  BY DEF Wake, IsCanWake
<1>2. IsCard(cards[c])
  BY <1>1 DEF IInv, GrowthTypes
<1>3. /\ DOMAIN to = {"lv", "wake", "skillLv"}
      /\ to.lv = 1 /\ to.wake = cards[c].wake + 1
  BY <1>2 DEF IsCard
<1>. HIDE DEF to
<1>4. IsCard(to)
  <2>1. cards[c].wake \in 0..MaxWake /\ cards[c].wake < MaxWake
    BY <1>1, <1>2 DEF IsCard
  <2>2. MaxWake \in Nat
    BY CardGrowthAssumption
  <2>3. to.wake \in 0..MaxWake
    BY <1>3, <2>1, <2>2
  <2>. QED  BY <1>3, <2>3 DEF IsCard
<1>5. ~IsMaxed(to)
  <2>1. MaxLevel[to.wake] \in Nat \ {0, 1}
    BY <1>4, CardGrowthAssumption DEF IsCard
  <2>. QED  BY <1>3, <2>1 DEF IsMaxed
<1>. QED  BY <1>1, <1>4, <1>5, GrowStep

\* An entry with more flags, or a higher level, is asked to be written back.
LEMMA EntryStep ==
  ASSUME IInv, NEW t \in DOMAIN book, NEW entry, AskEntry(t, entry), Follows(entry, t)
  PROVE  IInv'
<1>1. /\ UNCHANGED <<cards, held, book, rewards>>
      /\ packet' = [type |-> "entry", table |-> t, entry |-> entry]
  BY DEF AskEntry, Ask
<1>2. packet'.type = "entry" /\ packet'.table = t /\ packet'.entry = entry
  BY <1>1
<1>3. EntryOK'
  BY <1>1, <1>2 DEF EntryOK, Follows
<1>4. PacketOK'
  BY <1>2, <1>3 DEF PacketOK
<1>. QED  BY <1>1, <1>4, PacketStep

LEMMA FavorPreserves ==
  ASSUME IInv, NEW t \in TableIds, ChangeExpInFavor(t)
  PROVE  IInv'
<1>1. t \in DOMAIN book /\ book[t] \in Entry
  BY DEF ChangeExpInFavor, IsCanChangeExpInFavor, IInv, GrowthTypes
<1>2. PICK lv \in book[t].favorLv .. MaxFavorLv :
        AskEntry(t, [book[t] EXCEPT !.favorLv = lv,
                       !.flags = IF lv = MaxFavorLv THEN @ \union {"MAX_FAVOR_LV"} ELSE @])
  BY DEF ChangeExpInFavor, IsCanChangeExpInFavor
<1>. DEFINE entry == [book[t] EXCEPT !.favorLv = lv,
                        !.flags = IF lv = MaxFavorLv THEN @ \union {"MAX_FAVOR_LV"} ELSE @]
<1>3. book[t].favorLv \in 0..MaxFavorLv /\ lv \in 0..MaxFavorLv /\ lv >= book[t].favorLv
  BY <1>1, CardGrowthAssumption DEF Entry
<1>4. Follows(entry, t)
  BY <1>1, <1>3 DEF Entry, Flags, Follows
<1>. HIDE DEF entry
<1>. QED  BY <1>1, <1>2, <1>4, EntryStep DEF entry

LEMMA ConfirmPreserves ==
  ASSUME IInv, NEW t \in TableIds, BookNewConfirm(t)
  PROVE  IInv'
<1>. DEFINE entry == [book[t] EXCEPT !.flags = @ \union {"NEW_CHK"}]
<1>1. t \in DOMAIN book /\ book[t] \in Entry /\ AskEntry(t, entry)
  BY DEF BookNewConfirm, IsCanBookNewConfirm, IInv, GrowthTypes
<1>2. book[t].favorLv \in Nat
  BY <1>1, CardGrowthAssumption DEF Entry
<1>3. Follows(entry, t)
  BY <1>1, <1>2 DEF Entry, Flags, Follows
<1>. QED  BY <1>1, <1>3, EntryStep

LEMMA RewardPreserves ==
  ASSUME IInv, NEW t \in TableIds, NEW n \in FavorLevels, GetFavorReward(t, n)
  PROVE  IInv'
<1>. DEFINE entry == [book[t] EXCEPT !.rewarded = @ \union {n}]
<1>1. /\ t \in DOMAIN book /\ n \notin book[t].rewarded /\ n <= book[t].favorLv
      /\ UNCHANGED <<cards, held, book, rewards>>
      /\ packet' = [type |-> "reward", table |-> t, level |-> n, entry |-> entry]
  BY DEF GetFavorReward, IsCanGetFavorReward, Ask
<1>2. /\ packet'.type = "reward" /\ packet'.table = t
      /\ packet'.level = n /\ packet'.entry = entry
  BY <1>1
<1>3. RewardOK'
  BY <1>1, <1>2 DEF RewardOK
<1>4. PacketOK'
  BY <1>2, <1>3 DEF PacketOK
<1>. QED  BY <1>1, <1>4, PacketStep

\* The materials were the user's and are gone; who was maxed was in the book,
\* and who is now has brought the mark along.
LEMMA GrowPreserves ==
  ASSUME IInv, DoApplyCommonGrow
  PROVE  IInv'
<1>. DEFINE c == packet.target
            t == TableId[c]
<1>1. packet.type = "grow" /\ packet' = NoPacket /\ UNCHANGED <<held, rewards>>
  BY DEF DoApplyCommonGrow, Answered
<1>2. /\ c \in Owned \ packet.maters /\ packet.maters \subseteq Owned \ held
      /\ IsCard(packet.to)
      /\ \A entry \in packet.bookState : Follows(entry, t)
      /\ IsMaxed(packet.to) =>
           IF packet.bookState = {}
           THEN "MAX_WAKE_AND_LV" \in book[t].flags
           ELSE \A entry \in packet.bookState : "MAX_WAKE_AND_LV" \in entry.flags
  BY <1>1 DEF IInv, PacketOK, GrowOK
<1>3. /\ Owned' = Owned \ packet.maters
      /\ cards'[c] = packet.to
      /\ \A d \in Owned' : d # c => cards'[d] = cards[d]
  BY <1>2 DEF DoApplyCommonGrow, Owned
<1>4. t \in DOMAIN book
  BY <1>2 DEF IInv, KindsAreInTheBook
<1>5. /\ DOMAIN book' = DOMAIN book
      /\ \A u \in DOMAIN book : u # t => book'[u] = book[u]
      /\ packet.bookState = {} => book'[t] = book[t]
      /\ packet.bookState # {} => book'[t] \in packet.bookState
  <2>1. book' = [u \in DOMAIN book |->
                  IF u = t /\ packet.bookState # {}
                  THEN CHOOSE entry \in packet.bookState : TRUE
                  ELSE book[u]]
    BY DEF DoApplyCommonGrow
  <2>2. packet.bookState # {} => (CHOOSE entry \in packet.bookState : TRUE) \in packet.bookState
    OBVIOUS
  <2>. QED  BY <1>4, <2>1, <2>2
<1>6. book[t] \in Entry /\ book[t].favorLv \in Nat
  BY <1>4, CardGrowthAssumption DEF IInv, GrowthTypes, Entry
<1>7. /\ book'[t] \in Entry
      /\ book[t].flags \subseteq book'[t].flags
      /\ book'[t].rewarded = book[t].rewarded
      /\ book'[t].favorLv >= book[t].favorLv
  BY <1>2, <1>5, <1>6 DEF Follows
<1>8. GrowthTypes'
  BY <1>1, <1>2, <1>3, <1>5, <1>7 DEF IInv, GrowthTypes, IsCard
<1>9. KindsAreInTheBook'
  BY <1>3, <1>5 DEF IInv, KindsAreInTheBook
<1>10. MaxedCardsAreInTheBook'
  <2>1. ASSUME NEW d \in Owned', cards'[d].wake = MaxWake, IsMaxLv(d)'
        PROVE  "MAX_WAKE_AND_LV" \in book'[TableId[d]].flags
    <3>1. CASE d = c
      <4>1. IsMaxed(packet.to)
        BY <1>3, <2>1, <3>1 DEF IsMaxLv, IsMaxed
      <4>. QED  BY <1>2, <1>5, <3>1, <4>1
    <3>2. CASE d # c
      <4>1. d \in Owned /\ cards[d].wake = MaxWake /\ IsMaxLv(d)
        BY <1>3, <2>1, <3>2 DEF IsMaxLv
      <4>2. "MAX_WAKE_AND_LV" \in book[TableId[d]].flags /\ TableId[d] \in DOMAIN book
        BY <4>1 DEF IInv, MaxedCardsAreInTheBook, KindsAreInTheBook
      <4>. QED  BY <1>5, <1>7, <4>2
    <3>. QED  BY <3>1, <3>2
  <2>. QED  BY <2>1 DEF MaxedCardsAreInTheBook
<1>11. RewardsMatchBook'
  <2>1. ASSUME NEW u \in DOMAIN book, NEW n \in FavorLevels
        PROVE  /\ book'[u].rewarded = book[u].rewarded
               /\ n <= book[u].favorLv => n <= book'[u].favorLv
    <3>1. book[u].favorLv \in Nat /\ book'[u].favorLv \in Nat /\ n \in Nat
      BY <1>5, <1>8, CardGrowthAssumption DEF IInv, GrowthTypes, Entry, FavorLevels
    <3>. QED  BY <1>5, <1>7, <3>1
  <2>. QED  BY <1>1, <1>5, <2>1 DEF IInv, RewardsMatchBook
<1>12. PacketOK'
  BY <1>1 DEF PacketOK, NoPacket
<1>. QED  BY <1>8, <1>9, <1>10, <1>11, <1>12 DEF IInv

\* Marks and levels of an entry are only added to.
LEMMA BookPreserves ==
  ASSUME IInv, DoUpdateBook
  PROVE  IInv'
<1>. DEFINE t == packet.table
<1>1. packet.type = "entry" /\ packet' = NoPacket /\ UNCHANGED <<cards, held, rewards>>
      /\ book' = [book EXCEPT ![t] = packet.entry]
  BY DEF DoUpdateBook, Answered
<1>2. t \in DOMAIN book /\ Follows(packet.entry, t)
  BY <1>1 DEF IInv, PacketOK, EntryOK
<1>3. /\ DOMAIN book' = DOMAIN book
      /\ \A u \in DOMAIN book : u # t => book'[u] = book[u]
      /\ book'[t] = packet.entry
  BY <1>1, <1>2
<1>4. GrowthTypes' /\ KindsAreInTheBook'
  BY <1>1, <1>2, <1>3 DEF IInv, GrowthTypes, KindsAreInTheBook, Owned, Follows
<1>5. MaxedCardsAreInTheBook'
  BY <1>1, <1>2, <1>3 DEF IInv, MaxedCardsAreInTheBook, KindsAreInTheBook, Owned, IsMaxLv, Follows
<1>6. RewardsMatchBook'
  <2>1. ASSUME NEW u \in DOMAIN book, NEW n \in FavorLevels
        PROVE  /\ book'[u].rewarded = book[u].rewarded
               /\ n <= book[u].favorLv => n <= book'[u].favorLv
    <3>1. book[u].favorLv \in Nat /\ book'[u].favorLv \in Nat /\ n \in Nat
      BY <1>3, <1>4, CardGrowthAssumption DEF IInv, GrowthTypes, Entry, FavorLevels
    <3>. QED  BY <1>2, <1>3, <3>1 DEF Follows
  <2>. QED  BY <1>1, <1>3, <2>1 DEF IInv, RewardsMatchBook
<1>7. PacketOK'
  BY <1>1 DEF PacketOK, NoPacket
<1>. QED  BY <1>4, <1>5, <1>6, <1>7 DEF IInv

\* The reward that was not given yet is given, and the entry says so.
LEMMA GivePreserves ==
  ASSUME IInv, DoSetRewardState
  PROVE  IInv'
<1>. DEFINE t == packet.table
            n == packet.level
<1>1. /\ packet.type = "reward" /\ packet' = NoPacket /\ UNCHANGED <<cards, held>>
      /\ book' = [book EXCEPT ![t] = packet.entry]
      /\ rewards' = [rewards EXCEPT ![t][n] = @ + 1]
  BY DEF DoSetRewardState, Answered
<1>2. /\ t \in DOMAIN book /\ n \in FavorLevels
      /\ n \notin book[t].rewarded /\ n <= book[t].favorLv
      /\ packet.entry = [book[t] EXCEPT !.rewarded = @ \union {n}]
  BY <1>1 DEF IInv, PacketOK, RewardOK
<1>. HIDE DEF t, n
<1>3. t \in TableIds /\ book[t] \in Entry
  BY <1>2 DEF IInv, GrowthTypes
<1>4. /\ packet.entry \in Entry
      /\ packet.entry.flags = book[t].flags
      /\ packet.entry.favorLv = book[t].favorLv
      /\ packet.entry.rewarded = book[t].rewarded \union {n}
  BY <1>2, <1>3 DEF Entry
<1>5. /\ DOMAIN book' = DOMAIN book
      /\ \A u \in DOMAIN book : u # t => book'[u] = book[u]
      /\ book'[t] = packet.entry
  BY <1>1, <1>2
<1>6. /\ rewards' \in [TableIds -> [FavorLevels -> Nat]]
      /\ rewards'[t][n] = rewards[t][n] + 1
      /\ \A u \in TableIds, m \in FavorLevels :
           <<u, m>> # <<t, n>> => rewards'[u][m] = rewards[u][m]
  BY <1>1, <1>2, <1>3 DEF IInv, GrowthTypes
<1>7. GrowthTypes' /\ KindsAreInTheBook'
  BY <1>1, <1>4, <1>5, <1>6 DEF IInv, GrowthTypes, KindsAreInTheBook, Owned
<1>8. MaxedCardsAreInTheBook'
  BY <1>1, <1>4, <1>5 DEF IInv, MaxedCardsAreInTheBook, KindsAreInTheBook, Owned, IsMaxLv
<1>9. RewardsMatchBook'
  <2>1. ASSUME NEW u \in TableIds, NEW m \in FavorLevels
        PROVE  IF u \in DOMAIN book' /\ m \in book'[u].rewarded
               THEN rewards'[u][m] = 1 /\ m <= book'[u].favorLv
               ELSE rewards'[u][m] = 0
    <3>1. IF u \in DOMAIN book /\ m \in book[u].rewarded
          THEN rewards[u][m] = 1 /\ m <= book[u].favorLv
          ELSE rewards[u][m] = 0
      BY DEF IInv, RewardsMatchBook
    <3>2. CASE u = t /\ m = n
      <4>1. rewards[t][n] = 0
        BY <1>2, <3>1, <3>2
      <4>2. rewards'[t][n] = 1
        BY <1>6, <4>1
      <4>3. t \in DOMAIN book' /\ n \in book'[t].rewarded /\ n <= book'[t].favorLv
        BY <1>2, <1>4, <1>5
      <4>. QED  BY <3>2, <4>2, <4>3
    <3>3. CASE ~(u = t /\ m = n)
      BY <1>4, <1>5, <1>6, <3>1, <3>3
    <3>. QED  BY <3>2, <3>3
  <2>. QED  BY <2>1 DEF RewardsMatchBook
<1>10. PacketOK'
  BY <1>1 DEF PacketOK, NoPacket
<1>. QED  BY <1>7, <1>8, <1>9, <1>10 DEF IInv

LEMMA NextPreserves ==
  ASSUME IInv, [Next]_vars
  PROVE  IInv'
<1>1. CASE \E c \in Uids : DoAdd(c) \/ Hold(c)
  BY <1>1, AddPreserves, HoldPreserves
<1>2. CASE Check
  BY <1>2, LvUpPreserves, SkillLvUpPreserves, WakePreserves, FavorPreserves,
     ConfirmPreserves, RewardPreserves DEF Check
<1>3. CASE Refused
  BY <1>3, PacketStep DEF Refused, PacketOK, NoPacket
<1>4. CASE DoApplyCommonGrow
  BY <1>4, GrowPreserves
<1>5. CASE DoUpdateBook
  BY <1>5, BookPreserves
<1>6. CASE DoSetRewardState
  BY <1>6, GivePreserves
<1>7. CASE UNCHANGED vars
  <2>1. PacketOK'
    BY <1>7 DEF vars, IInv, PacketOK, GrowOK, EntryOK, RewardOK, Follows, Owned
  <2>. QED  BY <1>7, <2>1, PacketStep DEF vars
<1>. QED  BY <1>1, <1>2, <1>3, <1>4, <1>5, <1>6, <1>7 DEF Next

-----------------------------------------------------------------------------
(* The properties.                                                         *)

\* Everything the proofs need holds in every reachable state.
THEOREM Invariance == Spec => []IInv
BY InitEstablishes, NextPreserves, PTL DEF Spec

\* Whichever card of a kind is the first to be fully woken and at its last
\* level, the book has the mark.
THEOREM MaxedAreMarked == Spec => []MaxedCardsAreInTheBook
<1>. IInv => MaxedCardsAreInTheBook
  BY DEF IInv
<1>. QED  BY Invariance, PTL

\* A favor reward is given once, and the book knows which were.
THEOREM RewardedOnce == Spec => []RewardsMatchBook
<1>. IInv => RewardsMatchBook
  BY DEF IInv
<1>. QED  BY Invariance, PTL

\* A request changes nothing but the packet.
LEMMA CheckAsks ==
  ASSUME Check
  PROVE  UNCHANGED <<cards, held, book, rewards>>
<1>1. \A p : Ask(p) => UNCHANGED <<cards, held, book, rewards>>
  BY DEF Ask
<1>2. CASE \E c \in Uids, maters \in SUBSET Uids, items \in ItemLists :
             LvUp(c, maters, items)
  BY <1>1, <1>2 DEF LvUp, IsCanLvUp
<1>3. CASE \E c \in Uids, maters \in SUBSET Uids, items \in ItemLists :
             SkillLvUp(c, maters, items)
  BY <1>1, <1>3 DEF SkillLvUp, IsCanSkillLvUp
<1>4. CASE \E c \in Uids : Wake(c)
  BY <1>1, <1>4 DEF Wake, IsCanWake
<1>5. CASE \E t \in TableIds : ChangeExpInFavor(t) \/ BookNewConfirm(t)
  BY <1>1, <1>5 DEF ChangeExpInFavor, IsCanChangeExpInFavor, BookNewConfirm, IsCanBookNewConfirm, AskEntry
<1>6. CASE \E t \in TableIds, n \in FavorLevels : GetFavorReward(t, n)
  BY <1>1, <1>6 DEF GetFavorReward, IsCanGetFavorReward
<1>. QED  BY <1>2, <1>3, <1>4, <1>5, <1>6 DEF Check

\* Every step is one of CardKeeping.
LEMMA NextKeeps ==
  ASSUME IInv, IInv', [Next]_vars
  PROVE  [Keeping!Next]_<<Owned, held>>
<1>1. ASSUME NEW c \in Uids, DoAdd(c)
      PROVE  Keeping!Add(c)
  BY <1>1 DEF DoAdd, Owned, Keeping!Add
<1>2. ASSUME NEW c \in Uids, Hold(c)
      PROVE  Keeping!Hold
  BY <1>2 DEF Hold, Owned, Keeping!Hold, IInv, GrowthTypes
<1>3. CASE DoApplyCommonGrow
  <2>1. packet.type = "grow" /\ UNCHANGED held
    BY <1>3 DEF DoApplyCommonGrow, Answered
  <2>2. packet.maters \subseteq Owned \ held
    BY <2>1 DEF IInv, PacketOK, GrowOK
  <2>3. Owned' = Owned \ packet.maters
    BY <1>3 DEF DoApplyCommonGrow, Owned
  <2>4. Keeping!Remove(packet.maters) /\ packet.maters \in SUBSET Owned
    BY <2>1, <2>2, <2>3 DEF Keeping!Remove
  <2>. QED  BY <2>4 DEF Keeping!Next
<1>4. CASE Check \/ Refused \/ DoUpdateBook \/ DoSetRewardState \/ UNCHANGED vars
  <2>1. UNCHANGED <<cards, held>>
    <3>1. CASE Check
      BY <3>1, CheckAsks
    <3>2. CASE Refused \/ DoUpdateBook \/ DoSetRewardState \/ UNCHANGED vars
      BY <3>2 DEF Refused, DoUpdateBook, DoSetRewardState, vars
    <3>. QED  BY <1>4, <3>1, <3>2
  <2>. QED  BY <2>1 DEF Owned
<1>. QED  BY <1>1, <1>2, <1>3, <1>4 DEF Next, Keeping!Next

\* Growing uses up no card that is locked or in a position.
THEOREM Refinement == Spec => ImplementsKeeping
<1>1. Init => Keeping!Init
  BY DEF Init, Keeping!Init, Owned
<1>. QED  BY <1>1, Invariance, NextKeeps, PTL DEF Spec, ImplementsKeeping, Keeping!Spec

-----------------------------------------------------------------------------
(* Levels and waking only go up, whatever becomes of skill levels.         *)

\* What LvUp, SkillLvUp and Wake make of a card.
LevelsRise(from, to) ==
  /\ to.wake >= from.wake
  /\ to.wake = from.wake => to.lv >= from.lv

LvOK == packet.type = "grow" => LevelsRise(cards[packet.target], packet.to)

\* GrowthIsKept, but for skill levels.
LevelsAreKept ==
  [][/\ \A c \in Owned \intersect DOMAIN cards' : LevelsRise(cards[c], cards'[c])
     /\ \A t \in DOMAIN book :
          /\ book'[t].favorLv >= book[t].favorLv
          /\ book[t].flags \subseteq book'[t].flags
          /\ book[t].rewarded \subseteq book'[t].rewarded]_vars

\* The card of a request, and what is asked for it.
LEMMA GrowFacts ==
  ASSUME NEW c, NEW to, NEW maters, NEW items, NEW bookState,
         Ask(Grow(c, to, maters, items, bookState))
  PROVE  /\ UNCHANGED cards
         /\ packet'.type = "grow" /\ packet'.target = c /\ packet'.to = to
BY DEF Ask, Grow

\* A request under way asks for no less than the card has.
LEMMA NewLvOK ==
  ASSUME IInv, LvOK, [Next]_vars
  PROVE  LvOK'
<1>1. CASE \E c \in Uids : DoAdd(c)
  <2>1. PICK c \in Uids : DoAdd(c)
    BY <1>1
  <2>2. UNCHANGED packet /\ \A d \in Owned : cards'[d] = cards[d]
    BY <2>1 DEF DoAdd, Owned
  <2>3. packet.type = "grow" => packet.target \in Owned
    BY DEF IInv, PacketOK, GrowOK
  <2>. QED  BY <2>2, <2>3 DEF LvOK
<1>2. ASSUME NEW c \in Uids, NEW maters \in SUBSET Uids, NEW items \in ItemLists,
             LvUp(c, maters, items)
      PROVE  LvOK'
  <2>1. c \in Owned
    BY <1>2 DEF LvUp, IsCanLvUp, IsCheckCommonGrow
  <2>2. IsCard(cards[c])
    BY <2>1 DEF IInv, GrowthTypes
  <2>3. PICK lv \in cards[c].lv .. MaxLevel[cards[c].wake] :
          Ask(Grow(c, [cards[c] EXCEPT !.lv = lv], maters, items, MaxLvBookState(c, lv)))
    BY <1>2 DEF LvUp, IsCanLvUp
  <2>4. LevelsRise(cards[c], [cards[c] EXCEPT !.lv = lv])
    <3>1. cards[c].lv \in Nat /\ MaxLevel[cards[c].wake] \in Nat
      BY <2>2, CardGrowthAssumption DEF IsCard
    <3>2. lv >= cards[c].lv
      BY <3>1
    <3>. QED  BY <2>2, <3>2, CardGrowthAssumption DEF IsCard, LevelsRise
  <2>. QED  BY <2>3, <2>4, GrowFacts DEF LvOK
<1>3. ASSUME NEW c \in Uids, NEW maters \in SUBSET Uids, NEW items \in ItemLists,
             SkillLvUp(c, maters, items)
      PROVE  LvOK'
  <2>1. c \in Owned
    BY <1>3 DEF SkillLvUp, IsCanSkillLvUp
  <2>2. IsCard(cards[c])
    BY <2>1 DEF IInv, GrowthTypes
  <2>3. PICK skillLv : Ask(Grow(c, [cards[c] EXCEPT !.skillLv = skillLv], maters, items, {}))
    BY <1>3 DEF SkillLvUp, IsCanSkillLvUp
  <2>4. LevelsRise(cards[c], [cards[c] EXCEPT !.skillLv = skillLv])
    BY <2>2, CardGrowthAssumption DEF IsCard, LevelsRise
  <2>. QED  BY <2>3, <2>4, GrowFacts DEF LvOK
<1>4. ASSUME NEW c \in Uids, Wake(c)
      PROVE  LvOK'
  <2>1. /\ c \in Owned
        /\ Ask(Grow(c, [cards[c] EXCEPT !.lv = 1, !.wake = @ + 1], {}, NoItems, {}))
    BY <1>4 DEF Wake, IsCanWake
  <2>2. IsCard(cards[c])
    BY <2>1 DEF IInv, GrowthTypes
  <2>3. LevelsRise(cards[c], [cards[c] EXCEPT !.lv = 1, !.wake = @ + 1])
    BY <2>2, CardGrowthAssumption DEF IsCard, LevelsRise
  <2>. QED  BY <2>1, <2>3, GrowFacts DEF LvOK
<1>5. CASE \E t \in TableIds : ChangeExpInFavor(t) \/ BookNewConfirm(t)
  <2>1. \A t, entry : AskEntry(t, entry) => packet'.type = "entry"
    BY DEF AskEntry, Ask
  <2>2. packet'.type = "entry"
    BY <1>5, <2>1 DEF ChangeExpInFavor, IsCanChangeExpInFavor, BookNewConfirm, IsCanBookNewConfirm
  <2>. QED  BY <2>2 DEF LvOK
<1>6. CASE \E t \in TableIds, n \in FavorLevels : GetFavorReward(t, n)
  <2>1. packet'.type = "reward"
    BY <1>6 DEF GetFavorReward, IsCanGetFavorReward, Ask
  <2>. QED  BY <2>1 DEF LvOK
<1>7. CASE Refused \/ DoApplyCommonGrow \/ DoUpdateBook \/ DoSetRewardState
  BY <1>7 DEF Refused, DoApplyCommonGrow, DoUpdateBook, DoSetRewardState, Answered,
              NoPacket, LvOK
<1>8. CASE (\E c \in Uids : Hold(c)) \/ UNCHANGED vars
  BY <1>8 DEF Hold, vars, LvOK
<1>. QED  BY <1>1, <1>2, <1>3, <1>4, <1>5, <1>6, <1>7, <1>8 DEF Next, Check

\* What becomes of the cards and of the book in a step.
LEMMA CardsStep ==
  ASSUME IInv, [Next]_vars
  PROVE  /\ \A c \in Owned \intersect DOMAIN cards' :
              \/ cards'[c] = cards[c]
              \/ packet.type = "grow" /\ packet.target = c /\ cards'[c] = packet.to
         /\ \A c \in DOMAIN cards' \ Owned : cards'[c] = NewCard
<1>1. CASE \E c \in Uids : DoAdd(c)
  BY <1>1 DEF DoAdd, Owned
<1>2. CASE DoApplyCommonGrow
  BY <1>2 DEF DoApplyCommonGrow, Answered, Owned
<1>3. CASE Check
  <2>1. UNCHANGED cards
    BY <1>3, CheckAsks
  <2>. QED  BY <2>1 DEF Owned
<1>4. CASE \/ \E c \in Uids : Hold(c)
           \/ Refused \/ DoUpdateBook \/ DoSetRewardState \/ UNCHANGED vars
  <2>1. UNCHANGED cards
    BY <1>4 DEF Hold, Refused, DoUpdateBook, DoSetRewardState, vars
  <2>. QED  BY <2>1 DEF Owned
<1>. QED  BY <1>1, <1>2, <1>3, <1>4 DEF Next

\* No step takes back a mark or the level of an entry.
LEMMA BookStep ==
  ASSUME IInv, [Next]_vars, NEW t \in DOMAIN book
  PROVE  /\ book'[t].favorLv >= book[t].favorLv
         /\ book[t].flags \subseteq book'[t].flags
         /\ book[t].rewarded \subseteq book'[t].rewarded
<1>1. book[t] \in Entry /\ book[t].favorLv \in Nat
  BY CardGrowthAssumption DEF IInv, GrowthTypes, Entry
<1>2. CASE book'[t] = book[t]
  BY <1>1, <1>2
<1>3. CASE Follows(book'[t], t)
  BY <1>1, <1>3 DEF Follows
<1>4. CASE \E c \in Uids : DoAdd(c)
  <2>1. book'[t] = book[t]
    BY <1>4 DEF DoAdd
  <2>. QED  BY <1>2, <2>1
<1>5. CASE DoApplyCommonGrow
  <2>1. packet.type = "grow"
    BY <1>5 DEF DoApplyCommonGrow, Answered
  <2>2. \A entry \in packet.bookState : Follows(entry, TableId[packet.target])
    BY <2>1 DEF IInv, PacketOK, GrowOK
  <2>3. \/ book'[t] = book[t]
        \/ t = TableId[packet.target] /\ book'[t] \in packet.bookState
    BY <1>5 DEF DoApplyCommonGrow
  <2>. QED  BY <1>2, <1>3, <2>2, <2>3
<1>6. CASE DoUpdateBook
  <2>1. packet.type = "entry" /\ book' = [book EXCEPT ![packet.table] = packet.entry]
    BY <1>6 DEF DoUpdateBook, Answered
  <2>2. Follows(packet.entry, packet.table)
    BY <2>1 DEF IInv, PacketOK, EntryOK
  <2>3. book'[t] = book[t] \/ (t = packet.table /\ book'[t] = packet.entry)
    BY <2>1
  <2>. QED  BY <1>2, <1>3, <2>2, <2>3
<1>7. CASE DoSetRewardState
  <2>1. packet.type = "reward" /\ book' = [book EXCEPT ![packet.table] = packet.entry]
    BY <1>7 DEF DoSetRewardState, Answered
  <2>2. packet.entry = [book[packet.table] EXCEPT !.rewarded = @ \union {packet.level}]
    BY <2>1 DEF IInv, PacketOK, RewardOK
  <2>3. CASE t = packet.table
    <3>1. book'[t] = [book[t] EXCEPT !.rewarded = @ \union {packet.level}]
      BY <2>1, <2>2, <2>3
    <3>. QED  BY <1>1, <3>1 DEF Entry
  <2>4. CASE t # packet.table
    BY <1>2, <2>1, <2>4
  <2>. QED  BY <2>3, <2>4
<1>8. CASE Check
  <2>1. UNCHANGED book
    BY <1>8, CheckAsks
  <2>. QED  BY <1>2, <2>1
<1>9. CASE (\E c \in Uids : Hold(c)) \/ Refused \/ UNCHANGED vars
  <2>1. UNCHANGED book
    BY <1>9 DEF Hold, Refused, vars
  <2>. QED  BY <1>2, <2>1
<1>. QED  BY <1>4, <1>5, <1>6, <1>7, <1>8, <1>9 DEF Next

\* A card that stays keeps its levels, or gets those of the request.
LEMMA LevelsStep ==
  ASSUME IInv, LvOK, [Next]_vars,
         NEW c \in Owned \intersect DOMAIN cards'
  PROVE  LevelsRise(cards[c], cards'[c])
<1>1. IsCard(cards[c])
  BY DEF IInv, GrowthTypes
<1>2. CASE cards'[c] = cards[c]
  BY <1>1, <1>2, CardGrowthAssumption DEF IsCard, LevelsRise
<1>3. CASE packet.type = "grow" /\ packet.target = c /\ cards'[c] = packet.to
  BY <1>3 DEF LvOK
<1>. QED  BY <1>2, <1>3, CardsStep

\* No level, waking, favor level or mark in the book is ever lost.
THEOREM LevelsKept == Spec => LevelsAreKept
<1>1. Init => LvOK
  BY DEF Init, NoPacket, LvOK
<1>2. IInv /\ LvOK /\ [Next]_vars =>
        [/\ \A c \in Owned \intersect DOMAIN cards' : LevelsRise(cards[c], cards'[c])
         /\ \A t \in DOMAIN book :
              /\ book'[t].favorLv >= book[t].favorLv
              /\ book[t].flags \subseteq book'[t].flags
              /\ book[t].rewarded \subseteq book'[t].rewarded]_vars
  BY LevelsStep, BookStep
<1>. QED  BY <1>1, <1>2, Invariance, NewLvOK, PTL DEF Spec, LevelsAreKept

-----------------------------------------------------------------------------
(* Sums of skill levels.                                                   *)

\* The numbers are well-founded.
LEMMA LessWellFounded == IsWellFoundedOn({ss \in Nat \X Nat : ss[1] < ss[2]}, Nat)
BY NatLessThanWellFounded DEF OpToRel

\* A set of numbers has a least one.
LEMMA LeastElement ==
  ASSUME NEW T \in SUBSET Nat, T # {}
  PROVE  \E x \in T : \A y \in T : x <= y
<1>. DEFINE R == {ss \in Nat \X Nat : ss[1] < ss[2]}
<1>1. \A x, y \in Nat : <<y, x>> \in R <=> y < x
  OBVIOUS
<1>2. IsWellFoundedOn(R, Nat)
  BY LessWellFounded
<1>. HIDE DEF R
<1>3. PICK x \in T : \A y \in T : ~ (<<y, x>> \in R)
  BY <1>2, WFMin, Zenon
<1>4. \A y \in T : ~ (y < x)
  BY <1>1, <1>3, Zenon
<1>. QED  BY <1>4

\* Induction, for a set of numbers.
LEMMA AllNumbers ==
  ASSUME NEW T \in SUBSET Nat, 0 \in T, \A n \in T : n + 1 \in T
  PROVE  T = Nat
<1>. SUFFICES ASSUME Nat \ T # {} PROVE FALSE
  OBVIOUS
<1>1. PICK x \in Nat \ T : \A y \in Nat \ T : x <= y
  BY LeastElement
<1>2. x - 1 \in T
  BY <1>1
<1>. QED  BY <1>1, <1>2


\* What SumSkill computes for the sets of at most n cards.
SumIter(S, n, iter) ==
  iter = [s \in {s \in SUBSET S : Cardinality(s) <= n} |->
            IF s = {} THEN 0
            ELSE cards[CHOOSE x \in s : TRUE].skillLv + iter[s \ {CHOOSE x \in s : TRUE}]]

\* Taking the chosen card out of a set.
LEMMA ChosenFacts ==
  ASSUME NEW S, IsFiniteSet(S), NEW s \in SUBSET S, s # {}
  PROVE  LET x == CHOOSE x \in s : TRUE
         IN  /\ x \in s /\ s \ {x} \in SUBSET S /\ IsFiniteSet(s)
             /\ Cardinality(s) \in Nat \ {0}
             /\ Cardinality(s \ {x}) = Cardinality(s) - 1
<1>. DEFINE x == CHOOSE x \in s : TRUE
<1>1. x \in s
  OBVIOUS
<1>. HIDE DEF x
<1>2. IsFiniteSet(s)
  BY FS_Subset
<1>3. Cardinality(s) \in Nat /\ Cardinality(s) # 0
  BY <1>2, FS_CardinalityType, FS_EmptySet
<1>4. Cardinality(s \ {x}) = Cardinality(s) - 1
  BY <1>1, <1>2, FS_RemoveElement
<1>. QED  BY <1>1, <1>2, <1>3, <1>4 DEF x

LEMMA SumIterStep ==
  ASSUME NEW S, IsFiniteSet(S), NEW n \in Nat, NEW g, SumIter(S, n, g)
  PROVE  \E h : SumIter(S, n + 1, h)
<1>. DEFINE chosen(s) == CHOOSE x \in s : TRUE
            h == [s \in {s \in SUBSET S : Cardinality(s) <= n + 1} |->
                    IF Cardinality(s) = n + 1
                    THEN cards[chosen(s)].skillLv + g[s \ {chosen(s)}] ELSE g[s]]
<1>. HIDE DEF chosen
<1>1. \A s \in SUBSET S : Cardinality(s) \in Nat
  BY FS_Subset, FS_CardinalityType
<1>2. \A s \in SUBSET S : s # {} => /\ chosen(s) \in s /\ s \ {chosen(s)} \in SUBSET S
                                    /\ Cardinality(s \ {chosen(s)}) = Cardinality(s) - 1
  BY ChosenFacts DEF chosen
<1>3. \A s \in SUBSET S : Cardinality(s) <= n => h[s] = g[s]
  BY <1>1
<1>4. ASSUME NEW s \in SUBSET S, Cardinality(s) <= n + 1
      PROVE  h[s] = IF s = {} THEN 0 ELSE cards[chosen(s)].skillLv + h[s \ {chosen(s)}]
  <2>1. CASE Cardinality(s) = n + 1
    <3>1. s # {}
      BY <2>1, FS_EmptySet
    <3>2. s \ {chosen(s)} \in SUBSET S /\ Cardinality(s \ {chosen(s)}) <= n
      BY <1>2, <2>1, <3>1
    <3>3. h[s] = cards[chosen(s)].skillLv + g[s \ {chosen(s)}]
      BY <1>4, <2>1
    <3>4. h[s \ {chosen(s)}] = g[s \ {chosen(s)}]
      BY <1>3, <3>2
    <3>. HIDE DEF h
    <3>. QED  BY <3>1, <3>3, <3>4
  <2>2. CASE Cardinality(s) # n + 1
    <3>1. Cardinality(s) <= n
      BY <1>1, <1>4, <2>2
    <3>2. s # {} => s \ {chosen(s)} \in SUBSET S /\ Cardinality(s \ {chosen(s)}) <= n
      BY <1>1, <1>2, <3>1
    <3>3. g[s] = IF s = {} THEN 0 ELSE cards[chosen(s)].skillLv + g[s \ {chosen(s)}]
      BY <3>1, Zenon DEF SumIter, chosen
    <3>4. h[s] = g[s] /\ (s # {} => h[s \ {chosen(s)}] = g[s \ {chosen(s)}])
      BY <1>3, <3>1, <3>2
    <3>. HIDE DEF h
    <3>. QED  BY <3>3, <3>4
  <2>. QED  BY <2>1, <2>2
<1>. HIDE DEF h
<1>5. h = [s \in {s \in SUBSET S : Cardinality(s) <= n + 1} |-> h[s]]
  BY DEF h
<1>6. SumIter(S, n + 1, h)
  BY <1>4, <1>5, Zenon DEF SumIter, chosen
<1>. QED  BY <1>6

LEMMA SumIterExists ==
  ASSUME NEW S, IsFiniteSet(S), NEW k \in Nat
  PROVE  \E g : SumIter(S, k, g)
<1>. DEFINE T == {n \in Nat : \E g : SumIter(S, n, g)}
<1>1. 0 \in T
  <2>. DEFINE g == [s \in {s \in SUBSET S : Cardinality(s) <= 0} |-> 0]
  <2>1. \A s \in SUBSET S : Cardinality(s) <= 0 => s = {}
    BY FS_Subset, FS_CardinalityType, FS_EmptySet
  <2>2. SumIter(S, 0, g)
    BY <2>1 DEF SumIter
  <2>. QED  BY <2>2
<1>2. \A n \in T : n + 1 \in T
  BY SumIterStep
<1>3. T \in SUBSET Nat
  OBVIOUS
<1>. HIDE DEF T
<1>4. T = Nat
  BY <1>1, <1>2, <1>3, AllNumbers
<1>. QED  BY <1>4 DEF T

\* The levels of some cards add up to at least one for each of them, and to no
\* more than the maximum for each.
LEMMA SumSkillBounds ==
  ASSUME NEW S \in SUBSET Owned, IsFiniteSet(S),
         \A c \in S : cards[c].skillLv \in 1..MaxSkillLv
  PROVE  /\ SumSkill(S) \in Nat /\ Cardinality(S) \in Nat
         /\ SumSkill(S) >= Cardinality(S)
         /\ SumSkill(S) <= Cardinality(S) * MaxSkillLv
<1>0. MaxSkillLv \in Nat
  BY CardGrowthAssumption
<1>1. Cardinality(S) \in Nat
  BY FS_CardinalityType
<1>. DEFINE chosen(s) == CHOOSE x \in s : TRUE
            IsIter(g) == g = [s \in SUBSET S |->
                                IF s = {} THEN 0
                                ELSE cards[chosen(s)].skillLv + g[s \ {chosen(s)}]]
            iter == CHOOSE g : IsIter(g)
<1>2. SumSkill(S) = iter[S]
  BY Zenon DEF SumSkill, MapThenSumSet, MapThenFoldSet
<1>3. IsIter(iter)
  <2>1. {s \in SUBSET S : Cardinality(s) <= Cardinality(S)} = SUBSET S
    BY FS_Subset
  <2>2. \A g : SumIter(S, Cardinality(S), g) <=> IsIter(g)
    BY <2>1, Zenon DEF SumIter
  <2>. HIDE DEF IsIter
  <2>. QED  BY <1>1, <2>2, SumIterExists, Zenon
<1>. HIDE DEF iter
<1>. DEFINE Good(n, s) == iter[s] \in Nat /\ iter[s] >= n /\ iter[s] <= n * MaxSkillLv
            T == {n \in Nat : \A s \in SUBSET S : Cardinality(s) = n => Good(n, s)}
<1>4. 0 \in T
  <2>1. iter[{}] = 0
    BY <1>3, Zenon
  <2>2. \A s \in SUBSET S : Cardinality(s) = 0 => s = {}
    BY FS_Subset, FS_EmptySet
  <2>3. Good(0, {})
    BY <1>0, <2>1
  <2>. HIDE DEF Good
  <2>. QED  BY <2>2, <2>3
<1>5. ASSUME NEW n \in T PROVE n + 1 \in T
  <2>0. n \in Nat
    OBVIOUS
  <2>. SUFFICES ASSUME NEW s \in SUBSET S, Cardinality(s) = n + 1 PROVE Good(n + 1, s)
    BY <2>0
  <2>. HIDE DEF Good, T
  <2>1. s # {}
    <3>1. Cardinality({}) = 0
      BY FS_EmptySet
    <3>. QED  BY <2>0, <3>1
  <2>. USE DEF Good, T
  <2>2. /\ chosen(s) \in s /\ s \ {chosen(s)} \in SUBSET S
        /\ Cardinality(s \ {chosen(s)}) = n
    BY <2>0, <2>1, ChosenFacts
  <2>. HIDE DEF chosen
  <2>3. Good(n, s \ {chosen(s)})
    BY <2>2
  <2>4. iter[s] = cards[chosen(s)].skillLv + iter[s \ {chosen(s)}]
    BY <1>3, <2>1, Zenon
  <2>5. cards[chosen(s)].skillLv \in 1..MaxSkillLv
    BY <2>2
  <2>6. (n + 1) * MaxSkillLv = n * MaxSkillLv + MaxSkillLv /\ n * MaxSkillLv \in Nat
    BY <1>0, <2>0
  <2>. QED  BY <1>0, <2>0, <2>3, <2>4, <2>5, <2>6
<1>6. T \in SUBSET Nat
  OBVIOUS
<1>. HIDE DEF T
<1>7. T = Nat
  BY <1>4, <1>5, <1>6, AllNumbers
<1>8. Good(Cardinality(S), S)
  BY <1>1, <1>7 DEF T
<1>. QED  BY <1>1, <1>2, <1>8

-----------------------------------------------------------------------------
(* Skill levels, if no sum of them is carried out of its byte.             *)

\* SkillLvUp adds up the levels of a card, of its materials and of the items.
\* What cards can bring beyond their first level, with as many materials as
\* pass the check, fits a byte together with what is left of the rest in one.
SkillSumsFit ==
  \A c \in Uids, maters \in SUBSET Uids, items \in ItemLists :
    LET n == Cardinality(maters)
    IN  /\ c \notin maters /\ \A m \in maters : TableId[m] = TableId[c]
        /\ TableId[c] \in items.skill
        /\ (n + items.cnt) % 256 <= MaxMaterCnt
        => (n + 1) * (MaxSkillLv - 1) + ((n + items.lvs) % 256) < 256

FitsCard(r) == r \in Card /\ r.lv <= MaxLevel[r.wake]

\* With IInv, an invariant if the sums fit.
SkillInv ==
  /\ \A c \in Owned : FitsCard(cards[c])
  /\ packet \in Packet
  /\ packet.type = "grow" =>
       FitsCard(packet.to) /\ packet.to.skillLv >= cards[packet.target].skillLv

\* A product is within every limit.
LEMMA NewCardFits == FitsCard(NewCard)
<1>1. 0 \in 0..MaxWake /\ 1 \in 1..MaxSkillLv
  BY CardGrowthAssumption
<1>2. MaxLevel[0] \in Nat \ {0, 1}
  BY <1>1, CardGrowthAssumption
<1>. QED  BY <1>1, <1>2 DEF NewCard, FitsCard, Card

LEMMA NoPacketFits == NoPacket \in Packet /\ NoPacket.type = "none"
BY DEF NoPacket, Packet

\* Only what is over the count of a byte is carried out of it.
LEMMA ByteOfSum ==
  ASSUME NEW d \in Nat, NEW k \in Nat, d + (k % 256) < 256
  PROVE  (d + k) % 256 = d + (k % 256)
BY Z3

\* The byte holds the whole sum, which is no less than the card's level.
LEMMA SkillSum ==
  ASSUME IsFiniteSet(Uids), SkillSumsFit, IInv, SkillInv,
         NEW c \in Uids, NEW maters \in SUBSET Uids, NEW items \in ItemLists,
         SkillLvUp(c, maters, items)
  PROVE  /\ (cards[c].skillLv + SumSkill(maters) + items.lvs) % 256 \in Nat
         /\ (cards[c].skillLv + SumSkill(maters) + items.lvs) % 256 >= cards[c].skillLv
<1>. DEFINE lv == cards[c].skillLv
            n == Cardinality(maters)
            sum == SumSkill(maters)
            lvs == items.lvs
            rest == (n + lvs) % 256
<1>1. /\ c \in Owned /\ lv < MaxSkillLv
      /\ maters \subseteq Owned \ {c} /\ (n + items.cnt) % 256 <= MaxMaterCnt
      /\ \A m \in maters : TableId[m] = TableId[c]
      /\ TableId[c] \in items.skill
  BY DEF SkillLvUp, IsCanSkillLvUp, IsCheckCommonGrow
<1>2. MaxSkillLv \in Nat \ {0} /\ lvs \in Nat
  BY CardGrowthAssumption DEF ItemList
<1>3. lv \in 1..MaxSkillLv /\ \A m \in maters : cards[m].skillLv \in 1..MaxSkillLv
  BY <1>1 DEF SkillInv, FitsCard, Card
<1>4. IsFiniteSet(maters)
  BY FS_Subset
<1>5. sum \in Nat /\ n \in Nat /\ sum >= n /\ sum <= n * MaxSkillLv
  BY <1>1, <1>3, <1>4, SumSkillBounds
<1>6. (n + 1) * (MaxSkillLv - 1) + rest < 256
  BY <1>1 DEF SkillSumsFit
<1>. HIDE DEF lv, n, sum, lvs
<1>7. (n + 1) * (MaxSkillLv - 1) = n * MaxSkillLv - n + MaxSkillLv - 1
  BY <1>2, <1>5
<1>8. n * MaxSkillLv \in Nat
  BY <1>2, <1>5
<1>9. rest \in Nat /\ n + lvs \in Nat
  BY <1>2, <1>5
<1>10. lv + sum - n \in Nat /\ lv + sum - n >= lv
  BY <1>3, <1>5
<1>11. lv + sum - n <= n * MaxSkillLv - n + MaxSkillLv - 1
  BY <1>1, <1>2, <1>3, <1>5, <1>8
<1>12. lv + sum - n + rest < 256
  <2>. HIDE DEF rest
  <2>. DEFINE p == n * MaxSkillLv
              q == (n + 1) * (MaxSkillLv - 1)
  <2>1. q = p - n + MaxSkillLv - 1 /\ q + rest < 256 /\ p \in Nat
    BY <1>6, <1>7, <1>8
  <2>2. lv + sum - n <= p - n + MaxSkillLv - 1
    BY <1>11
  <2>. HIDE DEF p, q
  <2>. QED  BY <1>2, <1>3, <1>5, <1>9, <2>1, <2>2
<1>13. (lv + sum - n + (n + lvs)) % 256 = lv + sum - n + rest
  BY <1>9, <1>10, <1>12, ByteOfSum
<1>14. lv + sum - n + (n + lvs) = lv + sum + lvs
  BY <1>2, <1>3, <1>5
<1>15. (lv + sum + lvs) % 256 = lv + sum - n + rest
  BY <1>13, <1>14
<1>. HIDE DEF rest
<1>16. lv + sum - n + rest \in Nat /\ lv + sum - n + rest >= lv
  BY <1>3, <1>9, <1>10
<1>. QED  BY <1>15, <1>16 DEF lv, sum, lvs

\* A step that leaves the cards alone and asks for no growth.
LEMMA SameCards ==
  ASSUME SkillInv, UNCHANGED cards, packet' \in Packet, packet'.type # "grow"
  PROVE  SkillInv'
BY DEF SkillInv, Owned

\* A step that asks for growth.
LEMMA GrowFits ==
  ASSUME IInv, IInv', SkillInv,
         NEW c \in Owned, NEW to, NEW maters \in SUBSET Uids, NEW items \in ItemList, NEW bookState,
         Ask(Grow(c, to, maters, items, bookState)),
         FitsCard(to), to.skillLv >= cards[c].skillLv
  PROVE  SkillInv'
<1>1. UNCHANGED <<cards, book>> /\ packet' = Grow(c, to, maters, items, bookState)
  BY DEF Ask
<1>2. /\ packet'.type = "grow" /\ packet'.target = c /\ packet'.to = to
      /\ packet'.bookState = bookState
  BY <1>1 DEF Grow
<1>3. bookState \in SUBSET Entry
  <2>1. \A entry \in packet'.bookState : Follows(entry, TableId[c])'
    BY <1>2 DEF IInv, PacketOK, GrowOK
  <2>. QED  BY <1>2, <2>1 DEF Follows
<1>4. c \in Uids /\ to \in Card /\ items.cnt \in Nat
  BY DEF IInv, GrowthTypes, FitsCard, ItemList
<1>5. packet' \in Packet
  BY <1>1, <1>3, <1>4 DEF Grow, Packet
<1>6. \A d \in Owned' : FitsCard(cards'[d])
  BY <1>1 DEF SkillInv, Owned
<1>. QED  BY <1>1, <1>2, <1>5, <1>6 DEF SkillInv

\* Each request asks for a card within the limits, and for no less skill.
LEMMA LvUpFits ==
  ASSUME IInv, IInv', SkillInv,
         NEW c \in Uids, NEW maters \in SUBSET Uids, NEW items \in ItemLists,
         LvUp(c, maters, items)
  PROVE  SkillInv'
<1>1. c \in Owned
  BY DEF LvUp, IsCanLvUp, IsCheckCommonGrow
<1>2. PICK lv \in cards[c].lv .. MaxLevel[cards[c].wake] :
        Ask(Grow(c, [cards[c] EXCEPT !.lv = lv], maters, items, MaxLvBookState(c, lv)))
  BY DEF LvUp, IsCanLvUp
<1>. DEFINE to == [cards[c] EXCEPT !.lv = lv]
<1>3. cards[c] \in Card
  BY <1>1 DEF SkillInv, FitsCard
<1>4. MaxLevel[cards[c].wake] \in Nat /\ cards[c].lv \in Nat \ {0}
      /\ cards[c].skillLv \in Nat
  BY <1>3, CardGrowthAssumption DEF Card
<1>5. lv \in Nat \ {0} /\ lv <= MaxLevel[cards[c].wake]
  BY <1>4
<1>6. FitsCard(to) /\ to.skillLv >= cards[c].skillLv
  BY <1>3, <1>4, <1>5 DEF FitsCard, Card
<1>7. items \in ItemList
  BY CardGrowthAssumption
<1>. HIDE DEF to
<1>. QED  BY <1>1, <1>2, <1>6, <1>7, GrowFits DEF to

LEMMA SkillLvUpFits ==
  ASSUME IsFiniteSet(Uids), SkillSumsFit, IInv, IInv', SkillInv,
         NEW c \in Uids, NEW maters \in SUBSET Uids, NEW items \in ItemLists,
         SkillLvUp(c, maters, items)
  PROVE  SkillInv'
<1>. DEFINE sum == (cards[c].skillLv + SumSkill(maters) + items.lvs) % 256
            skillLv == IF MaxSkillLv < sum THEN MaxSkillLv ELSE sum
            to == [cards[c] EXCEPT !.skillLv = skillLv]
<1>1. c \in Owned /\ Ask(Grow(c, to, maters, items, {}))
  BY DEF SkillLvUp, IsCanSkillLvUp
<1>2. sum \in Nat /\ sum >= cards[c].skillLv
  BY SkillSum
<1>. HIDE DEF sum
<1>3. FitsCard(cards[c]) /\ cards[c].skillLv \in 1..MaxSkillLv
  BY <1>1 DEF SkillInv, FitsCard, Card
<1>4. MaxSkillLv \in Nat /\ items \in ItemList
  BY CardGrowthAssumption
<1>5. skillLv \in 1..MaxSkillLv /\ skillLv >= cards[c].skillLv
  BY <1>2, <1>3, <1>4
<1>. HIDE DEF skillLv
<1>6. FitsCard(to) /\ to.skillLv >= cards[c].skillLv
  BY <1>3, <1>5 DEF FitsCard, Card
<1>. HIDE DEF to
<1>. QED  BY <1>1, <1>4, <1>6, GrowFits

LEMMA WakeFits ==
  ASSUME IInv, IInv', SkillInv, NEW c \in Uids, Wake(c)
  PROVE  SkillInv'
<1>. DEFINE to == [cards[c] EXCEPT !.lv = 1, !.wake = @ + 1]
<1>1. c \in Owned /\ cards[c].wake < MaxWake /\ Ask(Grow(c, to, {}, NoItems, {}))
  BY DEF Wake, IsCanWake
<1>2. cards[c] \in Card /\ MaxWake \in Nat /\ cards[c].wake \in 0..MaxWake
      /\ cards[c].skillLv \in Nat
  <2>. HIDE DEF to
  <2>1. cards[c] \in Card
    BY <1>1 DEF SkillInv, FitsCard
  <2>2. MaxWake \in Nat /\ MaxSkillLv \in Nat
    BY CardGrowthAssumption
  <2>. QED  BY <2>1, <2>2 DEF Card
<1>3. cards[c].wake + 1 \in 0..MaxWake
  BY <1>1, <1>2
<1>4. MaxLevel[cards[c].wake + 1] \in Nat \ {0, 1}
  BY <1>3, CardGrowthAssumption
<1>5. /\ DOMAIN to = {"lv", "wake", "skillLv"}
      /\ to.lv = 1 /\ to.wake = cards[c].wake + 1 /\ to.skillLv = cards[c].skillLv
      /\ cards[c].skillLv \in 1..MaxSkillLv
  BY <1>2 DEF Card
<1>6. to \in Card
  <2>. DEFINE first == [cards[c] EXCEPT !.lv = 1]
  <2>1. first \in Card
    BY <1>2 DEF Card
  <2>2. to = [first EXCEPT !.wake = cards[c].wake + 1]
    BY <1>2 DEF Card
  <2>. HIDE DEF to, first
  <2>. QED  BY <1>3, <2>1, <2>2 DEF Card
<1>. HIDE DEF to
<1>7. FitsCard(to) /\ to.skillLv >= cards[c].skillLv
  BY <1>2, <1>4, <1>5, <1>6 DEF FitsCard
<1>8. NoItems \in ItemList
  BY DEF NoItems, ItemList
<1>. QED  BY <1>1, <1>7, <1>8, GrowFits

\* An entry is asked to be written back.
LEMMA BookAsked ==
  ASSUME SkillInv, NEW t \in TableIds, NEW entry \in Entry, AskEntry(t, entry)
  PROVE  SkillInv'
<1>1. UNCHANGED cards /\ packet' = [type |-> "entry", table |-> t, entry |-> entry]
  BY DEF AskEntry, Ask
<1>2. packet' \in Packet /\ packet'.type # "grow"
  BY <1>1 DEF Packet
<1>. QED  BY <1>1, <1>2, SameCards

\* The same of all requests.
LEMMA CheckFits ==
  ASSUME IsFiniteSet(Uids), SkillSumsFit, IInv, IInv', SkillInv, Check
  PROVE  SkillInv'
<1>1. ASSUME NEW t \in TableIds, NEW entry, AskEntry(t, entry)
      PROVE  entry \in Entry
  <2>1. packet'.type = "entry" /\ packet'.entry = entry
    BY <1>1 DEF AskEntry, Ask
  <2>. QED  BY <2>1 DEF IInv, PacketOK, EntryOK, Follows
<1>2. CASE \E t \in TableIds : ChangeExpInFavor(t) \/ BookNewConfirm(t)
  BY <1>1, <1>2, BookAsked DEF ChangeExpInFavor, IsCanChangeExpInFavor, BookNewConfirm, IsCanBookNewConfirm
<1>3. ASSUME NEW t \in TableIds, NEW n \in FavorLevels, GetFavorReward(t, n)
      PROVE  SkillInv'
  <2>. DEFINE entry == [book[t] EXCEPT !.rewarded = @ \union {n}]
  <2>1. UNCHANGED cards
        /\ packet' = [type |-> "reward", table |-> t, level |-> n, entry |-> entry]
    BY <1>3 DEF GetFavorReward, IsCanGetFavorReward, Ask
  <2>2. book[t] \in Entry
    BY <1>3 DEF GetFavorReward, IsCanGetFavorReward, IInv, GrowthTypes
  <2>3. entry \in Entry
    BY <2>2 DEF Entry
  <2>. HIDE DEF entry
  <2>4. packet' \in Packet /\ packet'.type # "grow"
    BY <2>1, <2>3 DEF Packet
  <2>. QED  BY <2>1, <2>4, SameCards
<1>. QED  BY <1>2, <1>3, LvUpFits, SkillLvUpFits, WakeFits DEF Check

\* SkillInv is inductive, with IInv.
LEMMA NextFits ==
  ASSUME IsFiniteSet(Uids), SkillSumsFit, IInv, IInv', SkillInv, [Next]_vars
  PROVE  SkillInv'
<1>1. CASE \E c \in Uids : DoAdd(c)
  <2>1. PICK c \in Uids : DoAdd(c)
    BY <1>1
  <2>2. /\ UNCHANGED packet /\ Owned' = Owned \union {c}
        /\ cards'[c] = NewCard /\ \A d \in Owned : cards'[d] = cards[d]
    BY <2>1 DEF DoAdd, Owned
  <2>3. packet.type = "grow" => packet.target \in Owned
    BY DEF IInv, PacketOK, GrowOK
  <2>. QED  BY <2>2, <2>3, NewCardFits DEF SkillInv
<1>2. CASE Check
  BY <1>2, CheckFits
<1>3. CASE DoApplyCommonGrow
  <2>1. packet.type = "grow" /\ packet' = NoPacket
    BY <1>3 DEF DoApplyCommonGrow, Answered
  <2>2. \A c \in Owned' : c \in Owned /\ cards'[c] \in {cards[c], packet.to}
    BY <1>3 DEF DoApplyCommonGrow, Owned
  <2>3. \A c \in Owned' : FitsCard(cards'[c])
    BY <2>1, <2>2 DEF SkillInv
  <2>. QED  BY <2>1, <2>3, NoPacketFits DEF SkillInv
<1>4. CASE Refused \/ DoUpdateBook \/ DoSetRewardState
  <2>1. UNCHANGED cards /\ packet' = NoPacket
    BY <1>4 DEF Refused, DoUpdateBook, DoSetRewardState, Answered
  <2>. QED  BY <2>1, NoPacketFits, SameCards
<1>5. CASE (\E c \in Uids : Hold(c)) \/ UNCHANGED vars
  BY <1>5 DEF Hold, vars, SkillInv, Owned
<1>. QED  BY <1>1, <1>2, <1>3, <1>4, <1>5 DEF Next

\* Cards are within their limits, and no request takes a skill level back.
THEOREM SkillInvariance ==
  ASSUME IsFiniteSet(Uids), SkillSumsFit
  PROVE  Spec => []SkillInv
<1>1. Init => SkillInv
  BY NoPacketFits DEF Init, SkillInv, Owned
<1>2. IInv /\ IInv' /\ SkillInv /\ [Next]_vars => SkillInv'
  BY NextFits
<1>. QED  BY <1>1, <1>2, Invariance, PTL DEF Spec

\* Levels, waking and skill levels stay within their limits, as do the entries
\* of the book and the packet.
THEOREM TypeCorrect ==
  ASSUME IsFiniteSet(Uids), SkillSumsFit
  PROVE  Spec => []TypeOK
<1>1. IInv /\ SkillInv => TypeOK
  BY DEF IInv, SkillInv, FitsCard, GrowthTypes, TypeOK
<1>. QED  BY <1>1, Invariance, SkillInvariance, PTL

\* No step takes growth back, the skill levels included.
THEOREM GrowthKept ==
  ASSUME IsFiniteSet(Uids), SkillSumsFit
  PROVE  Spec => GrowthIsKept
<1>1. ASSUME SkillInv, SkillInv', IInv, [Next]_vars, NEW c \in Owned \intersect DOMAIN cards'
      PROVE  cards'[c].skillLv >= cards[c].skillLv
  <2>1. cards[c].skillLv \in Nat
    BY <1>1, CardGrowthAssumption DEF SkillInv, FitsCard, Card
  <2>2. CASE cards'[c] = cards[c]
    BY <2>1, <2>2
  <2>3. CASE packet.type = "grow" /\ packet.target = c /\ cards'[c] = packet.to
    BY <1>1, <2>3 DEF SkillInv
  <2>. QED  BY <1>1, <2>2, <2>3, CardsStep
<1>2. Init => LvOK
  BY DEF Init, NoPacket, LvOK
<1>3. IInv /\ LvOK /\ SkillInv /\ SkillInv' /\ [Next]_vars =>
        [/\ \A c \in Owned \intersect DOMAIN cards' :
              /\ cards'[c].wake >= cards[c].wake
              /\ cards'[c].wake = cards[c].wake => cards'[c].lv >= cards[c].lv
              /\ cards'[c].skillLv >= cards[c].skillLv
         /\ \A t \in DOMAIN book :
              /\ book'[t].favorLv >= book[t].favorLv
              /\ book[t].flags \subseteq book'[t].flags
              /\ book[t].rewarded \subseteq book'[t].rewarded]_vars
  BY <1>1, LevelsStep, BookStep DEF LevelsRise
<1>. QED  BY <1>2, <1>3, Invariance, NewLvOK, SkillInvariance, PTL DEF Spec, GrowthIsKept

=============================================================================
