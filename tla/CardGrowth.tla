----------------------------- MODULE CardGrowth -----------------------------
(***************************************************************************)
(* How a user's cards and card book grow, C++/CardContents.cpp: leveling   *)
(* up, skill levels and waking of cards, which use up other cards and      *)
(* items, and the book's flags, favor levels and favor rewards.            *)
(*                                                                         *)
(* As in CardSlots a request is checked (IsCan...), its packet goes to the *)
(* database and is applied afterwards (DoSet..., DoUpdateBook), one at a   *)
(* time; a packet holds whole values, not increments, and for the book a   *)
(* copy of the entry.  How much experience a material gives is left open.  *)
(***************************************************************************)
EXTENDS Naturals, FiniteSets, FiniteSetsExt

CONSTANTS
  Uids,         \* card uids
  TableIds,     \* kinds of card; each has one entry in the book
  TableId,      \* TableId[c]: the kind of card c
  MaxLevel,     \* MaxLevel[w]: GetMaxLevel of a card woken w times
  MaxWake,      \* how often a card can be woken
  MaxSkillLv,   \* CardMaxSkillLevel
  MaxFavorLv,   \* CardFavorMaxLevel; every level has a reward
  ItemLists,    \* the lists of material items a request may name
  MaxMaterCnt   \* MatCount, and the default limit of __IsCheckCommonGrow

\* What the tables say of a list: how many items it names, what they add to a
\* skill level (GetLvFromValue for each), and which cards they are for.
ItemList ==
  [cnt : Nat, lvs : Nat,
   level : BOOLEAN,           \* IsCanUseMaterial for leveling up
   skill : SUBSET TableIds]   \* IsCanSkillLvUp of a card's grade, and IsCanUseMaterial

NoItems == [cnt |-> 0, lvs |-> 0, level |-> TRUE, skill |-> TableIds]

ASSUME CardGrowthAssumption ==
  /\ TableId \in [Uids -> TableIds]
  /\ MaxLevel \in [0..MaxWake -> Nat \ {0, 1}]
  /\ MaxWake \in 0..255 /\ MaxSkillLv \in 1..255 /\ MaxFavorLv \in 0..255
  /\ ItemLists \subseteq ItemList
  /\ \A items \in ItemLists : items.cnt = 0 => items = NoItems
  /\ MaxMaterCnt \in Nat

VARIABLES
  cards,    \* m_Cont: the growth of the cards the user has
  held,     \* cards that are locked or in a position (see CardSlots)
  book,     \* m_BookCont: the entries of the book
  packet,   \* the checked request that is not applied yet
  rewards   \* history: rewards[t][n], favor rewards given for level n of t

vars == <<cards, held, book, packet, rewards>>

Owned == DOMAIN cards
FavorLevels == 1..MaxFavorLv

\* stateFlag_: FAVOR_RWD_GET_n is the number n.
Flags == {"NEW_CHK", "MAX_WAKE_AND_LV", "MAX_FAVOR_LV"}

Card == [lv : Nat \ {0}, wake : 0..MaxWake, skillLv : 1..MaxSkillLv]
Entry == [flags : SUBSET Flags, rewarded : SUBSET FavorLevels, favorLv : 0..MaxFavorLv]

Packet ==
  [type : {"none"}]
    \union [type : {"grow"}, target : Uids, to : Card, maters : SUBSET Uids, items : Nat,
            bookState : SUBSET Entry]
    \union [type : {"entry"}, table : TableIds, entry : Entry]
    \union [type : {"reward"}, table : TableIds, entry : Entry, level : FavorLevels]

NoPacket == [type |-> "none"]

TypeOK ==
  /\ Owned \subseteq Uids
  /\ \A c \in Owned : cards[c] \in Card /\ cards[c].lv <= MaxLevel[cards[c].wake]
  /\ held \subseteq Uids
  /\ DOMAIN book \subseteq TableIds
  /\ \A t \in DOMAIN book : book[t] \in Entry
  /\ packet \in Packet
  /\ rewards \in [TableIds -> [FavorLevels -> Nat]]

Init ==
  /\ cards = [c \in {} |-> 0]
  /\ held = {}
  /\ book = [t \in {} |-> 0]
  /\ packet = NoPacket
  /\ rewards = [t \in TableIds |-> [n \in FavorLevels |-> 0]]

NewCard == [lv |-> 1, wake |-> 0, skillLv |-> 1]
NewEntry == [flags |-> {}, rewarded |-> {}, favorLv |-> 0]

-----------------------------------------------------------------------------
(* A product: DoMakeProduct, and DoAdd once the database has the card.     *)

DoAdd(c) ==
  /\ c \notin Owned
  /\ cards' = [d \in Owned \union {c} |-> IF d = c THEN NewCard ELSE cards[d]]
  /\ book' = [t \in DOMAIN book \union {TableId[c]} |->
                IF t \in DOMAIN book THEN book[t] ELSE NewEntry]
  /\ UNCHANGED <<held, packet, rewards>>

\* What CardSlots does to a card, as far as growing asks.
Hold(c) ==
  /\ packet = NoPacket
  /\ c \in Owned
  /\ held' = IF c \in held THEN held \ {c} ELSE held \union {c}
  /\ UNCHANGED <<cards, book, packet, rewards>>

-----------------------------------------------------------------------------
(* Requests: IsCan... checks one, and it becomes the packet.               *)

Ask(p) ==
  /\ packet = NoPacket
  /\ packet' = p
  /\ UNCHANGED <<cards, held, book, rewards>>

IsMaxLv(c) == cards[c].lv >= MaxLevel[cards[c].wake]

Grow(c, to, maters, items, bookState) ==
  [type |-> "grow", target |-> c, to |-> to, maters |-> maters, items |-> items.cnt,
   bookState |-> bookState]

\* Mutant: a material may be locked, or in a position.
GrowOnHeldCards(c, maters, items) ==
  /\ c \in Owned
  /\ Cardinality(maters) + items.cnt # 0
  /\ (Cardinality(maters) + items.cnt) % 256 <= MaxMaterCnt
  /\ maters \subseteq Owned \ {c}

\* __IsCheckCommonGrow, which squeezes the number of materials into a byte.
IsCheckCommonGrow(c, maters, items) ==
  /\ c \in Owned
  /\ Cardinality(maters) + items.cnt # 0
  /\ (Cardinality(maters) + items.cnt) % 256 <= MaxMaterCnt
  /\ maters \subseteq Owned \ {c}
  /\ maters \intersect held = {}

\* Mutant: the flag is put on only if the level was at its maximum before.
FlagOneLevelLate(c, lv) ==
  IF IsMaxLv(c) /\ cards[c].wake = MaxWake
  THEN {[book[TableId[c]] EXCEPT !.flags = @ \union {"MAX_WAKE_AND_LV"}]}
  ELSE {}

\* The book entry changes when a fully woken card reaches its last level for
\* the first time.
MaxLvBookState(c, lv) ==
  IF /\ MaxLevel[cards[c].wake] <= lv
     /\ cards[c].wake = MaxWake
     /\ "MAX_WAKE_AND_LV" \notin book[TableId[c]].flags
  THEN {[book[TableId[c]] EXCEPT !.flags = @ \union {"MAX_WAKE_AND_LV"}]}
  ELSE {}

IsCanLvUp(c, maters, items) ==
  /\ IsCheckCommonGrow(c, maters, items)
  /\ items.level
  /\ ~IsMaxLv(c)

\* Mutant: the new level is not held to the maximum of the card's waking.
LvUpToAnyLevel(c, maters, items) ==
  /\ IsCanLvUp(c, maters, items)
  /\ \E lv \in cards[c].lv .. MaxLevel[MaxWake] :
       Ask(Grow(c, [cards[c] EXCEPT !.lv = lv], maters, items, MaxLvBookState(c, lv)))

LvUp(c, maters, items) ==
  /\ IsCanLvUp(c, maters, items)
  /\ \E lv \in cards[c].lv .. MaxLevel[cards[c].wake] :
       Ask(Grow(c, [cards[c] EXCEPT !.lv = lv], maters, items, MaxLvBookState(c, lv)))

IsCanSkillLvUp(c, maters, items) ==
  /\ c \in Owned
  /\ cards[c].skillLv < MaxSkillLv
  /\ IsCheckCommonGrow(c, maters, items)
  /\ \A m \in maters : TableId[m] = TableId[c]
  /\ TableId[c] \in items.skill

SumSkill(S) == MapThenSumSet(LAMBDA c : cards[c].skillLv, S)

\* Mutant: a sum above the maximum starts again at one.
SkillLvWrapsAtMax(c, maters, items) ==
  /\ IsCanSkillLvUp(c, maters, items)
  /\ LET sum == cards[c].skillLv + SumSkill(maters) + items.lvs
     IN  Ask(Grow(c, [cards[c] EXCEPT !.skillLv = IF MaxSkillLv < sum THEN 1 ELSE sum],
                  maters, items, {}))

\* The skill levels of materials of the card's kind, and those the items add,
\* are added up in a byte.
SkillLvUp(c, maters, items) ==
  /\ IsCanSkillLvUp(c, maters, items)
  /\ LET sum == (cards[c].skillLv + SumSkill(maters) + items.lvs) % 256
     IN  Ask(Grow(c, [cards[c] EXCEPT !.skillLv = IF MaxSkillLv < sum THEN MaxSkillLv ELSE sum],
                  maters, items, {}))

IsCanWake(c) ==
  /\ c \in Owned
  /\ cards[c].wake < MaxWake
  /\ IsMaxLv(c)

\* Waking starts the levels again; the items it costs are the user's.
Wake(c) ==
  /\ IsCanWake(c)
  /\ Ask(Grow(c, [cards[c] EXCEPT !.lv = 1, !.wake = @ + 1], {}, NoItems, {}))

AskEntry(t, entry) == Ask([type |-> "entry", table |-> t, entry |-> entry])

IsCanChangeExpInFavor(t) ==
  /\ t \in DOMAIN book
  /\ book[t].favorLv < MaxFavorLv

ChangeExpInFavor(t) ==
  /\ IsCanChangeExpInFavor(t)
  /\ \E lv \in book[t].favorLv .. MaxFavorLv :
       AskEntry(t, [book[t] EXCEPT !.favorLv = lv,
                      !.flags = IF lv = MaxFavorLv THEN @ \union {"MAX_FAVOR_LV"} ELSE @])

IsCanBookNewConfirm(t) ==
  /\ t \in DOMAIN book
  /\ "NEW_CHK" \notin book[t].flags

BookNewConfirm(t) ==
  /\ IsCanBookNewConfirm(t)
  /\ AskEntry(t, [book[t] EXCEPT !.flags = @ \union {"NEW_CHK"}])

IsCanGetFavorReward(t, n) ==
  /\ t \in DOMAIN book
  /\ n \notin book[t].rewarded
  /\ n <= book[t].favorLv

GetFavorReward(t, n) ==
  /\ IsCanGetFavorReward(t, n)
  /\ Ask([type |-> "reward", table |-> t, level |-> n,
          entry |-> [book[t] EXCEPT !.rewarded = @ \union {n}]])

-----------------------------------------------------------------------------
(* Packets are applied, or the database refuses them.                      *)

Answered(type) ==
  /\ packet.type = type
  /\ packet' = NoPacket

Refused ==
  /\ packet # NoPacket
  /\ packet' = NoPacket
  /\ UNCHANGED <<cards, held, book, rewards>>

\* __DoApplyCommonGrow and DoUpdateBook; the materials go (DoDel).
DoApplyCommonGrow ==
  /\ Answered("grow")
  /\ cards' = [c \in Owned \ packet.maters |->
                 IF c = packet.target THEN packet.to ELSE cards[c]]
  /\ book' = [t \in DOMAIN book |->
                IF t = TableId[packet.target] /\ packet.bookState # {}
                THEN CHOOSE entry \in packet.bookState : TRUE
                ELSE book[t]]
  /\ UNCHANGED <<held, rewards>>

\* DoUpdateBook for favor, DoSetBookState for flags.
DoUpdateBook ==
  /\ Answered("entry")
  /\ book' = [book EXCEPT ![packet.table] = packet.entry]
  /\ UNCHANGED <<cards, held, rewards>>

\* Mutant: the reward is given and the book is not told.
RewardWithoutFlag ==
  /\ Answered("reward")
  /\ rewards' = [rewards EXCEPT ![packet.table][packet.level] = @ + 1]
  /\ UNCHANGED <<cards, held, book>>

DoSetRewardState ==
  /\ Answered("reward")
  /\ book' = [book EXCEPT ![packet.table] = packet.entry]
  /\ rewards' = [rewards EXCEPT ![packet.table][packet.level] = @ + 1]
  /\ UNCHANGED <<cards, held>>

-----------------------------------------------------------------------------
Check ==
  \/ \E c \in Uids, maters \in SUBSET Uids, items \in ItemLists :
       LvUp(c, maters, items) \/ SkillLvUp(c, maters, items)
  \/ \E c \in Uids : Wake(c)
  \/ \E t \in TableIds : ChangeExpInFavor(t) \/ BookNewConfirm(t)
  \/ \E t \in TableIds, n \in FavorLevels : GetFavorReward(t, n)

Next ==
  \/ \E c \in Uids : DoAdd(c) \/ Hold(c)
  \/ Check
  \/ Refused
  \/ DoApplyCommonGrow
  \/ DoUpdateBook
  \/ DoSetRewardState

Spec == Init /\ [][Next]_vars

-----------------------------------------------------------------------------
(* Properties.                                                             *)

\* A card that is fully woken and at its last level has its mark in the book,
\* whichever of several cards of its kind got there first, and whatever copies
\* of the entry other requests have written back since.
MaxedCardsAreInTheBook ==
  \A c \in Owned :
    cards[c].wake = MaxWake /\ IsMaxLv(c) =>
      "MAX_WAKE_AND_LV" \in book[TableId[c]].flags

\* A favor reward is given once, to an entry that has reached its level, and
\* the book knows which were given.
RewardsMatchBook ==
  \A t \in TableIds, n \in FavorLevels :
    IF t \in DOMAIN book /\ n \in book[t].rewarded
    THEN rewards[t][n] = 1 /\ n <= book[t].favorLv
    ELSE rewards[t][n] = 0

\* No step takes growth back: a card only loses levels to waking, and neither
\* skill, favor level nor a mark in the book is ever lost.
GrowthIsKept ==
  [][/\ \A c \in Owned \intersect DOMAIN cards' :
          /\ cards'[c].wake >= cards[c].wake
          /\ cards'[c].wake = cards[c].wake => cards'[c].lv >= cards[c].lv
          /\ cards'[c].skillLv >= cards[c].skillLv
     /\ \A t \in DOMAIN book :
          /\ book'[t].favorLv >= book[t].favorLv
          /\ book[t].flags \subseteq book'[t].flags
          /\ book[t].rewarded \subseteq book'[t].rewarded]_vars

Keeping == INSTANCE CardKeeping WITH owned <- Owned

\* Growing uses up none of the cards that CardKeeping says are kept, though
\* cards are placed and locked between one request and the next.
ImplementsKeeping == Keeping!Spec

\* CardContents.cpp:893 checks that the materials are not more than can be
\* processed at once.
MaterialsWithinLimit ==
  packet.type = "grow" =>
    Cardinality(packet.maters) + packet.items <= MaxMaterCnt
=============================================================================
