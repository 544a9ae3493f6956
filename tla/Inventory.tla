----------------------------- MODULE Inventory -----------------------------
(***************************************************************************)
(* The gateway's cache of a user's items, C++/Inventory.cpp.               *)
(*                                                                         *)
(* A request is validated against the cache (Validate...), which also      *)
(* computes what to store; the database stores it or refuses; and only     *)
(* then is the cache changed (Update..., AddItems, DeleteItems).  The      *)
(* caller and the database are not part of the repository: one request at  *)
(* a time, answered by a database that stores what it is given, and drops  *)
(* a deleted item from the presets and sockets it is in.  The user may log *)
(* out between any two steps; logging in builds the cache from the         *)
(* database (CacheItemDataList).                                           *)
(*                                                                         *)
(* A list of items in a request is a set here: Validate refuses a preset   *)
(* request that lists an item twice, and the lists of the other requests   *)
(* are taken to have no duplicates.  MIN_SOCKET_ID is 0.                   *)
(*                                                                         *)
(* A request may list any item for a preset and name any socket: where the *)
(* index is outside the array, what is read there is anything, so that the *)
(* request may be refused or accepted, and what is written there is not    *)
(* part of the row.  Other damage that write may do is not modelled.       *)
(***************************************************************************)
EXTENDS Naturals, FiniteSets

CONSTANTS
  ItemIds,       \* item database ids; an id is given out once
  Equipment,     \* the items of type EQUIP; the others stack
  Categories,    \* MAX_EQUIP_MIN .. MAX_EQUIP_MAX: the places of a preset
  Category,      \* Category[i]: the category of item i, whatever its type
  PresetIds,     \* MIN_PRESET_ID and up: the bits of mPresetValue
  SocketIds,     \* 0 .. MAX_SOCKET_COUNT - 1
  AskedSockets,  \* the socket ids a request can name
  MaxItemCount,  \* MAX_ITEM_COUNT
  NoItem         \* INVALID_ITEM_DB_ID

ASSUME InventoryAssumption ==
  /\ Equipment \subseteq ItemIds
  /\ SocketIds \subseteq AskedSockets
  /\ NoItem \notin ItemIds
  /\ MaxItemCount \in Nat \ {0}

VARIABLES
  items,      \* mItemDataGatewayList, as a function of the item's id
  idSet,      \* mItemDBIdSet
  cached,     \* mCached: the user is logged in
  request,    \* the request under way, with what Validate... computed
  stored,     \* the database has answered it
  dbCount,    \* stack counts in the database; 0: the item is not there
  dbUsed,     \* ids the database has given out
  dbPresets,  \* dbPresets[p]: the preset's row, one item per category
  dbSockets,  \* dbSockets[i]: the row of item i's sockets, one item each
  asserted    \* history: the kinds of _ASSERT_CRASH(0) that were hit

cacheVars == <<items, idSet, cached>>
dbVars == <<dbCount, dbUsed, dbPresets, dbSockets>>
vars == <<cacheVars, request, stored, dbVars, asserted>>

Row(S) == [S -> ItemIds \union {NoItem}]
EmptyRow(S) == [x \in S |-> NoItem]

Item == [count : Nat, presets : SUBSET PresetIds,
         parent : ItemIds \union {NoItem}, socket : SocketIds \union {NoItem}]

Request ==
  [type : {"none"}]
    \union [type : {"preset"}, preset : PresetIds, equip : SUBSET ItemIds,
            unequip : SUBSET ItemIds, row : Row(Categories)]
    \union [type : {"socket"}, child : ItemIds, parent : ItemIds, row : Row(SocketIds)]
    \union [type : {"count"}, item : ItemIds, count : Nat]
    \union [type : {"delete"}, ids : SUBSET ItemIds]
    \union [type : {"create"}, ids : SUBSET ItemIds]

NoRequest == [type |-> "none"]

TypeOK ==
  /\ DOMAIN items \subseteq ItemIds
  /\ \A i \in DOMAIN items : items[i] \in Item
  /\ idSet \subseteq ItemIds
  /\ cached \in BOOLEAN
  /\ request \in Request
  /\ stored \in BOOLEAN
  /\ dbCount \in [ItemIds -> 0..MaxItemCount]
  /\ dbUsed \subseteq ItemIds
  /\ dbPresets \in [PresetIds -> Row(Categories)]
  /\ dbSockets \in [ItemIds -> Row(SocketIds)]
  /\ asserted \subseteq {"item", "empty socket"}

Init ==
  /\ items = [i \in {} |-> NoItem]
  /\ idSet = {}
  /\ cached = FALSE
  /\ request = NoRequest
  /\ stored = FALSE
  /\ dbCount = [i \in ItemIds |-> 0]
  /\ dbUsed = {}
  /\ dbPresets = [p \in PresetIds |-> EmptyRow(Categories)]
  /\ dbSockets = [i \in ItemIds |-> EmptyRow(SocketIds)]
  /\ asserted = {}

Owned == DOMAIN items
DbItems == {i \in ItemIds : dbCount[i] > 0}

\* What AddItem makes of an item: only ItemData is copied, the rest keeps
\* the defaults of ItemDataGateway.
NewItem(n) == [count |-> n, presets |-> {}, parent |-> NoItem, socket |-> NoItem]

-----------------------------------------------------------------------------
(* Login: CacheItemDataList spreads the preset and socket rows over the    *)
(* items they name.                                                        *)

PresetsOf(i) == {p \in PresetIds : \E c \in Categories : dbPresets[p][c] = i}

PlacesOf(i) == {x \in DbItems \X SocketIds : dbSockets[x[1]][x[2]] = i}

LoadItem(i) ==
  LET place == IF PlacesOf(i) = {} THEN <<NoItem, NoItem>>
               ELSE CHOOSE x \in PlacesOf(i) : TRUE
  IN  [count |-> dbCount[i], presets |-> PresetsOf(i),
       parent |-> place[1], socket |-> place[2]]

CacheItemDataList ==
  /\ ~cached
  /\ items' = [i \in DbItems |-> LoadItem(i)]
  /\ idSet' = DbItems
  /\ cached' = TRUE
  /\ UNCHANGED <<request, stored, dbVars, asserted>>

\* The answer to a request under way finds no user.
Logout ==
  /\ cached
  /\ cached' = FALSE
  /\ items' = [i \in {} |-> NoItem]
  /\ idSet' = {}
  /\ request' = NoRequest
  /\ stored' = FALSE
  /\ UNCHANGED <<dbVars, asserted>>

-----------------------------------------------------------------------------
(* Validation against the cache.                                           *)

Ask(r) ==
  /\ cached
  /\ request = NoRequest
  /\ request' = r
  /\ stored' = FALSE
  /\ UNCHANGED <<cacheVars, dbVars, asserted>>

Worn(p) == {i \in Owned : p \in items[i].presets}
OnePerCategory(S) ==
  \A i, j \in S : Category[i] = Category[j] /\ Category[i] \in Categories => i = j

\* What the loop over the items already worn lets pass.
Wearable == {i \in Equipment : Category[i] \in Categories}

\* The array of a preset that holds the items of S.
PresetRow(S) ==
  [c \in Categories |->
     IF \E i \in S : Category[i] = c THEN CHOOSE i \in S : Category[i] = c ELSE NoItem]

\* Mutant: the place an item is worn at need not be free.
PresetPlaceTaken(p, equip, unequip) ==
  /\ equip \subseteq Owned /\ unequip \subseteq Worn(p)
  /\ equip \intersect Worn(p) = {}
  /\ Worn(p) \subseteq Wearable
  /\ Ask([type |-> "preset", preset |-> p, equip |-> equip, unequip |-> unequip,
          row |-> PresetRow((Worn(p) \ unequip) \union equip)])

\* What is worn must be equipment, each in a place of its own.  An item taken
\* off must be worn; one put on must not be, and its place is free once the
\* others are off.  What kind of item is put on is not asked.
ValidateItemPresetUpdate(p, equip, unequip) ==
  /\ equip \subseteq Owned /\ unequip \subseteq Worn(p)
  /\ equip \intersect Worn(p) = {}
  /\ Worn(p) \subseteq Wearable
  /\ OnePerCategory(Worn(p))
  /\ OnePerCategory((Worn(p) \ unequip) \union equip)
  /\ Ask([type |-> "preset", preset |-> p, equip |-> equip, unequip |-> unequip,
          row |-> PresetRow((Worn(p) \ unequip) \union equip)])

\* Mutant: the children of other parents are not skipped.
SocketRowOfAll(parent) ==
  [k \in SocketIds |->
     IF \E i \in Owned : items[i].socket = k
     THEN CHOOSE i \in Owned : items[i].socket = k
     ELSE NoItem]

\* The row of parent's sockets in the cache.
SocketRow(parent) ==
  [k \in SocketIds |->
     IF \E i \in Owned : items[i].parent = parent /\ items[i].socket = k
     THEN CHOOSE i \in Owned : items[i].parent = parent /\ items[i].socket = k
     ELSE NoItem]

\* The child is in no socket yet, and the parent's socket k is free.  Nothing
\* asks whether there is a socket k.
ValidateItemSocketUpdate(k, parent, child) ==
  /\ {parent, child} \subseteq Owned
  /\ items[child].parent = NoItem
  /\ \A i \in Owned : items[i].parent = parent => items[i].socket # k
  /\ Ask([type |-> "socket", child |-> child, parent |-> parent,
          row |-> [x \in SocketIds |-> IF x = k THEN child ELSE SocketRow(parent)[x]]])

\* Mutant: a stack may be filled to one above the limit.
IncreaseAboveLimit(i, n) ==
  /\ i \in Owned
  /\ items[i].count + n <= MaxItemCount + 1
  /\ Ask([type |-> "count", item |-> i, count |-> items[i].count + n])

ValidateIncreaseItems(i, n) ==
  /\ i \in Owned
  /\ items[i].count + n <= MaxItemCount
  /\ Ask([type |-> "count", item |-> i, count |-> items[i].count + n])

\* Some of the stack must be left.
ValidateDecreaseItems(i, n) ==
  /\ i \in Owned
  /\ n < items[i].count
  /\ Ask([type |-> "count", item |-> i, count |-> items[i].count - n])

\* The request must name the whole stack of every item; nothing is asked of
\* the presets and sockets the items are in.
ValidateDeleteItems(ids) ==
  /\ ids \subseteq Owned
  /\ Ask([type |-> "delete", ids |-> ids])

\* Everything may be created.
ValidateCreateItems(ids) ==
  /\ ids \intersect dbUsed = {}
  /\ Ask([type |-> "create", ids |-> ids])

-----------------------------------------------------------------------------
(* The database.                                                           *)

Without(row, ids) == [x \in DOMAIN row |-> IF row[x] \in ids THEN NoItem ELSE row[x]]

Store(r) ==
  \/ /\ r.type = "preset"
     /\ dbPresets' = [dbPresets EXCEPT ![r.preset] = r.row]
     /\ UNCHANGED <<dbCount, dbUsed, dbSockets>>
  \/ /\ r.type = "socket"
     /\ dbSockets' = [dbSockets EXCEPT ![r.parent] = r.row]
     /\ UNCHANGED <<dbCount, dbUsed, dbPresets>>
  \/ /\ r.type = "count"
     /\ dbCount' = [dbCount EXCEPT ![r.item] = r.count]
     /\ UNCHANGED <<dbUsed, dbPresets, dbSockets>>
  \/ /\ r.type = "delete"
     /\ dbCount' = [i \in ItemIds |-> IF i \in r.ids THEN 0 ELSE dbCount[i]]
     /\ dbPresets' = [p \in PresetIds |-> Without(dbPresets[p], r.ids)]
     /\ dbSockets' = [i \in ItemIds |->
                        IF i \in r.ids THEN EmptyRow(SocketIds)
                        ELSE Without(dbSockets[i], r.ids)]
     /\ UNCHANGED dbUsed
  \/ /\ r.type = "create"
     /\ dbCount' = [i \in ItemIds |-> IF i \in r.ids THEN 1 ELSE dbCount[i]]
     /\ dbUsed' = dbUsed \union r.ids
     /\ UNCHANGED <<dbPresets, dbSockets>>

DatabaseStores ==
  /\ request # NoRequest
  /\ ~stored
  /\ stored' = TRUE
  /\ Store(request)
  /\ UNCHANGED <<cacheVars, request, asserted>>

DatabaseRefuses ==
  /\ request # NoRequest
  /\ ~stored
  /\ request' = NoRequest
  /\ UNCHANGED <<cacheVars, stored, dbVars, asserted>>

-----------------------------------------------------------------------------
(* The database has stored the request; now the cache is changed.          *)

Answered(type) ==
  /\ request.type = type
  /\ stored
  /\ request' = NoRequest
  /\ stored' = FALSE
  /\ UNCHANGED <<cached, dbVars>>

\* GetItemData finds every item of ids, or the code asserts and goes on.
Find(ids) == asserted' = IF ids \subseteq Owned THEN asserted ELSE asserted \union {"item"}

\* Mutant: taking an item off clears every preset it is in.
UnequipEverywhere ==
  /\ Answered("preset")
  /\ Find(request.equip \union request.unequip)
  /\ items' = [i \in Owned |->
       [items[i] EXCEPT !.presets =
          IF i \in request.unequip THEN {}
          ELSE IF i \in request.equip THEN @ \union {request.preset} ELSE @]]
  /\ UNCHANGED idSet

UpdateItemPresetInfo ==
  /\ Answered("preset")
  /\ Find(request.equip \union request.unequip)
  /\ items' = [i \in Owned |->
       [items[i] EXCEPT !.presets =
          IF i \in request.unequip THEN @ \ {request.preset}
          ELSE IF i \in request.equip THEN @ \union {request.preset} ELSE @]]
  /\ UNCHANGED idSet

\* Every socket of the row is looked up, the empty ones too, for which the code
\* asserts and goes on, and those of the other children are checked; the
\* updated child's place is set, if it has one.
UpdateItemSocketInfo ==
  /\ Answered("socket")
  /\ asserted' = asserted
       \union {a \in {"item"} :
                 \/ request.parent \notin Owned
                 \/ \E k \in SocketIds :
                      LET i == request.row[k] IN
                      /\ i \notin {NoItem, request.child}
                      /\ \/ i \notin Owned
                         \/ items[i].parent # request.parent \/ items[i].socket # k}
       \union {a \in {"empty socket"} : \E k \in SocketIds : request.row[k] = NoItem}
  /\ items' = [i \in Owned |->
       IF /\ request.parent \in Owned /\ i = request.child
          /\ \E k \in SocketIds : request.row[k] = i
       THEN [items[i] EXCEPT !.parent = request.parent,
                             !.socket = CHOOSE k \in SocketIds : request.row[k] = i]
       ELSE items[i]]
  /\ UNCHANGED idSet

UpdateItemCount ==
  /\ Answered("count")
  /\ items' = [i \in Owned |->
       IF i = request.item THEN [items[i] EXCEPT !.count = request.count] ELSE items[i]]
  /\ UNCHANGED <<idSet, asserted>>

\* Items in the deleted item's sockets keep their mParentItemDBId.
DeleteItems ==
  /\ Answered("delete")
  /\ asserted' = IF request.ids \subseteq idSet THEN asserted ELSE asserted \union {"item"}
  /\ idSet' = idSet \ request.ids
  /\ items' = [i \in Owned \ (request.ids \intersect idSet) |-> items[i]]

AddItems ==
  /\ Answered("create")
  /\ asserted' = IF request.ids \intersect idSet = {} THEN asserted
                 ELSE asserted \union {"item"}
  /\ idSet' = idSet \union request.ids
  /\ items' = [i \in Owned \union (request.ids \ idSet) |->
                 IF i \in request.ids \ idSet THEN NewItem(1) ELSE items[i]]

-----------------------------------------------------------------------------
Validate ==
  \/ \E p \in PresetIds, equip, unequip \in SUBSET ItemIds :
       ValidateItemPresetUpdate(p, equip, unequip)
  \/ \E k \in AskedSockets, parent, child \in ItemIds :
       ValidateItemSocketUpdate(k, parent, child)
  \/ \E i \in ItemIds \ Equipment, n \in 1..MaxItemCount :
       ValidateIncreaseItems(i, n) \/ ValidateDecreaseItems(i, n)
  \/ \E ids \in SUBSET ItemIds : ValidateDeleteItems(ids) \/ ValidateCreateItems(ids)

Update ==
  \/ UpdateItemPresetInfo
  \/ UpdateItemSocketInfo
  \/ UpdateItemCount
  \/ DeleteItems
  \/ AddItems

Next ==
  \/ CacheItemDataList
  \/ Logout
  \/ Validate
  \/ DatabaseStores
  \/ DatabaseRefuses
  \/ Update

Spec == Init /\ [][Next]_vars

-----------------------------------------------------------------------------
(* Properties.                                                             *)

\* The bits of mPresetValue, spread over the items, never put two items at
\* one place of a preset, and the sockets never hold two items: the request
\* was validated before the database stored it and is applied afterwards.
OneItemPerPlace ==
  /\ \A p \in PresetIds : OnePerCategory(Worn(p))
  /\ \A i, j \in Owned :
       /\ items[i].parent # NoItem
       /\ items[i].parent = items[j].parent
       /\ items[i].socket = items[j].socket
       => i = j

\* Between requests the cache holds what a fresh login would load, whatever
\* requests, refusals and logins led to it.  The exceptions are an item whose
\* parent was deleted, which in the cache keeps the parent's id, and one that
\* was put on though presets have no place for its category: the row does
\* not hold it, and the next login finds it in no preset.
CacheMatchesDatabase ==
  cached /\ request = NoRequest =>
    /\ Owned = DbItems
    /\ idSet = DbItems
    /\ \A i \in Owned :
         LET loaded == LoadItem(i) IN
         /\ items[i].count = loaded.count
         /\ IF Category[i] \in Categories
            THEN items[i].presets = loaded.presets
            ELSE loaded.presets = {}
         /\ IF items[i].parent \in Owned
            THEN items[i].parent = loaded.parent /\ items[i].socket = loaded.socket
            ELSE loaded.parent = NoItem

\* A stored request finds the items it names, and the sockets as Validate saw
\* them, when the cache is changed: the _ASSERT_CRASH for it is not reached.
\* (The one for an empty socket, Inventory.cpp:590, is: any row with a free
\* socket gets there.)
UpdatesFindTheirItems == "item" \notin asserted
=============================================================================
