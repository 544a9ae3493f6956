-------------------------- MODULE InventoryProofs --------------------------
(***************************************************************************)
(* TLAPS proofs about Inventory, for any items, equipment, presets and     *)
(* sockets: the cache never puts two items at one place, an update finds   *)
(* what its request named, and between requests the cache is what a login  *)
(* would load.                                                             *)
(*                                                                         *)
(* The argument: while a request is validated and not stored, the cache    *)
(* mirrors the database; once it is stored, the cache as the update will   *)
(* leave it does.                                                          *)
(***************************************************************************)
EXTENDS Inventory, TLAPS

\* Presets have a place for the item.
HasPlace(i) == Category[i] \in Categories

\* The items of the database, and where its rows have them: a preset's row
\* has only the items presets have a place for.
Mirrors(cache) ==
  /\ DOMAIN cache = DbItems
  /\ \A i \in DbItems : cache[i].count = dbCount[i]
  /\ \A i \in DbItems, p \in PresetIds :
       HasPlace(i) => (p \in cache[i].presets <=> \E c \in Categories : dbPresets[p][c] = i)
  /\ \A i, x \in DbItems, k \in SocketIds :
       dbSockets[x][k] = i <=> cache[i].parent = x /\ cache[i].socket = k

\* The items as the update for the request under way leaves them.
PresetUpdated ==
  [i \in Owned |->
     [items[i] EXCEPT !.presets =
        IF i \in request.unequip THEN @ \ {request.preset}
        ELSE IF i \in request.equip THEN @ \union {request.preset} ELSE @]]

Place(child) == CHOOSE k \in SocketIds : request.row[k] = child

SocketUpdated ==
  [i \in Owned |->
     IF i = request.child /\ \E k \in SocketIds : request.row[k] = i
     THEN [items[i] EXCEPT !.parent = request.parent, !.socket = Place(i)]
     ELSE items[i]]

CountUpdated ==
  [i \in Owned |->
     IF i = request.item THEN [items[i] EXCEPT !.count = request.count] ELSE items[i]]

DeleteUpdated == [i \in Owned \ request.ids |-> items[i]]

AddUpdated ==
  [i \in Owned \union request.ids |-> IF i \in request.ids THEN NewItem(1) ELSE items[i]]

-----------------------------------------------------------------------------
(* The inductive invariant.                                                *)

Session ==
  /\ ~cached => Owned = {} /\ request = NoRequest
  /\ request = NoRequest => ~stored
  /\ idSet = Owned
  /\ Owned \subseteq dbUsed

\* The rows hold items of the database, each at a place of its own.
DbRows ==
  /\ \A p \in PresetIds, c \in Categories :
       dbPresets[p][c] # NoItem =>
         /\ dbPresets[p][c] \in DbItems
         /\ Category[dbPresets[p][c]] = c
  /\ \A x \in ItemIds, k \in SocketIds :
       dbSockets[x][k] # NoItem => x \in DbItems /\ dbSockets[x][k] \in DbItems
  /\ \A x, y \in ItemIds, k, l \in SocketIds :
       dbSockets[x][k] # NoItem /\ dbSockets[x][k] = dbSockets[y][l] => x = y /\ k = l
  /\ DbItems \subseteq dbUsed

\* A child is in a socket; the id a deleted parent leaves behind in it is not
\* given out again.
ParentsWereUsed ==
  \A i \in Owned :
    items[i].parent # NoItem => items[i].parent \in dbUsed /\ items[i].socket \in SocketIds

\* What was validated holds of the cache until it is changed.
PresetOK ==
  /\ request.preset \in PresetIds
  /\ request.equip \subseteq Owned
  /\ request.unequip \subseteq Worn(request.preset)
  /\ request.equip \intersect Worn(request.preset) = {}
  /\ OnePerCategory((Worn(request.preset) \ request.unequip) \union request.equip)
  /\ request.row = PresetRow((Worn(request.preset) \ request.unequip) \union request.equip)

SocketRowWith(k, parent, child) ==
  [x \in SocketIds |-> IF x = k THEN child ELSE SocketRow(parent)[x]]

SocketOK ==
  /\ {request.parent, request.child} \subseteq Owned
  /\ items[request.child].parent = NoItem
  /\ \E k \in AskedSockets :
       /\ \A i \in Owned : items[i].parent = request.parent => items[i].socket # k
       /\ request.row = SocketRowWith(k, request.parent, request.child)

CountOK == request.item \in Owned /\ request.count \in 1..MaxItemCount

CreateOK ==
  /\ request.ids \intersect Owned = {}
  /\ ~stored => request.ids \intersect dbUsed = {}

RequestOK ==
  /\ request.type = "preset" => PresetOK
  /\ request.type = "socket" => SocketOK
  /\ request.type = "count" => CountOK
  /\ request.type = "delete" => request.ids \subseteq Owned
  /\ request.type = "create" => CreateOK

InStep ==
  cached =>
    /\ ~stored => Mirrors(items)
    /\ stored =>
         /\ request.type = "preset" => Mirrors(PresetUpdated)
         /\ request.type = "socket" => Mirrors(SocketUpdated)
         /\ request.type = "count" => Mirrors(CountUpdated)
         /\ request.type = "delete" => Mirrors(DeleteUpdated)
         /\ request.type = "create" => Mirrors(AddUpdated)

IInv ==
  /\ TypeOK
  /\ OneItemPerPlace
  /\ UpdatesFindTheirItems
  /\ Session
  /\ DbRows
  /\ ParentsWereUsed
  /\ RequestOK
  /\ InStep

-----------------------------------------------------------------------------
(* Lemmas about items and rows.                                            *)

LEMMA ItemFields ==
  ASSUME TypeOK, NEW i \in Owned
  PROVE  /\ i \in ItemIds /\ i # NoItem
         /\ items[i] \in Item
         /\ items[i].count \in Nat
         /\ items[i].presets \subseteq PresetIds
         /\ items[i].parent \in ItemIds \union {NoItem}
         /\ items[i].socket \in SocketIds \union {NoItem}
<1>1. i \in ItemIds /\ items[i] \in Item
  BY DEF TypeOK, Owned
<1>. QED  BY <1>1, InventoryAssumption DEF Item

LEMMA RowFields ==
  ASSUME TypeOK
  PROVE  /\ \A p \in PresetIds, c \in Categories : dbPresets[p][c] \in ItemIds \union {NoItem}
         /\ \A x \in ItemIds, k \in SocketIds : dbSockets[x][k] \in ItemIds \union {NoItem}
         /\ DbItems \subseteq ItemIds /\ NoItem \notin DbItems
         /\ \A i \in ItemIds : dbCount[i] \in 0..MaxItemCount
<1>1. /\ dbCount \in [ItemIds -> 0..MaxItemCount]
      /\ dbPresets \in [PresetIds -> Row(Categories)]
      /\ dbSockets \in [ItemIds -> Row(SocketIds)]
  BY DEF TypeOK
<1>2. \A p \in PresetIds, c \in Categories : dbPresets[p][c] \in ItemIds \union {NoItem}
  BY <1>1 DEF Row
<1>3. \A x \in ItemIds, k \in SocketIds : dbSockets[x][k] \in ItemIds \union {NoItem}
  BY <1>1 DEF Row
<1>4. DbItems \subseteq ItemIds /\ NoItem \notin DbItems
  BY InventoryAssumption DEF DbItems
<1>. QED  BY <1>1, <1>2, <1>3, <1>4

\* Whatever mirrors the database has one item per place of a preset.
LEMMA MirrorsOnePerCategory ==
  ASSUME TypeOK, DbRows, NEW cache, Mirrors(cache), NEW p \in PresetIds
  PROVE  OnePerCategory({i \in DOMAIN cache : p \in cache[i].presets})
<1>. SUFFICES ASSUME NEW i \in DOMAIN cache, NEW j \in DOMAIN cache,
                     p \in cache[i].presets, p \in cache[j].presets,
                     Category[i] = Category[j], Category[i] \in Categories
              PROVE  i = j
  BY DEF OnePerCategory
<1>1. PICK c \in Categories : dbPresets[p][c] = i
  BY DEF Mirrors, HasPlace
<1>2. PICK d \in Categories : dbPresets[p][d] = j
  BY DEF Mirrors, HasPlace
<1>3. i # NoItem /\ j # NoItem
  BY RowFields DEF Mirrors
<1>. QED  BY <1>1, <1>2, <1>3 DEF DbRows

\* Logging in loads what is in the database.
LEMMA LoginMirrors ==
  ASSUME TypeOK, DbRows
  PROVE  /\ Mirrors([i \in DbItems |-> LoadItem(i)])
         /\ \A i \in DbItems : LoadItem(i) \in Item
         /\ \A i \in DbItems : LoadItem(i).parent # NoItem =>
              LoadItem(i).parent \in DbItems /\ LoadItem(i).socket \in SocketIds
<1>. DEFINE place(i) == IF PlacesOf(i) = {} THEN <<NoItem, NoItem>>
                        ELSE CHOOSE x \in PlacesOf(i) : TRUE
<1>1. ASSUME NEW i \in DbItems
      PROVE  /\ LoadItem(i).count = dbCount[i]
             /\ LoadItem(i).presets = PresetsOf(i)
             /\ LoadItem(i).parent = place(i)[1]
             /\ LoadItem(i).socket = place(i)[2]
             /\ LoadItem(i) = [count |-> dbCount[i], presets |-> PresetsOf(i),
                               parent |-> place(i)[1], socket |-> place(i)[2]]
  BY DEF LoadItem
<1>2. ASSUME NEW i \in DbItems
      PROVE  \/ PlacesOf(i) = {} /\ place(i) = <<NoItem, NoItem>>
             \/ place(i) \in PlacesOf(i)
  OBVIOUS
<1>. HIDE DEF place
<1>3. ASSUME NEW i \in DbItems, place(i) \in PlacesOf(i)
      PROVE  /\ place(i)[1] \in DbItems /\ place(i)[2] \in SocketIds
             /\ dbSockets[place(i)[1]][place(i)[2]] = i
  BY <1>3 DEF PlacesOf
<1>4. ASSUME NEW i \in DbItems, NEW x \in DbItems, NEW k \in SocketIds
      PROVE  dbSockets[x][k] = i <=> place(i)[1] = x /\ place(i)[2] = k
  <2>1. ASSUME dbSockets[x][k] = i
        PROVE  place(i)[1] = x /\ place(i)[2] = k
    <3>1. <<x, k>> \in PlacesOf(i)
      BY <2>1 DEF PlacesOf
    <3>2. place(i) \in PlacesOf(i)
      BY <1>2, <3>1
    <3>. QED  BY <2>1, <3>2, <1>3, RowFields DEF DbRows
  <2>2. ASSUME place(i)[1] = x, place(i)[2] = k
        PROVE  dbSockets[x][k] = i
    <3>1. x # NoItem
      BY RowFields
    <3>2. place(i) # <<NoItem, NoItem>>
      BY <2>2, <3>1
    <3>. QED  BY <1>2, <1>3, <2>2, <3>2
  <2>. QED  BY <2>1, <2>2
<1>5. ASSUME NEW i \in DbItems
      PROVE  /\ place(i)[1] \in DbItems \union {NoItem}
             /\ place(i)[2] \in SocketIds \union {NoItem}
  BY <1>2, <1>3
<1>6. ASSUME NEW i \in DbItems
      PROVE  LoadItem(i) \in Item
  <2>1. dbCount[i] \in Nat
    BY RowFields, InventoryAssumption
  <2>2. PresetsOf(i) \in SUBSET PresetIds
    BY DEF PresetsOf
  <2>. QED  BY <1>1, <1>5, <2>1, <2>2, RowFields DEF Item
<1>7. Mirrors([i \in DbItems |-> LoadItem(i)])
  <2>. DEFINE cache == [i \in DbItems |-> LoadItem(i)]
  <2>1. DOMAIN cache = DbItems /\ \A i \in DbItems : cache[i] = LoadItem(i)
    OBVIOUS
  <2>. HIDE DEF cache
  <2>2. \A i \in DbItems, p \in PresetIds :
          HasPlace(i) => (p \in cache[i].presets <=> \E c \in Categories : dbPresets[p][c] = i)
    BY <1>1, <2>1 DEF PresetsOf
  <2>3. \A i, x \in DbItems, k \in SocketIds :
          dbSockets[x][k] = i <=> cache[i].parent = x /\ cache[i].socket = k
    BY <1>1, <1>4, <2>1
  <2>4. Mirrors(cache)
    BY <1>1, <2>1, <2>2, <2>3 DEF Mirrors
  <2>. QED  BY <2>4 DEF cache
<1>8. ASSUME NEW i \in DbItems, LoadItem(i).parent # NoItem
      PROVE  LoadItem(i).parent \in DbItems /\ LoadItem(i).socket \in SocketIds
  <2>1. place(i) # <<NoItem, NoItem>>
    BY <1>1, <1>8
  <2>. QED  BY <1>1, <1>2, <1>3, <2>1
<1>. QED  BY <1>6, <1>7, <1>8

-----------------------------------------------------------------------------
(* The user comes and goes.                                                *)

LEMMA InitHolds == Init => IInv
<1>. SUFFICES ASSUME Init
              PROVE  IInv
  OBVIOUS
<1>1. Owned = {} /\ DbItems = {}
  BY DEF Init, Owned, DbItems
<1>2. TypeOK
  <2>1. request \in Request /\ request.type = "none"
    BY DEF Init, Request, NoRequest
  <2>2. EmptyRow(Categories) \in Row(Categories) /\ EmptyRow(SocketIds) \in Row(SocketIds)
    BY DEF EmptyRow, Row
  <2>3. /\ dbCount \in [ItemIds -> 0..MaxItemCount]
        /\ dbPresets \in [PresetIds -> Row(Categories)]
        /\ dbSockets \in [ItemIds -> Row(SocketIds)]
    BY <2>2, InventoryAssumption DEF Init
  <2>. QED  BY <1>1, <2>1, <2>3 DEF Init, TypeOK, Owned
<1>3. OneItemPerPlace
  BY <1>1 DEF OneItemPerPlace, Worn, OnePerCategory
<1>4. UpdatesFindTheirItems /\ Session /\ ParentsWereUsed
  BY <1>1 DEF Init, UpdatesFindTheirItems, Session, ParentsWereUsed
<1>5. DbRows
  BY <1>1 DEF Init, DbRows, EmptyRow
<1>6. RequestOK /\ InStep
  BY DEF Init, RequestOK, InStep, NoRequest
<1>. QED  BY <1>2, <1>3, <1>4, <1>5, <1>6 DEF IInv

\* The database is left alone.
LEMMA DbUnchanged ==
  ASSUME DbRows, UNCHANGED dbVars
  PROVE  DbRows' /\ DbItems' = DbItems
BY DEF DbRows, DbItems, dbVars

LEMMA LoginPreserves == IInv /\ CacheItemDataList => IInv'
<1>. SUFFICES ASSUME IInv, CacheItemDataList
              PROVE  IInv'
  OBVIOUS
<1>. DEFINE loaded == [i \in DbItems |-> LoadItem(i)]
<1>1. /\ TypeOK /\ DbRows /\ Session
      /\ items' = loaded /\ idSet' = DbItems /\ cached' = TRUE /\ ~cached
      /\ request' = request /\ stored' = stored /\ asserted' = asserted /\ UNCHANGED dbVars
  BY DEF IInv, CacheItemDataList
<1>2. request = NoRequest /\ ~stored
  BY <1>1 DEF Session
<1>3. /\ Mirrors(loaded)
      /\ \A i \in DbItems : loaded[i] \in Item
      /\ \A i \in DbItems : loaded[i].parent # NoItem =>
           loaded[i].parent \in DbItems /\ loaded[i].socket \in SocketIds
      /\ DOMAIN loaded = DbItems
  BY <1>1, LoginMirrors
<1>4. \A p \in PresetIds : OnePerCategory({i \in DOMAIN loaded : p \in loaded[i].presets})
  BY <1>1, <1>3, MirrorsOnePerCategory
<1>. HIDE DEF loaded
<1>5. DbRows' /\ DbItems' = DbItems
  BY <1>1, DbUnchanged
<1>6. TypeOK'
  BY <1>1, <1>3, RowFields DEF TypeOK, dbVars
<1>7. OneItemPerPlace'
  <2>1. \A p \in PresetIds : OnePerCategory(Worn(p))'
    BY <1>1, <1>4 DEF Worn, Owned, OnePerCategory
  <2>2. ASSUME NEW i \in Owned', NEW j \in Owned',
               items'[i].parent # NoItem, items'[i].parent = items'[j].parent,
               items'[i].socket = items'[j].socket
        PROVE  i = j
    <3>1. i \in DbItems /\ j \in DbItems
      BY <1>1, <1>3 DEF Owned
    <3>2. loaded[i].parent \in DbItems /\ loaded[i].socket \in SocketIds
      BY <1>1, <1>3, <2>2, <3>1
    <3>3. /\ dbSockets[loaded[i].parent][loaded[i].socket] = i
          /\ dbSockets[loaded[i].parent][loaded[i].socket] = j
      BY <1>1, <1>3, <2>2, <3>1, <3>2 DEF Mirrors
    <3>. QED  BY <3>3
  <2>. QED  BY <2>1, <2>2 DEF OneItemPerPlace
<1>8. UpdatesFindTheirItems'
  BY <1>1 DEF IInv, UpdatesFindTheirItems
<1>9. Session' /\ ParentsWereUsed'
  BY <1>1, <1>2, <1>3 DEF Session, ParentsWereUsed, Owned, DbRows, dbVars
<1>10. RequestOK'
  BY <1>1, <1>2 DEF RequestOK, NoRequest
<1>11. Mirrors(items)'
  BY <1>1, <1>3, <1>5 DEF Mirrors, dbVars
<1>12. InStep'
  BY <1>1, <1>2, <1>11 DEF InStep
<1>. QED  BY <1>5, <1>6, <1>7, <1>8, <1>9, <1>10, <1>12 DEF IInv

LEMMA LogoutPreserves == IInv /\ Logout => IInv'
<1>. SUFFICES ASSUME IInv, Logout
              PROVE  IInv'
  OBVIOUS
<1>1. /\ TypeOK /\ DbRows
      /\ Owned' = {} /\ idSet' = {} /\ cached' = FALSE
      /\ request' = NoRequest /\ stored' = FALSE /\ asserted' = asserted /\ UNCHANGED dbVars
  BY DEF IInv, Logout, Owned
<1>2. TypeOK'
  <2>1. NoRequest \in Request
    BY DEF Request, NoRequest
  <2>. QED  BY <1>1, <2>1 DEF TypeOK, Owned, dbVars
<1>3. OneItemPerPlace'
  BY <1>1 DEF OneItemPerPlace, Worn, OnePerCategory
<1>4. UpdatesFindTheirItems' /\ Session' /\ ParentsWereUsed'
  BY <1>1 DEF IInv, UpdatesFindTheirItems, Session, ParentsWereUsed
<1>5. DbRows'
  BY <1>1, DbUnchanged
<1>6. RequestOK' /\ InStep'
  BY <1>1 DEF RequestOK, InStep, NoRequest
<1>. QED  BY <1>2, <1>3, <1>4, <1>5, <1>6 DEF IInv

-----------------------------------------------------------------------------
(* Requests.                                                               *)

\* While the cache is left alone, what is said of it stays true.
LEMMA CacheUnchanged ==
  ASSUME IInv, UNCHANGED cacheVars
  PROVE  /\ Owned' = Owned /\ items' = items
         /\ OneItemPerPlace'
         /\ \A p \in PresetIds : Worn(p)' = Worn(p)
         /\ \A x \in ItemIds : SocketRow(x)' = SocketRow(x)
<1>1. Owned' = Owned /\ items' = items
  BY DEF cacheVars, Owned
<1>2. \A p \in PresetIds : Worn(p)' = Worn(p)
  BY <1>1 DEF Worn
<1>3. \A x \in ItemIds : SocketRow(x)' = SocketRow(x)
  BY <1>1 DEF SocketRow
<1>4. OneItemPerPlace'
  BY <1>1, <1>2 DEF IInv, OneItemPerPlace, OnePerCategory
<1>. QED  BY <1>1, <1>2, <1>3, <1>4

\* What is asked has been validated.
LEMMA AskPreserves ==
  ASSUME IInv, NEW r \in Request, Ask(r), RequestOK'
  PROVE  IInv'
<1>1. /\ cached /\ request' = r /\ stored' = FALSE /\ ~stored
      /\ UNCHANGED <<cacheVars, dbVars, asserted>>
  BY DEF Ask, IInv, Session
<1>2. DbRows' /\ DbItems' = DbItems
  BY <1>1, DbUnchanged DEF IInv
<1>3. Owned' = Owned /\ items' = items /\ OneItemPerPlace'
  BY <1>1, CacheUnchanged
<1>4. TypeOK'
  BY <1>1, <1>3 DEF IInv, TypeOK, cacheVars, dbVars, Owned
<1>5. UpdatesFindTheirItems' /\ Session' /\ ParentsWereUsed'
  BY <1>1, <1>3 DEF IInv, UpdatesFindTheirItems, Session, ParentsWereUsed, cacheVars, dbVars
<1>6. Mirrors(items)'
  <2>1. Mirrors(items)
    BY <1>1 DEF IInv, InStep
  <2>. QED  BY <1>1, <1>2, <1>3, <2>1 DEF Mirrors, dbVars
<1>7. InStep'
  BY <1>1, <1>6 DEF InStep
<1>. QED  BY <1>2, <1>3, <1>4, <1>5, <1>7 DEF IInv

LEMMA RefusalPreserves == IInv /\ DatabaseRefuses => IInv'
<1>. SUFFICES ASSUME IInv, DatabaseRefuses
              PROVE  IInv'
  OBVIOUS
<1>1. /\ ~stored /\ request' = NoRequest /\ stored' = stored
      /\ UNCHANGED <<cacheVars, dbVars, asserted>>
  BY DEF DatabaseRefuses
<1>2. DbRows' /\ DbItems' = DbItems
  BY <1>1, DbUnchanged DEF IInv
<1>3. Owned' = Owned /\ items' = items /\ OneItemPerPlace'
  BY <1>1, CacheUnchanged
<1>4. TypeOK'
  <2>1. NoRequest \in Request
    BY DEF Request, NoRequest
  <2>. QED  BY <1>1, <1>3, <2>1 DEF IInv, TypeOK, cacheVars, dbVars, Owned
<1>5. UpdatesFindTheirItems' /\ Session' /\ ParentsWereUsed'
  BY <1>1, <1>3 DEF IInv, UpdatesFindTheirItems, Session, ParentsWereUsed, cacheVars, dbVars
<1>6. cached => Mirrors(items)'
  <2>1. cached => Mirrors(items)
    BY <1>1 DEF IInv, InStep
  <2>. QED  BY <1>1, <1>2, <1>3, <2>1 DEF Mirrors, dbVars
<1>7. InStep' /\ RequestOK'
  BY <1>1, <1>6 DEF InStep, RequestOK, NoRequest, cacheVars
<1>. QED  BY <1>2, <1>3, <1>4, <1>5, <1>7 DEF IInv

\* The row of a set of items, one per category, holds just those of them that
\* have a place.
LEMMA PresetRowFacts ==
  ASSUME NEW S \in SUBSET ItemIds, OnePerCategory(S)
  PROVE  /\ PresetRow(S) \in Row(Categories)
         /\ \A c \in Categories : PresetRow(S)[c] # NoItem =>
              PresetRow(S)[c] \in S /\ Category[PresetRow(S)[c]] = c
         /\ \A i \in S : HasPlace(i) => PresetRow(S)[Category[i]] = i
<1>. DEFINE has(c) == \E i \in S : Category[i] = c
            that(c) == CHOOSE i \in S : Category[i] = c
<1>1. \A c \in Categories : has(c) => that(c) \in S /\ Category[that(c)] = c
  OBVIOUS
<1>2. \A c \in Categories : PresetRow(S)[c] = IF has(c) THEN that(c) ELSE NoItem
  BY DEF PresetRow
<1>3. PresetRow(S) = [c \in Categories |-> IF has(c) THEN that(c) ELSE NoItem]
  BY DEF PresetRow
<1>4. \A i \in S : has(Category[i])
  OBVIOUS
<1>. HIDE DEF has, that
<1>5. \A i \in S : HasPlace(i) => that(Category[i]) = i
  BY <1>1, <1>4 DEF OnePerCategory, HasPlace
<1>6. PresetRow(S) \in Row(Categories)
  BY <1>1, <1>3 DEF Row
<1>. QED  BY <1>1, <1>2, <1>4, <1>5, <1>6 DEF HasPlace

\* The row of a parent's sockets holds its children.
LEMMA SocketRowFacts ==
  ASSUME TypeOK, OneItemPerPlace, NEW x \in ItemIds
  PROVE  /\ SocketRow(x) \in Row(SocketIds)
         /\ \A k \in SocketIds, i \in ItemIds :
              SocketRow(x)[k] = i <=> i \in Owned /\ items[i].parent = x /\ items[i].socket = k
<1>. DEFINE has(k) == \E i \in Owned : items[i].parent = x /\ items[i].socket = k
            that(k) == CHOOSE i \in Owned : items[i].parent = x /\ items[i].socket = k
<1>1. \A k \in SocketIds :
        has(k) => that(k) \in Owned /\ items[that(k)].parent = x /\ items[that(k)].socket = k
  OBVIOUS
<1>2. SocketRow(x) = [k \in SocketIds |-> IF has(k) THEN that(k) ELSE NoItem]
  BY DEF SocketRow
<1>3. \A k \in SocketIds, i \in Owned :
        items[i].parent = x /\ items[i].socket = k => has(k)
  OBVIOUS
<1>. HIDE DEF has, that
<1>4. Owned \subseteq ItemIds /\ x # NoItem
  BY InventoryAssumption DEF TypeOK, Owned
<1>5. \A k \in SocketIds, i \in Owned :
        items[i].parent = x /\ items[i].socket = k => that(k) = i
  BY <1>1, <1>3, <1>4 DEF OneItemPerPlace
<1>6. SocketRow(x) \in Row(SocketIds)
  BY <1>1, <1>2, <1>4 DEF Row
<1>. QED  BY <1>1, <1>2, <1>3, <1>4, <1>5, <1>6, InventoryAssumption

LEMMA ValidatePresetPreserves ==
  ASSUME IInv, NEW p \in PresetIds, NEW equip \in SUBSET ItemIds, NEW unequip \in SUBSET ItemIds,
         ValidateItemPresetUpdate(p, equip, unequip)
  PROVE  IInv'
<1>. DEFINE S == (Worn(p) \ unequip) \union equip
            r == [type |-> "preset", preset |-> p, equip |-> equip, unequip |-> unequip,
                  row |-> PresetRow(S)]
<1>1. /\ equip \subseteq Owned /\ unequip \subseteq Worn(p) /\ equip \intersect Worn(p) = {}
      /\ OnePerCategory(S) /\ Ask(r)
  BY DEF ValidateItemPresetUpdate
<1>2. cached /\ ~stored /\ request' = r /\ UNCHANGED cacheVars
  BY <1>1 DEF Ask, IInv, Session
<1>3. S \in SUBSET ItemIds
  BY DEF Worn, IInv, TypeOK, Owned
<1>4. PresetRow(S) \in Row(Categories)
  BY <1>1, <1>3, PresetRowFacts
<1>5. r \in Request
  BY <1>4 DEF Request
<1>6. Owned' = Owned /\ Worn(p)' = Worn(p)
  BY <1>2, CacheUnchanged
<1>7. RequestOK'
  <2>1. /\ request'.type = "preset" /\ request'.preset = p /\ request'.equip = equip
        /\ request'.unequip = unequip /\ request'.row = PresetRow(S)
    BY <1>2
  <2>2. Worn(request.preset)' = Worn(p)
    BY <1>6, <2>1 DEF Worn
  <2>3. PresetOK'
    BY <1>1, <1>6, <2>1, <2>2 DEF PresetOK, OnePerCategory, PresetRow
  <2>. QED  BY <2>1, <2>3 DEF RequestOK
<1>. QED  BY <1>1, <1>5, <1>7, AskPreserves

LEMMA ValidateSocketPreserves ==
  ASSUME IInv, NEW k \in AskedSockets, NEW parent \in ItemIds, NEW child \in ItemIds,
         ValidateItemSocketUpdate(k, parent, child)
  PROVE  IInv'
<1>. DEFINE row == SocketRowWith(k, parent, child)
            r == [type |-> "socket", child |-> child, parent |-> parent, row |-> row]
<1>1. /\ {parent, child} \subseteq Owned /\ items[child].parent = NoItem
      /\ \A i \in Owned : items[i].parent = parent => items[i].socket # k
      /\ Ask(r)
  BY DEF ValidateItemSocketUpdate, SocketRowWith
<1>2. request' = r /\ UNCHANGED cacheVars
  BY <1>1 DEF Ask
<1>3. row \in Row(SocketIds)
  BY SocketRowFacts DEF IInv, Row, SocketRowWith
<1>4. r \in Request
  BY <1>3 DEF Request
<1>5. Owned' = Owned /\ items' = items /\ SocketRow(parent)' = SocketRow(parent)
  BY <1>2, CacheUnchanged
<1>6. RequestOK'
  <2>1. /\ request'.type = "socket" /\ request'.child = child
        /\ request'.parent = parent /\ request'.row = row
    BY <1>2
  <2>2. SocketRowWith(k, request.parent, request.child)' = row
    BY <1>5, <2>1 DEF SocketRow, SocketRowWith
  <2>3. SocketOK'
    BY <1>1, <1>5, <2>1, <2>2 DEF SocketOK
  <2>. QED  BY <2>1, <2>3 DEF RequestOK
<1>. QED  BY <1>1, <1>4, <1>6, AskPreserves

LEMMA ValidateCountPreserves ==
  ASSUME IInv, NEW i \in ItemIds \ Equipment, NEW n \in 1..MaxItemCount,
         ValidateIncreaseItems(i, n) \/ ValidateDecreaseItems(i, n)
  PROVE  IInv'
<1>1. PICK count : /\ i \in Owned
                   /\ \/ count = items[i].count + n /\ count <= MaxItemCount
                      \/ count = items[i].count - n /\ n < items[i].count
                   /\ Ask([type |-> "count", item |-> i, count |-> count])
  BY DEF ValidateIncreaseItems, ValidateDecreaseItems
<1>. DEFINE r == [type |-> "count", item |-> i, count |-> count]
<1>2. cached /\ ~stored /\ request' = r /\ UNCHANGED cacheVars
  BY <1>1 DEF Ask, IInv, Session
<1>3. items[i].count \in 0..MaxItemCount
  BY <1>1, <1>2, RowFields DEF IInv, InStep, Mirrors, Owned
<1>4. count \in 1..MaxItemCount
  BY <1>1, <1>3, InventoryAssumption
<1>5. r \in Request
  BY <1>4, InventoryAssumption DEF Request
<1>6. Owned' = Owned
  BY <1>2, CacheUnchanged
<1>7. RequestOK'
  BY <1>1, <1>2, <1>4, <1>6 DEF RequestOK, CountOK
<1>. QED  BY <1>1, <1>5, <1>7, AskPreserves

LEMMA ValidateDeletePreserves ==
  ASSUME IInv, NEW ids \in SUBSET ItemIds, ValidateDeleteItems(ids)
  PROVE  IInv'
<1>. DEFINE r == [type |-> "delete", ids |-> ids]
<1>1. ids \subseteq Owned /\ Ask(r)
  BY DEF ValidateDeleteItems
<1>2. request' = r /\ UNCHANGED cacheVars
  BY <1>1 DEF Ask
<1>3. r \in Request
  BY DEF Request
<1>4. Owned' = Owned
  BY <1>2, CacheUnchanged
<1>5. RequestOK'
  BY <1>1, <1>2, <1>4 DEF RequestOK
<1>. QED  BY <1>1, <1>3, <1>5, AskPreserves

LEMMA ValidateCreatePreserves ==
  ASSUME IInv, NEW ids \in SUBSET ItemIds, ValidateCreateItems(ids)
  PROVE  IInv'
<1>. DEFINE r == [type |-> "create", ids |-> ids]
<1>1. ids \intersect dbUsed = {} /\ Ask(r)
  BY DEF ValidateCreateItems
<1>2. request' = r /\ UNCHANGED cacheVars /\ dbUsed' = dbUsed
  BY <1>1 DEF Ask, dbVars
<1>3. r \in Request
  BY DEF Request
<1>4. Owned' = Owned /\ Owned \subseteq dbUsed
  BY <1>2, CacheUnchanged DEF IInv, Session
<1>5. RequestOK'
  BY <1>1, <1>2, <1>4 DEF RequestOK, CreateOK
<1>. QED  BY <1>1, <1>3, <1>5, AskPreserves

-----------------------------------------------------------------------------
(* The database stores a request.                                          *)

\* What is left to show of a request that is stored: that the rows stay in
\* order, and that they are what the update will make of the cache.
LEMMA StorePreserves ==
  ASSUME IInv, DatabaseStores, DbRows', InStep',
         dbCount' \in [ItemIds -> 0..MaxItemCount],
         dbUsed \subseteq dbUsed', dbUsed' \subseteq ItemIds,
         dbPresets' \in [PresetIds -> Row(Categories)],
         dbSockets' \in [ItemIds -> Row(SocketIds)]
  PROVE  IInv'
<1>1. /\ request # NoRequest /\ ~stored /\ stored' = TRUE
      /\ UNCHANGED <<cacheVars, request, asserted>>
  BY DEF DatabaseStores
<1>2. /\ Owned' = Owned /\ items' = items /\ OneItemPerPlace'
      /\ \A p \in PresetIds : Worn(p)' = Worn(p)
      /\ \A x \in ItemIds : SocketRow(x)' = SocketRow(x)
  BY <1>1, CacheUnchanged
<1>3. TypeOK'
  BY <1>1, <1>2 DEF IInv, TypeOK, cacheVars, Owned
<1>4. UpdatesFindTheirItems' /\ Session' /\ ParentsWereUsed'
  BY <1>1, <1>2 DEF IInv, UpdatesFindTheirItems, Session, ParentsWereUsed, cacheVars
<1>5. request.type = "preset" => PresetOK'
  <2>. SUFFICES ASSUME request.type = "preset"
                PROVE  PresetOK'
    OBVIOUS
  <2>1. PresetOK
    BY DEF IInv, RequestOK
  <2>2. request' = request /\ Worn(request.preset)' = Worn(request.preset)
    BY <1>1, <1>2 DEF Worn
  <2>. QED  BY <1>2, <2>1, <2>2 DEF PresetOK, OnePerCategory, PresetRow
<1>6. request.type = "socket" => SocketOK'
  <2>. SUFFICES ASSUME request.type = "socket"
                PROVE  SocketOK'
    OBVIOUS
  <2>1. SocketOK
    BY DEF IInv, RequestOK
  <2>2. /\ request' = request
        /\ \A k \in AskedSockets :
             SocketRowWith(k, request.parent, request.child)'
               = SocketRowWith(k, request.parent, request.child)
    BY <1>1, <1>2 DEF SocketRow, SocketRowWith
  <2>. QED  BY <1>2, <2>1, <2>2 DEF SocketOK
<1>7. RequestOK'
  BY <1>1, <1>2, <1>5, <1>6 DEF IInv, RequestOK, CountOK, CreateOK
<1>. QED  BY <1>2, <1>3, <1>4, <1>7 DEF IInv

\* What the database does to a stored request.
LEMMA StoreStep ==
  ASSUME IInv, DatabaseStores
  PROVE  /\ ~stored /\ stored' /\ cached /\ Store(request) /\ request' = request
         /\ items' = items /\ Owned' = Owned /\ UNCHANGED cached
         /\ Mirrors(items) /\ TypeOK /\ DbRows /\ OneItemPerPlace
         /\ Owned = DbItems
         /\ DbItems \subseteq ItemIds /\ NoItem \notin DbItems
<1>1. /\ request # NoRequest /\ ~stored /\ stored' = TRUE /\ Store(request)
      /\ UNCHANGED <<cacheVars, request, asserted>>
  BY DEF DatabaseStores
<1>2. cached
  BY <1>1 DEF IInv, Session
<1>3. Mirrors(items)
  BY <1>1, <1>2 DEF IInv, InStep
<1>. QED  BY <1>1, <1>2, <1>3, CacheUnchanged, RowFields DEF IInv, cacheVars, Mirrors, Owned

LEMMA StorePresetPreserves ==
  ASSUME IInv, DatabaseStores, request.type = "preset"
  PROVE  IInv'
<1>. DEFINE p == request.preset
            S == (Worn(p) \ request.unequip) \union request.equip
<1>1. /\ ~stored /\ stored' /\ cached /\ request' = request /\ items' = items /\ Owned' = Owned
      /\ Mirrors(items) /\ TypeOK /\ DbRows /\ Owned = DbItems /\ cached' = cached
      /\ DbItems \subseteq ItemIds /\ NoItem \notin DbItems
  BY StoreStep
<1>2. /\ dbPresets' = [dbPresets EXCEPT ![p] = request.row]
      /\ UNCHANGED <<dbCount, dbUsed, dbSockets>>
  BY StoreStep DEF Store
<1>3. /\ p \in PresetIds /\ request.equip \subseteq Owned
      /\ request.unequip \subseteq Worn(p) /\ request.equip \intersect Worn(p) = {}
      /\ OnePerCategory(S) /\ request.row = PresetRow(S)
  BY DEF IInv, RequestOK, PresetOK
<1>4. S \in SUBSET ItemIds /\ S \subseteq DbItems
  BY <1>1, <1>3 DEF Worn
<1>5. /\ request.row \in Row(Categories)
      /\ \A c \in Categories : request.row[c] # NoItem =>
           request.row[c] \in S /\ Category[request.row[c]] = c
      /\ \A i \in S : HasPlace(i) => request.row[Category[i]] = i
  BY <1>3, <1>4, PresetRowFacts
<1>6. /\ dbPresets \in [PresetIds -> Row(Categories)]
      /\ dbPresets' \in [PresetIds -> Row(Categories)]
      /\ dbPresets'[p] = request.row
      /\ \A q \in PresetIds \ {p} : dbPresets'[q] = dbPresets[q]
  <2>. HIDE DEF p, S
  <2>1. dbPresets \in [PresetIds -> Row(Categories)]
    BY <1>1 DEF TypeOK
  <2>2. p \in PresetIds /\ request.row \in Row(Categories)
    BY <1>3, <1>5
  <2>. QED  BY <1>2, <2>1, <2>2
<1>7. DbItems' = DbItems
  BY <1>2 DEF DbItems
<1>8. DbRows'
  <2>1. ASSUME NEW q \in PresetIds, NEW c \in Categories, dbPresets'[q][c] # NoItem
        PROVE  /\ dbPresets'[q][c] \in DbItems
               /\ Category[dbPresets'[q][c]] = c
    <3>1. CASE q = p
      BY <1>4, <1>5, <1>6, <2>1, <3>1
    <3>2. CASE q # p
      BY <1>1, <1>6, <2>1, <3>2 DEF DbRows
    <3>. QED  BY <3>1, <3>2
  <2>. QED  BY <1>1, <1>2, <1>7, <2>1 DEF DbRows
<1>9. Mirrors(PresetUpdated)'
  <2>. DEFINE cache == PresetUpdated
  <2>1. /\ DOMAIN cache = Owned
        /\ \A i \in Owned :
             /\ cache[i].count = items[i].count /\ cache[i].parent = items[i].parent
             /\ cache[i].socket = items[i].socket
             /\ cache[i].presets = IF i \in request.unequip THEN items[i].presets \ {p}
                                   ELSE IF i \in request.equip THEN items[i].presets \union {p}
                                   ELSE items[i].presets
    BY <1>1, ItemFields DEF PresetUpdated, Item
  <2>2. PresetUpdated' = cache
    BY <1>1 DEF PresetUpdated
  <2>. HIDE DEF cache
  <2>3. ASSUME NEW i \in Owned, NEW q \in PresetIds, HasPlace(i)
        PROVE  q \in cache[i].presets <=> \E c \in Categories : dbPresets'[q][c] = i
    <3>1. CASE q # p
      <4>1. q \in cache[i].presets <=> q \in items[i].presets
        BY <2>1, <3>1
      <4>. QED  BY <1>1, <1>6, <2>3, <3>1, <4>1 DEF Mirrors
    <3>2. CASE q = p
      <4>1. p \in cache[i].presets <=> i \in S
        BY <1>3, <2>1 DEF Worn
      <4>2. i \in S <=> \E c \in Categories : request.row[c] = i
        BY <1>1, <1>5, <2>3 DEF HasPlace
      <4>. QED  BY <1>6, <3>2, <4>1, <4>2
    <3>. QED  BY <3>1, <3>2
  <2>4. ASSUME NEW i \in DbItems, NEW x \in DbItems, NEW k \in SocketIds
        PROVE  dbSockets[x][k] = i <=> cache[i].parent = x /\ cache[i].socket = k
    <3>1. cache[i].parent = items[i].parent /\ cache[i].socket = items[i].socket
      BY <1>1, <2>1
    <3>. QED  BY <1>1, <3>1 DEF Mirrors
  <2>5. DOMAIN cache = DbItems /\ \A i \in DbItems : cache[i].count = dbCount[i]
    BY <1>1, <2>1 DEF Mirrors
  <2>. QED  BY <1>1, <1>2, <1>7, <2>2, <2>3, <2>4, <2>5 DEF Mirrors
<1>10. InStep'
  BY <1>1, <1>9 DEF InStep
<1>. QED  BY <1>1, <1>2, <1>6, <1>8, <1>10, StorePreserves DEF TypeOK

\* The new row differs from the database's in the child's socket.
LEMMA SocketRowStored ==
  ASSUME IInv, Mirrors(items), NEW k \in AskedSockets, NEW parent \in Owned, NEW child \in Owned,
         NEW l \in SocketIds
  PROVE  SocketRowWith(k, parent, child)[l] = IF l = k THEN child ELSE dbSockets[parent][l]
<1>. DEFINE row == SocketRow(parent)
<1>1. TypeOK /\ DbRows /\ OneItemPerPlace /\ parent \in ItemIds /\ Owned = DbItems /\ NoItem \notin DbItems
  BY ItemFields, RowFields DEF IInv, Mirrors, Owned
<1>2. /\ row \in Row(SocketIds)
      /\ \A i \in ItemIds : row[l] = i <=> i \in Owned /\ items[i].parent = parent /\ items[i].socket = l
  BY <1>1, SocketRowFacts
<1>3. row[l] \in ItemIds \union {NoItem} /\ DOMAIN row = SocketIds
  BY <1>2 DEF Row
<1>. HIDE DEF row
<1>4. dbSockets[parent][l] \in DbItems \union {NoItem} /\ DbItems \subseteq ItemIds
  BY <1>1, RowFields DEF DbRows
<1>5. ASSUME NEW i \in DbItems
      PROVE  row[l] = i <=> dbSockets[parent][l] = i
  BY <1>1, <1>2, <1>4 DEF Mirrors
<1>6. row[l] = dbSockets[parent][l]
  <2>1. CASE row[l] = NoItem
    BY <1>1, <1>4, <1>5, <2>1
  <2>2. CASE row[l] \in ItemIds
    BY <1>1, <1>2, <1>5, <2>2
  <2>. QED  BY <1>3, <2>1, <2>2
<1>. QED  BY <1>6 DEF row, SocketRowWith

LEMMA StoreSocketPreserves ==
  ASSUME IInv, DatabaseStores, request.type = "socket"
  PROVE  IInv'
<1>. DEFINE parent == request.parent
            child == request.child
<1>1. /\ ~stored /\ stored' /\ cached /\ request' = request /\ items' = items /\ Owned' = Owned
      /\ Mirrors(items) /\ TypeOK /\ DbRows /\ Owned = DbItems /\ cached' = cached
      /\ DbItems \subseteq ItemIds /\ NoItem \notin DbItems
  BY StoreStep
<1>2. /\ dbSockets' = [dbSockets EXCEPT ![parent] = request.row]
      /\ UNCHANGED <<dbCount, dbUsed, dbPresets>>
  BY StoreStep DEF Store
<1>3. parent \in Owned /\ child \in Owned /\ items[child].parent = NoItem
  BY DEF IInv, RequestOK, SocketOK
<1>4. PICK k \in AskedSockets :
        /\ \A i \in Owned : items[i].parent = parent => items[i].socket # k
        /\ request.row = SocketRowWith(k, parent, child)
  BY DEF IInv, RequestOK, SocketOK
<1>5. \A l \in SocketIds : request.row[l] = IF l = k THEN child ELSE dbSockets[parent][l]
  BY <1>1, <1>3, <1>4, SocketRowStored
<1>6. request.row \in Row(SocketIds)
  BY <1>1, <1>3, <1>4, SocketRowFacts DEF Row, IInv, SocketRowWith
<1>7. /\ dbSockets' \in [ItemIds -> Row(SocketIds)]
      /\ \A x \in ItemIds, l \in SocketIds :
           dbSockets'[x][l] = IF x = parent /\ l = k THEN child ELSE dbSockets[x][l]
  BY <1>1, <1>2, <1>3, <1>5, <1>6 DEF TypeOK
<1>8. DbItems' = DbItems
  BY <1>2 DEF DbItems
<1>9. \A x \in ItemIds, l \in SocketIds : dbSockets[x][l] # child
  BY <1>1, <1>3 DEF Mirrors, DbRows
<1>10. DbRows'
  <2>1. ASSUME NEW x \in ItemIds, NEW l \in SocketIds, dbSockets'[x][l] # NoItem
        PROVE  x \in DbItems /\ dbSockets'[x][l] \in DbItems
    BY <1>1, <1>3, <1>7, <2>1 DEF DbRows
  <2>2. ASSUME NEW x \in ItemIds, NEW y \in ItemIds, NEW l \in SocketIds, NEW m \in SocketIds,
               dbSockets'[x][l] # NoItem, dbSockets'[x][l] = dbSockets'[y][m]
        PROVE  x = y /\ l = m
    <3>1. CASE dbSockets'[x][l] = child
      <4>1. x = parent /\ l = k
        BY <1>7, <1>9, <3>1
      <4>2. dbSockets'[y][m] = child
        BY <2>2, <3>1
      <4>3. y = parent /\ m = k
        BY <1>7, <1>9, <4>2
      <4>. QED  BY <4>1, <4>3
    <3>2. CASE dbSockets'[x][l] # child
      <4>1. dbSockets'[x][l] = dbSockets[x][l] /\ dbSockets'[y][m] = dbSockets[y][m]
        BY <1>7, <2>2, <3>2
      <4>2. dbSockets[x][l] # NoItem /\ dbSockets[x][l] = dbSockets[y][m]
        BY <2>2, <4>1
      <4>. QED  BY <1>1, <4>2 DEF DbRows
    <3>. QED  BY <3>1, <3>2
  <2>. QED  BY <1>1, <1>2, <1>8, <2>1, <2>2 DEF DbRows
<1>11. Mirrors(SocketUpdated)'
  <2>. DEFINE cache == SocketUpdated
  <2>. DEFINE set == k \in SocketIds
  <2>0. \A l \in SocketIds : request.row[l] = child <=> l = k
    BY <1>5, <1>9, <1>1, <1>3
  <2>1. set => Place(child) = k
    BY <2>0 DEF Place
  <2>2. /\ DOMAIN cache = Owned
        /\ \A i \in Owned :
             /\ cache[i].count = items[i].count /\ cache[i].presets = items[i].presets
             /\ cache[i].parent = IF i = child /\ set THEN parent ELSE items[i].parent
             /\ cache[i].socket = IF i = child /\ set THEN k ELSE items[i].socket
    BY <1>1, <2>0, <2>1, ItemFields DEF SocketUpdated, Item
  <2>3. SocketUpdated' = cache
    BY <1>1 DEF SocketUpdated, Place
  <2>. HIDE DEF cache
  <2>4. ASSUME NEW i \in DbItems, NEW p \in PresetIds
        PROVE  HasPlace(i) => (p \in cache[i].presets <=> \E c \in Categories : dbPresets[p][c] = i)
    <3>1. cache[i].presets = items[i].presets
      BY <1>1, <2>2
    <3>. QED  BY <1>1, <3>1 DEF Mirrors
  <2>5. ASSUME NEW i \in DbItems, NEW x \in DbItems, NEW l \in SocketIds
        PROVE  dbSockets'[x][l] = i <=> cache[i].parent = x /\ cache[i].socket = l
    <3>1. CASE i = child /\ set
      <4>1. cache[i].parent = parent /\ cache[i].socket = k
        BY <1>3, <2>2, <3>1
      <4>. QED  BY <1>1, <1>7, <1>9, <3>1, <4>1
    <3>2. CASE ~(i = child /\ set)
      <4>1. cache[i].parent = items[i].parent /\ cache[i].socket = items[i].socket
        BY <1>1, <2>2, <3>2
      <4>2. dbSockets[x][l] = i <=> items[i].parent = x /\ items[i].socket = l
        BY <1>1 DEF Mirrors
      <4>3. dbSockets'[x][l] = i <=> dbSockets[x][l] = i
        BY <1>1, <1>4, <1>7, <3>2, <4>2
      <4>. QED  BY <4>1, <4>2, <4>3
    <3>. QED  BY <3>1, <3>2
  <2>6. DOMAIN cache = DbItems /\ \A i \in DbItems : cache[i].count = dbCount[i]
    BY <1>1, <2>2 DEF Mirrors
  <2>. QED  BY <1>2, <1>8, <2>3, <2>4, <2>5, <2>6 DEF Mirrors
<1>12. InStep'
  BY <1>1, <1>11 DEF InStep
<1>. QED  BY <1>1, <1>2, <1>7, <1>10, <1>12, StorePreserves DEF TypeOK

LEMMA StoreCountPreserves ==
  ASSUME IInv, DatabaseStores, request.type = "count"
  PROVE  IInv'
<1>1. /\ ~stored /\ stored' /\ cached /\ request' = request /\ items' = items /\ Owned' = Owned
      /\ Mirrors(items) /\ TypeOK /\ DbRows /\ Owned = DbItems /\ cached' = cached
      /\ DbItems \subseteq ItemIds /\ NoItem \notin DbItems
  BY StoreStep
<1>2. /\ dbCount' = [dbCount EXCEPT ![request.item] = request.count]
      /\ UNCHANGED <<dbUsed, dbPresets, dbSockets>>
  BY StoreStep DEF Store
<1>3. request.item \in Owned /\ request.count \in 1..MaxItemCount
  BY DEF IInv, RequestOK, CountOK
<1>4. /\ dbCount \in [ItemIds -> 0..MaxItemCount]
      /\ dbCount' \in [ItemIds -> 0..MaxItemCount]
      /\ \A i \in ItemIds : dbCount'[i] = IF i = request.item THEN request.count ELSE dbCount[i]
  <2>1. dbCount \in [ItemIds -> 0..MaxItemCount]
    BY <1>1 DEF TypeOK
  <2>2. request.item \in ItemIds /\ request.count \in 0..MaxItemCount
    BY <1>1, <1>3, InventoryAssumption
  <2>. QED  BY <1>2, <2>1, <2>2
<1>5. DbItems' = DbItems
  BY <1>1, <1>3, <1>4 DEF DbItems
<1>6. DbRows'
  BY <1>1, <1>2, <1>5 DEF DbRows
<1>7. Mirrors(CountUpdated)'
  <2>. DEFINE cache == CountUpdated
  <2>1. /\ DOMAIN cache = Owned
        /\ \A i \in Owned :
             /\ cache[i].presets = items[i].presets
             /\ cache[i].parent = items[i].parent /\ cache[i].socket = items[i].socket
             /\ cache[i].count = IF i = request.item THEN request.count ELSE items[i].count
    BY <1>1, ItemFields DEF CountUpdated, Item
  <2>2. CountUpdated' = cache
    BY <1>1 DEF CountUpdated
  <2>. HIDE DEF cache
  <2>3. ASSUME NEW i \in DbItems
        PROVE  /\ cache[i].count = dbCount'[i]
               /\ \A p \in PresetIds :
                    HasPlace(i) => (p \in cache[i].presets <=> \E c \in Categories : dbPresets[p][c] = i)
               /\ \A x \in DbItems, k \in SocketIds :
                    dbSockets[x][k] = i <=> cache[i].parent = x /\ cache[i].socket = k
    <3>1. /\ cache[i].presets = items[i].presets
          /\ cache[i].parent = items[i].parent /\ cache[i].socket = items[i].socket
          /\ cache[i].count = IF i = request.item THEN request.count ELSE items[i].count
      BY <1>1, <2>1
    <3>2. cache[i].count = dbCount'[i]
      BY <1>1, <1>4, <3>1 DEF Mirrors
    <3>. QED  BY <1>1, <3>1, <3>2 DEF Mirrors
  <2>4. DOMAIN cache = DbItems
    BY <1>1, <2>1
  <2>. QED  BY <1>2, <1>5, <2>2, <2>3, <2>4 DEF Mirrors
<1>8. InStep'
  BY <1>1, <1>7 DEF InStep
<1>. QED  BY <1>1, <1>2, <1>4, <1>6, <1>8, StorePreserves DEF TypeOK

\* What goes takes its sockets with it, and leaves the rows it is in.
LEMMA StoreDeletePreserves ==
  ASSUME IInv, DatabaseStores, request.type = "delete"
  PROVE  IInv'
<1>. DEFINE ids == request.ids
<1>1. /\ ~stored /\ stored' /\ cached /\ request' = request /\ items' = items /\ Owned' = Owned
      /\ Mirrors(items) /\ TypeOK /\ DbRows /\ Owned = DbItems /\ cached' = cached
      /\ DbItems \subseteq ItemIds /\ NoItem \notin DbItems
  BY StoreStep
<1>2. /\ dbCount' = [i \in ItemIds |-> IF i \in ids THEN 0 ELSE dbCount[i]]
      /\ dbPresets' = [p \in PresetIds |-> Without(dbPresets[p], ids)]
      /\ dbSockets' = [i \in ItemIds |->
                         IF i \in ids THEN EmptyRow(SocketIds) ELSE Without(dbSockets[i], ids)]
      /\ UNCHANGED dbUsed
  BY StoreStep DEF Store
<1>3. ids \subseteq Owned
  BY DEF IInv, RequestOK
<1>4. /\ dbCount \in [ItemIds -> 0..MaxItemCount]
      /\ dbPresets \in [PresetIds -> Row(Categories)]
      /\ dbSockets \in [ItemIds -> Row(SocketIds)]
  BY <1>1 DEF TypeOK
<1>5. dbCount' \in [ItemIds -> 0..MaxItemCount]
  BY <1>2, <1>4, InventoryAssumption
<1>6. /\ dbPresets' \in [PresetIds -> Row(Categories)]
      /\ \A p \in PresetIds, c \in Categories :
           dbPresets'[p][c] = IF dbPresets[p][c] \in ids THEN NoItem ELSE dbPresets[p][c]
  BY <1>2, <1>4 DEF Row, Without
<1>7. /\ dbSockets' \in [ItemIds -> Row(SocketIds)]
      /\ \A x \in ItemIds, k \in SocketIds :
           dbSockets'[x][k] = IF x \in ids \/ dbSockets[x][k] \in ids THEN NoItem ELSE dbSockets[x][k]
  BY <1>2, <1>4 DEF Row, Without, EmptyRow
<1>8. DbItems' = DbItems \ ids
  BY <1>2, <1>4 DEF DbItems
<1>9. DbRows'
  <2>1. ASSUME NEW p \in PresetIds, NEW c \in Categories, dbPresets'[p][c] # NoItem
        PROVE  /\ dbPresets'[p][c] \in DbItems'
               /\ Category[dbPresets'[p][c]] = c
    <3>1. dbPresets'[p][c] = dbPresets[p][c] /\ dbPresets[p][c] \notin ids /\ dbPresets[p][c] # NoItem
      BY <1>6, <2>1
    <3>. QED  BY <1>1, <1>8, <3>1 DEF DbRows
  <2>2. ASSUME NEW x \in ItemIds, NEW k \in SocketIds, dbSockets'[x][k] # NoItem
        PROVE  /\ dbSockets'[x][k] = dbSockets[x][k]
               /\ x \in DbItems' /\ dbSockets'[x][k] \in DbItems'
    <3>1. dbSockets'[x][k] = dbSockets[x][k] /\ dbSockets[x][k] \notin ids /\ x \notin ids
          /\ dbSockets[x][k] # NoItem
      BY <1>7, <2>2
    <3>. QED  BY <1>1, <1>8, <3>1 DEF DbRows
  <2>3. ASSUME NEW x \in ItemIds, NEW y \in ItemIds, NEW k \in SocketIds, NEW l \in SocketIds,
               dbSockets'[x][k] # NoItem, dbSockets'[x][k] = dbSockets'[y][l]
        PROVE  x = y /\ k = l
    <3>1. dbSockets'[y][l] # NoItem
      BY <2>3
    <3>2. dbSockets'[x][k] = dbSockets[x][k] /\ dbSockets'[y][l] = dbSockets[y][l]
      BY <2>2, <2>3, <3>1
    <3>3. dbSockets[x][k] # NoItem /\ dbSockets[x][k] = dbSockets[y][l]
      BY <2>3, <3>2
    <3>. QED  BY <1>1, <3>3 DEF DbRows
  <2>4. DbItems' \subseteq dbUsed'
    BY <1>1, <1>2, <1>8 DEF DbRows
  <2>. QED  BY <2>1, <2>2, <2>3, <2>4 DEF DbRows
<1>10. Mirrors(DeleteUpdated)'
  <2>. DEFINE cache == DeleteUpdated
  <2>1. DOMAIN cache = DbItems' /\ \A i \in DbItems' : cache[i] = items[i] /\ i \in DbItems
    BY <1>1, <1>8 DEF DeleteUpdated
  <2>2. DeleteUpdated' = cache
    BY <1>1 DEF DeleteUpdated
  <2>. HIDE DEF cache
  <2>3. ASSUME NEW i \in DbItems'
        PROVE  /\ cache[i].count = dbCount'[i]
               /\ \A p \in PresetIds :
                    HasPlace(i) => (p \in cache[i].presets <=> \E c \in Categories : dbPresets'[p][c] = i)
    <3>1. i \in DbItems /\ i \notin ids /\ i # NoItem /\ cache[i] = items[i]
      BY <1>1, <1>8, <2>1
    <3>2. cache[i].count = dbCount'[i]
      BY <1>1, <1>2, <3>1 DEF Mirrors
    <3>3. \A p \in PresetIds, c \in Categories : dbPresets'[p][c] = i <=> dbPresets[p][c] = i
      BY <1>6, <3>1
    <3>. QED  BY <1>1, <3>1, <3>2, <3>3 DEF Mirrors
  <2>4. ASSUME NEW i \in DbItems', NEW x \in DbItems', NEW k \in SocketIds
        PROVE  dbSockets'[x][k] = i <=> cache[i].parent = x /\ cache[i].socket = k
    <3>1. i \in DbItems /\ i \notin ids /\ i # NoItem /\ cache[i] = items[i]
          /\ x \in DbItems /\ x \notin ids /\ x \in ItemIds
      BY <1>1, <1>8, <2>1
    <3>2. dbSockets'[x][k] = i <=> dbSockets[x][k] = i
      BY <1>7, <3>1
    <3>. QED  BY <1>1, <3>1, <3>2 DEF Mirrors
  <2>. QED  BY <2>1, <2>2, <2>3, <2>4 DEF Mirrors
<1>11. InStep'
  BY <1>1, <1>10 DEF InStep
<1>. QED  BY <1>1, <1>2, <1>5, <1>6, <1>7, <1>9, <1>11, StorePreserves DEF TypeOK

\* A new id has never been in a row, nor anyone's parent.
LEMMA StoreCreatePreserves ==
  ASSUME IInv, DatabaseStores, request.type = "create"
  PROVE  IInv'
<1>. DEFINE ids == request.ids
<1>1. /\ ~stored /\ stored' /\ cached /\ request' = request /\ items' = items /\ Owned' = Owned
      /\ Mirrors(items) /\ TypeOK /\ DbRows /\ Owned = DbItems /\ cached' = cached
      /\ DbItems \subseteq ItemIds /\ NoItem \notin DbItems
  BY StoreStep
<1>2. /\ dbCount' = [i \in ItemIds |-> IF i \in ids THEN 1 ELSE dbCount[i]]
      /\ dbUsed' = dbUsed \union ids
      /\ UNCHANGED <<dbPresets, dbSockets>>
  BY StoreStep DEF Store
<1>3. ids \intersect dbUsed = {} /\ ids \intersect DbItems = {}
  BY <1>1 DEF IInv, RequestOK, CreateOK
<1>4. ids \subseteq ItemIds
  BY <1>1 DEF TypeOK, Request
<1>5. /\ dbCount \in [ItemIds -> 0..MaxItemCount]
      /\ dbCount' \in [ItemIds -> 0..MaxItemCount]
  <2>1. dbCount \in [ItemIds -> 0..MaxItemCount]
    BY <1>1 DEF TypeOK
  <2>2. 1 \in 0..MaxItemCount
    BY InventoryAssumption
  <2>. QED  BY <1>2, <2>1, <2>2
<1>6. DbItems' = DbItems \union ids
  BY <1>2, <1>4, <1>5 DEF DbItems
<1>7. DbRows'
  BY <1>1, <1>2, <1>6 DEF DbRows
<1>8. \A i \in ids : /\ \A p \in PresetIds, c \in Categories : dbPresets[p][c] # i
                     /\ \A x \in ItemIds, k \in SocketIds : dbSockets[x][k] # i
  BY <1>1, <1>3, <1>4, InventoryAssumption DEF DbRows
<1>9. Mirrors(AddUpdated)'
  <2>. DEFINE cache == AddUpdated
  <2>1. /\ DOMAIN cache = DbItems \union ids
        /\ \A i \in ids : cache[i] = NewItem(1)
        /\ \A i \in DbItems : cache[i] = items[i]
    BY <1>1, <1>3 DEF AddUpdated
  <2>2. AddUpdated' = cache
    BY <1>1 DEF AddUpdated, NewItem
  <2>. HIDE DEF cache
  <2>3. ASSUME NEW i \in DbItems \union ids
        PROVE  /\ cache[i].count = dbCount'[i]
               /\ \A p \in PresetIds :
                    HasPlace(i) => (p \in cache[i].presets <=> \E c \in Categories : dbPresets[p][c] = i)
    <3>1. CASE i \in ids
      <4>1. cache[i].count = 1 /\ cache[i].presets = {}
        BY <2>1, <3>1 DEF NewItem
      <4>. QED  BY <1>2, <1>4, <1>8, <3>1, <4>1
    <3>2. CASE i \in DbItems
      <4>1. cache[i] = items[i] /\ dbCount'[i] = dbCount[i]
        BY <1>1, <1>2, <1>3, <2>1, <3>2
      <4>. QED  BY <1>1, <3>2, <4>1 DEF Mirrors
    <3>. QED  BY <3>1, <3>2
  <2>4. ASSUME NEW i \in DbItems \union ids, NEW x \in DbItems \union ids, NEW k \in SocketIds
        PROVE  dbSockets[x][k] = i <=> cache[i].parent = x /\ cache[i].socket = k
    <3>1. x \in ItemIds /\ x # NoItem
      BY <1>1, <1>4, InventoryAssumption
    <3>2. CASE i \in ids
      <4>1. cache[i].parent = NoItem
        BY <2>1, <3>2 DEF NewItem
      <4>. QED  BY <1>8, <3>1, <3>2, <4>1
    <3>3. CASE i \in DbItems /\ x \in ids
      <4>1. dbSockets[x][k] # i
        BY <1>1, <1>3, <3>1, <3>3 DEF DbRows
      <4>2. cache[i].parent # x
        <5>1. items[i].parent # NoItem => items[i].parent \in dbUsed
          BY <1>1, <3>3 DEF IInv, ParentsWereUsed
        <5>. QED  BY <1>3, <2>1, <3>1, <3>3, <5>1
      <4>. QED  BY <4>1, <4>2
    <3>4. CASE i \in DbItems /\ x \in DbItems
      <4>1. cache[i] = items[i]
        BY <2>1, <3>4
      <4>. QED  BY <1>1, <3>4, <4>1 DEF Mirrors
    <3>. QED  BY <3>2, <3>3, <3>4
  <2>. QED  BY <1>2, <1>6, <2>1, <2>2, <2>3, <2>4 DEF Mirrors
<1>10. InStep'
  BY <1>1, <1>9 DEF InStep
<1>. QED  BY <1>1, <1>2, <1>4, <1>5, <1>7, <1>10, StorePreserves DEF TypeOK

-----------------------------------------------------------------------------
(* The cache is changed.                                                   *)

\* What is left to show of an update: that its items are the ones the database
\* has had since it stored the request, and that no two are in one socket.
LEMMA UpdatePreserves ==
  ASSUME IInv, cached, NEW cache, Mirrors(cache),
         items' = cache, idSet' = DOMAIN cache, request' = NoRequest, stored' = FALSE,
         UNCHANGED <<cached, dbVars>>,
         "item" \notin asserted', asserted' \subseteq {"item", "empty socket"},
         \A i \in DOMAIN cache : cache[i] \in Item,
         \A i \in DOMAIN cache : cache[i].parent # NoItem => cache[i].parent \in dbUsed /\ cache[i].socket \in SocketIds,
         \A i, j \in DOMAIN cache :
           cache[i].parent # NoItem /\ cache[i].parent = cache[j].parent
             /\ cache[i].socket = cache[j].socket => i = j
  PROVE  IInv'
<1>1. TypeOK /\ DbRows
  BY DEF IInv
<1>2. DbRows' /\ DbItems' = DbItems
  BY <1>1, DbUnchanged
<1>3. Owned' = DbItems /\ DbItems \subseteq ItemIds
  BY <1>1, RowFields DEF Mirrors, Owned
<1>4. TypeOK'
  <2>1. NoRequest \in Request
    BY DEF Request, NoRequest
  <2>. QED  BY <1>1, <1>3, <2>1 DEF TypeOK, Owned, dbVars
<1>5. OneItemPerPlace'
  <2>1. \A p \in PresetIds : OnePerCategory({i \in DOMAIN cache : p \in cache[i].presets})
    BY <1>1, MirrorsOnePerCategory
  <2>2. \A p \in PresetIds : OnePerCategory(Worn(p))'
    BY <2>1 DEF Worn, Owned, OnePerCategory
  <2>. QED  BY <2>2 DEF OneItemPerPlace, Owned
<1>6. UpdatesFindTheirItems' /\ ParentsWereUsed'
  BY DEF UpdatesFindTheirItems, ParentsWereUsed, Owned, dbVars
<1>7. Session'
  BY <1>1, <1>3 DEF Session, Owned, DbRows, Mirrors, dbVars
<1>8. RequestOK'
  BY DEF RequestOK, NoRequest
<1>9. InStep'
  <2>1. dbCount' = dbCount /\ dbPresets' = dbPresets /\ dbSockets' = dbSockets /\ items' = cache
    BY DEF dbVars
  <2>2. /\ DOMAIN cache = DbItems
        /\ \A i \in DbItems : cache[i].count = dbCount[i]
        /\ \A i \in DbItems, p \in PresetIds :
             HasPlace(i) => (p \in cache[i].presets <=> \E c \in Categories : dbPresets[p][c] = i)
        /\ \A i, x \in DbItems, k \in SocketIds :
             dbSockets[x][k] = i <=> cache[i].parent = x /\ cache[i].socket = k
    BY DEF Mirrors
  <2>3. DOMAIN items' = DbItems' /\ \A i \in DbItems' : items'[i].count = dbCount'[i]
    BY <1>2, <2>1, <2>2
  <2>4. ASSUME NEW i \in DbItems'
        PROVE  /\ \A p \in PresetIds :
                    HasPlace(i) => (p \in items'[i].presets <=> \E c \in Categories : dbPresets'[p][c] = i)
               /\ \A x \in DbItems', k \in SocketIds :
                    dbSockets'[x][k] = i <=> items'[i].parent = x /\ items'[i].socket = k
    <3>1. i \in DbItems /\ items'[i] = cache[i]
      BY <1>2, <2>1
    <3>2. /\ \A p \in PresetIds :
               HasPlace(i) => (p \in cache[i].presets <=> \E c \in Categories : dbPresets[p][c] = i)
          /\ \A x \in DbItems, k \in SocketIds :
               dbSockets[x][k] = i <=> cache[i].parent = x /\ cache[i].socket = k
      BY <2>2, <3>1
    <3>3. \A p \in PresetIds :
            HasPlace(i) => (p \in items'[i].presets <=> \E c \in Categories : dbPresets'[p][c] = i)
      BY <2>1, <3>1, <3>2
    <3>4. \A x \in DbItems', k \in SocketIds :
            dbSockets'[x][k] = i <=> items'[i].parent = x /\ items'[i].socket = k
      <4>1. \A x \in DbItems, k \in SocketIds :
              dbSockets'[x][k] = i <=> items'[i].parent = x /\ items'[i].socket = k
        BY <2>1, <3>1, <3>2
      <4>. QED  BY <1>2, <4>1
    <3>. QED  BY <3>3, <3>4
  <2>5. Mirrors(items)'
    BY <2>3, <2>4 DEF Mirrors
  <2>. QED  BY <2>5 DEF InStep
<1>. QED  BY <1>2, <1>4, <1>5, <1>6, <1>7, <1>8, <1>9 DEF IInv

LEMMA UpdatePresetPreserves == IInv /\ UpdateItemPresetInfo => IInv'
<1>. SUFFICES ASSUME IInv, UpdateItemPresetInfo
              PROVE  IInv'
  OBVIOUS
<1>. DEFINE cache == PresetUpdated
<1>1. /\ request.type = "preset" /\ stored /\ request' = NoRequest /\ stored' = FALSE
      /\ UNCHANGED <<cached, dbVars>> /\ idSet' = idSet /\ items' = cache
      /\ Find(request.equip \union request.unequip)
  BY DEF UpdateItemPresetInfo, Answered, PresetUpdated
<1>2. TypeOK /\ OneItemPerPlace /\ PresetOK /\ cached /\ Mirrors(cache) /\ idSet = Owned
  BY <1>1 DEF IInv, RequestOK, Session, InStep, NoRequest
<1>3. /\ DOMAIN cache = Owned
      /\ \A i \in Owned :
           /\ cache[i] \in Item
           /\ cache[i].parent = items[i].parent /\ cache[i].socket = items[i].socket
  <2>1. DOMAIN cache = Owned
    BY DEF PresetUpdated
  <2>2. ASSUME NEW i \in Owned
        PROVE  /\ cache[i] \in Item
               /\ cache[i].parent = items[i].parent /\ cache[i].socket = items[i].socket
    <3>. DEFINE presets == IF i \in request.unequip THEN items[i].presets \ {request.preset}
                           ELSE IF i \in request.equip THEN items[i].presets \union {request.preset}
                           ELSE items[i].presets
    <3>1. cache[i] = [items[i] EXCEPT !.presets = presets]
      BY DEF PresetUpdated
    <3>2. presets \in SUBSET PresetIds
      BY <1>2, ItemFields DEF PresetOK
    <3>3. items[i] \in Item
      BY <1>2, ItemFields
    <3>. HIDE DEF presets, cache
    <3>. QED  BY <3>1, <3>2, <3>3 DEF Item
  <2>. QED  BY <2>1, <2>2
<1>4. "item" \notin asserted' /\ asserted' \subseteq {"item", "empty socket"}
  <2>1. request.equip \union request.unequip \subseteq Owned
    BY <1>2 DEF PresetOK, Worn
  <2>. QED  BY <1>1, <1>2, <2>1 DEF Find, IInv, UpdatesFindTheirItems, TypeOK
<1>. HIDE DEF cache
<1>5. \A i \in DOMAIN cache : cache[i].parent # NoItem => cache[i].parent \in dbUsed /\ cache[i].socket \in SocketIds
  BY <1>3 DEF IInv, ParentsWereUsed
<1>6. \A i, j \in DOMAIN cache :
        cache[i].parent # NoItem /\ cache[i].parent = cache[j].parent
          /\ cache[i].socket = cache[j].socket => i = j
  BY <1>2, <1>3 DEF OneItemPerPlace
<1>. QED  BY <1>1, <1>2, <1>3, <1>4, <1>5, <1>6, UpdatePreserves

LEMMA UpdateCountPreserves == IInv /\ UpdateItemCount => IInv'
<1>. SUFFICES ASSUME IInv, UpdateItemCount
              PROVE  IInv'
  OBVIOUS
<1>. DEFINE cache == CountUpdated
<1>1. /\ request.type = "count" /\ stored /\ request' = NoRequest /\ stored' = FALSE
      /\ UNCHANGED <<cached, dbVars>> /\ idSet' = idSet /\ asserted' = asserted /\ items' = cache
  BY DEF UpdateItemCount, Answered, CountUpdated
<1>2. TypeOK /\ OneItemPerPlace /\ CountOK /\ cached /\ Mirrors(cache) /\ idSet = Owned
  BY <1>1 DEF IInv, RequestOK, Session, InStep, NoRequest
<1>3. /\ DOMAIN cache = Owned
      /\ \A i \in Owned :
           /\ cache[i] \in Item
           /\ cache[i].parent = items[i].parent /\ cache[i].socket = items[i].socket
  <2>1. request.count \in Nat
    BY <1>2, InventoryAssumption DEF CountOK
  <2>. QED  BY <1>2, <2>1, ItemFields DEF CountUpdated, Item
<1>4. "item" \notin asserted' /\ asserted' \subseteq {"item", "empty socket"}
  BY <1>1, <1>2 DEF IInv, UpdatesFindTheirItems, TypeOK
<1>. HIDE DEF cache
<1>5. \A i \in DOMAIN cache : cache[i].parent # NoItem => cache[i].parent \in dbUsed /\ cache[i].socket \in SocketIds
  BY <1>3 DEF IInv, ParentsWereUsed
<1>6. \A i, j \in DOMAIN cache :
        cache[i].parent # NoItem /\ cache[i].parent = cache[j].parent
          /\ cache[i].socket = cache[j].socket => i = j
  BY <1>2, <1>3 DEF OneItemPerPlace
<1>. QED  BY <1>1, <1>2, <1>3, <1>4, <1>5, <1>6, UpdatePreserves

\* Deleted items are gone; those that were in their sockets are as before.
LEMMA DeletePreserves == IInv /\ DeleteItems => IInv'
<1>. SUFFICES ASSUME IInv, DeleteItems
              PROVE  IInv'
  OBVIOUS
<1>. DEFINE cache == DeleteUpdated
<1>1. /\ request.type = "delete" /\ stored /\ request' = NoRequest /\ stored' = FALSE
      /\ UNCHANGED <<cached, dbVars>> /\ idSet' = idSet \ request.ids
      /\ asserted' = IF request.ids \subseteq idSet THEN asserted ELSE asserted \union {"item"}
      /\ items' = [i \in Owned \ (request.ids \intersect idSet) |-> items[i]]
  BY DEF DeleteItems, Answered
<1>2. /\ TypeOK /\ OneItemPerPlace /\ cached /\ Mirrors(cache) /\ idSet = Owned
      /\ request.ids \subseteq Owned
  BY <1>1 DEF IInv, RequestOK, Session, InStep, NoRequest
<1>3. DOMAIN cache = Owned \ request.ids /\ \A i \in DOMAIN cache : cache[i] = items[i] /\ i \in Owned
  BY DEF DeleteUpdated
<1>4. items' = cache /\ idSet' = DOMAIN cache
  <2>1. Owned \ (request.ids \intersect idSet) = Owned \ request.ids
    BY <1>2
  <2>. QED  BY <1>1, <1>2, <1>3, <2>1 DEF DeleteUpdated
<1>5. "item" \notin asserted' /\ asserted' \subseteq {"item", "empty socket"}
  BY <1>1, <1>2 DEF IInv, UpdatesFindTheirItems, TypeOK
<1>. HIDE DEF cache
<1>6. \A i \in DOMAIN cache : cache[i] \in Item
  BY <1>2, <1>3, ItemFields
<1>7. \A i \in DOMAIN cache : cache[i].parent # NoItem => cache[i].parent \in dbUsed /\ cache[i].socket \in SocketIds
  BY <1>3 DEF IInv, ParentsWereUsed
<1>8. \A i, j \in DOMAIN cache :
        cache[i].parent # NoItem /\ cache[i].parent = cache[j].parent
          /\ cache[i].socket = cache[j].socket => i = j
  BY <1>2, <1>3 DEF OneItemPerPlace
<1>. QED  BY <1>1, <1>2, <1>4, <1>5, <1>6, <1>7, <1>8, UpdatePreserves

LEMMA AddPreserves == IInv /\ AddItems => IInv'
<1>. SUFFICES ASSUME IInv, AddItems
              PROVE  IInv'
  OBVIOUS
<1>. DEFINE cache == AddUpdated
<1>1. /\ request.type = "create" /\ stored /\ request' = NoRequest /\ stored' = FALSE
      /\ UNCHANGED <<cached, dbVars>> /\ idSet' = idSet \union request.ids
      /\ asserted' = IF request.ids \intersect idSet = {} THEN asserted
                     ELSE asserted \union {"item"}
      /\ items' = [i \in Owned \union (request.ids \ idSet) |->
                     IF i \in request.ids \ idSet THEN NewItem(1) ELSE items[i]]
  BY DEF AddItems, Answered
<1>2. /\ TypeOK /\ OneItemPerPlace /\ cached /\ Mirrors(cache) /\ idSet = Owned
      /\ request.ids \intersect Owned = {}
  BY <1>1 DEF IInv, RequestOK, CreateOK, Session, InStep, NoRequest
<1>3. /\ DOMAIN cache = Owned \union request.ids
      /\ \A i \in Owned : cache[i] = items[i]
      /\ \A i \in request.ids : cache[i] = NewItem(1)
  BY <1>2 DEF AddUpdated
<1>4. items' = cache /\ idSet' = DOMAIN cache
  <2>1. request.ids \ idSet = request.ids
    BY <1>2
  <2>. QED  BY <1>1, <1>2, <1>3, <2>1 DEF AddUpdated
<1>5. "item" \notin asserted' /\ asserted' \subseteq {"item", "empty socket"}
  BY <1>1, <1>2 DEF IInv, UpdatesFindTheirItems, TypeOK
<1>. HIDE DEF cache
<1>6. NewItem(1) \in Item /\ NewItem(1).parent = NoItem
  BY DEF NewItem, Item
<1>7. \A i \in DOMAIN cache : cache[i] \in Item
  BY <1>2, <1>3, <1>6, ItemFields
<1>8. \A i \in DOMAIN cache :
        cache[i].parent # NoItem => i \in Owned /\ cache[i] = items[i]
  BY <1>3, <1>6
<1>9. \A i \in DOMAIN cache : cache[i].parent # NoItem => cache[i].parent \in dbUsed /\ cache[i].socket \in SocketIds
  BY <1>8 DEF IInv, ParentsWereUsed
<1>10. \A i, j \in DOMAIN cache :
         cache[i].parent # NoItem /\ cache[i].parent = cache[j].parent
           /\ cache[i].socket = cache[j].socket => i = j
  BY <1>2, <1>8 DEF OneItemPerPlace
<1>. QED  BY <1>1, <1>2, <1>4, <1>5, <1>7, <1>9, <1>10, UpdatePreserves

\* The child is the only item at its new place, and the others are where the
\* row has them.
LEMMA UpdateSocketPreserves == IInv /\ UpdateItemSocketInfo => IInv'
<1>. SUFFICES ASSUME IInv, UpdateItemSocketInfo
              PROVE  IInv'
  OBVIOUS
<1>. DEFINE parent == request.parent
            child == request.child
            cache == SocketUpdated
<1>1. /\ request.type = "socket" /\ stored /\ request' = NoRequest /\ stored' = FALSE
      /\ UNCHANGED <<cached, dbVars>> /\ idSet' = idSet
  BY DEF UpdateItemSocketInfo, Answered
<1>2. TypeOK /\ OneItemPerPlace /\ SocketOK /\ cached /\ Mirrors(cache) /\ idSet = Owned /\ Owned \subseteq dbUsed
  BY <1>1 DEF IInv, RequestOK, Session, InStep, NoRequest
<1>3. parent \in Owned /\ child \in Owned /\ items[child].parent = NoItem
  BY <1>2 DEF SocketOK
<1>4. PICK k \in AskedSockets :
        /\ \A i \in Owned : items[i].parent = parent => items[i].socket # k
        /\ request.row = SocketRowWith(k, parent, child)
  BY <1>2 DEF SocketOK
<1>5. parent \in ItemIds /\ child \in ItemIds /\ parent # NoItem /\ child # NoItem
  BY <1>2, <1>3, ItemFields
<1>6. /\ SocketRow(parent) \in Row(SocketIds)
      /\ \A l \in SocketIds, i \in ItemIds :
           SocketRow(parent)[l] = i <=> i \in Owned /\ items[i].parent = parent /\ items[i].socket = l
  BY <1>2, <1>5, SocketRowFacts
<1>7. \A l \in SocketIds : request.row[l] = IF l = k THEN child ELSE SocketRow(parent)[l]
  BY <1>4, <1>6 DEF Row, SocketRowWith
<1>. DEFINE set == \E l \in SocketIds : request.row[l] = child
<1>8. (set => k \in SocketIds /\ Place(child) = k)
  <2>1. \A l \in SocketIds : request.row[l] = child <=> l = k
    BY <1>3, <1>5, <1>6, <1>7
  <2>. QED  BY <2>1 DEF Place
<1>9. items' = cache
  <2>1. items' = [i \in Owned |->
          IF parent \in Owned /\ i = child /\ \E l \in SocketIds : request.row[l] = i
          THEN [items[i] EXCEPT !.parent = parent, !.socket = Place(i)]
          ELSE items[i]]
    BY Zenon DEF UpdateItemSocketInfo, Place
  <2>. QED  BY <1>3, <2>1 DEF SocketUpdated
<1>10. "item" \notin asserted' /\ asserted' \subseteq {"item", "empty socket"}
  <2>1. ASSUME NEW l \in SocketIds, request.row[l] \notin {NoItem, child}
        PROVE  /\ request.row[l] \in Owned
               /\ items[request.row[l]].parent = parent /\ items[request.row[l]].socket = l
    <3>1. request.row[l] = SocketRow(parent)[l] /\ request.row[l] \in ItemIds
      BY <1>6, <1>7, <2>1 DEF Row
    <3>. QED  BY <1>6, <3>1
  <2>2. asserted' = asserted
          \union {a \in {"item"} :
                    \/ parent \notin Owned
                    \/ \E l \in SocketIds :
                         LET i == request.row[l] IN
                         /\ i \notin {NoItem, child}
                         /\ \/ i \notin Owned
                            \/ items[i].parent # parent \/ items[i].socket # l}
          \union {a \in {"empty socket"} : \E l \in SocketIds : request.row[l] = NoItem}
    BY DEF UpdateItemSocketInfo
  <2>3. asserted' \subseteq asserted \union {"empty socket"}
    BY <1>3, <2>1, <2>2
  <2>. QED  BY <1>2, <2>3 DEF IInv, UpdatesFindTheirItems, TypeOK
<1>11. /\ DOMAIN cache = Owned
       /\ \A i \in Owned :
            /\ cache[i] \in Item
            /\ cache[i].parent = IF i = child /\ set THEN parent ELSE items[i].parent
            /\ cache[i].socket = IF i = child /\ set THEN k ELSE items[i].socket
  BY <1>2, <1>5, <1>8, ItemFields DEF SocketUpdated, Item
<1>. HIDE DEF cache
<1>12. \A i \in DOMAIN cache : cache[i].parent # NoItem => cache[i].parent \in dbUsed /\ cache[i].socket \in SocketIds
  BY <1>2, <1>3, <1>8, <1>11 DEF IInv, ParentsWereUsed
<1>13. ASSUME NEW i \in DOMAIN cache, NEW j \in DOMAIN cache,
              cache[i].parent # NoItem, cache[i].parent = cache[j].parent,
              cache[i].socket = cache[j].socket
       PROVE  i = j
  <2>1. CASE set /\ (i = child \/ j = child)
    BY <1>4, <1>8, <1>11, <1>13, <2>1
  <2>2. CASE ~set \/ (i # child /\ j # child)
    BY <1>2, <1>11, <1>13, <2>2 DEF OneItemPerPlace
  <2>. QED  BY <2>1, <2>2
<1>. QED  BY <1>1, <1>2, <1>9, <1>10, <1>11, <1>12, <1>13, UpdatePreserves

-----------------------------------------------------------------------------
(* Theorems.                                                               *)

LEMMA NextPreserves == IInv /\ [Next]_vars => IInv'
<1>. SUFFICES ASSUME IInv, [Next]_vars
              PROVE  IInv'
  OBVIOUS
<1>1. CASE CacheItemDataList
  BY <1>1, LoginPreserves
<1>2. CASE Logout
  BY <1>2, LogoutPreserves
<1>3. CASE Validate
  <2>1. ASSUME NEW p \in PresetIds, NEW equip \in SUBSET ItemIds, NEW unequip \in SUBSET ItemIds,
               ValidateItemPresetUpdate(p, equip, unequip)
        PROVE  IInv'
    BY <2>1, ValidatePresetPreserves
  <2>2. ASSUME NEW k \in AskedSockets, NEW parent \in ItemIds, NEW child \in ItemIds,
               ValidateItemSocketUpdate(k, parent, child)
        PROVE  IInv'
    BY <2>2, ValidateSocketPreserves
  <2>3. ASSUME NEW i \in ItemIds \ Equipment, NEW n \in 1..MaxItemCount,
               ValidateIncreaseItems(i, n) \/ ValidateDecreaseItems(i, n)
        PROVE  IInv'
    BY <2>3, ValidateCountPreserves
  <2>4. ASSUME NEW ids \in SUBSET ItemIds, ValidateDeleteItems(ids) \/ ValidateCreateItems(ids)
        PROVE  IInv'
    BY <2>4, ValidateDeletePreserves, ValidateCreatePreserves
  <2>. QED  BY <1>3, <2>1, <2>2, <2>3, <2>4 DEF Validate
<1>4. CASE DatabaseStores
  <2>1. request.type \in {"preset", "socket", "count", "delete", "create"}
    BY <1>4 DEF DatabaseStores, Store
  <2>. QED  BY <1>4, <2>1, StorePresetPreserves, StoreSocketPreserves, StoreCountPreserves,
               StoreDeletePreserves, StoreCreatePreserves
<1>5. CASE DatabaseRefuses
  BY <1>5, RefusalPreserves
<1>6. CASE Update
  BY <1>6, UpdatePresetPreserves, UpdateSocketPreserves, UpdateCountPreserves,
     DeletePreserves, AddPreserves DEF Update
<1>7. CASE UNCHANGED vars
  <2>1. /\ items' = items /\ idSet' = idSet /\ cached' = cached /\ UNCHANGED cacheVars /\ UNCHANGED dbVars
        /\ dbCount' = dbCount /\ dbUsed' = dbUsed /\ dbPresets' = dbPresets /\ dbSockets' = dbSockets
        /\ request' = request /\ stored' = stored /\ asserted' = asserted
    BY <1>7 DEF vars, cacheVars, dbVars
  <2>2. DbRows' /\ DbItems' = DbItems /\ Owned' = Owned /\ OneItemPerPlace'
    BY <2>1, DbUnchanged, CacheUnchanged DEF IInv
  <2>3. TypeOK' /\ UpdatesFindTheirItems' /\ Session' /\ ParentsWereUsed'
    BY <2>1, <2>2 DEF IInv, TypeOK, UpdatesFindTheirItems, Session, ParentsWereUsed
  <2>4. PresetOK' = PresetOK /\ SocketOK' = SocketOK
    BY <2>1, <2>2 DEF PresetOK, SocketOK, Worn, OnePerCategory, PresetRow, SocketRow, SocketRowWith
  <2>5. RequestOK'
    BY <2>1, <2>2, <2>4 DEF IInv, RequestOK, CountOK, CreateOK
  <2>6. /\ PresetUpdated' = PresetUpdated /\ SocketUpdated' = SocketUpdated
        /\ CountUpdated' = CountUpdated /\ DeleteUpdated' = DeleteUpdated
        /\ AddUpdated' = AddUpdated
    BY <2>1, <2>2 DEF PresetUpdated, SocketUpdated, Place, CountUpdated, DeleteUpdated, AddUpdated, NewItem
  <2>7. InStep'
    BY <2>1, <2>2, <2>6 DEF IInv, InStep, Mirrors
  <2>. QED  BY <2>2, <2>3, <2>5, <2>7 DEF IInv
<1>. QED  BY <1>1, <1>2, <1>3, <1>4, <1>5, <1>6, <1>7 DEF Next

THEOREM Invariance == Spec => []IInv
BY InitHolds, NextPreserves, PTL DEF Spec

\* The cache, the request under way and the rows keep their types: no count
\* passes the limit.
THEOREM TypeCorrect == Spec => []TypeOK
<1>1. IInv => TypeOK
  BY DEF IInv
<1>. QED  BY <1>1, Invariance, PTL

\* No place of a preset and no socket ever holds two items.
THEOREM OnePerPlace == Spec => []OneItemPerPlace
<1>1. IInv => OneItemPerPlace
  BY DEF IInv
<1>. QED  BY <1>1, Invariance, PTL

\* When the database has stored a request, the cache still has the items and
\* the sockets it was validated with.
THEOREM UpdatesFind == Spec => []UpdatesFindTheirItems
<1>1. IInv => UpdatesFindTheirItems
  BY DEF IInv
<1>. QED  BY <1>1, Invariance, PTL

\* Between requests the cache is what a login would load, except that the
\* items of a deleted parent still name it, and that an item presets have no
\* place for is loaded into none.
THEOREM CacheIsDatabase == Spec => []CacheMatchesDatabase
<1>1. IInv => CacheMatchesDatabase
  <2>. SUFFICES ASSUME IInv, cached, request = NoRequest
                PROVE  /\ Owned = DbItems
                       /\ idSet = DbItems
                       /\ \A i \in Owned :
                            LET loaded == LoadItem(i) IN
                            /\ items[i].count = loaded.count
                            /\ IF Category[i] \in Categories
                               THEN items[i].presets = loaded.presets
                               ELSE loaded.presets = {}
                            /\ IF items[i].parent \in Owned
                               THEN items[i].parent = loaded.parent /\ items[i].socket = loaded.socket
                               ELSE loaded.parent = NoItem
    BY DEF CacheMatchesDatabase
  <2>. DEFINE login == [i \in DbItems |-> LoadItem(i)]
  <2>1. TypeOK /\ DbRows /\ Mirrors(items) /\ idSet = Owned
    BY DEF IInv, Session, InStep
  <2>2. Owned = DbItems
    BY <2>1 DEF Mirrors, Owned
  <2>3. Mirrors(login) /\ \A i \in DbItems : login[i] = LoadItem(i)
    BY <2>1, LoginMirrors
  <2>4. \A i \in DbItems : LoadItem(i).parent # NoItem =>
          LoadItem(i).parent \in DbItems /\ LoadItem(i).socket \in SocketIds
    BY <2>1, LoginMirrors
  <2>5. \A i \in DbItems : LoadItem(i) \in Item
    BY <2>1, LoginMirrors
  <2>. HIDE DEF login
  <2>6. ASSUME NEW i \in DbItems
        PROVE  /\ items[i].count = LoadItem(i).count
               /\ IF Category[i] \in Categories
                  THEN items[i].presets = LoadItem(i).presets
                  ELSE LoadItem(i).presets = {}
    <3>1. HasPlace(i) =>
            \A p \in PresetIds : p \in items[i].presets <=> p \in LoadItem(i).presets
      BY <2>1, <2>3 DEF Mirrors
    <3>2. items[i].presets \subseteq PresetIds /\ LoadItem(i).presets \subseteq PresetIds
      BY <2>1, <2>2, <2>5, ItemFields DEF Item
    <3>3. CASE HasPlace(i)
      <4>1. items[i].presets = LoadItem(i).presets
        BY <3>1, <3>2, <3>3
      <4>. QED  BY <2>1, <2>3, <3>3, <4>1 DEF Mirrors, HasPlace
    <3>4. CASE ~HasPlace(i)
      <4>1. \A p \in PresetIds, c \in Categories : dbPresets[p][c] # i
        BY <2>1, <3>4, RowFields DEF DbRows, HasPlace
      <4>2. LoadItem(i).presets = {}
        BY <4>1 DEF LoadItem, PresetsOf
      <4>. QED  BY <2>1, <2>3, <3>4, <4>2 DEF Mirrors, HasPlace
    <3>. QED  BY <3>3, <3>4
  <2>7. ASSUME NEW i \in DbItems, NEW x \in DbItems, NEW k \in SocketIds
        PROVE  items[i].parent = x /\ items[i].socket = k
                 <=> LoadItem(i).parent = x /\ LoadItem(i).socket = k
    BY <2>1, <2>3 DEF Mirrors
  <2>8. ASSUME NEW i \in DbItems
        PROVE  IF items[i].parent \in DbItems
               THEN items[i].parent = LoadItem(i).parent /\ items[i].socket = LoadItem(i).socket
               ELSE LoadItem(i).parent = NoItem
    <3>1. CASE items[i].parent \in DbItems
      <4>1. items[i].socket \in SocketIds
        BY <2>1, <2>2, <3>1, RowFields DEF IInv, ParentsWereUsed
      <4>. QED  BY <2>7, <3>1, <4>1
    <3>2. CASE items[i].parent \notin DbItems
      BY <2>4, <2>7, <3>2
    <3>. QED  BY <3>1, <3>2
  <2>. QED  BY <2>1, <2>2, <2>6, <2>8
<1>. QED  BY <1>1, Invariance, PTL
=============================================================================
