----------------------------- MODULE ItemStack -----------------------------
(***************************************************************************)
(* The stack of an item of the world server, C++/Item.cpp: pure arithmetic *)
(* on the count the item has and the most its template allows, which may   *)
(* have become smaller than the count since the item was stored.           *)
(*                                                                         *)
(* ItemCount is not in the repository.  By the comment at Item.cpp:183 it  *)
(* has negative values; it is taken to be wide enough for a count and a    *)
(* 16-bit difference.  A count of 0 fails a debug assertion, which release  *)
(* builds leave out.                                                       *)
(***************************************************************************)
EXTENDS Integers, TLAPS

Item == [count : Nat, maxCount : Nat]
Int16 == -(2^15)..(2^15 - 1)

\* std::clamp and std::max, as far as they are used.
Clamp(n, low, high) == IF n < low THEN low ELSE IF high < n THEN high ELSE n
Largest(m, n) == IF m < n THEN n ELSE m

\* What has no room in a stack of n.
Excess(n, high) == IF n > high THEN n - high ELSE 0

\* The new stack, and what is returned to the caller.
SetCount(item, n) ==
  [item |-> [item EXCEPT !.count = Clamp(n, 0, item.maxCount)], left |-> Excess(n, item.maxCount)]

ChangeCount(item, delta) == SetCount(item, item.count + delta)

\* MIN_ITEM_COUNT is taken to be 0.
GetRemainStackCount(item) == Largest(0, item.maxCount - item.count)

-----------------------------------------------------------------------------
(* What the operations promise to a caller who spreads items over stacks.  *)

\* The fields of a changed stack.
LEMMA ChangeFields ==
  ASSUME NEW item \in Item, NEW n
  PROVE  /\ SetCount(item, n).item = [item EXCEPT !.count = Clamp(n, 0, item.maxCount)]
         /\ SetCount(item, n).item.count = Clamp(n, 0, item.maxCount)
         /\ SetCount(item, n).left = Excess(n, item.maxCount)
BY DEF SetCount, Item

LEMMA CountTypes ==
  ASSUME NEW item \in Item, NEW delta \in Int16
  PROVE  item.count \in Nat /\ item.maxCount \in Nat /\ delta \in Int /\ item.count + delta \in Int
<1>1. item.count \in Nat /\ item.maxCount \in Nat
  BY DEF Item
<1>2. delta \in Int
  BY DEF Int16
<1>. QED  BY <1>1, <1>2

\* The arithmetic of the theorems, apart from the records.
LEMMA ClampFacts ==
  ASSUME NEW n \in Int, NEW high \in Nat
  PROVE  /\ Clamp(n, 0, high) \in Nat
         /\ Clamp(n, 0, high) <= high
         /\ Excess(n, high) \in Nat
         /\ n >= high => Clamp(n, 0, high) = high /\ Excess(n, high) = n - high
         /\ Excess(n, high) = 0 <=> n <= high
         /\ Clamp(n, 0, high) + Excess(n, high) = Largest(0, n)
<1>1. CASE n < 0
  BY <1>1 DEF Clamp, Excess, Largest
<1>2. CASE 0 <= n /\ n <= high
  BY <1>2 DEF Clamp, Excess, Largest
<1>3. CASE high < n
  BY <1>3 DEF Clamp, Excess, Largest
<1>. QED  BY <1>1, <1>2, <1>3

\* A stack never leaves its bounds, whatever is added to it or taken.
THEOREM StackStaysInBounds ==
  ASSUME NEW item \in Item, NEW delta \in Int16
  PROVE  /\ ChangeCount(item, delta).item \in Item
         /\ ChangeCount(item, delta).item.count <= item.maxCount
         /\ ChangeCount(item, delta).left \in Nat
<1>. DEFINE n == item.count + delta
            count == Clamp(n, 0, item.maxCount)
<1>1. n \in Int /\ item.maxCount \in Nat
  BY CountTypes
<1>. HIDE DEF n
<1>2. count \in Nat /\ count <= item.maxCount /\ Excess(n, item.maxCount) \in Nat
  BY <1>1, ClampFacts
<1>. HIDE DEF count
<1>3. [item EXCEPT !.count = count] \in Item
  BY <1>2 DEF Item
<1>4. /\ SetCount(item, n).item = [item EXCEPT !.count = count]
      /\ SetCount(item, n).item.count = count
      /\ SetCount(item, n).left = Excess(n, item.maxCount)
  BY ChangeFields DEF count
<1>. QED  BY <1>2, <1>3, <1>4 DEF ChangeCount, n

\* Nothing is lost: the new stack and what is returned make up the sum, also
\* when the template allows less than the item has.  Taking more than there is
\* is the exception: the missing items are not reported.
THEOREM NothingIsLost ==
  ASSUME NEW item \in Item, NEW delta \in Int16
  PROVE  ChangeCount(item, delta).item.count + ChangeCount(item, delta).left
           = Largest(0, item.count + delta)
<1>. DEFINE n == item.count + delta
<1>1. n \in Int /\ item.maxCount \in Nat
  BY CountTypes
<1>. HIDE DEF n
<1>2. SetCount(item, n).item.count = Clamp(n, 0, item.maxCount) /\ SetCount(item, n).left = Excess(n, item.maxCount)
  BY ChangeFields
<1>3. SetCount(item, n).item.count + SetCount(item, n).left = Largest(0, n)
  BY <1>1, <1>2, ClampFacts
<1>. QED  BY <1>3 DEF ChangeCount, n

\* The room GetRemainStackCount reports is the room there is: within it,
\* everything goes into the stack, and one more does not.
THEOREM RoomIsExact ==
  ASSUME NEW item \in Item, item.count <= item.maxCount, NEW delta \in Int16
  PROVE  ChangeCount(item, delta).left = 0 <=> delta <= GetRemainStackCount(item)
<1>. DEFINE n == item.count + delta
<1>1. n \in Int /\ item.maxCount \in Nat /\ item.count \in Nat /\ delta \in Int
  BY CountTypes
<1>2. GetRemainStackCount(item) = item.maxCount - item.count
  BY <1>1 DEF GetRemainStackCount, Largest
<1>3. n <= item.maxCount <=> delta <= item.maxCount - item.count
  BY <1>1
<1>. HIDE DEF n
<1>4. SetCount(item, n).left = Excess(n, item.maxCount)
  BY ChangeFields
<1>5. SetCount(item, n).left = 0 <=> n <= item.maxCount
  BY <1>1, <1>4, ClampFacts
<1>. QED  BY <1>2, <1>3, <1>5 DEF ChangeCount, n

\* A stack its template has outgrown has no room, and a change that leaves it
\* above the limit, one that takes some of it included, returns the excess.
THEOREM OutgrownStackShrinks ==
  ASSUME NEW item \in Item, item.maxCount < item.count,
         NEW delta \in Int16, item.count + delta >= item.maxCount
  PROVE  /\ GetRemainStackCount(item) = 0
         /\ ChangeCount(item, delta).item.count = item.maxCount
         /\ ChangeCount(item, delta).left = (item.count + delta) - item.maxCount
<1>. DEFINE n == item.count + delta
<1>1. n \in Int /\ item.maxCount \in Nat /\ item.count \in Nat /\ n >= item.maxCount
  BY CountTypes
<1>2. GetRemainStackCount(item) = 0
  BY <1>1 DEF GetRemainStackCount, Largest
<1>. HIDE DEF n
<1>3. SetCount(item, n).item.count = Clamp(n, 0, item.maxCount) /\ SetCount(item, n).left = Excess(n, item.maxCount)
  BY ChangeFields
<1>4. SetCount(item, n).item.count = item.maxCount /\ SetCount(item, n).left = n - item.maxCount
  BY <1>1, <1>3, ClampFacts
<1>5. ChangeCount(item, delta) = SetCount(item, n)
  BY DEF ChangeCount, n
<1>6. ChangeCount(item, delta).item.count = item.maxCount /\ ChangeCount(item, delta).left = n - item.maxCount
  BY <1>4, <1>5
<1>. QED  BY <1>2, <1>6 DEF n
=============================================================================
