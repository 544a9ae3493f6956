------------------------ MODULE ChatSessionsProofs -------------------------
(***************************************************************************)
(* TLAPS proofs about ChatSessions, for any sessions, channels and orders  *)
(* of greeting: its invariants, under every interleaving of the threads.   *)
(***************************************************************************)
EXTENDS ChatSessions, SequenceTheorems, TLAPS

(***************************************************************************)
(* What holds of one session.                                              *)
(***************************************************************************)

\* The callbacks come in order, and each thread has what its next step needs.
Threads(u) ==
  /\ conn[u] = "closed" <=> leave[u] # "none"
  /\ conn[u] = "new" => step[u] = "none"
  /\ step[u] \in EnterSteps \ {"auth"} => todo[u] # <<>>
  /\ step[u] = "addBag" => bagRef[u] # 0
  /\ leave[u] = "read" => leaveBag[u] \in 1..Len(bags[u])

\* A thread that creates a channel has subscribed to it, and one that enters
\* a channel has found or made it.
Feeds(u) ==
  /\ step[u] = "addChannel" => redis[Head(todo[u])] > 0
  /\ step[u] = "addUser" => Head(todo[u]) \in channels

\* The channel a session is in and not recorded in yet.
Unrecorded(u) == IF step[u] \in {"getBag", "addBag"} THEN {Head(todo[u])} ELSE {}

\* Where the channels that hold a session are written down, when none of its
\* own calls has overtaken another one: in its entry, then in the bag its
\* leaving took out, then in the list that is still to be visited.
Books(u) ==
  /\ step[u] = "none" => cur[u] = 0 /\ Subscribed(u) = {}
  /\ clean[u] /\ leave[u] # "none" => ~Entering(u)
  /\ clean[u] /\ step[u] = "addBag" => bagRef[u] = cur[u]
  /\ clean[u] /\ leave[u] \in {"none", "take"} => Subscribed(u) = Recorded(u) \union Unrecorded(u)
  /\ clean[u] /\ leave[u] \notin {"none", "take"} => cur[u] = 0
  /\ clean[u] /\ leave[u] = "read" => Subscribed(u) = bags[u][leaveBag[u]]
  /\ clean[u] /\ leave[u] = "visit" => Subscribed(u) = leaving[u]
  /\ clean[u] /\ leave[u] = "done" => Subscribed(u) = {}

SessionOK(u) == Threads(u) /\ Feeds(u) /\ Books(u)

\* The inductive invariant.
IInv ==
  /\ TypeOK
  /\ ChannelsAreFed
  /\ \A u \in Users : SessionOK(u)

-----------------------------------------------------------------------------
(* What the other sessions' threads do to a session.                       *)

Untouched(w) ==
  /\ conn'[w] = conn[w] /\ clean'[w] = clean[w]
  /\ step'[w] = step[w] /\ todo'[w] = todo[w] /\ bagRef'[w] = bagRef[w]
  /\ bags'[w] = bags[w] /\ cur'[w] = cur[w]
  /\ leave'[w] = leave[w] /\ leaveBag'[w] = leaveBag[w] /\ leaving'[w] = leaving[w]
  /\ \A c \in Channels : w \in members'[c] <=> w \in members[c]

\* Channels and their subscriptions are never given up.
Grows ==
  /\ channels \subseteq channels'
  /\ \A c \in Channels : redis[c] > 0 => redis'[c] > 0

\* A thread that has a channel to enter has one of the channels.
LEMMA NextChannel ==
  ASSUME TypeOK, NEW u \in Users, todo[u] # <<>>
  PROVE  Head(todo[u]) \in Channels /\ Tail(todo[u]) \in Seq(Channels)
BY HeadTailProperties DEF TypeOK

\* Whatever others do to the dictionaries, a session that is not touched
\* itself is as well off as before.
LEMMA OthersOK ==
  ASSUME TypeOK, NEW w \in Users, SessionOK(w), Untouched(w), Grows
  PROVE  SessionOK(w)'
<1>1. Subscribed(w)' = Subscribed(w)
  BY DEF Subscribed, Untouched
<1>2. Threads(w)'
  BY DEF SessionOK, Threads, Untouched
<1>3. Feeds(w)'
  <2>1. step[w] \in {"addChannel", "addUser"} => Head(todo[w]) \in Channels
    BY NextChannel DEF SessionOK, Threads, EnterSteps
  <2>. QED  BY <2>1 DEF SessionOK, Feeds, Untouched, Grows
<1>4. Books(w)'
  BY <1>1 DEF SessionOK, Books, Untouched, Recorded, Unrecorded, Entering
<1>. QED  BY <1>2, <1>3, <1>4 DEF SessionOK

LEMMA SessionStep ==
  ASSUME IInv, NEW u \in Users, TypeOK', ChannelsAreFed', SessionOK(u)', Grows,
         \A w \in Users \ {u} : Untouched(w)
  PROVE  IInv'
<1>1. ASSUME NEW w \in Users
      PROVE  SessionOK(w)'
  <2>1. CASE w = u
    BY <2>1
  <2>2. CASE w # u
    BY <2>2, OthersOK DEF IInv
  <2>. QED  BY <2>1, <2>2
<1>. QED  BY <1>1 DEF IInv

-----------------------------------------------------------------------------
(* The callbacks.                                                          *)

LEMMA OnOpenStep ==
  ASSUME IInv, NEW u \in Users, OnOpen(u)
  PROVE  IInv'
<1>. USE DEF OnOpen, dictVars, leaveVars
<1>1. TypeOK'
  BY DEF IInv, TypeOK, EnterSteps
<1>2. ChannelsAreFed' /\ Grows
  BY DEF IInv, ChannelsAreFed, Grows
<1>3. SessionOK(u)'
  <2>1. Threads(u)'
    BY DEF IInv, TypeOK, SessionOK, Threads, Books, EnterSteps
  <2>2. Feeds(u)'
    BY DEF IInv, TypeOK, SessionOK, Feeds
  <2>3. Books(u)'
    BY DEF IInv, TypeOK, SessionOK, Threads, Books, Subscribed, Recorded, Unrecorded,
           Entering, EnterSteps
  <2>. QED  BY <2>1, <2>2, <2>3 DEF SessionOK
<1>4. \A w \in Users \ {u} : Untouched(w)
  BY DEF IInv, TypeOK, Untouched
<1>. QED  BY <1>1, <1>2, <1>3, <1>4, SessionStep

LEMMA OnCloseStep ==
  ASSUME IInv, NEW u \in Users, OnClose(u)
  PROVE  IInv'
<1>. USE DEF OnClose, enterVars, dictVars
<1>1. TypeOK'
  <2>1. /\ conn' \in [Users -> {"new", "open", "closed"}]
        /\ leave' \in [Users -> {"none", "take", "read", "visit", "done"}]
        /\ clean' \in [Users -> BOOLEAN]
    BY DEF IInv, TypeOK
  <2>2. forgets' \in [Users -> Nat]
    BY DEF IInv, TypeOK
  <2>3. UNCHANGED <<enterVars, dictVars, leaveBag, leaving, errors>>
    OBVIOUS
  <2>. HIDE DEF OnClose
  <2>. QED  BY <2>1, <2>2, <2>3 DEF IInv, TypeOK
<1>2. ChannelsAreFed' /\ Grows
  BY DEF IInv, ChannelsAreFed, Grows
<1>3. SessionOK(u)'
  <2>1. Threads(u)'
    BY DEF IInv, TypeOK, SessionOK, Threads, Books, EnterSteps
  <2>2. Feeds(u)'
    BY DEF IInv, TypeOK, SessionOK, Feeds
  <2>3. Books(u)'
    BY DEF IInv, TypeOK, SessionOK, Threads, Books, Subscribed, Recorded, Unrecorded,
           Entering, EnterSteps
  <2>. QED  BY <2>1, <2>2, <2>3 DEF SessionOK
<1>4. \A w \in Users \ {u} : Untouched(w)
  BY DEF IInv, TypeOK, Untouched
<1>. QED  BY <1>1, <1>2, <1>3, <1>4, SessionStep

LEMMA OnErrorStep ==
  ASSUME IInv, NEW u \in Users, OnError(u)
  PROVE  IInv'
<1>. USE DEF OnError, enterVars, dictVars, leaveVars
<1>1. TypeOK'
  <2>1. errors[u] + 1 \in 0..MaxErrors
    BY ChatAssumption DEF IInv, TypeOK
  <2>2. errors' \in [Users -> 0..MaxErrors] /\ forgets' \in [Users -> Nat]
    BY <2>1 DEF IInv, TypeOK
  <2>. QED  BY <2>2 DEF IInv, TypeOK
<1>2. ChannelsAreFed' /\ Grows
  BY DEF IInv, ChannelsAreFed, Grows
<1>3. SessionOK(u)'
  <2>1. Threads(u)'
    BY DEF IInv, TypeOK, SessionOK, Threads, Books, EnterSteps
  <2>2. Feeds(u)'
    BY DEF IInv, TypeOK, SessionOK, Feeds
  <2>3. Books(u)'
    BY DEF IInv, TypeOK, SessionOK, Threads, Books, Subscribed, Recorded, Unrecorded,
           Entering, EnterSteps
  <2>. QED  BY <2>1, <2>2, <2>3 DEF SessionOK
<1>4. \A w \in Users \ {u} : Untouched(w)
  BY DEF Untouched
<1>. QED  BY <1>1, <1>2, <1>3, <1>4, SessionStep

-----------------------------------------------------------------------------
(* InitClientAsync.                                                        *)

LEMMA AuthVerifyStep ==
  ASSUME IInv, NEW u \in Users, AuthVerify(u)
  PROVE  IInv'
<1>. USE DEF AuthVerify, dictVars, leaveVars
<1>1. TypeOK'
  <2>1. todo' \in [Users -> Seq(Channels)]
    <3>1. GreetOrder[u] \in Seq(Channels)
      BY ChatAssumption
    <3>. QED  BY <3>1 DEF IInv, TypeOK
  <2>2. step' \in [Users -> EnterSteps \union {"none", "done", "failed"}]
    BY DEF IInv, TypeOK, EnterSteps
  <2>. QED  BY <2>1, <2>2 DEF IInv, TypeOK
<1>2. ChannelsAreFed' /\ Grows
  BY DEF IInv, ChannelsAreFed, Grows
<1>3. SessionOK(u)'
  <2>1. Threads(u)'
    BY DEF IInv, TypeOK, SessionOK, Threads, Books, EnterSteps
  <2>2. Feeds(u)'
    BY DEF IInv, TypeOK, SessionOK, Feeds
  <2>3. Books(u)'
    BY DEF IInv, TypeOK, SessionOK, Threads, Books, Subscribed, Recorded, Unrecorded,
           Entering, EnterSteps
  <2>. QED  BY <2>1, <2>2, <2>3 DEF SessionOK
<1>4. \A w \in Users \ {u} : Untouched(w)
  BY DEF IInv, TypeOK, Untouched
<1>. QED  BY <1>1, <1>2, <1>3, <1>4, SessionStep

LEMMA LookupChannelStep ==
  ASSUME IInv, NEW u \in Users, LookupChannel(u)
  PROVE  IInv'
<1>. USE DEF LookupChannel, dictVars, leaveVars
<1>1. TypeOK'
  BY DEF IInv, TypeOK, EnterSteps
<1>2. ChannelsAreFed' /\ Grows
  BY DEF IInv, ChannelsAreFed, Grows
<1>3. SessionOK(u)'
  <2>1. Threads(u)'
    BY DEF IInv, TypeOK, SessionOK, Threads, Books, EnterSteps
  <2>2. Feeds(u)'
    BY DEF IInv, TypeOK, SessionOK, Feeds
  <2>3. Books(u)'
    BY DEF IInv, TypeOK, SessionOK, Threads, Books, Subscribed, Recorded, Unrecorded,
           Entering, EnterSteps
  <2>. QED  BY <2>1, <2>2, <2>3 DEF SessionOK
<1>4. \A w \in Users \ {u} : Untouched(w)
  BY DEF IInv, TypeOK, Untouched
<1>. QED  BY <1>1, <1>2, <1>3, <1>4, SessionStep

LEMMA SubscribeChannelStep ==
  ASSUME IInv, NEW u \in Users, SubscribeChannel(u)
  PROVE  IInv'
<1>. USE DEF SubscribeChannel, leaveVars
<1>0. Head(todo[u]) \in Channels
  BY NextChannel DEF IInv, SessionOK, Threads, EnterSteps
<1>1. TypeOK'
  <2>1. step' \in [Users -> EnterSteps \union {"none", "done", "failed"}]
    BY DEF IInv, TypeOK, EnterSteps
  <2>2. redis' \in [Channels -> Nat]
    BY <1>0 DEF IInv, TypeOK
  <2>3. UNCHANGED <<conn, todo, bagRef, channels, members, bags, cur, leaveVars, forgets, errors, clean>>
    OBVIOUS
  <2>. HIDE DEF SubscribeChannel
  <2>. QED  BY <2>1, <2>2, <2>3 DEF IInv, TypeOK
<1>2. ChannelsAreFed' /\ Grows
  BY <1>0 DEF IInv, TypeOK, ChannelsAreFed, Grows
<1>3. SessionOK(u)'
  <2>1. Threads(u)'
    BY <1>0 DEF IInv, TypeOK, SessionOK, Threads, Books, EnterSteps
  <2>2. Feeds(u)'
    BY <1>0 DEF IInv, TypeOK, SessionOK, Feeds
  <2>3. Books(u)'
    BY <1>0 DEF IInv, TypeOK, SessionOK, Threads, Books, Subscribed, Recorded, Unrecorded,
           Entering, EnterSteps
  <2>. QED  BY <2>1, <2>2, <2>3 DEF SessionOK
<1>4. \A w \in Users \ {u} : Untouched(w)
  BY DEF IInv, TypeOK, Untouched
<1>. QED  BY <1>1, <1>2, <1>3, <1>4, SessionStep

\* A subscription that fails ends the thread; the channel is in no dictionary.
LEMMA SubscribeFailsStep ==
  ASSUME IInv, NEW u \in Users, SubscribeFails(u)
  PROVE  IInv'
<1>. USE DEF SubscribeFails, leaveVars
<1>0. Head(todo[u]) \in Channels
  BY NextChannel DEF IInv, SessionOK, Threads, EnterSteps
<1>1. TypeOK'
  <2>1. step' \in [Users -> EnterSteps \union {"none", "done", "failed"}]
    BY DEF IInv, TypeOK, EnterSteps
  <2>2. redis' \in [Channels -> Nat]
    BY <1>0 DEF IInv, TypeOK
  <2>3. UNCHANGED <<conn, todo, bagRef, channels, members, bags, cur, leaveVars, forgets, errors, clean>>
    OBVIOUS
  <2>. HIDE DEF SubscribeFails
  <2>. QED  BY <2>1, <2>2, <2>3 DEF IInv, TypeOK
<1>2. ChannelsAreFed' /\ Grows
  BY <1>0 DEF IInv, TypeOK, ChannelsAreFed, Grows
<1>3. SessionOK(u)'
  <2>1. Threads(u)'
    BY <1>0 DEF IInv, TypeOK, SessionOK, Threads, Books, EnterSteps
  <2>2. Feeds(u)'
    BY <1>0 DEF IInv, TypeOK, SessionOK, Feeds
  <2>3. Books(u)'
    BY <1>0 DEF IInv, TypeOK, SessionOK, Threads, Books, Subscribed, Recorded, Unrecorded,
           Entering, EnterSteps
  <2>. QED  BY <2>1, <2>2, <2>3 DEF SessionOK
<1>4. \A w \in Users \ {u} : Untouched(w)
  BY DEF IInv, TypeOK, Untouched
<1>. QED  BY <1>1, <1>2, <1>3, <1>4, SessionStep

LEMMA AddChannelStep ==
  ASSUME IInv, NEW u \in Users, AddChannel(u)
  PROVE  IInv'
<1>. USE DEF AddChannel, leaveVars
<1>0. Head(todo[u]) \in Channels /\ redis[Head(todo[u])] > 0
  BY NextChannel DEF IInv, SessionOK, Threads, Feeds, EnterSteps
<1>1. TypeOK'
  BY <1>0 DEF IInv, TypeOK, EnterSteps
<1>2. ChannelsAreFed' /\ Grows
  BY <1>0 DEF IInv, ChannelsAreFed, Grows
<1>3. SessionOK(u)'
  <2>1. Threads(u)'
    BY <1>0 DEF IInv, TypeOK, SessionOK, Threads, Books, EnterSteps
  <2>2. Feeds(u)'
    BY <1>0 DEF IInv, TypeOK, SessionOK, Feeds
  <2>3. Books(u)'
    BY <1>0 DEF IInv, TypeOK, SessionOK, Threads, Books, Subscribed, Recorded, Unrecorded,
           Entering, EnterSteps
  <2>. QED  BY <2>1, <2>2, <2>3 DEF SessionOK
<1>4. \A w \in Users \ {u} : Untouched(w)
  BY DEF IInv, TypeOK, Untouched
<1>. QED  BY <1>1, <1>2, <1>3, <1>4, SessionStep

LEMMA AddUserStep ==
  ASSUME IInv, NEW u \in Users, AddUser(u)
  PROVE  IInv'
<1>. USE DEF AddUser, leaveVars
<1>0. Head(todo[u]) \in Channels /\ Head(todo[u]) \in channels
  BY NextChannel DEF IInv, SessionOK, Threads, Feeds, EnterSteps
<1>1. TypeOK'
  BY <1>0 DEF IInv, TypeOK, EnterSteps
<1>2. ChannelsAreFed' /\ Grows
  BY <1>0 DEF IInv, TypeOK, ChannelsAreFed, Grows
<1>3. SessionOK(u)'
  <2>1. Subscribed(u)' = Subscribed(u) \union {Head(todo[u])}
    BY <1>0 DEF IInv, TypeOK, Subscribed
  <2>2. step' = [step EXCEPT ![u] = "getBag"] /\ step'[u] = "getBag" /\ step[u] = "addUser"
    BY DEF IInv, TypeOK
  <2>3. Threads(u)' /\ Feeds(u)'
    BY <2>2 DEF IInv, SessionOK, Threads, Feeds, EnterSteps
  <2>4. Books(u)'
    BY <2>1, <2>2 DEF IInv, SessionOK, Books, Recorded, Unrecorded, Entering, EnterSteps
  <2>. QED  BY <2>3, <2>4 DEF SessionOK
<1>4. \A w \in Users \ {u} : Untouched(w)
  BY DEF IInv, TypeOK, Untouched
<1>. QED  BY <1>1, <1>2, <1>3, <1>4, SessionStep

LEMMA GetBagStep ==
  ASSUME IInv, NEW u \in Users, GetBag(u)
  PROVE  IInv'
<1>. USE DEF GetBag, leaveVars
<1>0. bags[u] \in Seq(SUBSET Channels) /\ cur[u] \in 0..Len(bags[u])
  BY DEF IInv, TypeOK
<1>1. /\ bags'[u] \in Seq(SUBSET Channels)
      /\ cur'[u] \in 1..Len(bags'[u]) /\ bagRef'[u] = cur'[u]
      /\ Len(bags[u]) <= Len(bags'[u])
      /\ \A k \in 1..Len(bags[u]) : bags'[u][k] = bags[u][k]
  <2>1. CASE cur[u] # 0
    BY <1>0, <2>1 DEF IInv, TypeOK
  <2>2. CASE cur[u] = 0
    <3>1. /\ bags'[u] = Append(bags[u], {}) /\ cur'[u] = Len(bags[u]) + 1
          /\ bagRef'[u] = cur'[u]
      BY <2>2 DEF IInv, TypeOK
    <3>. QED  BY <1>0, <3>1, AppendProperties
  <2>. QED  BY <2>1, <2>2
<1>2. \A w \in Users \ {u} : bags'[w] = bags[w] /\ cur'[w] = cur[w] /\ bagRef'[w] = bagRef[w]
  BY DEF IInv, TypeOK
<1>3. TypeOK'
  <2>1. step' \in [Users -> EnterSteps \union {"none", "done", "failed"}]
    BY DEF IInv, TypeOK, EnterSteps
  <2>2. cur' = [cur EXCEPT ![u] = cur'[u]] /\ bags' = [bags EXCEPT ![u] = bags'[u]]
    BY DEF IInv, TypeOK
  <2>3. bags' \in [Users -> Seq(SUBSET Channels)]
    BY <1>1, <2>2 DEF IInv, TypeOK
  <2>4. cur'[u] \in Nat
    BY <1>1
  <2>5. cur' \in [Users -> Nat] /\ bagRef' \in [Users -> Nat]
    BY <2>2, <2>4 DEF IInv, TypeOK
  <2>6. \A w \in Users : cur'[w] \in 0..Len(bags'[w]) /\ bagRef'[w] \in 0..Len(bags'[w])
    <3>1. \A w \in Users \ {u} : cur[w] \in 0..Len(bags[w]) /\ bagRef[w] \in 0..Len(bags[w])
      BY DEF IInv, TypeOK
    <3>. HIDE DEF GetBag
    <3>. QED  BY <1>1, <1>2, <3>1
  <2>7. UNCHANGED <<conn, todo, redis, channels, members, leaveVars, forgets, errors, clean>>
    OBVIOUS
  <2>. HIDE DEF GetBag
  <2>. QED  BY <2>1, <2>3, <2>5, <2>6, <2>7 DEF IInv, TypeOK
<1>4. ChannelsAreFed' /\ Grows
  BY DEF IInv, ChannelsAreFed, Grows
<1>5. SessionOK(u)'
  <2>1. Subscribed(u)' = Subscribed(u) /\ step'[u] = "addBag" /\ step[u] = "getBag"
    BY DEF Subscribed, IInv, TypeOK
  <2>2. Threads(u)'
    BY <1>1, <2>1 DEF IInv, TypeOK, SessionOK, Threads, EnterSteps
  <2>3. Feeds(u)'
    BY <2>1 DEF Feeds
  <2>4. clean[u] => leave[u] = "none"
    BY <2>1 DEF IInv, SessionOK, Books, Entering, EnterSteps
  <2>5. Recorded(u)' = Recorded(u)
    <3>1. CASE cur[u] # 0
      BY <1>0, <3>1 DEF Recorded, IInv, TypeOK
    <3>2. CASE cur[u] = 0
      BY <1>0, <3>2, AppendProperties DEF Recorded, IInv, TypeOK
    <3>. QED  BY <3>1, <3>2
  <2>6. Unrecorded(u)' = Unrecorded(u)
    BY <2>1 DEF Unrecorded
  <2>7. Books(u)'
    BY <1>1, <2>1, <2>4, <2>5, <2>6 DEF IInv, TypeOK, SessionOK, Books
  <2>. QED  BY <2>2, <2>3, <2>7 DEF SessionOK
<1>6. \A w \in Users \ {u} : Untouched(w)
  BY <1>2 DEF IInv, TypeOK, Untouched
<1>. QED  BY <1>3, <1>4, <1>5, <1>6, SessionStep

LEMMA GrownBag ==
  ASSUME NEW s \in Seq(SUBSET Channels), NEW i \in 1..Len(s), NEW bag \in SUBSET Channels
  PROVE  /\ [s EXCEPT ![i] = bag] \in Seq(SUBSET Channels)
         /\ Len([s EXCEPT ![i] = bag]) = Len(s)
         /\ \A k \in 1..Len(s) : [s EXCEPT ![i] = bag][k] = IF k = i THEN bag ELSE s[k]
BY ExceptSeq

\* The bag that grows may be one that has left the dictionary: then a call has
\* overtaken another one, and the session is not clean.
LEMMA AddToBagStep ==
  ASSUME IInv, NEW u \in Users, AddToBag(u)
  PROVE  IInv'
<1>. USE DEF AddToBag, leaveVars
<1>. DEFINE bag == bags[u][bagRef[u]] \union {Head(todo[u])}
<1>0. /\ Head(todo[u]) \in Channels /\ Tail(todo[u]) \in Seq(Channels)
      /\ bags[u] \in Seq(SUBSET Channels) /\ bagRef[u] \in 1..Len(bags[u])
  <2>1. todo[u] # <<>> /\ bagRef[u] # 0
    BY DEF IInv, SessionOK, Threads, EnterSteps
  <2>2. bags[u] \in Seq(SUBSET Channels) /\ bagRef[u] \in 0..Len(bags[u])
    BY DEF IInv, TypeOK
  <2>3. Head(todo[u]) \in Channels /\ Tail(todo[u]) \in Seq(Channels)
    BY <2>1, NextChannel DEF IInv
  <2>. QED  BY <2>1, <2>2, <2>3
<1>1. bag \in SUBSET Channels
  BY <1>0, ElementOfSeq
<1>2. bags' = [bags EXCEPT ![u] = [bags[u] EXCEPT ![bagRef[u]] = bag]]
  BY DEF IInv, TypeOK
<1>. HIDE DEF bag
<1>3. /\ bags'[u] \in Seq(SUBSET Channels) /\ Len(bags'[u]) = Len(bags[u])
      /\ \A k \in 1..Len(bags[u]) : bags'[u][k] = IF k = bagRef[u] THEN bag ELSE bags[u][k]
  <2>1. bags'[u] = [bags[u] EXCEPT ![bagRef[u]] = bag]
    BY <1>2 DEF IInv, TypeOK
  <2>. DEFINE old == bags[u]
              new == bags'[u]
              i == bagRef[u]
  <2>2. /\ old \in Seq(SUBSET Channels) /\ i \in 1..Len(old)
        /\ new = [old EXCEPT ![i] = bag]
    BY <1>0, <2>1
  <2>3. /\ new \in Seq(SUBSET Channels) /\ Len(new) = Len(old)
        /\ \A k \in 1..Len(old) : new[k] = IF k = i THEN bag ELSE old[k]
    <3>. HIDE DEF old, new, i
    <3>. QED  BY <1>1, <2>2, GrownBag
  <2>. QED  BY <2>3
<1>4. \A w \in Users \ {u} : bags'[w] = bags[w]
  BY <1>2 DEF IInv, TypeOK
<1>5. TypeOK'
  <2>1. step' \in [Users -> EnterSteps \union {"none", "done", "failed"}]
    BY DEF IInv, TypeOK, EnterSteps
  <2>2. todo' \in [Users -> Seq(Channels)]
    BY <1>0 DEF IInv, TypeOK
  <2>3. bags' = [bags EXCEPT ![u] = bags'[u]]
    BY <1>2 DEF IInv, TypeOK
  <2>4. bags' \in [Users -> Seq(SUBSET Channels)]
    BY <1>3, <2>3 DEF IInv, TypeOK
  <2>5. \A w \in Users : cur'[w] \in 0..Len(bags'[w]) /\ bagRef'[w] \in 0..Len(bags'[w])
    BY <1>3, <1>4 DEF IInv, TypeOK
  <2>. QED  BY <2>1, <2>2, <2>4, <2>5 DEF IInv, TypeOK
<1>6. ChannelsAreFed' /\ Grows
  BY DEF IInv, ChannelsAreFed, Grows
<1>7. SessionOK(u)'
  <2>1. /\ Subscribed(u)' = Subscribed(u) /\ step[u] = "addBag"
        /\ step'[u] = IF Tail(todo[u]) = <<>> THEN "done" ELSE "lookup"
        /\ todo'[u] = Tail(todo[u])
    BY DEF Subscribed, IInv, TypeOK
  <2>2. Threads(u)'
    BY <1>3, <2>1 DEF IInv, SessionOK, Threads, EnterSteps
  <2>3. Feeds(u)'
    BY <2>1 DEF Feeds
  <2>4. clean[u] => leave[u] = "none" /\ bagRef[u] = cur[u]
    BY <2>1 DEF IInv, SessionOK, Books, Entering, EnterSteps
  <2>5. clean[u] => Recorded(u)' = Recorded(u) \union {Head(todo[u])}
    BY <1>0, <1>3, <2>4 DEF Recorded, bag
  <2>6. Unrecorded(u)' = {} /\ Unrecorded(u) = {Head(todo[u])}
    BY <2>1 DEF Unrecorded
  <2>7. clean[u] => Subscribed(u) = Recorded(u) \union Unrecorded(u)
    BY <2>4 DEF IInv, SessionOK, Books
  <2>8. clean[u] => Subscribed(u)' = Recorded(u)' \union Unrecorded(u)'
    BY <2>1, <2>5, <2>6, <2>7
  <2>9. Books(u)'
    BY <2>1, <2>4, <2>8 DEF Books
  <2>. QED  BY <2>2, <2>3, <2>9 DEF SessionOK
<1>8. \A w \in Users \ {u} : Untouched(w)
  BY <1>4 DEF IInv, TypeOK, Untouched
<1>. QED  BY <1>5, <1>6, <1>7, <1>8, SessionStep

-----------------------------------------------------------------------------
(* Leaving.                                                                *)

LEMMA TakeBagStep ==
  ASSUME IInv, NEW u \in Users, TakeBag(u)
  PROVE  IInv'
<1>. USE DEF TakeBag, enterVars
<1>1. TypeOK'
  <2>1. leave' \in [Users -> {"none", "take", "read", "visit", "done"}]
    BY DEF IInv, TypeOK
  <2>2. /\ leaveBag' \in [Users -> Nat] /\ forgets' \in [Users -> Nat]
        /\ cur' \in [Users -> Nat] /\ \A w \in Users : cur'[w] \in 0..Len(bags[w])
    BY DEF IInv, TypeOK
  <2>. QED  BY <2>1, <2>2 DEF IInv, TypeOK
<1>2. ChannelsAreFed' /\ Grows
  BY DEF IInv, ChannelsAreFed, Grows
<1>3. SessionOK(u)'
  <2>1. Threads(u)'
    BY DEF IInv, TypeOK, SessionOK, Threads, Books, EnterSteps
  <2>2. Feeds(u)'
    BY DEF IInv, TypeOK, SessionOK, Feeds
  <2>3. Books(u)'
    BY DEF IInv, TypeOK, SessionOK, Threads, Books, Subscribed, Recorded, Unrecorded,
           Entering, EnterSteps
  <2>. QED  BY <2>1, <2>2, <2>3 DEF SessionOK
<1>4. \A w \in Users \ {u} : Untouched(w)
  BY DEF IInv, TypeOK, Untouched
<1>. QED  BY <1>1, <1>2, <1>3, <1>4, SessionStep

LEMMA ReadBagStep ==
  ASSUME IInv, NEW u \in Users, ReadBag(u)
  PROVE  IInv'
<1>. USE DEF ReadBag, enterVars, dictVars
<1>0. bags[u][leaveBag[u]] \in SUBSET Channels
  <2>1. bags[u] \in Seq(SUBSET Channels) /\ leaveBag[u] \in 1..Len(bags[u])
    BY DEF IInv, TypeOK, SessionOK, Threads
  <2>. QED  BY <2>1, ElementOfSeq
<1>1. TypeOK'
  BY <1>0 DEF IInv, TypeOK
<1>2. ChannelsAreFed' /\ Grows
  BY DEF IInv, ChannelsAreFed, Grows
<1>3. SessionOK(u)'
  <2>1. Threads(u)'
    BY DEF IInv, TypeOK, SessionOK, Threads, Books, EnterSteps
  <2>2. Feeds(u)'
    BY DEF IInv, TypeOK, SessionOK, Feeds
  <2>3. Books(u)'
    BY DEF IInv, TypeOK, SessionOK, Threads, Books, Subscribed, Recorded, Unrecorded,
           Entering, EnterSteps
  <2>. QED  BY <2>1, <2>2, <2>3 DEF SessionOK
<1>4. \A w \in Users \ {u} : Untouched(w)
  BY DEF IInv, TypeOK, Untouched
<1>. QED  BY <1>1, <1>2, <1>3, <1>4, SessionStep

LEMMA LeaveChannelStep ==
  ASSUME IInv, NEW u \in Users, LeaveChannel(u)
  PROVE  IInv'
<1>. USE DEF LeaveChannel, enterVars
<1>0. PICK c \in leaving[u] :
        /\ members' = [members EXCEPT ![c] = @ \ {u}]
        /\ leaving' = [leaving EXCEPT ![u] = @ \ {c}]
  OBVIOUS
<1>1. c \in Channels
  BY DEF IInv, TypeOK
<1>2. TypeOK'
  BY <1>0, <1>1 DEF IInv, TypeOK
<1>3. ChannelsAreFed' /\ Grows
  BY <1>0, <1>1 DEF IInv, TypeOK, ChannelsAreFed, Grows
<1>4. SessionOK(u)'
  <2>1. Subscribed(u)' = Subscribed(u) \ {c} /\ leaving'[u] = leaving[u] \ {c}
    BY <1>0, <1>1 DEF IInv, TypeOK, Subscribed
  <2>2. Threads(u)' /\ Feeds(u)'
    BY DEF IInv, SessionOK, Threads, Feeds
  <2>3. Books(u)'
    BY <2>1 DEF IInv, SessionOK, Books, Recorded, Unrecorded, Entering
  <2>. QED  BY <2>2, <2>3 DEF SessionOK
<1>5. \A w \in Users \ {u} : Untouched(w)
  BY <1>0, <1>1 DEF IInv, TypeOK, Untouched
<1>. QED  BY <1>2, <1>3, <1>4, <1>5, SessionStep

LEMMA EndLeaveStep ==
  ASSUME IInv, NEW u \in Users, EndLeave(u)
  PROVE  IInv'
<1>. USE DEF EndLeave, enterVars, dictVars
<1>1. TypeOK'
  <2>1. /\ leave' \in [Users -> {"none", "take", "read", "visit", "done"}]
        /\ forgets' \in [Users -> Nat]
    BY DEF IInv, TypeOK
  <2>2. UNCHANGED <<conn, enterVars, dictVars, leaveBag, leaving, errors, clean>>
    OBVIOUS
  <2>. HIDE DEF EndLeave
  <2>. QED  BY <2>1, <2>2 DEF IInv, TypeOK
<1>2. ChannelsAreFed' /\ Grows
  BY DEF IInv, ChannelsAreFed, Grows
<1>3. SessionOK(u)'
  <2>1. Threads(u)'
    BY DEF IInv, TypeOK, SessionOK, Threads, Books, EnterSteps
  <2>2. Feeds(u)'
    BY DEF IInv, TypeOK, SessionOK, Feeds
  <2>3. Books(u)'
    BY DEF IInv, TypeOK, SessionOK, Threads, Books, Subscribed, Recorded, Unrecorded,
           Entering, EnterSteps
  <2>. QED  BY <2>1, <2>2, <2>3 DEF SessionOK
<1>4. \A w \in Users \ {u} : Untouched(w)
  BY DEF IInv, TypeOK, Untouched
<1>. QED  BY <1>1, <1>2, <1>3, <1>4, SessionStep

LEMMA RemoveUserStep ==
  ASSUME IInv, NEW u \in Users, RemoveUserFromMemory(u)
  PROVE  IInv'
<1>. USE DEF RemoveUserFromMemory, enterVars, leaveVars
<1>1. TypeOK'
  <2>1. forgets' \in [Users -> Nat] /\ clean' \in [Users -> BOOLEAN]
    BY DEF IInv, TypeOK
  <2>2. /\ cur' \in [Users -> Nat]
        /\ \A w \in Users : cur'[w] \in 0..Len(bags[w])
    BY DEF IInv, TypeOK
  <2>. QED  BY <2>1, <2>2 DEF IInv, TypeOK
<1>2. ChannelsAreFed' /\ Grows
  BY DEF IInv, ChannelsAreFed, Grows
<1>3. SessionOK(u)'
  <2>1. Threads(u)'
    BY DEF IInv, TypeOK, SessionOK, Threads, Books, EnterSteps
  <2>2. Feeds(u)'
    BY DEF IInv, TypeOK, SessionOK, Feeds
  <2>3. Books(u)'
    BY DEF IInv, TypeOK, SessionOK, Threads, Books, Subscribed, Recorded, Unrecorded,
           Entering, EnterSteps
  <2>. QED  BY <2>1, <2>2, <2>3 DEF SessionOK
<1>4. \A w \in Users \ {u} : Untouched(w)
  BY DEF IInv, TypeOK, Untouched
<1>. QED  BY <1>1, <1>2, <1>3, <1>4, SessionStep

-----------------------------------------------------------------------------
LEMMA InitOK == Init => IInv
<1>. SUFFICES ASSUME Init
              PROVE  IInv
  OBVIOUS
<1>1. TypeOK
  BY ChatAssumption DEF Init, TypeOK
<1>2. ChannelsAreFed
  BY DEF Init, ChannelsAreFed
<1>3. ASSUME NEW u \in Users
      PROVE  SessionOK(u)
  BY DEF Init, SessionOK, Threads, Feeds, Books, Subscribed,
         Recorded, Unrecorded, Entering, EnterSteps
<1>. QED  BY <1>1, <1>2, <1>3 DEF IInv

LEMMA StutterOK == IInv /\ UNCHANGED vars => IInv'
BY DEF vars, enterVars, dictVars, leaveVars, IInv, TypeOK, ChannelsAreFed, SessionOK, Threads,
       Feeds, Books, Subscribed, Recorded, Unrecorded, Entering

LEMMA NextPreserves == IInv /\ [Next]_vars => IInv'
<1>. SUFFICES ASSUME IInv, Next
              PROVE  IInv'
  BY StutterOK
<1>1. PICK u \in Users :
        \/ OnOpen(u) \/ OnClose(u) \/ OnError(u)
        \/ Enter(u) \/ Exit(u)
        \/ RemoveUserFromMemory(u)
  BY DEF Next
<1>2. CASE OnOpen(u)
  BY <1>2, OnOpenStep
<1>3. CASE OnClose(u)
  BY <1>3, OnCloseStep
<1>4. CASE OnError(u)
  BY <1>4, OnErrorStep
<1>5. CASE Enter(u)
  BY <1>5, AuthVerifyStep, LookupChannelStep, SubscribeChannelStep, SubscribeFailsStep, AddChannelStep,
     AddUserStep, GetBagStep, AddToBagStep DEF Enter
<1>6. CASE Exit(u)
  BY <1>6, TakeBagStep, ReadBagStep, LeaveChannelStep, EndLeaveStep DEF Exit
<1>7. CASE RemoveUserFromMemory(u)
  BY <1>7, RemoveUserStep
<1>. QED  BY <1>1, <1>2, <1>3, <1>4, <1>5, <1>6, <1>7

\* The invariant holds under every interleaving.
THEOREM Invariance == Spec => []IInv
BY InitOK, NextPreserves, PTL DEF Spec

\* Types hold in every reachable state, for any sessions and channels.
THEOREM TypeCorrect == Spec => []TypeOK
<1>1. IInv => TypeOK
  BY DEF IInv
<1>. QED  BY <1>1, Invariance, PTL

\* However many sessions interleave in the dictionaries, a session whose own
\* calls came one after the other is recorded where it is subscribed.
THEOREM NoInterference == Spec => []SessionsDoNotInterfere
<1>1. IInv => SessionsDoNotInterfere
  BY DEF IInv, SessionOK, Books, SessionsDoNotInterfere, Idle, Entering, EnterSteps, Unrecorded,
         Recorded
<1>. QED  BY <1>1, Invariance, PTL

\* Such a session leaves nothing behind.
THEOREM LeavesNothing == Spec => []CleanLeaveIsComplete
<1>1. IInv => CleanLeaveIsComplete
  BY DEF IInv, SessionOK, Books, CleanLeaveIsComplete
<1>. QED  BY <1>1, Invariance, PTL

\* A channel that can be entered without subscribing has its subscription,
\* whoever wins the race to create it.
THEOREM AlwaysFed == Spec => []ChannelsAreFed
<1>1. IInv => ChannelsAreFed
  BY DEF IInv
<1>. QED  BY <1>1, Invariance, PTL
=============================================================================
