---------------------------- MODULE ChatSessions ----------------------------
(***************************************************************************)
(* The chat server of C#/: a Chat object per web socket and the shared     *)
(* RedisManager with its two concurrent dictionaries, channel -> users and *)
(* session -> bag of channels.                                             *)
(*                                                                         *)
(* Web socket callbacks, InitClientAsync (started by OnOpen and not        *)
(* awaited) and Task.Run all run on pool threads, so each call on a        *)
(* concurrent dictionary or bag is a step of its own and the steps of all  *)
(* threads interleave.  ConcurrentDictionary.GetOrAdd looks the key up,    *)
(* runs the factory outside any lock when it is missing, and then adds the *)
(* factory's value unless another thread has added one.                    *)
(*                                                                         *)
(* ChatPlayer is not part of the repository.  From the way Chat uses it,   *)
(* EnterChannel subscribes its user through SubscribeAction,               *)
(* LeaveAllChannel calls LeaveUser, and RemoveUserDict is                  *)
(* RemoveUserFromMemory.                                                   *)
(***************************************************************************)
EXTENDS Naturals, Sequences

CONSTANTS
  Users,       \* web socket sessions; a session id is used once
  Channels,    \* channel names
  GreetOrder,  \* GreetOrder[u]: the channels InitClientAsync enters for u
  MaxErrors    \* bound: OnError calls per session

ASSUME ChatAssumption ==
  /\ GreetOrder \in [Users -> Seq(Channels)]
  /\ MaxErrors \in Nat

VARIABLES
  conn,      \* conn[u]: the web socket is "new", "open" or "closed"
  step,      \* step[u]: where u's InitClientAsync stands
  todo,      \* todo[u]: the channels it has still to enter
  bagRef,    \* bagRef[u]: the bag its GetOrAdd returned
  redis,     \* redis[c]: handlers subscribed to c at the Redis client
  channels,  \* keys of _subChannelDict
  members,   \* members[c]: the users of _subChannelDict[c]
  bags,      \* bags[u]: every bag ever made for u, in order
  cur,       \* cur[u]: which of them _subSessionDict[u] is; 0: no entry
  leave,     \* leave[u]: where OnClose's LeaveUser stands
  leaveBag,  \* leaveBag[u]: the bag it took out of _subSessionDict
  leaving,   \* leaving[u]: the channels it has still to visit
  forgets,   \* forgets[u]: RemoveUserDict tasks of u that have not run yet
  errors,    \* errors[u]: OnError calls so far
  clean      \* history: no call on u's behalf has overtaken another one

enterVars == <<step, todo, bagRef>>
dictVars == <<redis, channels, members, bags, cur>>
leaveVars == <<leave, leaveBag, leaving>>
vars == <<conn, enterVars, dictVars, leaveVars, forgets, errors, clean>>

EnterSteps == {"auth", "lookup", "subscribe", "addChannel", "addUser",
               "getBag", "addBag"}

TypeOK ==
  /\ conn \in [Users -> {"new", "open", "closed"}]
  /\ step \in [Users -> EnterSteps \union {"none", "done", "failed"}]
  /\ todo \in [Users -> Seq(Channels)]
  /\ bagRef \in [Users -> Nat]
  /\ redis \in [Channels -> Nat]
  /\ channels \subseteq Channels
  /\ members \in [Channels -> SUBSET Users]
  /\ bags \in [Users -> Seq(SUBSET Channels)]
  /\ cur \in [Users -> Nat]
  /\ \A u \in Users : cur[u] \in 0..Len(bags[u]) /\ bagRef[u] \in 0..Len(bags[u])
  /\ leave \in [Users -> {"none", "take", "read", "visit", "done"}]
  /\ leaveBag \in [Users -> Nat]
  /\ leaving \in [Users -> SUBSET Channels]
  /\ forgets \in [Users -> Nat]
  /\ errors \in [Users -> 0..MaxErrors]
  /\ clean \in [Users -> BOOLEAN]

Init ==
  /\ conn = [u \in Users |-> "new"]
  /\ step = [u \in Users |-> "none"]
  /\ todo = [u \in Users |-> <<>>]
  /\ bagRef = [u \in Users |-> 0]
  /\ redis = [c \in Channels |-> 0]
  /\ channels = {}
  /\ members = [c \in Channels |-> {}]
  /\ bags = [u \in Users |-> <<>>]
  /\ cur = [u \in Users |-> 0]
  /\ leave = [u \in Users |-> "none"]
  /\ leaveBag = [u \in Users |-> 0]
  /\ leaving = [u \in Users |-> {}]
  /\ forgets = [u \in Users |-> 0]
  /\ errors = [u \in Users |-> 0]
  /\ clean = [u \in Users |-> TRUE]

Entering(u) == step[u] \in EnterSteps

-----------------------------------------------------------------------------
(* Chat's callbacks.                                                       *)

\* OnOpen starts InitClientAsync, unless the headers name no player.
OnOpen(u) ==
  /\ conn[u] = "new"
  /\ conn' = [conn EXCEPT ![u] = "open"]
  /\ \E valid \in BOOLEAN : step' = [step EXCEPT ![u] = IF valid THEN "auth" ELSE "none"]
  /\ UNCHANGED <<todo, bagRef, dictVars, leaveVars, forgets, errors, clean>>

\* The socket closes, whatever InitClientAsync is doing.  With a Player
\* (there is one as soon as InitClientAsync has started) OnClose leaves all
\* channels; then it hands RemoveUserDict to the pool.
OnClose(u) ==
  /\ conn[u] = "open"
  /\ conn' = [conn EXCEPT ![u] = "closed"]
  /\ leave' = [leave EXCEPT ![u] = IF step[u] = "none" THEN "done" ELSE "take"]
  /\ forgets' = [forgets EXCEPT ![u] = IF step[u] = "none" THEN @ + 1 ELSE @]
  /\ clean' = [clean EXCEPT ![u] = @ /\ ~Entering(u)]
  /\ UNCHANGED <<enterVars, dictVars, leaveBag, leaving, errors>>

OnError(u) ==
  /\ conn[u] = "open"
  /\ errors[u] < MaxErrors
  /\ errors' = [errors EXCEPT ![u] = @ + 1]
  /\ forgets' = [forgets EXCEPT ![u] = @ + 1]
  /\ UNCHANGED <<conn, enterVars, dictVars, leaveVars, clean>>

-----------------------------------------------------------------------------
(* InitClientAsync and, inlined, SubscribeAction for each channel.         *)

AuthVerify(u) ==
  /\ step[u] = "auth"
  /\ \/ /\ step' = [step EXCEPT ![u] = IF GreetOrder[u] = <<>> THEN "done" ELSE "lookup"]
        /\ todo' = [todo EXCEPT ![u] = GreetOrder[u]]
     \/ /\ step' = [step EXCEPT ![u] = "done"]
        /\ UNCHANGED todo
  /\ UNCHANGED <<conn, bagRef, dictVars, leaveVars, forgets, errors, clean>>

LookupChannel(u) ==
  /\ step[u] = "lookup"
  /\ step' = [step EXCEPT ![u] =
                IF Head(todo[u]) \in channels THEN "addUser" ELSE "subscribe"]
  /\ UNCHANGED <<conn, todo, bagRef, dictVars, leaveVars, forgets, errors, clean>>

\* Mutant: the channel is entered into the dictionary before the factory has
\* subscribed to it.
SubscribeAfterAdd(u) ==
  /\ step[u] = "subscribe"
  /\ channels' = channels \union {Head(todo[u])}
  /\ step' = [step EXCEPT ![u] = "addChannel"]
  /\ UNCHANGED <<conn, todo, bagRef, redis, members, bags, cur, leaveVars,
                 forgets, errors, clean>>

\* The factory: Redis keeps every handler it is given.
SubscribeChannel(u) ==
  /\ step[u] = "subscribe"
  /\ redis' = [redis EXCEPT ![Head(todo[u])] = @ + 1]
  /\ step' = [step EXCEPT ![u] = "addChannel"]
  /\ UNCHANGED <<conn, todo, bagRef, channels, members, bags, cur, leaveVars,
                 forgets, errors, clean>>

\* The Redis client throws, having kept the handler or not.  The exception
\* leaves GetOrAdd without an entry and ends InitClientAsync in a task nobody
\* looks at: the socket stays open.
SubscribeFails(u) ==
  /\ step[u] = "subscribe"
  /\ \E kept \in {0, 1} : redis' = [redis EXCEPT ![Head(todo[u])] = @ + kept]
  /\ step' = [step EXCEPT ![u] = "failed"]
  /\ UNCHANGED <<conn, todo, bagRef, channels, members, bags, cur, leaveVars,
                 forgets, errors, clean>>

\* Mutant: the factory's empty dictionary replaces the one another thread
\* added since the lookup.
AddChannelOverwrites(u) ==
  /\ step[u] = "addChannel"
  /\ channels' = channels \union {Head(todo[u])}
  /\ members' = [members EXCEPT ![Head(todo[u])] = {}]
  /\ step' = [step EXCEPT ![u] = "addUser"]
  /\ UNCHANGED <<conn, todo, bagRef, redis, bags, cur, leaveVars, forgets,
                 errors, clean>>

\* GetOrAdd's TryAdd: the loser of a race goes on with the winner's value.
AddChannel(u) ==
  /\ step[u] = "addChannel"
  /\ channels' = channels \union {Head(todo[u])}
  /\ step' = [step EXCEPT ![u] = "addUser"]
  /\ UNCHANGED <<conn, todo, bagRef, redis, members, bags, cur, leaveVars,
                 forgets, errors, clean>>

AddUser(u) ==
  /\ step[u] = "addUser"
  /\ members' = [members EXCEPT ![Head(todo[u])] = @ \union {u}]
  /\ step' = [step EXCEPT ![u] = "getBag"]
  /\ UNCHANGED <<conn, todo, bagRef, redis, channels, bags, cur, leaveVars,
                 forgets, errors, clean>>

\* Mutant: the entry is made, the bag for it is not.
GetBagWithoutBag(u) ==
  /\ step[u] = "getBag"
  /\ cur' = [cur EXCEPT ![u] = IF @ = 0 THEN Len(bags[u]) + 1 ELSE @]
  /\ bagRef' = [bagRef EXCEPT ![u] = cur'[u]]
  /\ step' = [step EXCEPT ![u] = "addBag"]
  /\ UNCHANGED <<conn, todo, redis, channels, members, bags, leaveVars,
                 forgets, errors, clean>>

GetBag(u) ==
  /\ step[u] = "getBag"
  /\ IF cur[u] # 0
     THEN UNCHANGED <<bags, cur>>
     ELSE /\ bags' = [bags EXCEPT ![u] = Append(@, {})]
          /\ cur' = [cur EXCEPT ![u] = Len(bags[u]) + 1]
  /\ bagRef' = [bagRef EXCEPT ![u] = cur'[u]]
  /\ step' = [step EXCEPT ![u] = "addBag"]
  /\ UNCHANGED <<conn, todo, redis, channels, members, leaveVars, forgets,
                 errors, clean>>

\* The bag may have left the dictionary since GetBag.  Nothing asks whether
\* the socket is still open before the next channel is entered.
AddToBag(u) ==
  /\ step[u] = "addBag"
  /\ bags' = [bags EXCEPT ![u][bagRef[u]] = @ \union {Head(todo[u])}]
  /\ todo' = [todo EXCEPT ![u] = Tail(@)]
  /\ step' = [step EXCEPT ![u] = IF Tail(todo[u]) = <<>> THEN "done" ELSE "lookup"]
  /\ UNCHANGED <<conn, bagRef, redis, channels, members, cur, leaveVars,
                 forgets, errors, clean>>

-----------------------------------------------------------------------------
(* LeaveUser, and the tasks that run RemoveUserFromMemory.                 *)

TakeBag(u) ==
  /\ leave[u] = "take"
  /\ leaveBag' = [leaveBag EXCEPT ![u] = cur[u]]
  /\ cur' = [cur EXCEPT ![u] = 0]
  /\ leave' = [leave EXCEPT ![u] = IF cur[u] = 0 THEN "done" ELSE "read"]
  /\ forgets' = [forgets EXCEPT ![u] = IF cur[u] = 0 THEN @ + 1 ELSE @]
  /\ UNCHANGED <<conn, enterVars, redis, channels, members, bags, leaving,
                 errors, clean>>

\* foreach over a ConcurrentBag visits what the bag holds as it starts.
ReadBag(u) ==
  /\ leave[u] = "read"
  /\ leaving' = [leaving EXCEPT ![u] = bags[u][leaveBag[u]]]
  /\ leave' = [leave EXCEPT ![u] = "visit"]
  /\ UNCHANGED <<conn, enterVars, dictVars, leaveBag, forgets, errors, clean>>

\* Mutant: the loop ends after the first channel.
LeaveFirstChannel(u) ==
  /\ leave[u] = "visit"
  /\ \E c \in leaving[u] :
       /\ members' = [members EXCEPT ![c] = @ \ {u}]
       /\ leaving' = [leaving EXCEPT ![u] = {}]
       /\ UNCHANGED <<leave, forgets>>
  /\ UNCHANGED <<conn, enterVars, redis, channels, bags, cur, leaveBag, errors,
                 clean>>

LeaveChannel(u) ==
  /\ leave[u] = "visit"
  /\ \E c \in leaving[u] :
       /\ members' = [members EXCEPT ![c] = @ \ {u}]
       /\ leaving' = [leaving EXCEPT ![u] = @ \ {c}]
  /\ UNCHANGED <<conn, enterVars, redis, channels, bags, cur, leave, leaveBag,
                 forgets, errors, clean>>

EndLeave(u) ==
  /\ leave[u] = "visit"
  /\ leaving[u] = {}
  /\ leave' = [leave EXCEPT ![u] = "done"]
  /\ forgets' = [forgets EXCEPT ![u] = @ + 1]
  /\ UNCHANGED <<conn, enterVars, dictVars, leaveBag, leaving, errors, clean>>

\* The session's entry goes, and with it the only record of its channels.
RemoveUserFromMemory(u) ==
  /\ forgets[u] > 0
  /\ forgets' = [forgets EXCEPT ![u] = @ - 1]
  /\ cur' = [cur EXCEPT ![u] = 0]
  /\ clean' = [clean EXCEPT ![u] = @ /\ leave[u] = "done"]
  /\ UNCHANGED <<conn, enterVars, redis, channels, members, bags, leaveVars, errors>>

-----------------------------------------------------------------------------
Enter(u) ==
  \/ AuthVerify(u)
  \/ LookupChannel(u)
  \/ SubscribeChannel(u)
  \/ SubscribeFails(u)
  \/ AddChannel(u)
  \/ AddUser(u)
  \/ GetBag(u)
  \/ AddToBag(u)

Exit(u) ==
  \/ TakeBag(u)
  \/ ReadBag(u)
  \/ LeaveChannel(u)
  \/ EndLeave(u)

Next ==
  \E u \in Users :
    \/ OnOpen(u)
    \/ OnClose(u)
    \/ OnError(u)
    \/ Enter(u)
    \/ Exit(u)
    \/ RemoveUserFromMemory(u)

Spec == Init /\ [][Next]_vars

-----------------------------------------------------------------------------
(* Properties.                                                             *)

Subscribed(u) == {c \in Channels : u \in members[c]}
Recorded(u) == IF cur[u] = 0 THEN {} ELSE bags[u][cur[u]]
Idle(u) == ~Entering(u) /\ leave[u] \in {"none", "done"}

\* Other sessions' threads, however they interleave in the shared
\* dictionaries and even in the race to create a channel, do no harm to a
\* session whose own calls came one after the other: the channels it is
\* recorded in are the channels that hold it.
SessionsDoNotInterfere ==
  \A u \in Users : clean[u] /\ Idle(u) => Subscribed(u) = Recorded(u)

\* A session whose own calls came one after the other leaves nothing behind.
CleanLeaveIsComplete ==
  \A u \in Users : clean[u] /\ leave[u] = "done" => Subscribed(u) = {}

\* A channel can be found in the dictionary, and entered without subscribing,
\* only when the Redis subscription that feeds it is there.
ChannelsAreFed ==
  \A c \in Channels :
    /\ c \in channels => redis[c] > 0
    /\ members[c] # {} => c \in channels

\* RedisManager.cs:113 starts the Redis subscription "for a new channel":
\* once per channel, then, and a message is delivered once.
OneSubscriptionPerChannel ==
  \A c \in Channels : redis[c] <= 1
=============================================================================
