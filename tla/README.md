# TLA+ models of SampleCode

The repository is a collection of game-server code: a room server (`Network/`,
C++/boost::asio), a chat server (`C#/`, web sockets and Redis), the gateway's item
inventory and the card contents of a game server (`C++/`), handlers of a game API
(`Python/`, `PHP/`), and a stress-test driver (`JAVA/`, `C++/Senario/`).  The
programs do not call each other; each part below is modelled on its own, but for the cards, which two modules share, and the
bot, which is modelled with the gateway's mail boxes.

`PROJECT.json` lists, for machines, the components, the TLC runs, the mutants (plausible bugs
that each property is shown to catch), the source lines every definition
stands for, the hazards and the theorems.

## 1. Inventory

| component | state | operations | what is hard | what makes it correct |
|---|---|---|---|---|
| room server: sessions (`Server`, `Session`) | `_session_map`, socket, the one outstanding read, `_write_msgs`, `_current_room_id` | accept, read handler, posted `DoSendMsg`, write handler, disconnect | completion handlers of reads, writes and posted sends in any order; a failing write closes the socket under a queued request; the conversion of a reply to the bytes that are written | one outstanding write per socket, replies in order, a session that stopped reading is closed and in no room |
| room server: rooms (`RoomManager`, `Room`) | `_rooms`, `Room::_members` | create, join, leave, chat and list requests | membership kept in two places; an id lottery that never ends when no id is free; a list of all rooms copied into a buffer of fixed size | both copies agree; one room per session; rooms get fresh ids |
| chat server (`Chat`, `RedisManager`) | `_subChannelDict`, `_subSessionDict` with a bag per session, Redis subscriptions | OnOpen/InitClientAsync, OnClose/LeaveUser, OnError/RemoveUserFromMemory, commands | pool threads interleave at every concurrent-dictionary call; a socket closes while it is still being greeted; Redis throws in a task nobody awaits | sessions do not disturb each other, a session leaves nothing behind, channels are fed by Redis |
| item inventory (`Inventory.cpp`) | item list, id set, `mCached` | login, validate / store / update of presets, sockets, counts, creation, deletion | validated, stored and applied at three different times, with logout and refusals in between; inputs a check leaves out | the cache equals the database; one item per place |
| card positions (`CardContents.cpp`) | `m_Cont`, `m_PosContVec` | add, apply to a slot, swap, list, take out, lock, sell, delete | two representations of one relation; a card displaced or swapped in one request; fields of the answer in the struct of the request | slots and cards agree; no two cards of a kind in a position; held cards are not deleted |
| card growth and book (`CardContents.cpp`) | levels, waking, skill levels; `m_BookCont` | level up, skill up, wake, favor, confirm, favor reward, product | packets that carry whole values; byte arithmetic | growth is never lost, rewards once, maxed cards are marked |
| quests (`Quest.py`) | main, daily, weekly, achievement rows | get, reward (six categories), occur | two transactions per request, day and week ids that change in between; a list that names a row twice | at most one reward per period, and per step of an achievement |
| events (`Event.py`), summoning (`Summon.py`), skills (`Skill.py`), pilot cards (`PilotCard.php`) | database rows of a user | claim, upgrade, exchange, summon, equip | read in one transaction and written in another | counters and costs match what was given |
| mail box, mail scenario (`MailBox.cpp`, `Senario/`) | mail ids, mails and `mCached` of a box; the bot's current task and the mails it knows of | add, delete, cache; task and acknowledgement handlers | a mail comes alone and in a list; `mCached` is published before the mails are there; an acknowledgement that checks nothing; refusals; lists kept over rounds | a box has the mails of the database, each once; every task is completed |
| item stack (`Item.cpp`) | count and template limit of an item | set, change, remaining room | a 16-bit difference, a limit that has become smaller | nothing is lost or made up when a stack overflows |
| dummy client (`AutoPacketMsg.cpp`) | its copy of the user's data, a running index | one request builder per packet | conditions of its own beside the server's | it asks for what the server accepts (not modelled, see section 7) |
| stress manager (`StressManager`, `SeanarioManager.java`) | list of dummies, counters, barriers | start, connected, reconnect, run scenario, finished | callbacks of many sessions on shared counters | every session is counted once; a scenario ends once |
| packet handlers (`PacketHandler.h`), `*.inc`, `StressSession.java` | none that matters | registries, configuration, HTTP | - | not modelled |

The hazards of this code, each at the line where it bites and with the properties
that cover it, are in `PROJECT.json` under "hazards".

## 2. Modules

| module | role |
|---|---|
| `RoomDirectory` | what the room server promises: sessions are new, live or gone; only live ones are in a room |
| `RoomServer` | sessions, rooms and the network of `Network/`; implements `RoomDirectory` |
| `RoomServerProofs` | theorems about `RoomServer` |
| `ChatSessions` | the chat server's two dictionaries and a session's callbacks |
| `ChatSessionsProofs` | theorems about `ChatSessions` |
| `Inventory` | the gateway's item cache, with the database it mirrors |
| `InventoryProofs` | theorems about `Inventory` |
| `ItemStack` | the stack arithmetic of the world server's items, with theorems |
| `CardKeeping` | what both card modules promise: a held card is kept |
| `CardSlots` | where cards are placed; implements `CardKeeping` |
| `CardSlotsProofs` | theorems about `CardSlots` |
| `CardGrowth` | how cards and the card book grow; implements `CardKeeping` |
| `CardGrowthProofs` | theorems about `CardGrowth` |
| `Quest` | a user's quests, with the day and the week they belong to |
| `QuestProofs` | theorems about `Quest` |
| `MailBox` | a mail box of the gateway: operators on a box |
| `ScenarioMail` | the mail scenario of a stress bot, with the gateway's boxes and the database |
| `ScenarioMailProofs` | theorems about `ScenarioMail` |
| `MC...` | values of the constants for TLC |

Every component module has the same shape: state, initial state, one action per
handler or step, the specification, and the properties.  A definition whose comment
starts with "Mutant:" is a wrong version of the one that follows; no specification
uses it.

### RoomServer

`main` runs the `io_context` on one thread (`Main.cpp`), so a handler is one atomic step and
what varies is the order of handlers.  For each session the model has the state of the socket,
of its one `async_read` (`read`: "pending" until the network completes it with "ok" or
"error", and that until the handler runs), of the posted `DoSendMsg` calls (`posted`), of
`_write_msgs` (`writeMsgs`) and of outstanding `async_write`s (`writes`, with `written` the
state of the first).  `HandleReadOk` contains `RoomManager::HandleMessage` and the following
`ReadHeader`; `HandleReadError` and `HandleWriteError` contain `HandleDisconnect`.  Two requests
can lose the only thread: a create request that finds no free id loops for ever, and the list of rooms is
copied with `strcpy` into the 512 bytes of `Message::data`, so that with more than `RoomListMax` rooms it overruns
the stack.  `lostTo` names the session whose request it is, and disables every handler.  What else an overrun may do is not
modelled.  Messages keep their type and room id only; chat and the user list change no state,
since every `Broadcast` and most replies are commented out in the source.  `replies` and `sent` are history variables.

A reply is serialized to a string (`SendMsg`), and `Write` hands `async_write` the address and the size
of the `std::string` *object*.  The model keeps the two apart: `TextOf(reply)` is what the string holds and
`ObjectOf(reply)` is what is written, and `sent` has what the network took.  `RepliesInOrder` says that the right
objects are written in the right order; that they are not the text is a finding (`RepliesAreSerialized`).

The network (`ReceiveMessage`, `ReadFails`, `WriteSucceeds`, `WriteFails`) is external:
a read or write may fail at any time, and completes with success only on an open socket.

`RoomDirectory` is the abstract specification.  The refinement mapping takes a session to be
live while it is accepted and still reads (`connOf`), and its room from the *member sets*
(`roomOf`), not from `_current_room_id`: that clients see one room at a time is
thus a consequence of the two copies agreeing.

### ChatSessions

Callbacks run on pool threads; `InitClientAsync` is started and not awaited.  Each call on a
`ConcurrentDictionary` or `ConcurrentBag` is a step.  `GetOrAdd` is three: `LookupChannel`,
`SubscribeChannel` (the factory, outside any lock) and `AddChannel`.  A session's bags are kept
by the order they were made (`bags`, `cur`), so that a thread may go on adding to a bag that has
left the dictionary (`bagRef`).  The Redis subscription may throw (`SubscribeFails`), before or after Redis
has it; the exception ends the task of the greeting, which `OnOpen` has discarded, and nothing else.  `ChatPlayer` is not in the repository; what the model assumes of it is in
the module's header.  The history variable `clean` is TRUE for a session none of whose own calls has overtaken
another one; the two safety properties are about those sessions, in the company of
sessions that are not clean.  What an overtaken session leaves behind is a hazard of the code
and not claimed away.  The commands that end in `ChatPlayer` (channel change, reconnect) are not modelled.

### Inventory

A request is a record made by a `Validate...` operation from the cache, stored by the database
(or refused), and applied by an `Update...` operation.  The user may log out between any two
steps, and `CacheItemDataList` loads the cache from the database at login.  The
request handlers and the database are not in the repository; the model assumes one request
at a time per user, answers that find no user after a logout, request lists without duplicates (but a preset
request's, which the code checks), and `MIN_SOCKET_ID = 0`.  The lists of a preset request may name any item, since lines 350-398 ask
neither for the type nor for the range of the category (only those of the items already worn are checked, 328-338), and a socket request
any socket id (`AskedSockets`): where an index is outside its array, what is read is anything, so the request may pass or fail, and
what is written is in no row.  `UpdateItemLock` and `UpdateItemLevel` set a value nothing else here reads and
are left out.

### CardSlots and CardGrowth

`CardContents.cpp` seen from two sides.  In both, a request is checked by an `IsCan...`
operation that fills a packet, and a `DoSet...`/`DoDel` operation applies the packet once the
database has accepted it.  An operator `IsCan...` says when the code's operation returns success; the action that uses it
(`Check` of `CardSlots`, one per request in `CardGrowth`) makes what it fills into the packet.  `CardSlots` keeps `place` (the position in the card) and `slotMap`
(`m_PosContVec`) apart, as the code does.  Cards are loaded with positions (`LoadedPlaces`: the ones a
consistent database may hold, which is assumed), and facilities refuse cards while they operate (`busy`, external).

A request to place a card is a struct that also has the fields of the answer, `oldCardUID_` and `oldCardChangeSlotNum_`.  The
check writes them only when a card is displaced; otherwise they keep what the request came with, and `DoSetApplyPosCard` acts
on them all the same.  `ReplyFields` is the set of what they may come with: nothing (`Unset`) in `card_slots`, any card in
`card_reply`.  The code compares position values without kinds (lines 218 and 242), so a facility whose value is also a
character's is taken for that character: `Sound` are the other places, of which `SlotsMatchCards` and `NoTwins` speak, and
what happens in the rest is in section 6.  A list of cards is assumed to be sent to a free position with room (the
caller's callback, line 248).

`CardGrowth` keeps byte arithmetic (`% 256`) where the code casts to `c_uint8`.  The lists of items a request may name are a parameter
(`ItemLists`): how many items, what they add to a skill level, and which check they pass, for leveling (line 369) or for the
skill of cards of some grade (line 424).  The amounts of the items are added in a byte one after the other, which is the
sum modulo 256 of `SkillLvUp`.  How much experience a material gives is nondeterministic.

The two modules share the cards: `CardGrowth` uses cards up, and takes positions and locks, which
`CardSlots` has, as one external action (`Hold`).  `CardKeeping` is what ties them together: only cards of the user's
are held, and only cards that are not held go.  Both implement it, so the `Hold` of `CardGrowth` does no more to a
card than `CardSlots` may do, and the cards `CardGrowth` removes are ones `CardSlots` could have sold.

### ItemStack

`Item.cpp` changes a count by a 16-bit difference, clamps it and returns what has no room.  This is a
function of count, limit and difference, so the module has operators and theorems, and no state and no run.

### Quest

Each of the three requests of `Quest.py` is an action, or two where it reads the date twice:
`QuestGetData` and `StartOccur` read the day, `QuestRefreshData` and `QuestOccur` read the week
and do the rest; `NextDay` may come in between.  A reward request reads one date and acts on
it; if that is new, it starts over as `QuestRefreshData` (`RenewDate`).  No job resets the quests
of a day: whichever request comes first does, so every one of them carries the reset (`NewPeriods`,
`Renewed`, `RenewedRow`).  Day and week are one definition with the period as a parameter where
the code has the same text twice.  `QuestVerify` returns True, so no action has completeness as a guard.
The model takes the requests of one user to be served one after the other: the code reads the main row in one transaction
and acts on it in another (line 71), and what would keep two requests apart is
not in the repository.  Tables of quests do not change; the condition of a quest is
part of its type; a request for daily or weekly quests is a set, as a list that names one twice finds fewer rows than codes and is refused (line 174), while a
request for achievements says how often its list names each (`ProcAchieve(times)`): that list is not checked, and the step of a row is
read once.  Two new rows of one key are refused by the table, which is taken to have user and code as its key.  The history counters are left out, since only code that is never called reads them.
`given`, `completed` and `stepGiven` are history variables.

### MailBox and ScenarioMail

`MailBox` has the three operations of the class as operators on a record; `CacheMailList` is two, `SetCached` for the
store of `mCached` and `CacheMailList` for the mails, since the flag is an atomic that others read without a lock.  Of the mails that the database loads for a list, a
list has every mail once; in which order, no property asks.  `ScenarioMail` has the bot's variables
(`task`, `requested`, `known`), the messages on their way (`requests`, `acks`) and the gateway's
(`box`, `work`, `mails`, `notices`, `lastId`).  `ProcessTask` runs the handler of the current task, once per task; each `Ack...` action is one
acknowledgement handler, and `AckFailure` is what the three do alike when the result is not a success.

The gateway's request handlers, the database and the library that runs the tasks are not in the repository.  The model takes the requests of
a bot to be served in order, each in two steps: what the database does (`LoadMails`, `StoreMail`, `ReadMails`), then its effect
on the box and the acknowledgement (`Acknowledge`).  Between the two, mails of others may be announced: that is when a mail comes alone and in
a list.  A read may give the items of some mails only, and any request may be refused.  When the scenario has come to its end, the bot may run it
again, with the lists it has (`TaskCompleteScenario`).  The gateway may also load a box for itself, as at a login, when it is not
serving a request and the box is not cached (`LoadBox`): then `StartCaching` sets `mCached` and a later step adds the list
(`CacheLoaded`, or `Acknowledge` for a list the bot asked for), with announcements in between.  So the account's box, whose mails the bot
reads and which loses them, is cached too, and mails that went must not come back with a list.

The two list tasks of lines 84-141, whose registration is commented out, are left out.  The gateway is taken not to load a box for
itself while it serves a request, and to answer each request once: a read that was done but answered as refused or not
at all (line 327), and an acknowledgement nobody asked for, do not occur.

## 3. Runs

| run | instance | distinct states | what it shows |
|---|---|---|---|
| `rooms` | 2 sessions, 2 room ids, a list of at most 1 room fits its buffer | 549 940 | the properties below and the refinement of `RoomDirectory` |
| `chat` | 2 sessions, 1 shared and 1 own channel, 1 `OnError` each | 184 064 | interference, leaving, feeding |
| `inventory` | 1 equipment, 1 item of its category that is none, 1 gem, 2 presets, 2 sockets and an id beyond them, stacks up to 2 | 861 214 | cache and database |
| `card_slots` | 3 cards (2 of a kind), 2 characters with 2 slots, 2 facilities with 1 (one has a character's value), a dispatch | 845 896 | slots and cards, `CardKeeping` |
| `card_growth` | 2 cards of a kind, 2 levels (3 woken), 1 waking, 3 skill levels, 2 favor levels, 6 lists of items | 341 157 | growth and book, `CardKeeping` |
| `quest` | 3 days in 2 weeks, 2 daily and 1 weekly quest, 3 main quests, 2 achievement steps, named up to twice | 5 672 949 | rewards and progress over periods |
| `mail` | 3 mails, of which 2 are read at a time, 4 rounds | 553 642 | boxes and database, the bot's tasks |
| `room_wire`, `chat_subscribe`, `card_reply`, `card_materials`, `quest_steps` | as above (`card_reply`: requests that come with a card in `oldCardUID_`) | - | disagreements, see section 6 |

Why the instances are enough: in `rooms`, two sessions are needed to share and to fight
for a room and one session's queues to reorder; with two ids both the free-id and the no-id
branch of a creation happen.  A session is accepted once, so the
number of replies is at most the number of ids and no bound on the queues is needed: the state space is
finite by itself.  `RoomListMax = 1` lets a second room overrun the list.  In `chat`, the race to create a channel needs two sessions, and the
loop over channels two channels.  In `inventory`, two items for one place are needed for a swap
in one request, one of them no equipment for what the check leaves out, an item without a place in a preset, two presets for the bits to be confused,
two sockets for a row with a neighbour, and a socket id outside the row; presets and sockets are symmetric, since nothing tells them apart.
In `card_slots`, a swap inside a position, a displacement and a twin need three cards and two slots; every
loading of the cards into positions is an initial state.  In `card_growth` the number of items named in a request is 0, 1 or 256, the smallest number the byte
loses, and the lists are for levels, for the skill of the card's grade, or for that of another.
In `quest`, three days of which the last is in a new week (`MaxDay`) give a day that ends alone, a day that ends with its
week, and a request that reads the day before and the week after; two daily quests are needed for a reward of several;
an achievement named twice (`MaxNamed`) is the smallest duplicate; `MaxOccur = 1` occurrence per call (the weekly quest needs two calls), and `MaxRepeat = 2` repetitions, of which the second
reaches `count_max`.
In `mail`, a third mail is needed for a read that leaves one behind, sent by the bot or by others (`MaxMails`, `MaxReadCount = 2`); the first
rounds fill the lists and the box, and the later ones read what is left of them and load the box again (`MaxRounds`).  Once every mail
is stored, sending is refused.

Deadlock is checked except in `rooms` and `chat`, where sessions come once and the
system stops when all are gone (or, in `rooms`, when the thread is lost to a request), and in `mail`, where the
bot stops after its last round.

### Properties

* `RoomServer`: `MembershipConsistent` (both copies of the membership agree and only existing rooms
  have members), `SingleWriter`, `RepliesInOrder` (of the string objects), `NoZombie` (an accepted session that no longer
  reads is closed and in no room), `DisconnectLeavesRoom` (liveness), `ImplementsDirectory` (refinement).
* `ChatSessions`: `SessionsDoNotInterfere`, `CleanLeaveIsComplete`, `ChannelsAreFed`.
* `Inventory`: `OneItemPerPlace`, `CacheMatchesDatabase`, `UpdatesFindTheirItems`.
* `CardSlots`: `SlotsMatchCards`, `NoTwins`, `HeldCardsStay` (of steps), `ImplementsKeeping` (refinement).
* `CardGrowth`: `MaxedCardsAreInTheBook`, `RewardsMatchBook`, `GrowthIsKept` (of steps), `ImplementsKeeping`
  (refinement).
* `Quest`: `RewardedOncePerPeriod`, `StepsGoOn` (of steps: no step of an achievement is rewarded to two requests), `ProgressIsKept` (of steps).
* `ScenarioMail`: `EachMailIsInItsBoxOnce`, `CachedBoxIsComplete` (but for what is on its way, and the list being added), `ReadsFindTheirMail` (the
  assertion of `MailBox::DeleteMail`), `AcksMeetTheirTask`, `ScenarioEnds` (liveness).

and one type invariant per module.

### Fairness

`rooms` checks liveness under weak fairness of every handler (the run loop executes
every queued handler) and of the failure of operations on a *closed* socket (asio aborts them).  Nothing is
assumed of a peer with an open socket, which may stay silent for ever.  `mail` assumes that the bot runs its current task and handles what it receives (the driver calls both in
its loop), and that the gateway finishes what it has loaded and answers every request, if only with a refusal; others need not send anything, and
nothing need be announced.  The other components are checked for safety only: when a
user acts is not the code's to say.

## 4. Proofs

`RoomServerProofs` proves, for any set of sessions and of room ids (assumption
`RoomServerAssumption`: the sentinels are not members of the sets):

* `TypeCorrect`, `Membership`, `NoZombies`, `OneWriter`: `Spec => []...` for `TypeOK`,
  `MembershipConsistent`, `NoZombie`, `SingleWriter`;
* `InOrder`: `Spec => []RepliesInOrder`, of the string objects that are written;
* `Refinement`: `Spec => Directory!Spec`.

The inductive invariant is `TypeOK /\ MembershipConsistent /\ NoZombie /\ Lifecycle /\ WriteQueue`.
`NoZombie` is not inductive alone: `Lifecycle` adds that a session the acceptor has not
handed out is untouched (new socket, nothing read, in no room), and that an accepted one is no
longer new.  `SingleWriter` follows from `WriteQueue`: an outstanding write is the only
one and carries the front of the queue, and without one an open socket's queue is empty; a failed write, which
leaves its message in the queue, closes the socket in the same step.  `InOrder` needs a second invariant on top of
the first, `Pipeline`: the replies whose objects the network has taken, then what is queued, then what is posted to the io context make up
the replies given to `SendMsg`.  The message of a write that is done and whose handler has not run is still in the queue but was taken,
so `Waiting` leaves it out; each step moves one message from one of the three to the next.  `Refinement` shows each
action to be a step of `RoomDirectory` under the mapping, or a stutter: the disconnect
handlers are where it matters, since `HandleReadError` is `Depart`, while `HandleWriteError` is
a mere `Leave` because its session may still have a request to run.

`QuestProofs` proves, for any quest tables, calendar and bounds that satisfy `QuestAssumption` (day and week
quests have different codes; the week id does not fall as days pass; counts are natural numbers):

* `TypeCorrect`, `RewardedOnce`: `Spec => []...` for `TypeOK`, `RewardedOncePerPeriod`;
* `StepsOnce`, `ProgressKept`: `Spec => StepsGoOn`, `Spec => ProgressIsKept`.

The inductive invariant is `TypeOK /\ Calendar /\ RewardedOncePerPeriod /\ StepsBehind`; the last says that what was rewarded of an achievement is
behind its row, whatever lists named it.  `Calendar` is
what makes resetting safe: the periods of the rows and of a running request are not ahead of the clock, a
request has not read a day before the rows', and nothing was rewarded for a period after the rows' own.  So a renewal, which
sets the steps back to 0, always moves to a period in which nothing was rewarded.  Both requests that
renew are shown to be a `Renewal` first, and what a renewal preserves is proved once.  `Calendar` was model-checked
on the instance of `quest` before it was proved.

`ChatSessionsProofs` proves, for any sessions, channels, orders of greeting and numbers of errors, `TypeCorrect`, `NoInterference`, `LeavesNothing`
and `AlwaysFed`: `Spec => []...` for all four invariants of `ChatSessions`.  The inductive invariant is `TypeOK /\ ChannelsAreFed` and, for every
session, `SessionOK`.  Its part `Feeds` is what makes the race to create a channel harmless: a thread about to add a channel has subscribed it, whether or
not it wins.  Its part `Books` says where the channels of a clean session are written down at each stage: in its
entry, in the bag its leaving took out, in the list still to be visited.  A step of one session is shown once and for all (`OthersOK`) to leave
the others as well off as before.

`CardSlotsProofs` proves, for any cards, kinds and positions that satisfy the assumptions of `CardSlots`:

* `TypeCorrect`: `Spec => []TypeOK`; `HeldStay`: `Spec => HeldCardsStay`; `Refinement`: `Spec => ImplementsKeeping`,
  whatever the requests come with;
* `SlotsAndCards`, `Twinless`: `Spec => []...` for `SlotsMatchCards` and `NoTwins`, if `ReplyFields \subseteq {Unset}`: requests come with nothing
  in the fields of the answer.

The hypothesis is needed: `card_reply` shows a request that moves a card which was not in the slot.  Characters and facilities may have values in common; the two
properties except those facilities (`Sound`).

There are two inductive invariants.  `KeepInv` is `TypeOK /\ PlacedAreOwned /\ LocksAreOwned /\ PacketKeeps`: a packet is about cards the user has, and what it
deletes is not held.  `FitInv` is `SlotsMatchCards /\ NoTwins /\ SlotsInRange /\ PacketFits`, inductive together with the first.  `PacketFits` carries what the
check of a request found to the step that applies it: a slot that exists and has no card of the kind beside it, the card that is in it, a free
position for a list.  That is needed because `DoSet...` checks nothing again.

`CardGrowthProofs` proves, for any limits:

* `MaxedAreMarked`, `RewardedOnce`: `Spec => []...` for `MaxedCardsAreInTheBook`, `RewardsMatchBook`;
* `Refinement`: `Spec => ImplementsKeeping`;
* `LevelsKept`: `Spec => LevelsAreKept`, which is `GrowthIsKept` but for skill levels;

and, for finitely many cards and limits that satisfy `SkillSumsFit`:

* `TypeCorrect`: `Spec => []TypeOK`; `GrowthKept`: `Spec => GrowthIsKept`.

The invariant of the first three is `GrowthTypes /\ KindsAreInTheBook /\ MaxedCardsAreInTheBook /\ RewardsMatchBook /\ PacketOK`.  `PacketOK`
says that a book entry on its way back is the one in the book, grown, and that a card on its way to its last level brings its mark.
`LevelsKept` needs `LvOK` besides: what a packet has for a card was made from the card, which has not changed since.

Skill levels are another matter.  `SkillLvUp` adds up the levels of the materials and those the items bring in a byte and only then looks at the maximum.  With
limits that let the sum pass 255, the byte starts again and levels are lost: with a maximum of 200 and 99 materials, TLC takes a card
from level 199 to 42.  So `GrowthIsKept`, skill levels included, is not true of all limits, and neither is `TypeOK`.  `SkillSumsFit` says
that it does not come to that: for every request the check can pass, what the card and the materials have beyond their first level, if
all had the most, and one for each material and what the items bring, modulo 256, are together less than 256.  The values
of the limits are in tables that are not in the repository; with a maximum of 10, 10 materials and no items, say, the sum is at most
109.  The run's instance satisfies it.  That the byte then holds the whole sum needs bounds of the sum, `SumSkillBounds`, by
induction over the number of materials.  `SkillInv`, the invariant, adds the types of the skill levels and that a packet does not take
one back.

`InventoryProofs` proves, for any items, presets and sockets, `TypeCorrect`, `OnePerPlace`, `UpdatesFind` and `CacheIsDatabase`:
`Spec => []...` for all four invariants of `Inventory`.  What `CacheMatchesDatabase` says, it says while no request is under way; the
inductive invariant has to say what holds during one.  `InStep` does: until the database has stored a request, the cache mirrors the
rows; from then on, the cache *as the pending update will leave it* mirrors them (one definition per kind of request: `PresetUpdated`,
`SocketUpdated`, `CountUpdated`, `AddUpdated`, `DeleteUpdated`).  A logout drops both the cache and the update.
`DbRows` says that the rows hold items of the database, each at a place of its own; `ParentsWereUsed`, that the id a deleted parent leaves behind
in an item is not given out again.

`ScenarioMailProofs` proves, for any number of mails, of mails read at a time and of rounds, all safety invariants of `ScenarioMail`:

* `AcksMeet`: `Spec => []AcksMeetTheirTask`;
* `TypeCorrect`, `MailsOnce`, `CacheComplete`, `ReadsFind`: `Spec => []...` for `TypeOK`, `EachMailIsInItsBoxOnce`,
  `CachedBoxIsComplete`, `ReadsFindTheirMail`.

The first needs `OneAtATime`: what the current task asked for is in exactly one place, not yet asked, on its way to the gateway, being
served, or answered.  The others need `MailsKept` besides, which says where a mail may be while something is under way.  `BoxesOK`: the
database has what is in a box, but for mails that were just read; a cached box has what is in the database, but for mails that were stored
and have not come yet, unless its list is being added: then box and list together do.  `InFlight`: a list that was loaded before more mails were stored lacks only those that are still to be announced or were
added meanwhile, and what the database did for the bot stays so until the bot hears of it.  `Fresh`: an id that was not given out is
nowhere, so a mail that is stored is new.  `Unannounced`: a mail that is still to be announced is in the database and unknown to the
bot.  `KnownAreThere`: a mail the bot may ask to read is in the box, unless it was read and the answer is on its way; so `DeleteMail` finds it.

`AddMail`, `DeleteMail` and `Without` go through lists, so their effect is a matter of induction.  The induction theorems of the library
take an operator, which no prover here can instantiate; the module has its own instead, for a *set* of numbers: from the
well-foundedness of `<` every set of numbers that is not empty has a least member (`LeastElement`), so a set with 0 and all
successors has all (`AllNumbers`).  A function that is defined by recursion is first shown to exist for lists of at most `n` members
(`Iter`, `IterExists`), then its properties are, for each `n`.  `CardGrowthProofs` treats its sum in the same way.

`ItemStack` proves, for all counts, limits and differences: a stack stays between 0 and its limit (`StackStaysInBounds`), what it holds and what it
returns add up to what there was and came (`NothingIsLost`), `GetRemainStackCount` is exactly what fits (`RoomIsExact`), and a stack
whose limit has shrunk has no room and returns the excess at its next change (`OutgrownStackShrinks`).

The invariants of the proofs were checked with TLC, on the instances of the runs, before they were proved.

Only model-checked: the liveness properties (`DisconnectLeavesRoom`, `ScenarioEnds`), since liveness under fairness is out of
the prover's reach.  The properties of the runs that expect a violation are false, and have no theorem.

## 5. Plan

Modelled and checked so far: the room and the chat server, the inventory, cards, quests and the mail scenario.  What is left, in this order:

1. `Event`, `Skill`, `Summon`: exchange, pass and mission rewards as one scheme of read, check and write in
   two transactions.
2. `StressManager` and `SeanarioManager`: sessions calling back on shared counters, barriers
   (`connected`, `reconnected`, `finished`), an abstract barrier they should implement.
3. `PilotCard` (PHP): evade upgrade, tutorial and finish-game, where memory and database diverge.
4. The setters of `Item`, composed with `Inventory`.

## 6. What was found

Shown by a run that expects the violation:

* `room_wire`: what is written to the socket is the `std::string` object of a reply and not its text (`Session.cpp:60`,
  against the flow in `Network/README.md:33`).
* `chat_subscribe`: `GetOrAdd` can run its factory twice for one channel, which subscribes the
  channel twice (`RedisManager.cs:111-115`, against the comment at line 113).
* `card_reply`: a request that comes with a card in `oldCardUID_` moves that card, though it was not in the slot (`CardContents.cpp:617`,
  against the comments at 236 and 616).
* `card_materials`: 256 materials pass the limit check (`CardContents.cpp:894`, against the comment at 893).
* `quest_steps`: a list that names an achievement twice is rewarded twice for one step, and passes over the next (`Quest.py:417`,
  against the comments at 384 and 410).

Part of the models, but plain from one request or one callback, so that no run is spent on them:

* after `OnError` an open session is missing from `_subSessionDict` (`Chat.cs:110`, against the comment at `RedisManager.cs:27`), so its
  later `OnClose` leaves it in its channels;
* a session whose Redis subscription throws stays open, in some of its channels, and never gets its login reply (`Chat.cs:64`);
* a preset may get an item that is no equipment (`Inventory.cpp:376`, against the comment at 375), and is then refused every later update (328);
* a row with a free socket reaches `_ASSERT_CRASH(0)` at `Inventory.cpp:590`;
* a card that goes from a character to a facility of the same value overwrites the card in the slot, which still says it is there
  (`CardContents.cpp:218`, which compares values without kinds, as 166-168 do not);
* a quest is rewarded before it is complete, because `QuestVerify` returns True (`Quest.py:741`, against the comments of its callers, such as line 179).

## 7. Not modelled

The dummy client (`AutoPacketMsg.cpp`): its conditions are those of `CanUseCard`, and what answers most of its requests is not in the repository
either, so a model of what the server accepts would be a guess.  Two of its lookups lead to refusals that can be read off the code: a facility is
looked up by its value taken as an index (line 1202), and skill materials are chosen without the card's grade (line 1313, against `CardContents.cpp:424`).

What a write outside an array or a buffer does beyond what the models say (`RoomManager.cpp:176`, `Inventory.cpp:446`).  Card states that no consistent
database would hold; requests of one user at the same time; a gateway that answers a request twice, or not at all.  The stats of an item and its setters of one value
each (`Item.cpp`, `item.h`).  The protobuf registries nothing calls
(`PacketHandler`, `MessageWrapper`), the PHP configuration arrays, HTTP (`StressSession.java`), chat payloads and logs.
Gold, experience tables and item prices are inputs of code that is not in the repository.
