------------------------------- MODULE Quest -------------------------------
(***************************************************************************)
(* A user's quests, Python/Quest.py: the main quest, the quests of the day *)
(* and of the week, which start again when the date changes, and the       *)
(* achievements.                                                           *)
(*                                                                         *)
(* The requests of a user are taken to be served one after the other.      *)
(* Time does not wait for them: GetDayID and GetWeekID are read at         *)
(* different moments, and a reward request that meets a new date starts    *)
(* over as QuestRefreshData, which reads them again.  No other job resets  *)
(* anything: the first request of a new day or week does.                  *)
(*                                                                         *)
(* A request for daily or weekly quests is a set of codes, since one that  *)
(* names a quest twice is refused (Quest.py:174).  The list of codes of a  *)
(* request for achievements may name one more than once; the order of the  *)
(* list changes nothing.                                                   *)
(*                                                                         *)
(* The condition of a quest is part of its type, and the game tables do    *)
(* not change.  The counters of TB_USER_QUEST_HISTORY, which no active     *)
(* code reads, are left out.                                               *)
(***************************************************************************)
EXTENDS Naturals, Sequences

CONSTANTS
  DayQuests,     \* codes of DAY_NORMAL in QuestPeriod517
  WeekQuests,    \* codes of WEEK_NORMAL in QuestPeriod517
  Need,          \* Need[q]: count of a period quest
  MainCodes,     \* codes of QuestMain516
  FirstMain,     \* the first of MAIN_PROGRESS
  FirstRepeat,   \* the first of MAIN_REPEAT
  MainCount,     \* MainCount[c], MainAdd[c], MainMax[c]: count, count_add and
  MainAdd,       \*   count_max
  MainMax,
  Types,         \* quest types that can occur
  TypeOf,        \* TypeOf[q]: type of a period or main quest; a type that
                 \*   is not in Types is a history type
  Achievements,  \* codes of QuestAchieve518
  Steps,         \* Steps[a]: how many steps a has
  WeekOf,        \* WeekOf[d]: the week id of day d
  MaxDay,        \* bound: the last day
  MaxOccur,      \* bound: occurrences per type and call
  MaxNamed,      \* bound: how often a request names an achievement
  MaxRepeat      \* bound: how often the main quests are repeated

Periods == {"day", "week"}
Days == 1..MaxDay
Quests == [p \in Periods |-> IF p = "day" THEN DayQuests ELSE WeekQuests]
PeriodQuests == DayQuests \union WeekQuests

ASSUME QuestAssumption ==
  /\ MaxDay \in Nat \ {0} /\ MaxOccur \in Nat /\ MaxNamed \in Nat /\ MaxRepeat \in Nat
  /\ DayQuests \intersect WeekQuests = {}
  /\ Need \in [PeriodQuests -> Nat]
  /\ MainCodes \subseteq Nat /\ {FirstMain, FirstRepeat} \subseteq MainCodes
  /\ MainCount \in [MainCodes -> Nat] /\ MainAdd \in [MainCodes -> Nat]
  /\ MainMax \in [MainCodes -> Nat]
  /\ Steps \in [Achievements -> Nat]
  /\ WeekOf \in [Days -> Days]
  /\ \A d, e \in Days : d <= e => WeekOf[d] <= WeekOf[e]

VARIABLES
  now,       \* the day it is
  created,   \* the user has rows in the quest tables
  main,      \* TB_USER_QUEST_MAIN
  rows,      \* rows[q]: TB_USER_QUEST_DAY and TB_USER_QUEST_WEEK
  achieved,  \* achieved[a]: reward_step in TB_USER_QUEST_ACHIEVE; 0: no row
  request,   \* the request that has read the day but not yet the week
  given,     \* history: given[q][id], rewards for q in the period id
  completed, \* history: completed[p][id], rewards for completing it
  stepGiven  \* history: stepGiven[a], the steps of a that were rewarded

tables == <<created, main, rows, achieved>>
history == <<given, completed, stepGiven>>
vars == <<now, tables, request, history>>

MainRow ==
  [idx : MainCodes, count : Nat, repeat : Nat,
   update : [Periods -> Days \union {0}], reward : [Periods -> Days \union {0}]]
Row == [count : Nat, step : Nat]

Request ==
  [type : {"none"}]
    \union [type : {"get"}, day : Days]
    \union [type : {"occur"}, day : Days, counts : [Types -> 0..MaxOccur]]

NoRequest == [type |-> "none"]

\* What the main quest asks for: repeated quests ask for more every time.
NeedMain(m) ==
  LET more == MainCount[m.idx] + MainAdd[m.idx] * (m.repeat - 1)
  IN  IF m.repeat = 0 THEN MainCount[m.idx]
      ELSE IF more > MainMax[m.idx] THEN MainMax[m.idx] ELSE more

TypeOK ==
  /\ now \in Days
  /\ created \in BOOLEAN
  /\ main \in MainRow
  /\ main.count <= NeedMain(main)
  /\ rows \in [PeriodQuests -> Row]
  /\ \A q \in PeriodQuests : rows[q].count <= Need[q]
  /\ achieved \in [Achievements -> Nat]
  /\ request \in Request
  /\ given \in [PeriodQuests -> [Days -> Nat]]
  /\ completed \in [Periods -> [Days -> Nat]]
  /\ stepGiven \in [Achievements -> Seq(Nat)]

Fresh == [count |-> 0, step |-> 0]
Never == [p \in Periods |-> 0]

Init ==
  /\ now = 1
  /\ created = FALSE
  /\ main = [idx |-> FirstMain, count |-> 0, repeat |-> 0, update |-> Never, reward |-> Never]
  /\ rows = [q \in PeriodQuests |-> Fresh]
  /\ achieved = [a \in Achievements |-> 0]
  /\ request = NoRequest
  /\ given = [q \in PeriodQuests |-> [id \in Days |-> 0]]
  /\ completed = [p \in Periods |-> [id \in Days |-> 0]]
  /\ stepGiven = [a \in Achievements |-> <<>>]

-----------------------------------------------------------------------------
(* The date changes.                                                       *)

NextDay ==
  /\ now < MaxDay
  /\ now' = now + 1
  /\ UNCHANGED <<tables, request, history>>

Today == [p \in Periods |-> IF p = "day" THEN now ELSE WeekOf[now]]

\* What a request works with that read the day earlier than the week.
Ids == [p \in Periods |-> IF p = "day" THEN request.day ELSE WeekOf[now]]

\* Mutant: a new day or week starts both again.
NewBoth(ids) == {p \in Periods : \E o \in Periods : main.update[o] # ids[o]}

\* The periods that have ended since the user's rows were written.
NewPeriods(ids) == {p \in Periods : main.update[p] # ids[p]}

\* The main row after the periods of ended have started again.
Renewed(m, ended, ids) ==
  [m EXCEPT !.update = ids,
            !.reward = [p \in Periods |-> IF p \in ended THEN 0 ELSE @[p]]]

\* The row of q after the periods of ended have started again.
RenewedRow(q, ended) ==
  IF \E p \in ended : q \in Quests[p] THEN Fresh ELSE rows[q]

-----------------------------------------------------------------------------
(* sp_QuestGetData.                                                        *)

QuestGetData ==
  /\ request = NoRequest
  /\ request' = [type |-> "get", day |-> now]
  /\ UNCHANGED <<now, tables, history>>

\* A user without rows gets them, a user with old ones has them reset.
QuestRefreshData ==
  /\ request.type = "get"
  /\ request' = NoRequest
  /\ created' = TRUE
  /\ LET ended == IF created THEN NewPeriods(Ids) ELSE {} IN
     /\ main' = Renewed(main, ended, Ids)
     /\ rows' = [q \in PeriodQuests |-> RenewedRow(q, ended)]
  /\ UNCHANGED <<now, achieved, history>>

-----------------------------------------------------------------------------
(* QuestOccur, called by the handlers of everything that counts for a      *)
(* quest, with a list of what has happened.                                *)

StartOccur(counts) ==
  /\ request = NoRequest
  /\ request' = [type |-> "occur", day |-> now, counts |-> counts]
  /\ UNCHANGED <<now, tables, history>>

Happened(q, counts) ==
  TypeOf[q] \in Types /\ counts[TypeOf[q]] > 0

\* Mutant: the count is not held to what is needed.
Uncapped(count, q, need, counts) ==
  IF Happened(q, counts) THEN count + counts[TypeOf[q]] ELSE count

\* QuestOccurOne for all entries of the list.
QuestOccurOne(count, q, need, counts) ==
  IF Happened(q, counts) /\ count < need
  THEN IF count + counts[TypeOf[q]] < need THEN count + counts[TypeOf[q]] ELSE need
  ELSE count

\* The quests of a period whose completion was rewarded do not count on.
QuestOccur ==
  /\ request.type = "occur"
  /\ request' = NoRequest
  /\ IF ~created
     THEN UNCHANGED <<main, rows>>
     ELSE LET ended == NewPeriods(Ids)
              counted == UNION {Quests[p] : p \in {o \in Periods :
                                  o \in ended \/ main.reward[o] # Ids[o]}}
          IN  /\ main' = [Renewed(main, ended, Ids) EXCEPT !.count =
                            QuestOccurOne(@, main.idx, NeedMain(main), request.counts)]
              /\ rows' = [q \in PeriodQuests |->
                   IF q \in counted
                   THEN [RenewedRow(q, ended) EXCEPT !.count =
                           QuestOccurOne(@, q, Need[q], request.counts)]
                   ELSE rows[q]]
  /\ UNCHANGED <<now, created, achieved, history>>

-----------------------------------------------------------------------------
(* sp_QuestReward.  QuestVerify accepts every quest.                       *)

\* The date has changed: the request only brings the rows up to date.
RenewDate ==
  /\ request' = [type |-> "get", day |-> now]
  /\ UNCHANGED <<tables, history>>

\* The last of the codes is followed by the first repeated one.
ProcMain(code) ==
  /\ request = NoRequest
  /\ created
  /\ code = main.idx
  /\ main.repeat < MaxRepeat
  /\ main' = IF code + 1 \in MainCodes
             THEN [main EXCEPT !.idx = code + 1, !.count = 0]
             ELSE [main EXCEPT !.idx = FirstRepeat, !.count = 0, !.repeat = @ + 1]
  /\ UNCHANGED <<now, created, rows, achieved, request, history>>

\* All of the quests, or none: each must be unrewarded.
RewardQuests(p, codes) ==
  /\ request = NoRequest
  /\ created
  /\ codes # {} /\ codes \subseteq Quests[p]
  /\ IF main.update[p] # Today[p]
     THEN RenewDate
     ELSE /\ \A q \in codes : rows[q].step = 0
          /\ rows' = [q \in PeriodQuests |->
                        IF q \in codes THEN [rows[q] EXCEPT !.step = @ + 1] ELSE rows[q]]
          /\ given' = [q \in PeriodQuests |->
                         IF q \in codes THEN [given[q] EXCEPT ![main.update[p]] = @ + 1]
                         ELSE given[q]]
          /\ UNCHANGED <<created, main, achieved, request, completed, stepGiven>>
  /\ UNCHANGED now

ProcDay(codes) == RewardQuests("day", codes)
ProcWeek(codes) == RewardQuests("week", codes)

\* Mutant: the rows may still be those of an earlier period.
CompleteOldPeriod(p) ==
  /\ request = NoRequest
  /\ created
  /\ main.reward[p] # Today[p]
  /\ main' = [main EXCEPT !.reward[p] = Today[p]]
  /\ completed' = [completed EXCEPT ![p][Today[p]] = @ + 1]
  /\ UNCHANGED <<now, created, rows, achieved, request, given, stepGiven>>

RewardPeriod(p) ==
  /\ request = NoRequest
  /\ created
  /\ main.reward[p] # Today[p]
  /\ IF main.update[p] # Today[p]
     THEN RenewDate
     ELSE /\ main' = [main EXCEPT !.reward[p] = Today[p]]
          /\ completed' = [completed EXCEPT ![p][Today[p]] = @ + 1]
          /\ UNCHANGED <<created, rows, achieved, request, given, stepGiven>>
  /\ UNCHANGED now

ProcDayComplete == RewardPeriod("day")
ProcWeekComplete == RewardPeriod("week")

\* Mutant: the row is written as if it were new.
AchieveInsertsOnly(times) ==
  LET named == {a \in Achievements : times[a] > 0} IN
  /\ request = NoRequest
  /\ created
  /\ named # {}
  /\ \A a \in named : achieved[a] < Steps[a] /\ (achieved[a] = 0 => times[a] = 1)
  /\ achieved' = [a \in Achievements |-> IF a \in named THEN 1 ELSE achieved[a]]
  /\ stepGiven' = [a \in Achievements |->
       stepGiven[a] \o [i \in 1..times[a] |-> achieved[a] + 1]]
  /\ UNCHANGED <<now, created, main, rows, request, given, completed>>

\* The next step of each achievement named, times[a] being how often the list
\* names a.  The step is the one the row had before the request: a list that
\* names a twice is rewarded for one step twice, and raises the row by two.
\* Without a row it inserts two, which the key of the table refuses.
ProcAchieve(times) ==
  LET named == {a \in Achievements : times[a] > 0} IN
  /\ request = NoRequest
  /\ created
  /\ named # {}
  /\ \A a \in named : achieved[a] < Steps[a] /\ (achieved[a] = 0 => times[a] = 1)
  /\ achieved' = [a \in Achievements |-> achieved[a] + times[a]]
  /\ stepGiven' = [a \in Achievements |->
       stepGiven[a] \o [i \in 1..times[a] |-> achieved[a] + 1]]
  /\ UNCHANGED <<now, created, main, rows, request, given, completed>>

-----------------------------------------------------------------------------
QuestReward ==
  \/ \E code \in MainCodes : ProcMain(code)
  \/ \E codes \in SUBSET DayQuests : ProcDay(codes)
  \/ \E codes \in SUBSET WeekQuests : ProcWeek(codes)
  \/ ProcDayComplete
  \/ ProcWeekComplete
  \/ \E times \in [Achievements -> 0..MaxNamed] : ProcAchieve(times)

Next ==
  \/ NextDay
  \/ QuestGetData
  \/ QuestRefreshData
  \/ \E counts \in [Types -> 0..MaxOccur] : StartOccur(counts)
  \/ QuestOccur
  \/ QuestReward

Spec == Init /\ [][Next]_vars

-----------------------------------------------------------------------------
(* Properties.                                                             *)

\* However often quests are asked for, and whenever the date changes under a
\* request, no quest is rewarded twice in a day or week, nor is its
\* completion; and what the tables say was rewarded since the rows were last
\* reset is what was.
RewardedOncePerPeriod ==
  /\ \A q \in PeriodQuests, id \in Days : given[q][id] <= 1
  /\ \A p \in Periods, id \in Days : completed[p][id] <= 1
  /\ \A p \in Periods : created =>
       /\ \A q \in Quests[p] : rows[q].step = given[q][main.update[p]]
       /\ main.reward[p] = IF completed[p][main.update[p]] = 1 THEN main.update[p] ELSE 0

\* A step of an achievement that a request was rewarded for, or went past, is
\* not rewarded to a later request: whatever lists are sent, even ones that
\* name an achievement several times.
StepsGoOn ==
  [][\A a \in Achievements :
       \A i \in 1..Len(stepGiven[a]), j \in (Len(stepGiven[a]) + 1)..Len(stepGiven'[a]) :
         stepGiven[a][i] < stepGiven'[a][j]]_vars

\* Quest.py:384 looks for the step to complete and 410 collects the reward of
\* that step: each is rewarded once, the first ones first.
AchievementsInOrder ==
  \A a \in Achievements : \A n \in 1..Len(stepGiven[a]) : stepGiven[a][n] = n

\* Progress is lost only when its day or week is over, a day or week that is
\* over does not come back, and the main quests go on, never back.
ProgressIsKept ==
  [][/\ \A p \in Periods :
          /\ main'.update[p] >= main.update[p]
          /\ main'.update[p] = main.update[p] =>
               \A q \in Quests[p] : rows'[q].count >= rows[q].count
     /\ main'.repeat >= main.repeat
     /\ main'.idx = main.idx /\ main'.repeat = main.repeat => main'.count >= main.count]_vars
=============================================================================
