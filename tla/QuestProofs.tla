---------------------------- MODULE QuestProofs ----------------------------
(***************************************************************************)
(* TLAPS proofs about Quest, for any quest tables, calendar and bounds:    *)
(* its types, that nothing is rewarded twice in a day or week, that no     *)
(* step of an achievement is rewarded to two requests, and that progress   *)
(* is kept.                                                                *)
(***************************************************************************)
EXTENDS Quest, SequenceTheorems, TLAPS

\* How the periods of the rows and of a running request relate to the clock:
\* none is ahead of it, and a request has not read a day before the rows'.
\* Nothing was rewarded for a period later than the rows', and nothing at all
\* to a user without rows.
Calendar ==
  /\ \A p \in Periods : main.update[p] <= Today[p]
  /\ request.type # "none" => request.day <= now /\ main.update["day"] <= request.day
  /\ ~created => /\ \A p \in Periods : main.update[p] = 0 /\ main.reward[p] = 0
                 /\ \A q \in PeriodQuests : rows[q].step = 0
  /\ \A p \in Periods : \A id \in Days : id > main.update[p] =>
       /\ completed[p][id] = 0
       /\ \A q \in Quests[p] : given[q][id] = 0

\* What was rewarded of an achievement is behind its row.
StepsBehind ==
  \A a \in Achievements : \A n \in 1..Len(stepGiven[a]) : stepGiven[a][n] <= achieved[a]

\* The inductive invariant.
IInv ==
  /\ TypeOK
  /\ Calendar
  /\ RewardedOncePerPeriod
  /\ StepsBehind

-----------------------------------------------------------------------------
(* Lemmas about the operators the requests are built from.                 *)

\* The quests of the two periods, and of both.
LEMMA PeriodFacts ==
  /\ Quests["day"] = DayQuests /\ Quests["week"] = WeekQuests
  /\ \A p \in Periods : Quests[p] \subseteq PeriodQuests
  /\ \A q \in PeriodQuests : \E p \in Periods : q \in Quests[p]
  /\ \A p, o \in Periods : p # o => Quests[p] \intersect Quests[o] = {}
BY QuestAssumption DEF Quests, Periods, PeriodQuests

\* The periods of a date are days, and later dates have later ones.
LEMMA DateFacts ==
  ASSUME TypeOK
  PROVE  /\ Today \in [Periods -> Days]
         /\ Days \subseteq Nat \ {0}
         /\ \A d \in Days : d <= now => WeekOf[d] <= WeekOf[now]
<1>1. now \in Days /\ WeekOf[now] \in Days
  BY QuestAssumption DEF TypeOK
<1>2. Today \in [Periods -> Days]
  BY <1>1 DEF Today
<1>3. Days \subseteq Nat \ {0}
  BY QuestAssumption DEF Days
<1>. QED  BY <1>1, <1>2, <1>3, QuestAssumption

\* What a request works with is between the rows' periods and the clock's.
LEMMA IdsFacts ==
  ASSUME TypeOK, Calendar, request.type # "none"
  PROVE  /\ Ids \in [Periods -> Days]
         /\ \A p \in Periods : main.update[p] <= Ids[p] /\ Ids[p] <= Today[p]
<1>1. request.day \in Days
  BY DEF TypeOK, Request
<1>2. now \in Days /\ WeekOf[now] \in Days
  BY QuestAssumption DEF TypeOK
<1>3. Ids["day"] = request.day /\ Ids["week"] = WeekOf[now]
  BY DEF Ids, Periods
<1>4. Today["day"] = now /\ Today["week"] = WeekOf[now]
  BY DEF Today, Periods
<1>5. Ids \in [Periods -> Days]
  BY <1>1, <1>2 DEF Ids
<1>6. main.update["week"] <= Today["week"] /\ main.update["day"] <= request.day
      /\ request.day <= now
  BY DEF Calendar, Periods
<1>7. Ids["week"] \in Nat
  BY <1>2, <1>3, DateFacts
<1>. QED  BY <1>3, <1>4, <1>5, <1>6, <1>7 DEF Periods

\* The main quest asks for a natural number.
LEMMA NeedMainType ==
  ASSUME NEW m, m.idx \in MainCodes, m.repeat \in Nat
  PROVE  NeedMain(m) \in Nat
<1>1. MainCount[m.idx] \in Nat /\ MainAdd[m.idx] \in Nat /\ MainMax[m.idx] \in Nat
  BY QuestAssumption
<1>2. CASE m.repeat = 0
  BY <1>1, <1>2 DEF NeedMain
<1>3. CASE m.repeat # 0
  <2>1. m.repeat - 1 \in Nat
    BY <1>3
  <2>2. \A x, y \in Nat : x * y \in Nat
    OBVIOUS
  <2>3. MainAdd[m.idx] * (m.repeat - 1) \in Nat
    BY <1>1, <2>1, <2>2
  <2>4. MainCount[m.idx] + MainAdd[m.idx] * (m.repeat - 1) \in Nat
    BY <1>1, <2>3
  <2>. QED  BY <1>1, <1>3, <2>4 DEF NeedMain
<1>. QED  BY <1>2, <1>3

\* It asks for the same while the code and the repetition stay.
LEMMA NeedMainSame ==
  ASSUME NEW m, NEW n, m.idx = n.idx, m.repeat = n.repeat
  PROVE  NeedMain(m) = NeedMain(n)
BY DEF NeedMain

\* Counting never takes anything away and stops at what is needed.
LEMMA QuestOccurOneFacts ==
  ASSUME NEW count \in Nat, NEW need \in Nat, count <= need, NEW q,
         NEW counts \in [Types -> 0..MaxOccur]
  PROVE  /\ QuestOccurOne(count, q, need, counts) \in Nat
         /\ count <= QuestOccurOne(count, q, need, counts)
         /\ QuestOccurOne(count, q, need, counts) <= need
<1>1. CASE Happened(q, counts)
  <2>1. counts[TypeOf[q]] \in Nat
    BY <1>1, QuestAssumption DEF Happened
  <2>. QED  BY <1>1, <2>1 DEF QuestOccurOne
<1>2. CASE ~Happened(q, counts)
  BY <1>2 DEF QuestOccurOne
<1>. QED  BY <1>1, <1>2
\* Starting periods again leaves the main quest alone.
LEMMA RenewedFacts ==
  ASSUME NEW m \in MainRow, NEW ended, NEW ids \in [Periods -> Days]
  PROVE  /\ Renewed(m, ended, ids) \in MainRow
         /\ Renewed(m, ended, ids).idx = m.idx
         /\ Renewed(m, ended, ids).count = m.count
         /\ Renewed(m, ended, ids).repeat = m.repeat
         /\ Renewed(m, ended, ids).update = ids
         /\ \A p \in Periods : Renewed(m, ended, ids).reward[p] =
                                 IF p \in ended THEN 0 ELSE m.reward[p]
<1>1. ids \in [Periods -> Days \union {0}]
  OBVIOUS
<1>2. [p \in Periods |-> IF p \in ended THEN 0 ELSE m.reward[p]] \in [Periods -> Days \union {0}]
  BY DEF MainRow
<1>. QED  BY <1>1, <1>2 DEF Renewed, MainRow

\* A renewed row is the old one or a fresh one.
LEMMA RenewedRowFacts ==
  ASSUME TypeOK, NEW q \in PeriodQuests, NEW ended
  PROVE  /\ RenewedRow(q, ended) \in Row
         /\ RenewedRow(q, ended).count <= Need[q]
         /\ (\E p \in ended : q \in Quests[p]) => RenewedRow(q, ended).step = 0
         /\ ~(\E p \in ended : q \in Quests[p]) => RenewedRow(q, ended) = rows[q]
BY QuestAssumption DEF TypeOK, RenewedRow, Fresh, Row

-----------------------------------------------------------------------------
(* The types.                                                              *)

LEMMA TypeInit == Init => TypeOK
<1> SUFFICES ASSUME Init PROVE TypeOK
  OBVIOUS
<1>1. 1 \in Days /\ Days \subseteq Nat
  BY QuestAssumption DEF Days
<1>2. main \in MainRow
  <2>1. Never \in [Periods -> Days \union {0}]
    BY DEF Never
  <2>. QED  BY <2>1, QuestAssumption DEF Init, MainRow
<1>3. main.count <= NeedMain(main)
  <2>1. NeedMain(main) \in Nat
    BY <1>2, NeedMainType DEF MainRow
  <2>. QED  BY <2>1 DEF Init
<1>4. rows \in [PeriodQuests -> Row] /\ \A q \in PeriodQuests : rows[q].count <= Need[q]
  BY QuestAssumption DEF Init, Fresh, Row
<1>5. request \in Request
  BY DEF Init, Request, NoRequest
<1>6. stepGiven \in [Achievements -> Seq(Nat)]
  <2>1. << >> \in Seq(Nat)
    BY EmptySeq
  <2>. QED  BY <2>1 DEF Init
<1>. QED  BY <1>1, <1>2, <1>3, <1>4, <1>5, <1>6, QuestAssumption DEF TypeOK, Init

\* The types of the rows, after a request that renews them and counts.
LEMMA TypeQuestOccur ==
  ASSUME TypeOK, Calendar, QuestOccur
  PROVE  TypeOK'
<1>1. CASE ~created
  BY <1>1 DEF TypeOK, QuestOccur, Request, NoRequest, NeedMain, history
<1>2. CASE created
  <2> DEFINE ended == NewPeriods(Ids)
             counted == UNION {Quests[p] : p \in {o \in Periods :
                                 o \in ended \/ main.reward[o] # Ids[o]}}
             renewed == Renewed(main, ended, Ids)
  <2>1. /\ main' = [renewed EXCEPT !.count =
                      QuestOccurOne(@, main.idx, NeedMain(main), request.counts)]
        /\ rows' = [q \in PeriodQuests |->
             IF q \in counted
             THEN [RenewedRow(q, ended) EXCEPT !.count =
                     QuestOccurOne(@, q, Need[q], request.counts)]
             ELSE rows[q]]
        /\ request.type = "occur" /\ request' = NoRequest
        /\ UNCHANGED <<now, created, achieved, given, completed, stepGiven>>
    BY <1>2 DEF QuestOccur, history
  <2> HIDE DEF ended, counted
  <2>2. request.counts \in [Types -> 0..MaxOccur]
    BY <2>1 DEF TypeOK, Request
  <2>3. /\ main \in MainRow /\ main.count \in Nat /\ main.idx \in MainCodes
        /\ main.repeat \in Nat /\ main.count <= NeedMain(main)
    BY DEF TypeOK, MainRow
  <2>4. NeedMain(main) \in Nat
    BY <2>3, NeedMainType
  <2>5. Ids \in [Periods -> Days]
    BY <2>1, IdsFacts
  <2>6. renewed \in MainRow /\ renewed.idx = main.idx /\ renewed.repeat = main.repeat
        /\ renewed.count = main.count
    BY <2>3, <2>5, RenewedFacts
  <2> DEFINE count == QuestOccurOne(main.count, main.idx, NeedMain(main), request.counts)
  <2>7. count \in Nat /\ count <= NeedMain(main)
    BY <2>2, <2>3, <2>4, QuestOccurOneFacts
  <2> HIDE DEF count, renewed
  <2>8. main' = [renewed EXCEPT !.count = count]
    BY <2>1, <2>6 DEF count
  <2>9. main' \in MainRow /\ main'.count = count /\ main'.idx = main.idx
        /\ main'.repeat = main.repeat
    BY <2>6, <2>7, <2>8 DEF MainRow
  <2>10. main'.count <= NeedMain(main')
    BY <2>7, <2>9, NeedMainSame
  <2>11. \A q \in PeriodQuests : rows'[q] \in Row /\ rows'[q].count <= Need[q]
    <3> SUFFICES ASSUME NEW q \in PeriodQuests
                 PROVE  rows'[q] \in Row /\ rows'[q].count <= Need[q]
      OBVIOUS
    <3>1. CASE q \in counted
      <4> DEFINE row == RenewedRow(q, ended)
      <4>1. row \in Row /\ row.count \in Nat /\ row.count <= Need[q] /\ Need[q] \in Nat
        BY RenewedRowFacts, QuestAssumption DEF Row
      <4>2. QuestOccurOne(row.count, q, Need[q], request.counts) \in Nat
            /\ QuestOccurOne(row.count, q, Need[q], request.counts) <= Need[q]
        BY <2>2, <4>1, QuestOccurOneFacts
      <4> HIDE DEF row
      <4>3. rows'[q] = [row EXCEPT !.count = QuestOccurOne(row.count, q, Need[q], request.counts)]
        BY <2>1, <3>1, <4>1 DEF row
      <4>. QED  BY <4>1, <4>2, <4>3 DEF Row
    <3>2. CASE q \notin counted
      BY <2>1, <3>2 DEF TypeOK
    <3>. QED  BY <3>1, <3>2
  <2>12. rows' \in [PeriodQuests -> Row]
    BY <2>1, <2>11
  <2>13. request' \in Request
    BY <2>1 DEF Request, NoRequest
  <2>. QED  BY <2>1, <2>9, <2>10, <2>11, <2>12, <2>13 DEF TypeOK
<1>. QED  BY <1>1, <1>2
\* A reward request that meets a new date becomes a request for the rows.
LEMMA TypeRenewDate ==
  ASSUME TypeOK, RenewDate, now' = now
  PROVE  TypeOK'
<1>1. request' \in Request
  BY DEF RenewDate, TypeOK, Request
<1>. QED  BY <1>1 DEF RenewDate, TypeOK, tables, history, NeedMain

\* Marking a period as completed.
LEMMA TypeRewardPeriod ==
  ASSUME TypeOK, NEW p \in Periods, RewardPeriod(p)
  PROVE  TypeOK'
<1>1. CASE main.update[p] # Today[p]
  BY <1>1, TypeRenewDate DEF RewardPeriod
<1>2. CASE main.update[p] = Today[p]
  <2>1. /\ main' = [main EXCEPT !.reward[p] = Today[p]]
        /\ completed' = [completed EXCEPT ![p][Today[p]] = @ + 1]
        /\ UNCHANGED <<now, created, rows, achieved, request, given, stepGiven>>
    BY <1>2 DEF RewardPeriod
  <2>2. Today[p] \in Days
    BY DateFacts
  <2>3. main' \in MainRow /\ main'.idx = main.idx /\ main'.repeat = main.repeat
        /\ main'.count = main.count
    BY <2>1, <2>2 DEF TypeOK, MainRow
  <2>4. NeedMain(main') = NeedMain(main)
    BY <2>3, NeedMainSame
  <2>5. completed' \in [Periods -> [Days -> Nat]]
    BY <2>1, <2>2 DEF TypeOK
  <2>. QED  BY <2>1, <2>3, <2>4, <2>5 DEF TypeOK
<1>. QED  BY <1>1, <1>2

\* Rewarding quests of a period.
LEMMA TypeRewardQuests ==
  ASSUME TypeOK, NEW p \in Periods, NEW codes, RewardQuests(p, codes)
  PROVE  TypeOK'
<1>1. CASE main.update[p] # Today[p]
  BY <1>1, TypeRenewDate DEF RewardQuests
<1>2. CASE main.update[p] = Today[p]
  <2>1. /\ rows' = [q \in PeriodQuests |->
              IF q \in codes THEN [rows[q] EXCEPT !.step = @ + 1] ELSE rows[q]]
        /\ given' = [q \in PeriodQuests |->
              IF q \in codes THEN [given[q] EXCEPT ![main.update[p]] = @ + 1] ELSE given[q]]
        /\ UNCHANGED <<now, created, main, achieved, request, completed, stepGiven>>
    BY <1>2 DEF RewardQuests
  <2>2. main.update[p] \in Days
    BY <1>2, DateFacts
  <2>3. given' \in [PeriodQuests -> [Days -> Nat]]
    BY <2>1, <2>2 DEF TypeOK
  <2>4. \A q \in PeriodQuests : rows'[q] \in Row /\ rows'[q].count = rows[q].count
    <3> SUFFICES ASSUME NEW q \in PeriodQuests
                 PROVE  rows'[q] \in Row /\ rows'[q].count = rows[q].count
      OBVIOUS
    <3>1. rows[q] \in Row
      BY DEF TypeOK
    <3>2. rows'[q] = IF q \in codes THEN [rows[q] EXCEPT !.step = @ + 1] ELSE rows[q]
      BY <2>1
    <3>. QED  BY <3>1, <3>2 DEF Row
  <2>5. rows' \in [PeriodQuests -> Row]
    BY <2>1, <2>4
  <2>. QED  BY <2>1, <2>3, <2>4, <2>5 DEF TypeOK, NeedMain
<1>. QED  BY <1>1, <1>2

\* Going on to the next main quest.
LEMMA TypeProcMain ==
  ASSUME TypeOK, NEW code \in MainCodes, ProcMain(code)
  PROVE  TypeOK'
<1>1. main' \in MainRow /\ main'.count = 0
  <2>1. main \in MainRow /\ FirstRepeat \in MainCodes
    BY QuestAssumption DEF TypeOK
  <2>2. CASE code + 1 \in MainCodes
    <3>1. main' = [main EXCEPT !.idx = code + 1, !.count = 0]
      BY <2>2 DEF ProcMain
    <3>. QED  BY <2>1, <2>2, <3>1 DEF MainRow
  <2>3. CASE code + 1 \notin MainCodes
    <3>1. main' = [main EXCEPT !.idx = FirstRepeat, !.count = 0, !.repeat = @ + 1]
      BY <2>3 DEF ProcMain
    <3>2. main.repeat + 1 \in Nat
      BY <2>1 DEF MainRow
    <3>. QED  BY <2>1, <3>1, <3>2, Zenon DEF MainRow
  <2>. QED  BY <2>2, <2>3
<1>2. NeedMain(main') \in Nat
  BY <1>1, NeedMainType DEF MainRow
<1>3. main'.count <= NeedMain(main')
  BY <1>1, <1>2
<1>. QED  BY <1>1, <1>3 DEF ProcMain, TypeOK, history

\* A sequence that is longer by another.
LEMMA Longer ==
  ASSUME NEW s \in Seq(Nat), NEW t \in Seq(Nat)
  PROVE  /\ s \o t \in Seq(Nat) /\ Len(s) \in Nat
         /\ Len(s \o t) = Len(s) + Len(t)
         /\ \A n \in 1..Len(s) : (s \o t)[n] = s[n]
         /\ \A n \in (Len(s) + 1)..(Len(s) + Len(t)) :
              (s \o t)[n] = t[n - Len(s)] /\ n - Len(s) \in 1..Len(t)
<1>1. Len(s) \in Nat /\ Len(t) \in Nat
  BY LenProperties
<1>2. /\ s \o t \in Seq(Nat)
      /\ Len(s \o t) = Len(s) + Len(t)
      /\ \A i \in 1..Len(s) + Len(t) :
           (s \o t)[i] = IF i <= Len(s) THEN s[i] ELSE t[i - Len(s)]
  BY ConcatProperties
<1>. QED  BY <1>1, <1>2

\* The rewards a request for achievements adds to those of an achievement.
LEMMA StepsAdded ==
  ASSUME TypeOK, NEW times \in [Achievements -> 0..MaxNamed], ProcAchieve(times),
         NEW a \in Achievements
  PROVE  /\ achieved[a] \in Nat /\ times[a] \in Nat
         /\ achieved'[a] = achieved[a] + times[a]
         /\ stepGiven[a] \in Seq(Nat) /\ stepGiven'[a] \in Seq(Nat)
         /\ Len(stepGiven'[a]) = Len(stepGiven[a]) + times[a]
         /\ \A n \in 1..Len(stepGiven[a]) : stepGiven'[a][n] = stepGiven[a][n]
         /\ \A n \in (Len(stepGiven[a]) + 1)..Len(stepGiven'[a]) :
              stepGiven'[a][n] = achieved[a] + 1
<1> DEFINE added == [i \in 1..times[a] |-> achieved[a] + 1]
<1>1. achieved[a] \in Nat /\ times[a] \in Nat /\ stepGiven[a] \in Seq(Nat)
  BY QuestAssumption DEF TypeOK
<1>2. added \in Seq(Nat) /\ Len(added) = times[a]
      /\ \A i \in 1..times[a] : added[i] = achieved[a] + 1
  BY <1>1
<1>3. stepGiven'[a] = stepGiven[a] \o added /\ achieved'[a] = achieved[a] + times[a]
  BY DEF ProcAchieve
<1> HIDE DEF added
<1>4. /\ stepGiven'[a] \in Seq(Nat) /\ Len(stepGiven[a]) \in Nat
      /\ Len(stepGiven'[a]) = Len(stepGiven[a]) + times[a]
      /\ \A n \in 1..Len(stepGiven[a]) : stepGiven'[a][n] = stepGiven[a][n]
      /\ \A n \in (Len(stepGiven[a]) + 1)..(Len(stepGiven[a]) + times[a]) :
           /\ stepGiven'[a][n] = added[n - Len(stepGiven[a])]
           /\ n - Len(stepGiven[a]) \in 1..times[a]
  <2> DEFINE old == stepGiven[a]
             new == stepGiven'[a]
  <2>1. old \in Seq(Nat) /\ added \in Seq(Nat) /\ Len(added) = times[a] /\ new = old \o added
    BY <1>1, <1>2, <1>3
  <2> HIDE DEF old, new
  <2>2. /\ new \in Seq(Nat) /\ Len(old) \in Nat
        /\ Len(new) = Len(old) + Len(added)
        /\ \A n \in 1..Len(old) : new[n] = old[n]
        /\ \A n \in (Len(old) + 1)..(Len(old) + Len(added)) :
             new[n] = added[n - Len(old)] /\ n - Len(old) \in 1..Len(added)
    BY <2>1, Longer
  <2>. QED  BY <2>1, <2>2 DEF old, new
<1>5. \A n \in (Len(stepGiven[a]) + 1)..(Len(stepGiven[a]) + times[a]) :
        stepGiven'[a][n] = achieved[a] + 1
  BY <1>2, <1>4, Zenon
<1>. QED  BY <1>1, <1>3, <1>4, <1>5, Zenon

\* Rewarding the next steps of achievements.
LEMMA TypeProcAchieve ==
  ASSUME TypeOK, NEW times \in [Achievements -> 0..MaxNamed], ProcAchieve(times)
  PROVE  TypeOK'
<1>1. achieved' \in [Achievements -> Nat]
  <2>1. \A a \in Achievements :
          achieved[a] \in Nat /\ times[a] \in Nat /\ achieved'[a] = achieved[a] + times[a]
    BY StepsAdded, Zenon
  <2>. QED  BY <2>1 DEF ProcAchieve
<1>2. stepGiven' \in [Achievements -> Seq(Nat)]
  <2>1. \A a \in Achievements : stepGiven'[a] \in Seq(Nat)
    BY StepsAdded, Zenon
  <2>. QED  BY <2>1 DEF ProcAchieve
<1>. QED  BY <1>1, <1>2 DEF ProcAchieve, TypeOK, NeedMain

\* Bringing the rows up to date.
LEMMA TypeQuestRefreshData ==
  ASSUME TypeOK, Calendar, QuestRefreshData
  PROVE  TypeOK'
<1> DEFINE ended == IF created THEN NewPeriods(Ids) ELSE {}
<1>1. /\ main' = Renewed(main, ended, Ids)
      /\ rows' = [q \in PeriodQuests |-> RenewedRow(q, ended)]
      /\ request.type = "get" /\ request' = NoRequest /\ created' = TRUE
      /\ UNCHANGED <<now, achieved, given, completed, stepGiven>>
  BY DEF QuestRefreshData, history
<1> HIDE DEF ended
<1>2. Ids \in [Periods -> Days]
  BY <1>1, IdsFacts
<1>3. main \in MainRow /\ main.count <= NeedMain(main)
  BY DEF TypeOK
<1>4. main' \in MainRow /\ main'.idx = main.idx /\ main'.repeat = main.repeat
      /\ main'.count = main.count
  BY <1>1, <1>2, <1>3, RenewedFacts
<1>5. NeedMain(main') = NeedMain(main)
  BY <1>4, NeedMainSame
<1>6. \A q \in PeriodQuests : rows'[q] \in Row /\ rows'[q].count <= Need[q]
  BY <1>1, RenewedRowFacts
<1>7. rows' \in [PeriodQuests -> Row]
  BY <1>1, <1>6
<1>8. request' \in Request
  BY <1>1 DEF Request, NoRequest
<1>. QED  BY <1>1, <1>3, <1>4, <1>5, <1>6, <1>7, <1>8 DEF TypeOK

\* Every step keeps the types.
LEMMA TypeStep == TypeOK /\ Calendar /\ [Next]_vars => TypeOK'
<1> SUFFICES ASSUME TypeOK, Calendar, [Next]_vars PROVE TypeOK'
  OBVIOUS
<1>1. CASE NextDay
  <2>1. now' \in Days
    BY <1>1, QuestAssumption DEF NextDay, TypeOK, Days
  <2>. QED  BY <1>1, <2>1 DEF NextDay, TypeOK, tables, history, NeedMain
<1>2. CASE QuestGetData
  <2>1. request' \in Request
    BY <1>2 DEF QuestGetData, TypeOK, Request
  <2>. QED  BY <1>2, <2>1 DEF QuestGetData, TypeOK, tables, history, NeedMain
<1>3. CASE QuestRefreshData
  BY <1>3, TypeQuestRefreshData
<1>4. CASE \E counts \in [Types -> 0..MaxOccur] : StartOccur(counts)
  <2>1. PICK counts \in [Types -> 0..MaxOccur] : StartOccur(counts)
    BY <1>4
  <2>2. request' \in Request
    BY <2>1 DEF StartOccur, TypeOK, Request
  <2>. QED  BY <2>1, <2>2 DEF StartOccur, TypeOK, tables, history, NeedMain
<1>5. CASE QuestOccur
  BY <1>5, TypeQuestOccur
<1>6. CASE QuestReward
  <2>1. CASE \E code \in MainCodes : ProcMain(code)
    BY <2>1, TypeProcMain
  <2>2. CASE \E codes \in SUBSET DayQuests : ProcDay(codes)
    BY <2>2, TypeRewardQuests DEF ProcDay, Periods
  <2>3. CASE \E codes \in SUBSET WeekQuests : ProcWeek(codes)
    BY <2>3, TypeRewardQuests DEF ProcWeek, Periods
  <2>4. CASE ProcDayComplete
    BY <2>4, TypeRewardPeriod DEF ProcDayComplete, Periods
  <2>5. CASE ProcWeekComplete
    BY <2>5, TypeRewardPeriod DEF ProcWeekComplete, Periods
  <2>6. CASE \E times \in [Achievements -> 0..MaxNamed] : ProcAchieve(times)
    BY <2>6, TypeProcAchieve
  <2>. QED  BY <1>6, <2>1, <2>2, <2>3, <2>4, <2>5, <2>6 DEF QuestReward
<1>7. CASE UNCHANGED vars
  BY <1>7 DEF vars, TypeOK, tables, history, NeedMain
<1>. QED  BY <1>1, <1>2, <1>3, <1>4, <1>5, <1>6, <1>7 DEF Next
-----------------------------------------------------------------------------
(* Rewards once per period.                                                *)

\* What a renewal does to the periods, the marks and the steps, whether the
\* request goes on to count or not.
Renewal(ended) ==
  /\ ended = IF created THEN NewPeriods(Ids) ELSE {}
  /\ request.type # "none" /\ request'.type = "none" /\ created'
  /\ UNCHANGED <<now, given, completed>>
  /\ main'.update = Ids
  /\ \A p \in Periods : main'.reward[p] = IF p \in ended THEN 0 ELSE main.reward[p]
  /\ \A q \in PeriodQuests :
       rows'[q].step = IF \E p \in ended : q \in Quests[p] THEN 0 ELSE rows[q].step

\* Getting the rows renews them.
LEMMA RefreshRenews ==
  ASSUME TypeOK, Calendar, QuestRefreshData
  PROVE  \E ended : Renewal(ended)
<1> DEFINE ended == IF created THEN NewPeriods(Ids) ELSE {}
<1>1. /\ main' = Renewed(main, ended, Ids)
      /\ rows' = [q \in PeriodQuests |-> RenewedRow(q, ended)]
      /\ request.type = "get" /\ request' = NoRequest /\ created' = TRUE
      /\ UNCHANGED <<now, given, completed>>
  BY DEF QuestRefreshData, history
<1>2. ended = IF created THEN NewPeriods(Ids) ELSE {}
  OBVIOUS
<1> HIDE DEF ended
<1>3. Ids \in [Periods -> Days]
  BY <1>1, IdsFacts
<1>4. main \in MainRow
  BY DEF TypeOK
<1>5. /\ main'.update = Ids
      /\ \A p \in Periods : main'.reward[p] = IF p \in ended THEN 0 ELSE main.reward[p]
  BY <1>1, <1>3, <1>4, RenewedFacts
<1>6. \A q \in PeriodQuests :
        rows'[q].step = IF \E p \in ended : q \in Quests[p] THEN 0 ELSE rows[q].step
  BY <1>1, RenewedRowFacts
<1>7. request.type # "none" /\ request'.type = "none"
  BY <1>1 DEF NoRequest
<1>. QED  BY <1>1, <1>2, <1>5, <1>6, <1>7 DEF Renewal

\* So does counting, which leaves the steps and marks alone.
LEMMA OccurRenews ==
  ASSUME TypeOK, Calendar, QuestOccur, created
  PROVE  \E ended : Renewal(ended)
<1> DEFINE ended == NewPeriods(Ids)
           counted == UNION {Quests[p] : p \in {o \in Periods :
                               o \in ended \/ main.reward[o] # Ids[o]}}
           renewed == Renewed(main, ended, Ids)
<1>1. /\ main' = [renewed EXCEPT !.count =
                    QuestOccurOne(@, main.idx, NeedMain(main), request.counts)]
      /\ rows' = [q \in PeriodQuests |->
           IF q \in counted
           THEN [RenewedRow(q, ended) EXCEPT !.count =
                   QuestOccurOne(@, q, Need[q], request.counts)]
           ELSE rows[q]]
      /\ request.type = "occur" /\ request' = NoRequest
      /\ UNCHANGED <<now, created, given, completed>>
  BY DEF QuestOccur, history
<1>2. ended = IF created THEN NewPeriods(Ids) ELSE {}
  OBVIOUS
<1>3. \A p \in ended : Quests[p] \subseteq counted
  BY DEF NewPeriods
<1> HIDE DEF ended, counted
<1>4. Ids \in [Periods -> Days]
  BY <1>1, IdsFacts
<1>5. main \in MainRow
  BY DEF TypeOK
<1>6. /\ renewed \in MainRow /\ renewed.update = Ids
      /\ \A p \in Periods : renewed.reward[p] = IF p \in ended THEN 0 ELSE main.reward[p]
  BY <1>4, <1>5, RenewedFacts
<1> HIDE DEF renewed
<1>7. main'.update = renewed.update /\ main'.reward = renewed.reward
  BY <1>1, <1>6 DEF MainRow
<1>8. \A q \in PeriodQuests :
        rows'[q].step = IF \E p \in ended : q \in Quests[p] THEN 0 ELSE rows[q].step
  <2> SUFFICES ASSUME NEW q \in PeriodQuests
               PROVE  rows'[q].step =
                        IF \E p \in ended : q \in Quests[p] THEN 0 ELSE rows[q].step
    OBVIOUS
  <2>1. CASE q \in counted
    <3> DEFINE row == RenewedRow(q, ended)
    <3>1. /\ row \in Row
          /\ row.step = IF \E p \in ended : q \in Quests[p] THEN 0 ELSE rows[q].step
      BY RenewedRowFacts
    <3>2. rows'[q] = [row EXCEPT !.count = QuestOccurOne(@, q, Need[q], request.counts)]
      BY <1>1, <2>1
    <3> HIDE DEF row
    <3>. QED  BY <3>1, <3>2 DEF Row
  <2>2. CASE q \notin counted
    BY <1>1, <1>3, <2>2
  <2>. QED  BY <2>1, <2>2
<1>9. request.type # "none" /\ request'.type = "none"
  BY <1>1 DEF NoRequest
<1>. QED  BY <1>1, <1>2, <1>6, <1>7, <1>8, <1>9 DEF Renewal

\* A renewal moves the rows on to periods for which nothing was rewarded.
LEMMA RenewalKeeps ==
  ASSUME TypeOK, Calendar, RewardedOncePerPeriod, NEW ended, Renewal(ended)
  PROVE  Calendar' /\ RewardedOncePerPeriod'
<1>1. /\ Ids \in [Periods -> Days]
      /\ \A p \in Periods : main.update[p] <= Ids[p] /\ Ids[p] <= Today[p]
  BY IdsFacts DEF Renewal
<1>2. Today' = Today
  BY DEF Renewal, Today
<1>3. /\ Days \subseteq Nat \ {0}
      /\ main.update \in [Periods -> Days \union {0}]
  BY DateFacts DEF TypeOK, MainRow
<1>4. \A p \in Periods : p \notin ended => main.update[p] = Ids[p] \/ ~created
  BY DEF Renewal, NewPeriods
<1>5. \A p \in Periods : main.update[p] \in Nat /\ Ids[p] \in Nat \ {0}
  <2>1. \A p \in Periods : main.update[p] \in Days \union {0} /\ Ids[p] \in Days
    BY <1>1, <1>3
  <2>2. Days \union {0} \subseteq Nat
    BY <1>3
  <2>. QED  BY <1>3, <2>1, <2>2, Zenon
<1>6. \A p \in Periods : p \in ended => main.update[p] < Ids[p]
  <2>1. \A p \in Periods : p \in ended => main.update[p] # Ids[p]
    BY DEF Renewal, NewPeriods
  <2>. QED  BY <1>1, <1>5, <2>1
<1>7. \A p \in Periods : ~created => main.update[p] < Ids[p]
  <2>1. \A p \in Periods : ~created => main.update[p] = 0
    BY DEF Calendar
  <2>. QED  BY <1>5, <2>1
<1>8. ASSUME NEW p \in Periods, NEW id \in Days, id > Ids[p]
      PROVE  completed[p][id] = 0 /\ \A q \in Quests[p] : given[q][id] = 0
  <2>1. id > main.update[p]
    BY <1>1, <1>3, <1>8
  <2>. QED  BY <2>1 DEF Calendar
<1>9. ASSUME NEW p \in Periods, main.update[p] < Ids[p]
      PROVE  completed[p][Ids[p]] = 0 /\ \A q \in Quests[p] : given[q][Ids[p]] = 0
  <2>1. Ids[p] \in Days /\ Ids[p] > main.update[p]
    BY <1>1, <1>3, <1>9
  <2>. QED  BY <2>1 DEF Calendar
<1>10. Calendar'
  <2>1. \A p \in Periods : main'.update[p] <= Today'[p]
    BY <1>1, <1>2 DEF Renewal
  <2>2. \A p \in Periods : \A id \in Days : id > main'.update[p] =>
          /\ completed'[p][id] = 0
          /\ \A q \in Quests[p] : given'[q][id] = 0
    BY <1>8 DEF Renewal
  <2>. QED  BY <2>1, <2>2 DEF Calendar, Renewal
<1>11. \A p \in Periods : \A q \in Quests[p] : rows'[q].step = given'[q][main'.update[p]]
  <2> SUFFICES ASSUME NEW p \in Periods, NEW q \in Quests[p]
               PROVE  rows'[q].step = given[q][Ids[p]]
    BY DEF Renewal
  <2>1. q \in PeriodQuests
    BY PeriodFacts
  <2>2. CASE p \in ended
    BY <1>6, <1>9, <2>1, <2>2 DEF Renewal
  <2>3. CASE p \notin ended /\ created
    <3>1. ~\E o \in ended : q \in Quests[o]
      BY <2>3, PeriodFacts DEF Renewal, NewPeriods
    <3>2. rows'[q].step = rows[q].step
      BY <2>1, <3>1 DEF Renewal
    <3>3. Ids[p] = main.update[p]
      BY <1>4, <2>3
    <3>4. rows[q].step = given[q][main.update[p]]
      BY <2>3 DEF RewardedOncePerPeriod
    <3>. QED  BY <3>2, <3>3, <3>4
  <2>4. CASE p \notin ended /\ ~created
    <3>1. rows[q].step = 0
      BY <2>1, <2>4 DEF Calendar
    <3>2. rows'[q].step = 0
      BY <2>1, <3>1 DEF Renewal
    <3>. QED  BY <1>7, <1>9, <2>4, <3>2
  <2>. QED  BY <2>2, <2>3, <2>4
<1>12. \A p \in Periods : main'.reward[p] =
         IF completed'[p][main'.update[p]] = 1 THEN main'.update[p] ELSE 0
  <2> SUFFICES ASSUME NEW p \in Periods
               PROVE  main'.reward[p] = IF completed[p][Ids[p]] = 1 THEN Ids[p] ELSE 0
    BY DEF Renewal
  <2>1. CASE p \in ended
    BY <1>6, <1>9, <2>1 DEF Renewal
  <2>2. CASE p \notin ended /\ created
    BY <1>4, <2>2 DEF Renewal, RewardedOncePerPeriod
  <2>3. CASE p \notin ended /\ ~created
    <3>1. main'.reward[p] = 0
      BY <2>3 DEF Renewal, Calendar
    <3>. QED  BY <1>7, <1>9, <2>3, <3>1
  <2>. QED  BY <2>1, <2>2, <2>3
<1>. QED  BY <1>10, <1>11, <1>12 DEF RewardedOncePerPeriod, Renewal
\* A date that goes on, or a request that reads it, keeps the calendar.
LEMMA CalendarRead ==
  ASSUME TypeOK, Calendar, request'.type = "none" \/ request'.day = now,
         now' = now, UNCHANGED <<created, main, rows, given, completed>>
  PROVE  Calendar'
<1>1. Today' = Today
  BY DEF Today
<1>2. main.update["day"] <= now
  BY DEF Calendar, Today, Periods
<1>3. now \in Nat
  BY DateFacts DEF TypeOK
<1>4. request'.type # "none" => request'.day <= now /\ main.update["day"] <= request'.day
  BY <1>2, <1>3
<1>. QED  BY <1>1, <1>4 DEF Calendar

LEMMA CalendarNextDay ==
  ASSUME TypeOK, Calendar, NextDay
  PROVE  Calendar'
<1>1. /\ now' = now + 1 /\ now < MaxDay /\ now \in Days
      /\ UNCHANGED <<created, main, rows, request, given, completed>>
  BY DEF NextDay, tables, history, TypeOK
<1>2. now' \in Days /\ now <= now' /\ now \in Nat
  BY <1>1, QuestAssumption DEF Days
<1>3. WeekOf[now] <= WeekOf[now'] /\ WeekOf[now] \in Nat /\ WeekOf[now'] \in Nat
  BY <1>1, <1>2, QuestAssumption, DateFacts
<1>4. /\ Today["day"] = now /\ Today["week"] = WeekOf[now]
      /\ Today'["day"] = now' /\ Today'["week"] = WeekOf[now']
  BY DEF Today, Periods
<1>5. \A p \in Periods : main.update[p] \in Nat
  BY DateFacts DEF TypeOK, MainRow
<1>6. \A p \in Periods : main'.update[p] <= Today'[p]
  BY <1>1, <1>2, <1>3, <1>4, <1>5 DEF Calendar, Periods
<1>7. request.type # "none" => request.day \in Nat
  BY DateFacts DEF TypeOK, Request
<1>8. request'.type # "none" => request'.day <= now' /\ main'.update["day"] <= request'.day
  BY <1>1, <1>2, <1>7 DEF Calendar
<1>. QED  BY <1>1, <1>6, <1>8 DEF Calendar

\* Rewarding quests, or none of them, keeps both.
LEMMA RewardQuestsKeeps ==
  ASSUME TypeOK, Calendar, RewardedOncePerPeriod,
         NEW p \in Periods, NEW codes, RewardQuests(p, codes)
  PROVE  Calendar' /\ RewardedOncePerPeriod'
<1>1. CASE main.update[p] # Today[p]
  <2>1. /\ request' = [type |-> "get", day |-> now]
        /\ UNCHANGED <<now, created, main, rows, given, completed>>
    BY <1>1 DEF RewardQuests, RenewDate, tables, history
  <2>. QED  BY <2>1, CalendarRead DEF RewardedOncePerPeriod
<1>2. CASE main.update[p] = Today[p]
  <2>1. /\ \A q \in codes : rows[q].step = 0
        /\ rows' = [q \in PeriodQuests |->
              IF q \in codes THEN [rows[q] EXCEPT !.step = @ + 1] ELSE rows[q]]
        /\ given' = [q \in PeriodQuests |->
              IF q \in codes THEN [given[q] EXCEPT ![main.update[p]] = @ + 1] ELSE given[q]]
        /\ UNCHANGED <<now, created, main, request, completed>>
        /\ created /\ codes \subseteq Quests[p] /\ request = NoRequest
    BY <1>2 DEF RewardQuests
  <2>2. main.update[p] \in Days
    BY <1>2, DateFacts
  <2>3. codes \subseteq PeriodQuests
    BY <2>1, PeriodFacts
  <2>4. ASSUME NEW q \in codes
        PROVE  /\ rows'[q].step = 1 /\ given'[q][main.update[p]] = 1
               /\ \A id \in Days : id # main.update[p] => given'[q][id] = given[q][id]
    <3>1. rows[q] \in Row /\ given[q] \in [Days -> Nat] /\ q \in PeriodQuests
      BY <2>3 DEF TypeOK
    <3>2. rows[q].step = 0 /\ given[q][main.update[p]] = 0
      BY <2>1 DEF RewardedOncePerPeriod
    <3>3. rows'[q] = [rows[q] EXCEPT !.step = @ + 1]
          /\ given'[q] = [given[q] EXCEPT ![main.update[p]] = @ + 1]
      BY <2>1, <3>1
    <3>. QED  BY <2>2, <3>1, <3>2, <3>3 DEF Row
  <2>5. \A q \in PeriodQuests \ codes : rows'[q] = rows[q] /\ given'[q] = given[q]
    BY <2>1
  <2>6. \A q \in codes, o \in Periods : q \in Quests[o] => o = p
    BY <2>1, PeriodFacts
  <2>7. Calendar'
    <3>1. Today' = Today
      BY <2>1 DEF Today
    <3>2. \A o \in Periods : \A id \in Days : id > main'.update[o] =>
            \A q \in Quests[o] : given'[q][id] = 0
      <4> SUFFICES ASSUME NEW o \in Periods, NEW id \in Days, id > main.update[o],
                          NEW q \in Quests[o]
                   PROVE  given'[q][id] = 0
        BY <2>1
      <4>1. given[q][id] = 0 /\ q \in PeriodQuests
        BY PeriodFacts DEF Calendar
      <4>2. CASE q \in codes
        <5>1. o = p
          BY <2>6, <4>2
        <5>2. id # main.update[p]
          BY <2>2, <5>1, DateFacts
        <5>. QED  BY <2>4, <4>1, <4>2, <5>2
      <4>3. CASE q \notin codes
        BY <2>5, <4>1, <4>3
      <4>. QED  BY <4>2, <4>3
    <3>. QED  BY <2>1, <3>1, <3>2 DEF Calendar
  <2>8. \A q \in PeriodQuests, id \in Days : given'[q][id] <= 1
    <3> SUFFICES ASSUME NEW q \in PeriodQuests, NEW id \in Days PROVE given'[q][id] <= 1
      OBVIOUS
    <3>1. given[q][id] <= 1
      BY DEF RewardedOncePerPeriod
    <3>2. CASE q \in codes
      BY <2>4, <3>1, <3>2
    <3>3. CASE q \notin codes
      BY <2>5, <3>1, <3>3
    <3>. QED  BY <3>2, <3>3
  <2>9. \A o \in Periods : \A q \in Quests[o] : rows'[q].step = given'[q][main.update[o]]
    <3> SUFFICES ASSUME NEW o \in Periods, NEW q \in Quests[o]
                 PROVE  rows'[q].step = given'[q][main.update[o]]
      OBVIOUS
    <3>1. q \in PeriodQuests /\ rows[q].step = given[q][main.update[o]]
      BY <2>1, PeriodFacts DEF RewardedOncePerPeriod
    <3>2. CASE q \in codes
      BY <2>4, <2>6, <3>2
    <3>3. CASE q \notin codes
      BY <2>5, <3>1, <3>3
    <3>. QED  BY <3>2, <3>3
  <2>10. \A o \in Periods, id \in Days : completed'[o][id] <= 1
    BY <2>1 DEF RewardedOncePerPeriod
  <2>11. \A o \in Periods : main'.reward[o] =
           IF completed'[o][main'.update[o]] = 1 THEN main'.update[o] ELSE 0
    BY <2>1 DEF RewardedOncePerPeriod
  <2>12. main' = main
    BY <2>1
  <2>. QED  BY <2>7, <2>8, <2>9, <2>10, <2>11, <2>12 DEF RewardedOncePerPeriod
<1>. QED  BY <1>1, <1>2

\* So does rewarding the completion of a period.
LEMMA RewardPeriodKeeps ==
  ASSUME TypeOK, Calendar, RewardedOncePerPeriod, NEW p \in Periods, RewardPeriod(p)
  PROVE  Calendar' /\ RewardedOncePerPeriod'
<1>1. CASE main.update[p] # Today[p]
  <2>1. /\ request' = [type |-> "get", day |-> now]
        /\ UNCHANGED <<now, created, main, rows, given, completed>>
    BY <1>1 DEF RewardPeriod, RenewDate, tables, history
  <2>. QED  BY <2>1, CalendarRead DEF RewardedOncePerPeriod
<1>2. CASE main.update[p] = Today[p]
  <2> DEFINE id0 == main.update[p]
  <2>1. /\ main.reward[p] # id0
        /\ main' = [main EXCEPT !.reward[p] = id0]
        /\ completed' = [completed EXCEPT ![p][id0] = @ + 1]
        /\ UNCHANGED <<now, created, rows, request, given>>
        /\ created /\ request = NoRequest
    BY <1>2 DEF RewardPeriod
  <2>2. id0 \in Days /\ id0 # 0 /\ Days \subseteq Nat
    BY <1>2, DateFacts
  <2>3. /\ main'.update = main.update /\ main'.reward[p] = id0
        /\ \A o \in Periods : o # p => main'.reward[o] = main.reward[o]
    BY <2>1 DEF TypeOK, MainRow
  <2>4. completed[p][id0] = 0
    <3>1. completed[p][id0] \in Nat /\ completed[p][id0] <= 1
      BY <2>2 DEF TypeOK, RewardedOncePerPeriod
    <3>2. completed[p][id0] # 1
      BY <2>1 DEF RewardedOncePerPeriod
    <3>. QED  BY <3>1, <3>2
  <2>5. /\ completed'[p][id0] = 1
        /\ \A id \in Days : id # id0 => completed'[p][id] = completed[p][id]
        /\ \A o \in Periods : o # p => completed'[o] = completed[o]
    BY <2>1, <2>2, <2>4 DEF TypeOK
  <2> HIDE DEF id0
  <2>6. Calendar'
    <3>1. Today' = Today
      BY <2>1 DEF Today
    <3>2. \A o \in Periods : \A id \in Days : id > main'.update[o] => completed'[o][id] = 0
      <4> SUFFICES ASSUME NEW o \in Periods, NEW id \in Days, id > main.update[o]
                   PROVE  completed'[o][id] = 0
        BY <2>3
      <4>1. completed[o][id] = 0
        BY DEF Calendar
      <4>2. o = p => id # id0
        BY <2>2 DEF id0
      <4>. QED  BY <2>5, <4>1, <4>2
    <3>. QED  BY <2>1, <2>3, <3>1, <3>2 DEF Calendar
  <2>7. \A o \in Periods, id \in Days : completed'[o][id] <= 1
    <3> SUFFICES ASSUME NEW o \in Periods, NEW id \in Days PROVE completed'[o][id] <= 1
      OBVIOUS
    <3>1. completed[o][id] <= 1
      BY DEF RewardedOncePerPeriod
    <3>. QED  BY <2>5, <3>1
  <2>8. \A o \in Periods : main'.reward[o] =
          IF completed'[o][main.update[o]] = 1 THEN main.update[o] ELSE 0
    <3> SUFFICES ASSUME NEW o \in Periods
                 PROVE  main'.reward[o] =
                          IF completed'[o][main.update[o]] = 1 THEN main.update[o] ELSE 0
      OBVIOUS
    <3>1. CASE o = p
      BY <2>3, <2>5, <3>1 DEF id0
    <3>2. CASE o # p
      BY <2>1, <2>3, <2>5, <3>2 DEF RewardedOncePerPeriod
    <3>. QED  BY <3>1, <3>2
  <2>9. \A q \in PeriodQuests, id \in Days : given'[q][id] <= 1
    BY <2>1 DEF RewardedOncePerPeriod
  <2>10. \A o \in Periods : \A q \in Quests[o] : rows'[q].step = given'[q][main'.update[o]]
    BY <2>1, <2>3 DEF RewardedOncePerPeriod
  <2>. QED  BY <2>3, <2>6, <2>7, <2>8, <2>9, <2>10 DEF RewardedOncePerPeriod
<1>. QED  BY <1>1, <1>2
\* The first state.
LEMMA InvInit == Init => IInv
<1> SUFFICES ASSUME Init PROVE IInv
  OBVIOUS
<1>1. TypeOK
  BY TypeInit
<1>2. /\ main.update = Never /\ main.reward = Never /\ ~created /\ request.type = "none"
      /\ now = 1
  BY DEF Init, NoRequest
<1>3. \A p \in Periods : main.update[p] = 0 /\ main.reward[p] = 0
  BY <1>2 DEF Never
<1>4. \A q \in PeriodQuests : rows[q].step = 0 /\ \A id \in Days : given[q][id] = 0
  BY DEF Init, Fresh
<1>5. \A p \in Periods, id \in Days : completed[p][id] = 0
  BY DEF Init
<1>6. Calendar
  <2>1. \A p \in Periods : main.update[p] <= Today[p]
    <3>1. \A p \in Periods : Today[p] \in Nat
      BY <1>1, DateFacts
    <3>. QED  BY <1>3, <3>1
  <2>. QED  BY <1>2, <1>3, <1>4, <1>5, <2>1, PeriodFacts DEF Calendar
<1>7. RewardedOncePerPeriod
  BY <1>2, <1>4, <1>5 DEF RewardedOncePerPeriod
<1>8. StepsBehind
  BY DEF Init, StepsBehind
<1>. QED  BY <1>1, <1>6, <1>7, <1>8 DEF IInv

\* Only a request for achievements adds to what was rewarded of them.
LEMMA AchieveOnly ==
  ASSUME [Next]_vars
  PROVE  \/ \E times \in [Achievements -> 0..MaxNamed] : ProcAchieve(times)
         \/ UNCHANGED <<achieved, stepGiven>>
BY DEF Next, NextDay, QuestGetData, QuestRefreshData, StartOccur, QuestOccur, QuestReward,
       ProcMain, ProcDay, ProcWeek, RewardQuests, ProcDayComplete, ProcWeekComplete,
       RewardPeriod, RenewDate, vars, tables, history

\* Every step keeps what was rewarded behind the rows.
LEMMA AchievementsStep == TypeOK /\ StepsBehind /\ [Next]_vars => StepsBehind'
<1> SUFFICES ASSUME TypeOK, StepsBehind, [Next]_vars PROVE StepsBehind'
  OBVIOUS
<1>1. CASE \E times \in [Achievements -> 0..MaxNamed] : ProcAchieve(times)
  <2>1. PICK times \in [Achievements -> 0..MaxNamed] : ProcAchieve(times)
    BY <1>1
  <2> SUFFICES ASSUME NEW a \in Achievements, NEW n \in 1..Len(stepGiven'[a])
               PROVE  stepGiven'[a][n] <= achieved'[a]
    BY DEF StepsBehind
  <2>2. /\ achieved[a] \in Nat /\ times[a] \in Nat
        /\ achieved'[a] = achieved[a] + times[a]
        /\ stepGiven[a] \in Seq(Nat)
        /\ Len(stepGiven'[a]) = Len(stepGiven[a]) + times[a]
    BY <2>1, StepsAdded
  <2>3. CASE n \in 1..Len(stepGiven[a])
    <3>1. stepGiven'[a][n] = stepGiven[a][n]
      BY <2>1, <2>3, StepsAdded
    <3>2. stepGiven[a][n] \in Nat
      BY <2>2, <2>3, ElementOfSeq
    <3>3. stepGiven[a][n] <= achieved[a]
      BY <2>3 DEF StepsBehind
    <3>. QED  BY <2>2, <3>1, <3>2, <3>3
  <2>4. CASE n \in (Len(stepGiven[a]) + 1)..Len(stepGiven'[a])
    <3>1. stepGiven'[a][n] = achieved[a] + 1
      BY <2>1, <2>4, StepsAdded
    <3>2. times[a] >= 1
      BY <2>2, <2>4
    <3>. QED  BY <2>2, <3>1, <3>2
  <2>. QED  BY <2>2, <2>3, <2>4
<1>2. CASE UNCHANGED <<achieved, stepGiven>>
  BY <1>2 DEF StepsBehind
<1>. QED  BY <1>1, <1>2, AchieveOnly

\* What StepsGoOn asks of a step.
GoesOn ==
  \A a \in Achievements :
    \A i \in 1..Len(stepGiven[a]), j \in (Len(stepGiven[a]) + 1)..Len(stepGiven'[a]) :
      stepGiven[a][i] < stepGiven'[a][j]

\* A request is rewarded for the step after the row, others are behind it.
LEMMA GoesOnStep == TypeOK /\ StepsBehind /\ [Next]_vars => GoesOn
<1> SUFFICES ASSUME TypeOK, StepsBehind, [Next]_vars,
                    NEW a \in Achievements, NEW i \in 1..Len(stepGiven[a]),
                    NEW j \in (Len(stepGiven[a]) + 1)..Len(stepGiven'[a])
             PROVE  stepGiven[a][i] < stepGiven'[a][j]
  BY DEF GoesOn
<1>1. CASE \E times \in [Achievements -> 0..MaxNamed] : ProcAchieve(times)
  <2>1. achieved[a] \in Nat /\ stepGiven[a] \in Seq(Nat) /\ stepGiven'[a][j] = achieved[a] + 1
    BY <1>1, StepsAdded
  <2>2. stepGiven[a][i] \in Nat /\ stepGiven[a][i] <= achieved[a]
    BY <2>1 DEF StepsBehind
  <2>. QED  BY <2>1, <2>2
<1>2. CASE UNCHANGED <<achieved, stepGiven>>
  BY <1>2 DEF TypeOK
<1>. QED  BY <1>1, <1>2, AchieveOnly

\* Every step keeps the calendar and rewards nothing twice.
LEMMA RewardsStep ==
  TypeOK /\ Calendar /\ RewardedOncePerPeriod /\ [Next]_vars
    => Calendar' /\ RewardedOncePerPeriod'
<1> SUFFICES ASSUME TypeOK, Calendar, RewardedOncePerPeriod, [Next]_vars
             PROVE  Calendar' /\ RewardedOncePerPeriod'
  OBVIOUS
<1>1. CASE NextDay
  BY <1>1, CalendarNextDay DEF NextDay, RewardedOncePerPeriod, tables, history
<1>2. CASE QuestGetData
  BY <1>2, CalendarRead DEF QuestGetData, RewardedOncePerPeriod, tables, history
<1>3. CASE QuestRefreshData
  BY <1>3, RefreshRenews, RenewalKeeps
<1>4. CASE \E counts \in [Types -> 0..MaxOccur] : StartOccur(counts)
  BY <1>4, CalendarRead DEF StartOccur, RewardedOncePerPeriod, tables, history
<1>5. CASE QuestOccur
  <2>1. CASE created
    BY <1>5, <2>1, OccurRenews, RenewalKeeps
  <2>2. CASE ~created
    <3>1. /\ request'.type = "none"
          /\ UNCHANGED <<now, created, main, rows, given, completed>>
      BY <1>5, <2>2 DEF QuestOccur, NoRequest, history
    <3>. QED  BY <3>1, CalendarRead DEF RewardedOncePerPeriod
  <2>. QED  BY <2>1, <2>2
<1>6. CASE QuestReward
  <2>1. CASE \E code \in MainCodes : ProcMain(code)
    <3>1. PICK code \in MainCodes : ProcMain(code)
      BY <2>1
    <3>2. main'.update = main.update /\ main'.reward = main.reward
      BY <3>1 DEF ProcMain, TypeOK, MainRow
    <3>3. /\ request'.type = "none" /\ request.type = "none" /\ created
          /\ UNCHANGED <<now, created, rows, given, completed>>
      BY <3>1 DEF ProcMain, NoRequest, history
    <3>4. Today' = Today
      BY <3>3 DEF Today
    <3>5. Calendar'
      BY <3>2, <3>3, <3>4 DEF Calendar
    <3>. QED  BY <3>2, <3>3, <3>5 DEF RewardedOncePerPeriod
  <2>2. CASE \E codes \in SUBSET DayQuests : ProcDay(codes)
    BY <2>2, RewardQuestsKeeps DEF ProcDay, Periods
  <2>3. CASE \E codes \in SUBSET WeekQuests : ProcWeek(codes)
    BY <2>3, RewardQuestsKeeps DEF ProcWeek, Periods
  <2>4. CASE ProcDayComplete
    BY <2>4, RewardPeriodKeeps DEF ProcDayComplete, Periods
  <2>5. CASE ProcWeekComplete
    BY <2>5, RewardPeriodKeeps DEF ProcWeekComplete, Periods
  <2>6. CASE \E times \in [Achievements -> 0..MaxNamed] : ProcAchieve(times)
    <3>1. /\ request'.type = "none"
          /\ UNCHANGED <<now, created, main, rows, given, completed>>
      BY <2>6 DEF ProcAchieve, NoRequest
    <3>. QED  BY <3>1, CalendarRead DEF RewardedOncePerPeriod
  <2>. QED  BY <1>6, <2>1, <2>2, <2>3, <2>4, <2>5, <2>6 DEF QuestReward
<1>7. CASE UNCHANGED vars
  BY <1>7 DEF vars, tables, history, Calendar, RewardedOncePerPeriod, Today
<1>. QED  BY <1>1, <1>2, <1>3, <1>4, <1>5, <1>6, <1>7 DEF Next

-----------------------------------------------------------------------------
(* Progress.                                                               *)

\* What ProgressIsKept asks of a step.
KeepsProgress ==
  /\ \A p \in Periods :
       /\ main'.update[p] >= main.update[p]
       /\ main'.update[p] = main.update[p] =>
            \A q \in Quests[p] : rows'[q].count >= rows[q].count
  /\ main'.repeat >= main.repeat
  /\ main'.idx = main.idx /\ main'.repeat = main.repeat => main'.count >= main.count

\* Numbers the comparisons are about.
LEMMA ProgressTypes ==
  ASSUME TypeOK
  PROVE  /\ main.count \in Nat /\ main.repeat \in Nat /\ main.idx \in Nat
         /\ \A p \in Periods : main.update[p] \in Nat
         /\ \A q \in PeriodQuests : rows[q].count \in Nat
<1>1. main \in MainRow /\ MainCodes \subseteq Nat
  BY QuestAssumption DEF TypeOK
<1>2. Days \union {0} \subseteq Nat
  BY DateFacts
<1>3. \A p \in Periods : main.update[p] \in Days \union {0}
  BY <1>1 DEF MainRow
<1>4. \A q \in PeriodQuests : rows[q].count \in Nat
  BY DEF TypeOK, Row
<1>5. main.count \in Nat /\ main.repeat \in Nat /\ main.idx \in Nat
  BY <1>1 DEF MainRow
<1>. QED  BY <1>2, <1>3, <1>4, <1>5, Zenon

\* A step that leaves counts, codes and periods alone keeps progress.
LEMMA StillKeepsProgress ==
  ASSUME TypeOK, main'.update = main.update, main'.repeat = main.repeat,
         main'.count = main.count,
         \A q \in PeriodQuests : rows'[q].count = rows[q].count
  PROVE  KeepsProgress
BY ProgressTypes, PeriodFacts DEF KeepsProgress

\* A renewal resets only quests of a period that has ended.
LEMMA RenewalKeepsProgress ==
  ASSUME TypeOK, Calendar, QuestRefreshData \/ (QuestOccur /\ created)
  PROVE  KeepsProgress
<1> DEFINE ended == IF created THEN NewPeriods(Ids) ELSE {}
<1>1. /\ Ids \in [Periods -> Days]
      /\ \A p \in Periods : main.update[p] <= Ids[p]
  BY IdsFacts DEF QuestRefreshData, QuestOccur
<1>2. \A p \in Periods : main.update[p] \in Nat /\ Ids[p] \in Nat
  <2>1. Days \subseteq Nat
    BY DateFacts
  <2>. QED  BY <1>1, <2>1, ProgressTypes
<1>3. ASSUME NEW p \in Periods, Ids[p] = main.update[p], NEW q \in Quests[p]
      PROVE  RenewedRow(q, ended) = rows[q] /\ q \in PeriodQuests
  <2>1. p \notin ended /\ ended \subseteq Periods
    BY <1>3 DEF NewPeriods
  <2>2. ~\E o \in ended : q \in Quests[o]
    BY <2>1, PeriodFacts
  <2>. QED  BY <2>2, PeriodFacts DEF RenewedRow
<1>4. /\ Renewed(main, ended, Ids) \in MainRow
      /\ Renewed(main, ended, Ids).idx = main.idx
      /\ Renewed(main, ended, Ids).count = main.count
      /\ Renewed(main, ended, Ids).repeat = main.repeat
      /\ Renewed(main, ended, Ids).update = Ids
  BY <1>1, RenewedFacts DEF TypeOK
<1>5. CASE QuestRefreshData
  <2>1. /\ main' = Renewed(main, ended, Ids)
        /\ rows' = [q \in PeriodQuests |-> RenewedRow(q, ended)]
    BY <1>5 DEF QuestRefreshData
  <2> HIDE DEF ended
  <2>2. \A p \in Periods : Ids[p] = main.update[p] =>
          \A q \in Quests[p] : rows'[q].count = rows[q].count
    BY <1>3, <2>1
  <2>3. \A p \in Periods : \A q \in Quests[p] : rows[q].count \in Nat
    BY ProgressTypes, PeriodFacts
  <2>. QED  BY <1>1, <1>2, <1>4, <2>1, <2>2, <2>3, ProgressTypes DEF KeepsProgress
<1>6. CASE QuestOccur /\ created
  <2> DEFINE counted == UNION {Quests[p] : p \in {o \in Periods :
                                 o \in ended \/ main.reward[o] # Ids[o]}}
             renewed == Renewed(main, ended, Ids)
             count == QuestOccurOne(main.count, main.idx, NeedMain(main), request.counts)
  <2>1. /\ main' = [renewed EXCEPT !.count =
                      QuestOccurOne(@, main.idx, NeedMain(main), request.counts)]
        /\ rows' = [q \in PeriodQuests |->
             IF q \in counted
             THEN [RenewedRow(q, ended) EXCEPT !.count =
                     QuestOccurOne(@, q, Need[q], request.counts)]
             ELSE rows[q]]
        /\ request.type = "occur"
    BY <1>6 DEF QuestOccur
  <2> HIDE DEF ended, counted
  <2>2. request.counts \in [Types -> 0..MaxOccur]
    BY <2>1 DEF TypeOK, Request
  <2>3. /\ main.idx \in MainCodes /\ main.repeat \in Nat
        /\ main.count \in Nat /\ main.count <= NeedMain(main) /\ NeedMain(main) \in Nat
    BY NeedMainType DEF TypeOK, MainRow
  <2>4. count \in Nat /\ main.count <= count
    BY <2>2, <2>3, QuestOccurOneFacts
  <2> HIDE DEF count, renewed
  <2>5. renewed \in MainRow /\ renewed.idx = main.idx /\ renewed.count = main.count
        /\ renewed.repeat = main.repeat /\ renewed.update = Ids
    BY <1>4 DEF renewed
  <2>6. main' = [renewed EXCEPT !.count = count]
    BY <2>1, <2>5 DEF count
  <2>7. main'.update = Ids /\ main'.repeat = main.repeat /\ main'.count = count
    BY <2>5, <2>6 DEF MainRow
  <2>8. ASSUME NEW p \in Periods, Ids[p] = main.update[p], NEW q \in Quests[p]
        PROVE  rows'[q].count >= rows[q].count
    <3>1. RenewedRow(q, ended) = rows[q] /\ q \in PeriodQuests
      BY <1>3, <2>8
    <3>2. rows[q] \in Row /\ rows[q].count \in Nat /\ rows[q].count <= Need[q] /\ Need[q] \in Nat
      BY <3>1, QuestAssumption DEF TypeOK, Row
    <3>3. CASE q \in counted
      <4>1. rows'[q] = [rows[q] EXCEPT !.count =
                          QuestOccurOne(rows[q].count, q, Need[q], request.counts)]
        BY <2>1, <3>1, <3>3
      <4>2. QuestOccurOne(rows[q].count, q, Need[q], request.counts) \in Nat
            /\ rows[q].count <= QuestOccurOne(rows[q].count, q, Need[q], request.counts)
        BY <2>2, <3>2, QuestOccurOneFacts
      <4>3. rows'[q].count = QuestOccurOne(rows[q].count, q, Need[q], request.counts)
        BY <3>2, <4>1 DEF Row
      <4>. QED  BY <3>2, <4>2, <4>3
    <3>4. CASE q \notin counted
      BY <2>1, <3>1, <3>2, <3>4
    <3>. QED  BY <3>3, <3>4
  <2>. QED  BY <1>1, <1>2, <2>3, <2>4, <2>7, <2>8 DEF KeepsProgress
<1>. QED  BY <1>5, <1>6

\* Every step keeps progress.
LEMMA ProgressStep == TypeOK /\ Calendar /\ [Next]_vars => KeepsProgress
<1> SUFFICES ASSUME TypeOK, Calendar, [Next]_vars PROVE KeepsProgress
  OBVIOUS
<1>1. CASE UNCHANGED <<main, rows>>
  BY <1>1, StillKeepsProgress
<1>2. CASE QuestRefreshData
  BY <1>2, RenewalKeepsProgress
<1>3. CASE QuestOccur
  BY <1>1, <1>3, RenewalKeepsProgress DEF QuestOccur
<1>4. CASE QuestReward
  <2>1. CASE \E code \in MainCodes : ProcMain(code)
    <3>1. PICK code \in MainCodes : ProcMain(code)
      BY <2>1
    <3>2. /\ main \in MainRow /\ rows' = rows /\ code = main.idx
          /\ main' = IF code + 1 \in MainCodes
                     THEN [main EXCEPT !.idx = code + 1, !.count = 0]
                     ELSE [main EXCEPT !.idx = FirstRepeat, !.count = 0, !.repeat = @ + 1]
      BY <3>1 DEF ProcMain, TypeOK
    <3>3. /\ main'.update = main.update
          /\ \/ main'.idx = main.idx + 1 /\ main'.repeat = main.repeat
             \/ main'.repeat = main.repeat + 1
      BY <3>2 DEF MainRow
    <3>4. \A p \in Periods : \A q \in Quests[p] : rows[q].count \in Nat
      BY ProgressTypes, PeriodFacts
    <3>. QED  BY <3>2, <3>3, <3>4, ProgressTypes DEF KeepsProgress
  <2>2. ASSUME NEW p \in Periods, NEW codes, RewardQuests(p, codes)
        PROVE  KeepsProgress
    <3>1. main' = main
      BY <2>2 DEF RewardQuests, RenewDate, tables
    <3>2. \A q \in PeriodQuests : rows'[q].count = rows[q].count
      <4>1. \A q \in PeriodQuests : rows[q] \in Row
        BY DEF TypeOK
      <4>2. \A q \in PeriodQuests :
              rows'[q] \in {rows[q], [rows[q] EXCEPT !.step = @ + 1]}
        BY <2>2 DEF RewardQuests, RenewDate, tables
      <4>. QED  BY <4>1, <4>2 DEF Row
    <3>. QED  BY <3>1, <3>2, StillKeepsProgress
  <2>3. ASSUME NEW p \in Periods, RewardPeriod(p)
        PROVE  KeepsProgress
    <3>1. rows' = rows
      BY <2>3 DEF RewardPeriod, RenewDate, tables
    <3>2. main' \in {main, [main EXCEPT !.reward[p] = Today[p]]} /\ main \in MainRow
      BY <2>3 DEF RewardPeriod, RenewDate, tables, TypeOK
    <3>3. main'.update = main.update /\ main'.repeat = main.repeat /\ main'.count = main.count
      BY <3>2 DEF MainRow
    <3>. QED  BY <3>1, <3>3, StillKeepsProgress
  <2>4. CASE \E times \in [Achievements -> 0..MaxNamed] : ProcAchieve(times)
    BY <1>1, <2>4 DEF ProcAchieve
  <2>5. QuestReward =>
          \/ \E code \in MainCodes : ProcMain(code)
          \/ \E p \in Periods : \E codes : RewardQuests(p, codes)
          \/ \E p \in Periods : RewardPeriod(p)
          \/ \E times \in [Achievements -> 0..MaxNamed] : ProcAchieve(times)
    BY DEF QuestReward, ProcDay, ProcWeek, ProcDayComplete, ProcWeekComplete, Periods
  <2>. QED  BY <1>4, <2>1, <2>2, <2>3, <2>4, <2>5
<1>5. QuestRefreshData \/ QuestOccur \/ QuestReward \/ UNCHANGED <<main, rows>>
  BY DEF Next, NextDay, QuestGetData, StartOccur, vars, tables
<1>. QED  BY <1>1, <1>2, <1>3, <1>4, <1>5

-----------------------------------------------------------------------------
(* The theorems.                                                           *)

\* The inductive invariant holds in every state.
THEOREM Invariance == Spec => []IInv
<1>1. IInv /\ [Next]_vars => IInv'
  BY TypeStep, RewardsStep, AchievementsStep DEF IInv
<1>. QED  BY InvInit, <1>1, PTL DEF Spec

\* Every table keeps its type, and no quest counts beyond what it needs.
THEOREM TypeCorrect == Spec => []TypeOK
<1>1. IInv => TypeOK
  BY DEF IInv
<1>. QED  BY Invariance, <1>1, PTL

\* However many days pass, and wherever they do, no quest and no completion
\* is rewarded twice in its day or week.
THEOREM RewardedOnce == Spec => []RewardedOncePerPeriod
<1>1. IInv => RewardedOncePerPeriod
  BY DEF IInv
<1>. QED  BY Invariance, <1>1, PTL

\* No request is rewarded for a step of an achievement that an earlier one was
\* rewarded for or went past, whatever lists the requests send.
THEOREM StepsOnce == Spec => StepsGoOn
<1>1. IInv /\ [Next]_vars => [GoesOn]_vars
  BY GoesOnStep DEF IInv
<1>2. Spec => [][GoesOn]_vars
  BY Invariance, <1>1, PTL DEF Spec
<1>3. [GoesOn]_vars =>
        [\A a \in Achievements :
           \A i \in 1..Len(stepGiven[a]), j \in (Len(stepGiven[a]) + 1)..Len(stepGiven'[a]) :
             stepGiven[a][i] < stepGiven'[a][j]]_vars
  BY DEF GoesOn
<1>. QED  BY <1>2, <1>3, PTL DEF StepsGoOn

\* Progress is lost only when its day or week is over, which does not come
\* back, and the main quests go on.
THEOREM ProgressKept == Spec => ProgressIsKept
<1>1. IInv /\ [Next]_vars => [KeepsProgress]_vars
  BY ProgressStep DEF IInv
<1>2. Spec => [][KeepsProgress]_vars
  BY Invariance, <1>1, PTL DEF Spec
<1>3. [KeepsProgress]_vars =>
        [/\ \A p \in Periods :
              /\ main'.update[p] >= main.update[p]
              /\ main'.update[p] = main.update[p] =>
                   \A q \in Quests[p] : rows'[q].count >= rows[q].count
         /\ main'.repeat >= main.repeat
         /\ main'.idx = main.idx /\ main'.repeat = main.repeat => main'.count >= main.count]_vars
  BY DEF KeepsProgress
<1>. QED  BY <1>2, <1>3, PTL DEF ProgressIsKept
=============================================================================
