------------------------------ MODULE MCQuest ------------------------------
(***************************************************************************)
(* Quest with three days, the last in a new week; two daily quests and a   *)
(* weekly one; two main quests and one that repeats; a daily and a main    *)
(* quest of a history type; an achievement with two steps.                 *)
(***************************************************************************)
EXTENDS Quest

CONSTANTS kill, history1, d1, d2, w1, a1

MCDayQuests == {d1, d2}
MCWeekQuests == {w1}
MCNeed == [q \in {d1, d2, w1} |-> IF q = w1 THEN 2 ELSE 1]
MCMainCodes == {1, 2, 11}
MCMainCount == [c \in MCMainCodes |-> 1]
MCMainAdd == [c \in MCMainCodes |-> 2]
MCMainMax == [c \in MCMainCodes |-> 2]
MCTypes == {kill}
MCTypeOf == [q \in {d1, d2, w1} \union MCMainCodes |->
               IF q \in {d2, 2} THEN history1 ELSE kill]
MCAchievements == {a1}
MCSteps == [a \in MCAchievements |-> 2]
MCWeekOf == [d \in 1..3 |-> IF d = 3 THEN 2 ELSE 1]
=============================================================================
