CONSTANTS
  kill = kill
  history1 = history1
  d1 = d1
  d2 = d2
  w1 = w1
  a1 = a1
  DayQuests <- MCDayQuests
  WeekQuests <- MCWeekQuests
  Need <- MCNeed
  MainCodes <- MCMainCodes
  FirstMain = 1
  FirstRepeat = 11
  MainCount <- MCMainCount
  MainAdd <- MCMainAdd
  MainMax <- MCMainMax
  Types <- MCTypes
  TypeOf <- MCTypeOf
  Achievements <- MCAchievements
  Steps <- MCSteps
  WeekOf <- MCWeekOf
  MaxDay = 3
  MaxOccur = 1
  MaxNamed = 2
  MaxRepeat = 2

SPECIFICATION Spec

INVARIANTS
  TypeOK
  RewardedOncePerPeriod

PROPERTIES
  StepsGoOn
  ProgressIsKept
