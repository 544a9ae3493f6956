------------------------ MODULE ScenarioMailProofs -------------------------
(***************************************************************************)
(* TLAPS proofs about ScenarioMail, for any number of mails, of mails read *)
(* at a time and of rounds.                                                *)
(*                                                                         *)
(* First, one request is under way, or none (OneAtATime): every            *)
(* acknowledgement meets the task that asked for it.  Then, with it, where *)
(* a mail may be (MailsKept): the ways into a box and the way out keep it  *)
(* well formed and complete, and a mail that is read is there.  In         *)
(* between, what the folds and the recursive function of MailBox compute,  *)
(* by induction over the length of the list.                               *)
(***************************************************************************)
EXTENDS ScenarioMail, FiniteSetTheorems, TLAPS

-----------------------------------------------------------------------------
(* One request at a time.                                                  *)

\* An acknowledgement, or a refusal, of what the current task asked for.
Answers(ack) ==
  IF ack.type = "refused" THEN TypeOfTask(task) = ack.of ELSE TypeOfTask(task) = ack.type

\* The gateway is not at work for the bot: it does nothing, or loads a box.
Free == work.type \in {"none", "load"}

Idle == ~requested /\ requests = <<>> /\ Free /\ acks = <<>>

Asked ==
  /\ requested /\ Free /\ acks = <<>>
  /\ \E r : requests = <<r>> /\ r.type = TypeOfTask(task)

Served ==
  /\ requested /\ requests = <<>> /\ acks = <<>>
  /\ ~Free /\ work.type = TypeOfTask(task)

Answered ==
  /\ requested /\ requests = <<>> /\ Free
  /\ \E ack : acks = <<ack>> /\ Answers(ack)

\* The inductive invariant: one request is under way, or none, and it is in one
\* place; the last task, which has no acknowledgement, asks for nothing.  It is
\* what makes the acknowledgement that checks nothing safe.
OneAtATime ==
  /\ task \in Tasks
  /\ requested => task # "COMPLETE_SCENARIO"
  /\ Idle \/ Asked \/ Served \/ Answered

-----------------------------------------------------------------------------
\* A task is run while nothing is under way.
LEMMA TaskStep ==
  ASSUME OneAtATime, NEW current \in Tasks \ {"COMPLETE_SCENARIO"}, NEW r,
         r.type = TypeOfTask(current), ProcessTask(current, <<r>>)
  PROVE  OneAtATime'
<1>1. /\ task = current /\ ~requested /\ requested' = TRUE
      /\ requests' = requests \o <<r>>
      /\ task' = task /\ acks' = acks /\ work' = work
  BY DEF ProcessTask, gatewayVars
<1>2. Idle
  BY <1>1 DEF OneAtATime, Asked, Served, Answered
<1>3. requests' = <<r>>
  BY <1>1, <1>2 DEF Idle
<1>4. Asked'
  BY <1>1, <1>2, <1>3 DEF Idle, Asked, Free, TypeOfTask
<1>. QED  BY <1>1, <1>4 DEF OneAtATime

\* Whichever acknowledgement it is, it completes the task it answers.
LEMMA AckStep ==
  ASSUME OneAtATime, NEW type, Acknowledged(type), CompleteTask
  PROVE  OneAtATime'
<1>1. /\ acks # <<>> /\ acks' = Tail(acks) /\ task' = NextTask(task) /\ requested' = FALSE
      /\ requests' = requests /\ work' = work
  BY DEF Acknowledged, CompleteTask, gatewayVars
<1>2. Answered
  BY <1>1 DEF OneAtATime, Idle, Asked, Served
<1>3. acks' = <<>>
  BY <1>1, <1>2 DEF Answered
<1>4. task' \in Tasks
  BY <1>1 DEF NextTask, Tasks
<1>5. Idle'
  BY <1>1, <1>2, <1>3 DEF Idle, Answered, Free
<1>. QED  BY <1>1, <1>4, <1>5 DEF OneAtATime

LEMMA ServeStep ==
  ASSUME OneAtATime, NEW type, NEW done, done.type = type,
         type \in {"list", "send", "read"}, Serve(type, done)
  PROVE  OneAtATime'
<1>1. /\ requests # <<>> /\ work = NoWork /\ Head(requests).type = type
      /\ work' = done /\ requests' = Tail(requests)
      /\ task' = task /\ requested' = requested /\ acks' = acks
  BY DEF Serve, botVars
<1>2. Asked
  BY <1>1 DEF OneAtATime, Idle, Served, Answered
<1>3. PICK r : requests = <<r>> /\ r.type = TypeOfTask(task)
  BY <1>2 DEF Asked
<1>4. requests' = <<>> /\ type = TypeOfTask(task)
  BY <1>1, <1>3
<1>5. ~Free'
  BY <1>1 DEF Free
<1>6. Served'
  BY <1>1, <1>2, <1>4, <1>5 DEF Served, Asked, TypeOfTask
<1>. QED  BY <1>1, <1>6 DEF OneAtATime

LEMMA RefuseStep == OneAtATime /\ Refuse => OneAtATime'
<1>. SUFFICES ASSUME OneAtATime, Refuse
              PROVE  OneAtATime'
  OBVIOUS
<1>. DEFINE ack == [type |-> "refused", of |-> Head(requests).type]
<1>1. /\ requests # <<>> /\ acks' = Append(acks, ack) /\ requests' = Tail(requests)
      /\ task' = task /\ requested' = requested /\ work' = work
  BY DEF Refuse, botVars, gatewayVars
<1>2. Asked
  BY <1>1 DEF OneAtATime, Idle, Served, Answered
<1>3. PICK r : requests = <<r>> /\ r.type = TypeOfTask(task)
  BY <1>2 DEF Asked
<1>4. requests' = <<>> /\ ack.type = "refused" /\ ack.of = TypeOfTask(task)
  BY <1>1, <1>3
<1>. HIDE DEF ack
<1>5. acks' = <<ack>>
  BY <1>1, <1>2 DEF Asked
<1>6. Answered'
  BY <1>1, <1>2, <1>4, <1>5 DEF Answered, Asked, Answers, Free, TypeOfTask
<1>. QED  BY <1>1, <1>6 DEF OneAtATime

LEMMA AcknowledgeStep == OneAtATime /\ Acknowledge => OneAtATime'
<1>. SUFFICES ASSUME OneAtATime, Acknowledge
              PROVE  OneAtATime'
  OBVIOUS
<1>. DEFINE ack == IF work.type = "list"
                   THEN [work EXCEPT !.list = Updated(box[work.box]).list] ELSE work
<1>1. /\ ~Free /\ work' = NoWork /\ acks' = Append(acks, ack)
      /\ requests' = requests /\ task' = task /\ requested' = requested
  BY DEF Acknowledge, Free, botVars
<1>2. Served
  BY <1>1 DEF OneAtATime, Idle, Asked, Answered
<1>3. ack.type = work.type
  OBVIOUS
<1>. HIDE DEF ack
<1>4. acks' = <<ack>>
  BY <1>1, <1>2 DEF Served
<1>5. TypeOfTask(task) # "refused"
  BY DEF TypeOfTask
<1>6. Answered'
  BY <1>1, <1>2, <1>3, <1>4, <1>5 DEF Answered, Served, Answers, Free, NoWork, TypeOfTask
<1>. QED  BY <1>1, <1>6 DEF OneAtATime

\* What others do, and what is announced, is not the bot's concern.
LEMMA OtherSteps ==
  ASSUME OneAtATime, UNCHANGED <<task, requested, requests, acks, work>>
  PROVE  OneAtATime'
BY DEF OneAtATime, Idle, Asked, Served, Answered, Answers, Free, TypeOfTask

\* Nor is what the gateway does for itself.
LEMMA OwnSteps ==
  ASSUME OneAtATime, UNCHANGED <<task, requested, requests, acks>>, Free, Free'
  PROVE  OneAtATime'
BY DEF OneAtATime, Idle, Asked, Served, Answered, Answers, TypeOfTask

LEMMA NextPreserves == OneAtATime /\ [Next]_vars => OneAtATime'
<1>. SUFFICES ASSUME OneAtATime, [Next]_vars
              PROVE  OneAtATime'
  OBVIOUS
<1>1. CASE TaskCheatMailList
  BY <1>1, TaskStep DEF TaskCheatMailList, Tasks, TypeOfTask
<1>2. CASE TaskReqMailSend
  BY <1>2, TaskStep DEF TaskReqMailSend, Tasks, TypeOfTask
<1>3. CASE TaskReqMailRead
  BY <1>3, TaskStep DEF TaskReqMailRead, Tasks, TypeOfTask
<1>4. CASE AckMailList
  BY <1>4, AckStep DEF AckMailList
<1>5. CASE AckMailSend
  BY <1>5, AckStep DEF AckMailSend
<1>6. CASE AckMailRead
  BY <1>6, AckStep DEF AckMailRead
<1>7. CASE AckFailure
  BY <1>7, AckStep DEF AckFailure
<1>8. CASE TaskCompleteScenario
  <2>1. /\ task = "COMPLETE_SCENARIO" /\ task' = "CHEAT_MAIL_LIST"
        /\ UNCHANGED <<requested, requests, acks, work>>
    BY <1>8 DEF TaskCompleteScenario, gatewayVars
  <2>2. Idle
    BY <2>1 DEF OneAtATime, Asked, Served, Answered
  <2>3. Idle' /\ ~requested'
    BY <2>1, <2>2 DEF Idle, Free
  <2>. QED  BY <2>1, <2>3 DEF OneAtATime, Tasks
<1>9. CASE LoadMails
  BY <1>9, ServeStep DEF LoadMails
<1>10. CASE StoreMail
  BY <1>10, ServeStep DEF StoreMail
<1>11. CASE ReadMails
  BY <1>11, ServeStep DEF ReadMails
<1>12. CASE Refuse
  BY <1>12, RefuseStep
<1>13. CASE Acknowledge
  BY <1>13, AcknowledgeStep
<1>14. CASE \E b \in Boxes : OthersSend(b)
  BY <1>14, OtherSteps DEF OthersSend, botVars
<1>15. CASE Announce
  BY <1>15, OtherSteps DEF Announce, botVars
<1>16. CASE \E b \in Boxes : LoadBox(b)
  BY <1>16, OwnSteps DEF LoadBox, Free, NoWork, botVars
<1>17. CASE StartCaching
  BY <1>17, OtherSteps DEF StartCaching, botVars
<1>18. CASE CacheLoaded
  BY <1>18, OwnSteps DEF CacheLoaded, Free, NoWork, botVars
<1>19. CASE UNCHANGED vars
  BY <1>19, OtherSteps DEF vars, botVars, gatewayVars
<1>. QED  BY <1>1, <1>2, <1>3, <1>4, <1>5, <1>6, <1>7, <1>8, <1>9, <1>10, <1>11, <1>12, <1>13,
            <1>14, <1>15, <1>16, <1>17, <1>18, <1>19 DEF Next, Bot, Gateway

\* One request is under way, or none, and it is in one place.
THEOREM Invariance == Spec => []OneAtATime
<1>1. Init => OneAtATime
  BY DEF Init, OneAtATime, Idle, Free, NoWork, Tasks
<1>. QED  BY <1>1, NextPreserves, PTL DEF Spec

\* An acknowledgement finds the task that asked for it current and waiting,
\* also where the code does not check.
THEOREM AcksMeet == Spec => []AcksMeetTheirTask
<1>1. OneAtATime => AcksMeetTheirTask
  <2>. SUFFICES ASSUME OneAtATime, acks # <<>>
                PROVE  /\ requested
                       /\ TypeOfTask(task) = IF Head(acks).type = "refused" THEN Head(acks).of
                                                                            ELSE Head(acks).type
    BY DEF AcksMeetTheirTask
  <2>1. Answered
    BY DEF OneAtATime, Idle, Asked, Served
  <2>2. PICK ack : acks = <<ack>> /\ Answers(ack)
    BY <2>1 DEF Answered
  <2>. QED  BY <2>1, <2>2 DEF Answered, Answers
<1>. QED  BY <1>1, Invariance, PTL

-----------------------------------------------------------------------------
(* Induction over the length of a list, from the well-foundedness of <.    *)

LEMMA LessWellFounded == IsWellFoundedOn({ss \in Nat \X Nat : ss[1] < ss[2]}, Nat)
BY NatLessThanWellFounded DEF OpToRel

LEMMA LeastElement ==
  ASSUME NEW T \in SUBSET Nat, T # {}
  PROVE  \E x \in T : \A y \in T : x <= y
<1>. DEFINE R == {ss \in Nat \X Nat : ss[1] < ss[2]}
<1>1. \A x, y \in Nat : <<y, x>> \in R <=> y < x
  OBVIOUS
<1>2. IsWellFoundedOn(R, Nat)
  BY LessWellFounded
<1>. HIDE DEF R
<1>3. PICK x \in T : \A y \in T : ~ (<<y, x>> \in R)
  BY <1>2, WFMin, Zenon
<1>4. \A y \in T : ~ (y < x)
  BY <1>1, <1>3, Zenon
<1>. QED  BY <1>4

\* Induction, for a set of numbers.
LEMMA AllNumbers ==
  ASSUME NEW T \in SUBSET Nat, 0 \in T, \A n \in T : n + 1 \in T
  PROVE  T = Nat
<1>. SUFFICES ASSUME Nat \ T # {} PROVE FALSE
  OBVIOUS
<1>1. PICK x \in Nat \ T : \A y \in Nat \ T : x <= y
  BY LeastElement
<1>2. x - 1 \in T
  BY <1>1
<1>. QED  BY <1>1, <1>2

-----------------------------------------------------------------------------
(* The folds of MailBox, as the boxes that one mail after the other makes. *)

\* A mail that is added, or deleted.
Changed(how, bx, mail) == IF how = "add" THEN AddMail(bx, mail) ELSE DeleteMail(bx, mail)

\* What FoldLeft computes: the box for every set of positions in the list.
Iter(how, base, list, k, iter) ==
  iter = [s \in SUBSET (1..k) |->
            IF s = {} THEN base ELSE Changed(how, iter[s \ {Max(s)}], list[Max(s)])]

LEMMA LastOfSet ==
  ASSUME NEW k \in Nat, NEW s \in SUBSET (1..(k + 1))
  PROVE  /\ k + 1 \in s => Max(s) = k + 1 /\ s \ {k + 1} \in SUBSET (1..k)
         /\ k + 1 \notin s => s \in SUBSET (1..k)
<1>1. ASSUME k + 1 \in s PROVE Max(s) = k + 1
  <2>1. \A x \in s : (\A y \in s : x >= y) <=> x = k + 1
    BY <1>1
  <2>. QED  BY <1>1, <2>1 DEF Max
<1>. QED  BY <1>1

LEMMA IterStep ==
  ASSUME NEW how, NEW base, NEW list, NEW k \in Nat, NEW g, Iter(how, base, list, k, g)
  PROVE  \E h : Iter(how, base, list, k + 1, h)
<1>. DEFINE h == [s \in SUBSET (1..(k + 1)) |->
                    IF k + 1 \in s THEN Changed(how, g[s \ {k + 1}], list[k + 1]) ELSE g[s]]
<1>1. \A s \in SUBSET (1..k) : s \in SUBSET (1..(k + 1)) /\ k + 1 \notin s
  OBVIOUS
<1>2. \A s \in SUBSET (1..k) : h[s] = g[s]
  BY <1>1, Zenon
<1>3. ASSUME NEW s \in SUBSET (1..(k + 1))
      PROVE  h[s] = IF s = {} THEN base ELSE Changed(how, h[s \ {Max(s)}], list[Max(s)])
  <2>1. CASE k + 1 \in s
    <3>1. Max(s) = k + 1 /\ s \ {k + 1} \in SUBSET (1..k) /\ s # {}
      BY <2>1, LastOfSet
    <3>2. h[s] = Changed(how, g[s \ {k + 1}], list[k + 1])
      BY <2>1, Zenon
    <3>. QED  BY <1>2, <3>1, <3>2, Zenon
  <2>2. CASE k + 1 \notin s
    <3>1. s \in SUBSET (1..k)
      BY <2>2, LastOfSet
    <3>2. s \ {Max(s)} \in SUBSET (1..k)
      BY <3>1
    <3>3. g[s] = IF s = {} THEN base ELSE Changed(how, g[s \ {Max(s)}], list[Max(s)])
      BY <3>1, Zenon DEF Iter
    <3>. QED  BY <1>2, <3>1, <3>2, <3>3, Zenon
  <2>. QED  BY <2>1, <2>2
<1>. HIDE DEF h
<1>4. h = [s \in SUBSET (1..(k + 1)) |-> h[s]]
  BY DEF h
<1>5. Iter(how, base, list, k + 1, h)
  BY <1>3, <1>4, Zenon DEF Iter
<1>. QED  BY <1>5

LEMMA IterExists ==
  ASSUME NEW how, NEW base, NEW list, NEW k \in Nat
  PROVE  \E g : Iter(how, base, list, k, g)
<1>. DEFINE T == {n \in Nat : \E g : Iter(how, base, list, n, g)}
<1>1. 0 \in T
  <2>1. Iter(how, base, list, 0, [s \in SUBSET (1..0) |-> base])
    BY DEF Iter
  <2>. QED  BY <2>1
<1>2. \A n \in T : n + 1 \in T
  BY IterStep
<1>. HIDE DEF T
<1>3. T = Nat
  <2>1. T \in SUBSET Nat
    BY DEF T
  <2>. QED  BY <1>1, <1>2, <2>1, AllNumbers
<1>. QED  BY <1>3 DEF T

\* The box after the first n mails of the list, whatever becomes of them.
Made(how, base, list, f) ==
  /\ f[0] = base
  /\ \A n \in 1..Len(list) : f[n] = Changed(how, f[n - 1], list[n])

LEMMA IterMakes ==
  ASSUME NEW how, NEW base, NEW S, NEW list \in Seq(S), NEW iter,
         Iter(how, base, list, Len(list), iter)
  PROVE  \E f : Made(how, base, list, f) /\ iter[1..Len(list)] = f[Len(list)]
<1>. DEFINE f == [n \in 0..Len(list) |-> iter[1..n]]
<1>0. Len(list) \in Nat
  OBVIOUS
<1>1. f[0] = base
  <2>1. 1..0 \in SUBSET (1..Len(list)) /\ 1..0 = {}
    BY <1>0
  <2>2. iter[1..0] = base
    BY <2>1, Zenon DEF Iter
  <2>. QED  BY <1>0, <2>2
<1>2. ASSUME NEW n \in 1..Len(list) PROVE f[n] = Changed(how, f[n - 1], list[n])
  <2>1. n - 1 \in Nat /\ n \in 1..n /\ (1..n) \ {n} = 1..(n - 1) /\ n <= Len(list)
    BY <1>0
  <2>2. 1..n \in SUBSET (1..Len(list)) /\ 1..n # {}
    <3>1. \A x \in 1..n : x \in 1..Len(list)
      BY <1>0, <2>1
    <3>. QED  BY <2>1, <3>1, Zenon
  <2>3. Max(1..n) = n
    BY <2>1, LastOfSet, (n - 1) + 1 = n, 1..n \in SUBSET (1..((n - 1) + 1))
  <2>4. iter[1..n] = Changed(how, iter[1..(n - 1)], list[n])
    BY <2>1, <2>2, <2>3, Zenon DEF Iter
  <2>5. n \in 0..Len(list) /\ n - 1 \in 0..Len(list)
    BY <1>0, <2>1
  <2>. QED  BY <2>4, <2>5
<1>3. iter[1..Len(list)] = f[Len(list)]
  BY <1>0
<1>. HIDE DEF f
<1>. QED  BY <1>1, <1>2, <1>3 DEF Made

LEMMA AddFold ==
  ASSUME NEW base, NEW S, NEW list \in Seq(S)
  PROVE  \E f : Made("add", base, list, f) /\ FoldLeft(AddMail, base, list) = f[Len(list)]
<1>. DEFINE IsIter(g) == g = [s \in SUBSET (1..Len(list)) |->
                               IF s = {} THEN base ELSE AddMail(g[s \ {Max(s)}], list[Max(s)])]
            iter == CHOOSE g : IsIter(g)
<1>1. Len(list) \in Nat /\ DOMAIN list = 1..Len(list)
  OBVIOUS
<1>2. FoldLeft(AddMail, base, list) = iter[1..Len(list)]
  BY <1>1, Zenon DEF FoldLeft, MapThenFoldSet
<1>3. \A g : Iter("add", base, list, Len(list), g) <=> IsIter(g)
  BY DEF Iter, Changed
<1>. HIDE DEF IsIter
<1>4. Iter("add", base, list, Len(list), iter)
  BY <1>1, <1>3, IterExists, Zenon
<1>. HIDE DEF iter
<1>5. PICK f : Made("add", base, list, f) /\ iter[1..Len(list)] = f[Len(list)]
  BY <1>4, IterMakes
<1>. QED  BY <1>2, <1>5, Zenon

LEMMA DeleteFold ==
  ASSUME NEW base, NEW S, NEW list \in Seq(S)
  PROVE  \E f : Made("delete", base, list, f) /\ FoldLeft(DeleteMail, base, list) = f[Len(list)]
<1>. DEFINE IsIter(g) == g = [s \in SUBSET (1..Len(list)) |->
                               IF s = {} THEN base ELSE DeleteMail(g[s \ {Max(s)}], list[Max(s)])]
            iter == CHOOSE g : IsIter(g)
<1>1. Len(list) \in Nat /\ DOMAIN list = 1..Len(list)
  OBVIOUS
<1>2. FoldLeft(DeleteMail, base, list) = iter[1..Len(list)]
  BY <1>1, Zenon DEF FoldLeft, MapThenFoldSet
<1>3. \A g : Iter("delete", base, list, Len(list), g) <=> IsIter(g)
  BY DEF Iter, Changed
<1>. HIDE DEF IsIter
<1>4. Iter("delete", base, list, Len(list), iter)
  BY <1>1, <1>3, IterExists, Zenon
<1>. HIDE DEF iter
<1>5. PICK f : Made("delete", base, list, f) /\ iter[1..Len(list)] = f[Len(list)]
  BY <1>4, IterMakes
<1>. QED  BY <1>2, <1>5, Zenon

-----------------------------------------------------------------------------
(* Lists.                                                                  *)

LEMMA AppendFacts ==
  ASSUME NEW V, NEW s \in Seq(V), NEW e \in V
  PROVE  /\ Append(s, e) \in Seq(V)
         /\ ToSet(Append(s, e)) = ToSet(s) \union {e}
         /\ IsInjective(s) /\ e \notin ToSet(s) => IsInjective(Append(s, e))
<1>1. /\ Len(s) \in Nat /\ DOMAIN s = 1..Len(s) /\ DOMAIN Append(s, e) = 1..(Len(s) + 1)
      /\ \A i \in 1..Len(s) : Append(s, e)[i] = s[i]
      /\ Append(s, e)[Len(s) + 1] = e
  OBVIOUS
<1>2. Append(s, e) \in Seq(V)
  OBVIOUS
<1>. DEFINE t == Append(s, e)
            n == Len(s)
<1>. HIDE DEF t, n
<1>3. ToSet(t) = ToSet(s) \union {e}
  BY <1>1 DEF ToSet, t, n
<1>4. IsInjective(s) /\ e \notin ToSet(s) => IsInjective(t)
  BY <1>1 DEF IsInjective, ToSet, t, n
<1>. QED  BY <1>2, <1>3, <1>4 DEF t

LEMMA ConcatFacts ==
  ASSUME NEW V, NEW s \in Seq(V), NEW t \in Seq(V)
  PROVE  /\ s \o t \in Seq(V)
         /\ ToSet(s \o t) = ToSet(s) \union ToSet(t)
<1>1. s \o t \in Seq(V)
  OBVIOUS
<1>2. /\ Len(s) \in Nat /\ Len(t) \in Nat /\ DOMAIN s = 1..Len(s) /\ DOMAIN t = 1..Len(t)
      /\ DOMAIN (s \o t) = 1..(Len(s) + Len(t))
      /\ \A i \in 1..Len(s) : (s \o t)[i] = s[i]
      /\ \A i \in 1..Len(t) : (s \o t)[Len(s) + i] = t[i]
  OBVIOUS
<1>3. ASSUME NEW x \in ToSet(s \o t) PROVE x \in ToSet(s) \union ToSet(t)
  <2>1. PICK i \in 1..(Len(s) + Len(t)) : x = (s \o t)[i]
    BY <1>2 DEF ToSet
  <2>2. CASE i <= Len(s)
    <3>1. i \in 1..Len(s)
      BY <1>2, <2>2
    <3>. QED  BY <1>2, <2>1, <3>1 DEF ToSet
  <2>3. CASE ~ (i <= Len(s))
    <3>1. i - Len(s) \in 1..Len(t) /\ Len(s) + (i - Len(s)) = i
      BY <1>2, <2>3
    <3>2. x = t[i - Len(s)]
      BY <1>2, <2>1, <3>1, Zenon
    <3>. QED  BY <1>2, <3>1, <3>2, Zenon DEF ToSet
  <2>. QED  BY <2>2, <2>3
<1>4. ASSUME NEW x \in ToSet(s) PROVE x \in ToSet(s \o t)
  <2>1. PICK i \in 1..Len(s) : x = s[i]
    BY <1>2 DEF ToSet
  <2>2. i \in 1..(Len(s) + Len(t))
    BY <1>2
  <2>. QED  BY <1>2, <2>1, <2>2, Zenon DEF ToSet
<1>5. ASSUME NEW x \in ToSet(t) PROVE x \in ToSet(s \o t)
  <2>1. PICK i \in 1..Len(t) : x = t[i]
    BY <1>2 DEF ToSet
  <2>2. Len(s) + i \in 1..(Len(s) + Len(t))
    BY <1>2
  <2>. QED  BY <1>2, <2>1, <2>2, Zenon DEF ToSet
<1>. QED  BY <1>1, <1>3, <1>4, <1>5

\* The elements of the first n positions.
First(list, n) == {list[i] : i \in 1..n}

LEMMA FirstFacts ==
  ASSUME NEW list, NEW n \in Nat
  PROVE  First(list, 0) = {} /\ First(list, n + 1) = First(list, n) \union {list[n + 1]}
<1>1. 1..(n + 1) = (1..n) \union {n + 1} /\ 1..0 = {}
  OBVIOUS
<1>. QED  BY <1>1, Zenon DEF First

LEMMA FirstAll ==
  ASSUME NEW V, NEW list \in Seq(V)
  PROVE  First(list, Len(list)) = ToSet(list)
BY DEF First, ToSet

\* What Without keeps of the first positions.
Kept(list, S, k, g) ==
  g = [n \in 0..k |->
         IF n = 0 THEN <<>>
         ELSE IF list[n] \in S THEN g[n - 1] ELSE Append(g[n - 1], list[n])]

LEMMA KeptExists ==
  ASSUME NEW list, NEW S, NEW k \in Nat
  PROVE  \E g : Kept(list, S, k, g)
<1>. DEFINE T == {n \in Nat : \E g : Kept(list, S, n, g)}
<1>1. 0 \in T
  <2>1. Kept(list, S, 0, [n \in 0..0 |-> <<>>])
    BY DEF Kept
  <2>. QED  BY <2>1
<1>2. ASSUME NEW m \in T PROVE m + 1 \in T
  <2>1. PICK g : Kept(list, S, m, g)
    OBVIOUS
  <2>. DEFINE h == [n \in 0..(m + 1) |->
                      IF n = m + 1
                      THEN IF list[n] \in S THEN g[m] ELSE Append(g[m], list[n])
                      ELSE g[n]]
  <2>2. m \in Nat
    OBVIOUS
  <2>3. \A n \in 0..m : h[n] = g[n]
    BY <2>2
  <2>4. ASSUME NEW n \in 0..(m + 1)
        PROVE  h[n] = IF n = 0 THEN <<>>
                      ELSE IF list[n] \in S THEN h[n - 1] ELSE Append(h[n - 1], list[n])
    <3>1. CASE n = m + 1
      <4>1. m \in 0..m /\ n # 0 /\ n - 1 = m
        BY <2>2, <3>1
      <4>2. h[n] = IF list[n] \in S THEN g[m] ELSE Append(g[m], list[n])
        BY <3>1
      <4>. QED  BY <2>3, <4>1, <4>2, Zenon
    <3>2. CASE n # m + 1
      <4>1. n \in 0..m /\ (n # 0 => n - 1 \in 0..m)
        BY <2>2, <3>2
      <4>2. g[n] = IF n = 0 THEN <<>>
                   ELSE IF list[n] \in S THEN g[n - 1] ELSE Append(g[n - 1], list[n])
        BY <2>1, <4>1, Zenon DEF Kept
      <4>. QED  BY <2>3, <4>1, <4>2, Zenon
    <3>. QED  BY <3>1, <3>2
  <2>. HIDE DEF h
  <2>5. h = [n \in 0..(m + 1) |-> h[n]]
    BY DEF h
  <2>6. Kept(list, S, m + 1, h)
    BY <2>4, <2>5, Zenon DEF Kept
  <2>. QED  BY <2>2, <2>6
<1>3. T \in SUBSET Nat
  OBVIOUS
<1>. HIDE DEF T
<1>4. T = Nat
  BY <1>1, <1>2, <1>3, AllNumbers
<1>. QED  BY <1>4 DEF T

\* A list without the mails of S: the others, none of them twice that was not.
LEMMA WithoutFacts ==
  ASSUME NEW V, NEW list \in Seq(V), NEW S
  PROVE  /\ Without(list, S) \in Seq(V)
         /\ ToSet(Without(list, S)) = ToSet(list) \ S
         /\ IsInjective(list) => IsInjective(Without(list, S))
<1>. DEFINE g == CHOOSE kept : Kept(list, S, Len(list), kept)
<1>1. Len(list) \in Nat /\ DOMAIN list = 1..Len(list)
  OBVIOUS
<1>2. Without(list, S) = g[Len(list)]
  BY Zenon DEF Without, Kept
<1>3. Kept(list, S, Len(list), g)
  BY <1>1, KeptExists, Zenon
<1>. HIDE DEF g
<1>. DEFINE Good(n) == /\ g[n] \in Seq(V)
                       /\ ToSet(g[n]) = First(list, n) \ S
                       /\ IsInjective(list) => IsInjective(g[n])
            T == {n \in Nat : n <= Len(list) => Good(n)}
<1>4. 0 \in T
  <2>1. g[0] = <<>>
    BY <1>1, <1>3, 0 \in 0..Len(list), Zenon DEF Kept
  <2>2. <<>> \in Seq(V) /\ ToSet(<<>>) = {} /\ IsInjective(<<>>)
    BY DEF ToSet, IsInjective
  <2>3. First(list, 0) = {}
    BY FirstFacts
  <2>. QED  BY <2>1, <2>2, <2>3
<1>5. ASSUME NEW n \in T PROVE n + 1 \in T
  <2>. SUFFICES ASSUME n + 1 <= Len(list) PROVE Good(n + 1)
    OBVIOUS
  <2>0. n \in Nat
    OBVIOUS
  <2>1. n + 1 \in 1..Len(list) /\ n + 1 \in 0..Len(list) /\ n + 1 # 0 /\ n <= Len(list)
        /\ n + 1 - 1 = n
    BY <1>1, <2>0
  <2>2. Good(n)
    BY <2>1
  <2>3. g[n + 1] = IF list[n + 1] \in S THEN g[n] ELSE Append(g[n], list[n + 1])
    <3>1. \A k \in 0..Len(list) :
            k # 0 => g[k] = IF list[k] \in S THEN g[k - 1] ELSE Append(g[k - 1], list[k])
      BY <1>3, Zenon DEF Kept
    <3>2. g[n + 1] = IF list[n + 1] \in S THEN g[n + 1 - 1]
                                         ELSE Append(g[n + 1 - 1], list[n + 1])
      BY <2>1, <3>1
    <3>. QED  BY <2>1, <3>2, Zenon
  <2>4. First(list, n + 1) = First(list, n) \union {list[n + 1]}
    BY <2>0, FirstFacts
  <2>5. list[n + 1] \in V
    BY <2>1
  <2>6. CASE list[n + 1] \in S
    BY <2>2, <2>3, <2>4, <2>6
  <2>7. CASE list[n + 1] \notin S
    <3>1. g[n + 1] = Append(g[n], list[n + 1])
      BY <2>3, <2>7
    <3>2. IsInjective(list) => list[n + 1] \notin ToSet(g[n])
      <4>. SUFFICES ASSUME IsInjective(list), list[n + 1] \in First(list, n) PROVE FALSE
        BY <2>2
      <4>1. PICK i \in 1..n : list[i] = list[n + 1]
        BY DEF First
      <4>2. i \in 1..Len(list) /\ i # n + 1
        BY <1>1, <2>0, <2>1
      <4>. QED  BY <1>1, <2>1, <4>1, <4>2 DEF IsInjective
    <3>3. /\ Append(g[n], list[n + 1]) \in Seq(V)
          /\ ToSet(Append(g[n], list[n + 1])) = ToSet(g[n]) \union {list[n + 1]}
          /\ IsInjective(g[n]) /\ list[n + 1] \notin ToSet(g[n])
               => IsInjective(Append(g[n], list[n + 1]))
      BY <2>2, <2>5, AppendFacts
    <3>4. ToSet(g[n + 1]) = First(list, n + 1) \ S
      BY <2>2, <2>4, <2>7, <3>1, <3>3
    <3>. QED  BY <2>2, <3>1, <3>2, <3>3, <3>4
  <2>. QED  BY <2>6, <2>7
<1>6. T \in SUBSET Nat
  OBVIOUS
<1>. HIDE DEF T
<1>7. T = Nat
  BY <1>4, <1>5, <1>6, AllNumbers
<1>8. Good(Len(list))
  BY <1>1, <1>7 DEF T
<1>. QED  BY <1>2, <1>8, FirstAll

\* The list made of a set of mails has each once.
LEMMA SetToSeqFacts ==
  ASSUME NEW S, IsFiniteSet(S)
  PROVE  /\ SetToSeq(S) \in Seq(S)
         /\ ToSet(SetToSeq(S)) = S
<1>1. Cardinality(S) \in Nat /\ ExistsBijection(1..Cardinality(S), S)
  BY FS_CardinalityType
<1>. DEFINE D == 1..Cardinality(S)
            f == SetToSeq(S)
<1>2. f \in [D -> S] /\ IsInjective(f)
  BY <1>1 DEF SetToSeq, ExistsBijection, Bijection, Injection
<1>3. IsFiniteSet(D) /\ Cardinality(D) = Cardinality(S)
  BY <1>1, FS_Interval
<1>. HIDE DEF f
<1>4. f \in Injection(D, S)
  BY <1>2 DEF Injection
<1>5. f \in Surjection(D, S)
  BY <1>3, <1>4, FS_Injection
<1>6. ToSet(f) = S
  BY <1>2, <1>5 DEF Surjection, ToSet
<1>7. f \in Seq(S)
  BY <1>1, <1>2
<1>. QED  BY <1>6, <1>7 DEF f

LEMMA MailsAreFinite == \A S \in SUBSET MailIds : IsFiniteSet(S)
<1>1. IsFiniteSet(MailIds)
  BY ScenarioMailAssumption, FS_Interval DEF MailIds
<1>. QED  BY <1>1, FS_Subset

-----------------------------------------------------------------------------
(* Boxes.                                                                  *)

Box == [ids : SUBSET MailIds, list : Seq(MailIds), cached : BOOLEAN]

\* A box is well formed: the list has the mails of the set, each once.
Tidy(bx) ==
  /\ bx \in Box
  /\ ToSet(bx.list) = bx.ids
  /\ IsInjective(bx.list)

LEMMA TidyCount ==
  ASSUME NEW bx, Tidy(bx)
  PROVE  Len(bx.list) = Cardinality(bx.ids)
<1>1. /\ bx.list \in Seq(MailIds) /\ ToSet(bx.list) = bx.ids /\ IsInjective(bx.list)
  BY DEF Tidy, Box
<1>2. Len(bx.list) \in Nat /\ DOMAIN bx.list = 1..Len(bx.list)
  BY <1>1
<1>3. bx.list \in [1..Len(bx.list) -> bx.ids]
  BY <1>1, <1>2 DEF ToSet
<1>4. bx.list \in Bijection(1..Len(bx.list), bx.ids)
  BY <1>1, <1>2, <1>3 DEF Bijection, Injection, Surjection, ToSet
<1>5. ExistsBijection(1..Len(bx.list), bx.ids)
  BY <1>4 DEF ExistsBijection
<1>. QED  BY <1>2, <1>5, FS_CountingElements

LEMMA AddTidy ==
  ASSUME NEW bx, Tidy(bx), NEW mail \in MailIds
  PROVE  /\ Tidy(AddMail(bx, mail))
         /\ AddMail(bx, mail).ids = bx.ids \union {mail}
         /\ AddMail(bx, mail).cached = bx.cached
<1>1. CASE mail \in bx.ids
  BY <1>1 DEF AddMail
<1>2. CASE mail \notin bx.ids
  <2>1. /\ bx.list \in Seq(MailIds) /\ bx.ids \in SUBSET MailIds /\ bx.cached \in BOOLEAN
        /\ ToSet(bx.list) = bx.ids /\ IsInjective(bx.list)
    BY DEF Tidy, Box
  <2>2. AddMail(bx, mail)
          = [ids |-> bx.ids \union {mail}, list |-> Append(bx.list, mail), cached |-> bx.cached]
    BY <1>2 DEF AddMail, Tidy, Box
  <2>3. /\ Append(bx.list, mail) \in Seq(MailIds)
        /\ ToSet(Append(bx.list, mail)) = bx.ids \union {mail}
        /\ IsInjective(Append(bx.list, mail))
    BY <1>2, <2>1, AppendFacts
  <2>. QED  BY <2>1, <2>2, <2>3 DEF Tidy, Box
<1>. QED  BY <1>1, <1>2

LEMMA DeleteTidy ==
  ASSUME NEW bx, Tidy(bx), NEW mail \in MailIds
  PROVE  /\ Tidy(DeleteMail(bx, mail))
         /\ DeleteMail(bx, mail).ids = bx.ids \ {mail}
         /\ DeleteMail(bx, mail).cached = bx.cached
<1>1. /\ bx.list \in Seq(MailIds) /\ bx.ids \in SUBSET MailIds /\ bx.cached \in BOOLEAN
      /\ ToSet(bx.list) = bx.ids /\ IsInjective(bx.list)
  BY DEF Tidy, Box
<1>. DEFINE others == Without(bx.list, {mail})
<1>2. others \in Seq(MailIds) /\ ToSet(others) = bx.ids \ {mail} /\ IsInjective(others)
  BY <1>1, WithoutFacts
<1>3. DeleteMail(bx, mail) = [bx EXCEPT !.ids = bx.ids \ {mail}, !.list = others]
  BY DEF DeleteMail
<1>. HIDE DEF others
<1>4. DeleteMail(bx, mail) = [ids |-> bx.ids \ {mail}, list |-> others, cached |-> bx.cached]
  BY <1>3 DEF Tidy, Box
<1>. QED  BY <1>1, <1>2, <1>4 DEF Tidy, Box

\* The box with, or without, the mails of a set.
Result(how, base, S, made) ==
  /\ Tidy(made)
  /\ made.ids = IF how = "add" THEN base.ids \union S ELSE base.ids \ S
  /\ made.cached = base.cached

\* What the mails of a list make of a box.
LEMMA MadeTidy ==
  ASSUME NEW how, NEW base, Tidy(base), NEW list \in Seq(MailIds), NEW f,
         Made(how, base, list, f)
  PROVE  Result(how, base, ToSet(list), f[Len(list)])
<1>. DEFINE Good(n) == Result(how, base, First(list, n), f[n])
            T == {n \in Nat : n <= Len(list) => Good(n)}
<1>1. Len(list) \in Nat
  OBVIOUS
<1>2. 0 \in T
  <2>1. f[0] = base
    BY DEF Made
  <2>2. First(list, 0) = {}
    BY FirstFacts
  <2>. QED  BY <2>1, <2>2 DEF Result
<1>3. ASSUME NEW n \in T PROVE n + 1 \in T
  <2>. SUFFICES ASSUME n + 1 <= Len(list) PROVE Good(n + 1)
    OBVIOUS
  <2>0. n \in Nat
    OBVIOUS
  <2>1. n + 1 \in 1..Len(list) /\ n <= Len(list) /\ n + 1 - 1 = n
    BY <1>1, <2>0
  <2>2. Good(n)
    BY <2>1
  <2>3. f[n + 1] = Changed(how, f[n + 1 - 1], list[n + 1])
    BY <2>1 DEF Made
  <2>4. f[n + 1] = Changed(how, f[n], list[n + 1])
    BY <2>1, <2>3, Zenon
  <2>5. list[n + 1] \in MailIds
    BY <2>1
  <2>6. First(list, n + 1) = First(list, n) \union {list[n + 1]}
    BY <2>0, FirstFacts
  <2>7. CASE how = "add"
    <3>1. f[n + 1] = AddMail(f[n], list[n + 1])
      BY <2>4, <2>7 DEF Changed
    <3>2. Tidy(f[n + 1]) /\ f[n + 1].ids = f[n].ids \union {list[n + 1]}
          /\ f[n + 1].cached = f[n].cached
      BY <2>2, <2>5, <3>1, AddTidy DEF Result
    <3>. QED  BY <2>2, <2>6, <2>7, <3>2 DEF Result
  <2>8. CASE how # "add"
    <3>1. f[n + 1] = DeleteMail(f[n], list[n + 1])
      BY <2>4, <2>8 DEF Changed
    <3>2. Tidy(f[n + 1]) /\ f[n + 1].ids = f[n].ids \ {list[n + 1]}
          /\ f[n + 1].cached = f[n].cached
      BY <2>2, <2>5, <3>1, DeleteTidy DEF Result
    <3>. QED  BY <2>2, <2>6, <2>8, <3>2 DEF Result
  <2>. QED  BY <2>7, <2>8
<1>4. T \in SUBSET Nat
  OBVIOUS
<1>. HIDE DEF T
<1>5. T = Nat
  BY <1>2, <1>3, <1>4, AllNumbers
<1>. HIDE DEF Good
<1>6. Good(Len(list))
  BY <1>1, <1>5 DEF T
<1>. QED  BY <1>6, FirstAll DEF Good

LEMMA CacheTidy ==
  ASSUME NEW bx, Tidy(bx), NEW list \in Seq(MailIds)
  PROVE  /\ Tidy(CacheMailList(bx, list))
         /\ CacheMailList(bx, list).ids = bx.ids \union ToSet(list)
         /\ CacheMailList(bx, list).cached = bx.cached
<1>1. PICK f : Made("add", bx, list, f) /\ FoldLeft(AddMail, bx, list) = f[Len(list)]
  BY AddFold
<1>2. CacheMailList(bx, list) = f[Len(list)]
  BY <1>1, Zenon DEF CacheMailList
<1>3. Result("add", bx, ToSet(list), f[Len(list)])
  BY <1>1, MadeTidy, Zenon
<1>. HIDE DEF CacheMailList
<1>. QED  BY <1>2, <1>3 DEF Result

LEMMA DeleteAllTidy ==
  ASSUME NEW bx, Tidy(bx), NEW S \in SUBSET MailIds
  PROVE  LET deleted == FoldLeft(DeleteMail, bx, SetToSeq(S))
         IN  Tidy(deleted) /\ deleted.ids = bx.ids \ S /\ deleted.cached = bx.cached
<1>. DEFINE list == SetToSeq(S)
<1>1. list \in Seq(MailIds) /\ ToSet(list) = S
  <2>1. IsFiniteSet(S)
    BY MailsAreFinite
  <2>2. list \in Seq(S) /\ ToSet(list) = S
    BY <2>1, SetToSeqFacts
  <2>. QED  BY <2>2
<1>. HIDE DEF list
<1>2. PICK f : Made("delete", bx, list, f) /\ FoldLeft(DeleteMail, bx, list) = f[Len(list)]
  BY <1>1, DeleteFold
<1>3. Result("delete", bx, S, f[Len(list)])
  BY <1>1, <1>2, MadeTidy, Zenon
<1>. QED  BY <1>2, <1>3 DEF Result, list

-----------------------------------------------------------------------------
(* Where a mail may be.                                                    *)

\* The mails the bot may ask to read.
Mine == ToSet(known["account"])

\* The mails of others that a box has not heard of, all that is on its way to
\* the box, and what is on its way out of it.
Pending(b) == {m \in MailIds : <<b, m>> \in notices}
Coming(b) ==
  Pending(b) \union (IF work.type = "send" /\ work.box = b THEN {work.mail} ELSE {})
Going(b) == IF work.type = "read" /\ work.box = b THEN work.mails ELSE {}

\* The database has what is in a box, but for mails that were just read, and a
\* box that counts as cached has what is in the database, but for mails that
\* are on their way, or in the list that is being added.
BoxOK(b) ==
  /\ Tidy(box[b])
  /\ box[b].ids \subseteq mails[b] \union Going(b)
  /\ box[b].cached /\ ~Loading(b) => mails[b] \subseteq box[b].ids \union Coming(b)

BoxesOK == \A b \in Boxes : BoxOK(b)

\* The box a request of the bot is about.
BoxOf(type) == IF type = "list" THEN "user" ELSE "account"

RequestOK(r) ==
  /\ r \in Request
  /\ r.box = BoxOf(r.type)
  /\ r.type = "read" => r.mails \subseteq Mine

\* What the database did for the bot stays as it is until the bot hears of it:
\* a mail it sent is there, and comes from nowhere else, and one it has read
\* is gone.
DoneOK(done) ==
  /\ done \in Done
  /\ done.box = BoxOf(done.type)
  /\ done.type = "send" =>
       /\ done.mail \in mails["account"]
       /\ done.mail \notin Mine
       /\ <<"account", done.mail>> \notin notices
  /\ done.type = "read" => done.mails \subseteq Mine \ mails["account"]

\* A list from the database may lack mails stored since, all of which are
\* still to be announced or were added to the box.
ListOK ==
  LET b == work.box IN
  /\ b \in Boxes /\ work.list \in Seq(MailIds)
  /\ ToSet(work.list) \subseteq mails[b]
  /\ mails[b] \subseteq box[b].ids \union ToSet(work.list) \union Pending(b)

WorkOK ==
  /\ ~Free => DoneOK(work)
  /\ work.type \in {"list", "load"} => ListOK

AckOK(ack) ==
  ack \notin Refusal =>
    /\ DoneOK(ack)
    /\ ack.type = "send" => ack.mail \in box["account"].ids

InFlight ==
  /\ \A i \in DOMAIN requests : RequestOK(requests[i])
  /\ WorkOK
  /\ \A i \in DOMAIN acks : AckOK(acks[i])

\* An id that was not given out yet is nowhere.
Fresh ==
  \A m \in MailIds : m > lastId =>
    /\ m \notin Mine
    /\ \A b \in Boxes : m \notin mails[b] /\ m \notin box[b].ids /\ <<b, m>> \notin notices

\* A mail of others that was not announced yet is in the database, and
\* unknown to the bot.
Unannounced ==
  \A b \in Boxes : \A m \in Pending(b) : m \in mails[b] /\ (b = "account" => m \notin Mine)

\* The mails the bot knows of are in the box, but for those that were read for
\* it and that it has not heard of yet.
Answering(m) == \E i \in DOMAIN acks : acks[i].type = "read" /\ m \in acks[i].mails
KnownAreThere == \A m \in Mine : m \in box["account"].ids \/ Answering(m)

\* The inductive invariant of the mails.
MailsKept ==
  /\ TypeOK
  /\ BoxesOK
  /\ InFlight
  /\ Fresh
  /\ Unannounced
  /\ KnownAreThere

-----------------------------------------------------------------------------
LEMMA RequestFacts ==
  ASSUME NEW r \in Request
  PROVE  /\ r.type \in {"list", "send", "read"} /\ r.box \in Boxes
         /\ r.type = "read" => r.mails \in SUBSET MailIds
BY DEF Request

LEMMA DoneFacts ==
  ASSUME NEW done \in Done
  PROVE  /\ done.type \in {"list", "send", "read"} /\ done.box \in Boxes
         /\ done.type = "list" => done = [type |-> "list", box |-> done.box, list |-> done.list]
                                  /\ done.list \in Seq(MailIds)
         /\ done.type = "send" => done.mail \in MailIds
         /\ done.type = "read" => done.mails \in SUBSET MailIds
         /\ done \notin Refusal /\ done # NoWork
<1>1. CASE done \in [type : {"list"}, box : Boxes, list : Seq(MailIds)]
  BY <1>1 DEF Refusal, NoWork
<1>2. CASE done \in [type : {"send"}, box : Boxes, mail : MailIds]
  BY <1>2 DEF Refusal, NoWork
<1>3. CASE done \in [type : {"read"}, box : Boxes, mails : SUBSET MailIds]
  BY <1>3 DEF Refusal, NoWork
<1>. QED  BY <1>1, <1>2, <1>3 DEF Done

\* Where the request under way is, as the guards of the actions find it.
LEMMA RequestWaits ==
  ASSUME OneAtATime, MailsKept, requests # <<>>
  PROVE  /\ requests = <<Head(requests)>> /\ Tail(requests) = <<>>
         /\ Free /\ acks = <<>>
         /\ RequestOK(Head(requests))
<1>1. Asked
  BY DEF OneAtATime, Idle, Served, Answered
<1>2. PICK r : requests = <<r>>
  BY <1>1 DEF Asked
<1>3. Head(requests) = r /\ Tail(requests) = <<>> /\ requests[1] = r /\ 1 \in DOMAIN requests
  BY <1>2
<1>4. RequestOK(requests[1])
  BY <1>3 DEF MailsKept, InFlight
<1>. QED  BY <1>1, <1>2, <1>3, <1>4 DEF Asked

LEMMA WorkWaits ==
  ASSUME OneAtATime, MailsKept, ~Free
  PROVE  requests = <<>> /\ acks = <<>> /\ WorkOK /\ DoneOK(work)
<1>1. Served
  BY DEF OneAtATime, Idle, Asked, Answered
<1>. QED  BY <1>1 DEF Served, MailsKept, InFlight, WorkOK

LEMMA AckWaits ==
  ASSUME OneAtATime, MailsKept, acks # <<>>
  PROVE  /\ requests = <<>> /\ Free
         /\ acks = <<Head(acks)>> /\ Tail(acks) = <<>>
         /\ AckOK(Head(acks))
         /\ Head(acks) \in Done \union Refusal
<1>1. Answered
  BY DEF OneAtATime, Idle, Asked, Served
<1>2. PICK ack : acks = <<ack>>
  BY <1>1 DEF Answered
<1>3. Head(acks) = ack /\ Tail(acks) = <<>> /\ acks[1] = ack /\ 1 \in DOMAIN acks
  BY <1>2
<1>4. AckOK(acks[1])
  BY <1>3 DEF MailsKept, InFlight
<1>5. acks[1] \in Done \union Refusal
  BY <1>3 DEF MailsKept, TypeOK
<1>. QED  BY <1>1, <1>2, <1>3, <1>4, <1>5 DEF Answered

-----------------------------------------------------------------------------
(* The bot's tasks.                                                        *)

\* A task's request: only what is under way changes.
LEMMA TaskKeeps ==
  ASSUME OneAtATime, MailsKept, NEW current, NEW r, RequestOK(r), ProcessTask(current, <<r>>)
  PROVE  MailsKept'
<1>1. /\ ~requested /\ requested' = TRUE /\ requests' = requests \o <<r>>
      /\ UNCHANGED <<task, known, rounds, acks, box, work, mails, notices, lastId>>
  BY DEF ProcessTask, gatewayVars
<1>2. requests' = <<r>>
  <2>1. requests = <<>>
    BY <1>1 DEF OneAtATime, Idle, Asked, Served, Answered
  <2>. QED  BY <1>1, <2>1
<1>3. TypeOK'
  <2>1. requests' \in Seq(Request)
    BY <1>2 DEF RequestOK
  <2>. QED  BY <1>1, <2>1 DEF MailsKept, TypeOK
<1>4. Mine' = Mine
  BY <1>1 DEF Mine
<1>5. BoxesOK'
  BY <1>1 DEF MailsKept, BoxesOK, BoxOK, Coming, Pending, Going, Loading
<1>6. InFlight'
  <2>1. RequestOK(r)'
    BY <1>4 DEF RequestOK
  <2>2. \A i \in DOMAIN requests' : requests'[i] = r
    BY <1>2
  <2>3. WorkOK'
    BY <1>1, <1>4 DEF MailsKept, InFlight, WorkOK, ListOK, Free, DoneOK, Pending
  <2>4. (\A i \in DOMAIN acks : AckOK(acks[i]))'
    BY <1>1, <1>4 DEF MailsKept, InFlight, AckOK, DoneOK
  <2>. QED  BY <2>1, <2>2, <2>3, <2>4 DEF InFlight
<1>7. Fresh'
  BY <1>1, <1>4 DEF MailsKept, Fresh
<1>8. Unannounced'
  BY <1>1, <1>4 DEF MailsKept, Unannounced, Pending
<1>9. KnownAreThere'
  BY <1>1, <1>4 DEF MailsKept, KnownAreThere, Answering
<1>. QED  BY <1>3, <1>5, <1>6, <1>7, <1>8, <1>9 DEF MailsKept

\* The mails a read asks for are from the account's list.
LEMMA ReadRequestOK ==
  ASSUME MailsKept, NEW n \in Nat, n <= Len(known["account"])
  PROVE  RequestOK([type |-> "read", box |-> "account",
                    mails |-> {known["account"][i] : i \in 1..n}])
<1>1. known["account"] \in Seq(MailIds)
  BY DEF MailsKept, TypeOK, Boxes
<1>2. \A i \in 1..n : i \in DOMAIN known["account"] /\ known["account"][i] \in MailIds
  BY <1>1
<1>. DEFINE S == {known["account"][i] : i \in 1..n}
<1>3. S \subseteq Mine /\ S \in SUBSET MailIds
  BY <1>2 DEF Mine, ToSet
<1>. HIDE DEF S
<1>. QED  BY <1>3 DEF RequestOK, Request, BoxOf, Boxes, S

LEMMA TasksKeep ==
  ASSUME OneAtATime, MailsKept, TaskCheatMailList \/ TaskReqMailSend \/ TaskReqMailRead
  PROVE  MailsKept'
<1>1. CASE TaskCheatMailList
  <2>1. RequestOK([type |-> "list", box |-> "user"])
    BY DEF RequestOK, Request, BoxOf, Boxes
  <2>. QED  BY <1>1, <2>1, TaskKeeps DEF TaskCheatMailList
<1>2. CASE TaskReqMailSend
  <2>1. RequestOK([type |-> "send", box |-> "account"])
    BY DEF RequestOK, Request, BoxOf, Boxes
  <2>. QED  BY <1>2, <2>1, TaskKeeps DEF TaskReqMailSend
<1>3. CASE TaskReqMailRead
  <2>. DEFINE n == IF Len(known["account"]) < MaxReadCount THEN Len(known["account"])
                                                           ELSE MaxReadCount
              r == [type |-> "read", box |-> "account",
                    mails |-> {known["account"][i] : i \in 1..n}]
  <2>1. n \in Nat /\ n <= Len(known["account"])
    <3>1. Len(known["account"]) \in Nat
      BY DEF MailsKept, TypeOK, Boxes
    <3>. QED  BY <3>1, ScenarioMailAssumption
  <2>2. ProcessTask("REQ_MAIL_READ", <<r>>)
    BY <1>3 DEF TaskReqMailRead
  <2>. HIDE DEF n
  <2>3. RequestOK(r)
    BY <2>1, ReadRequestOK
  <2>. HIDE DEF r
  <2>. QED  BY <2>2, <2>3, TaskKeeps
<1>. QED  BY <1>1, <1>2, <1>3

LEMMA CompleteKeeps ==
  ASSUME MailsKept, TaskCompleteScenario
  PROVE  MailsKept'
<1>1. /\ rounds' = rounds + 1 /\ rounds < MaxRounds /\ task' = "CHEAT_MAIL_LIST"
      /\ UNCHANGED <<requested, known, requests, acks, box, work, mails, notices, lastId>>
  BY DEF TaskCompleteScenario, gatewayVars
<1>2. TypeOK'
  BY <1>1, ScenarioMailAssumption DEF MailsKept, TypeOK, Tasks
<1>3. Mine' = Mine
  BY <1>1 DEF Mine
<1>4. BoxesOK'
  BY <1>1 DEF MailsKept, BoxesOK, BoxOK, Coming, Pending, Going, Loading
<1>5. InFlight'
  <2>1. (\A i \in DOMAIN requests : RequestOK(requests[i]))'
    BY <1>1, <1>3 DEF MailsKept, InFlight, RequestOK
  <2>2. WorkOK'
    BY <1>1, <1>3 DEF MailsKept, InFlight, WorkOK, ListOK, Free, DoneOK, Pending
  <2>3. (\A i \in DOMAIN acks : AckOK(acks[i]))'
    BY <1>1, <1>3 DEF MailsKept, InFlight, AckOK, DoneOK
  <2>. QED  BY <2>1, <2>2, <2>3 DEF InFlight
<1>6. Fresh' /\ Unannounced'
  BY <1>1, <1>3 DEF MailsKept, Fresh, Unannounced, Pending
<1>7. KnownAreThere'
  BY <1>1, <1>3 DEF MailsKept, KnownAreThere, Answering
<1>. QED  BY <1>2, <1>4, <1>5, <1>6, <1>7 DEF MailsKept

-----------------------------------------------------------------------------
(* Acknowledgements: what is under way has come to its end.                *)

LEMMA AckCommon ==
  ASSUME OneAtATime, MailsKept, NEW type, Acknowledged(type), CompleteTask,
         known' \in [Boxes -> Seq(MailIds)]
  PROVE  /\ TypeOK' /\ BoxesOK' /\ InFlight'
         /\ UNCHANGED <<box, work, mails, notices, lastId>>
         /\ acks # <<>> /\ Head(acks).type = type /\ acks' = <<>>
<1>1. /\ acks # <<>> /\ Head(acks).type = type /\ acks' = Tail(acks)
      /\ UNCHANGED <<rounds, requests, box, work, mails, notices, lastId>>
      /\ task' = NextTask(task) /\ requested' = FALSE
  BY DEF Acknowledged, CompleteTask, gatewayVars
<1>2. requests = <<>> /\ Free /\ acks' = <<>>
  BY <1>1, AckWaits
<1>3. TypeOK'
  <2>1. task' \in Tasks
    BY <1>1 DEF NextTask, Tasks
  <2>2. acks' \in Seq(Done \union Refusal)
    BY <1>2
  <2>. QED  BY <1>1, <2>1, <2>2 DEF MailsKept, TypeOK
<1>4. BoxesOK'
  BY <1>1 DEF MailsKept, BoxesOK, BoxOK, Coming, Pending, Going, Loading
<1>5. InFlight'
  <2>1. DOMAIN requests' = {} /\ DOMAIN acks' = {}
    BY <1>1, <1>2
  <2>2. WorkOK'
    BY <1>1, <1>2 DEF MailsKept, InFlight, WorkOK, ListOK, Free, Pending
  <2>. QED  BY <2>1, <2>2 DEF InFlight
<1>. QED  BY <1>1, <1>2, <1>3, <1>4, <1>5

LEMMA AckListKeeps ==
  ASSUME OneAtATime, MailsKept, AckMailList
  PROVE  MailsKept'
<1>. DEFINE ack == Head(acks)
<1>1. /\ Acknowledged("list") /\ CompleteTask
      /\ known' = [known EXCEPT ![ack.box] = @ \o ack.list]
  BY DEF AckMailList
<1>2. acks # <<>> /\ ack.type = "list"
  BY <1>1 DEF Acknowledged
<1>3. acks = <<ack>> /\ AckOK(ack) /\ ack \in Done \union Refusal
  BY <1>2, AckWaits
<1>. HIDE DEF ack
<1>4. DoneOK(ack) /\ ack.box = "user" /\ ack.list \in Seq(MailIds)
  <2>1. ack \notin Refusal
    BY <1>2 DEF Refusal
  <2>2. ack \in Done /\ DoneOK(ack)
    BY <1>3, <2>1 DEF AckOK
  <2>. QED  BY <1>2, <2>2, DoneFacts DEF DoneOK, BoxOf
<1>5. known \in [Boxes -> Seq(MailIds)]
  BY DEF MailsKept, TypeOK
<1>6. known' \in [Boxes -> Seq(MailIds)] /\ Mine' = Mine
  <2>1. known["user"] \o ack.list \in Seq(MailIds)
    BY <1>4, <1>5 DEF Boxes
  <2>2. known' = [known EXCEPT !["user"] = known["user"] \o ack.list]
    BY <1>1, <1>4
  <2>. QED  BY <1>5, <2>1, <2>2 DEF Mine, Boxes
<1>7. /\ TypeOK' /\ BoxesOK' /\ InFlight' /\ acks' = <<>>
      /\ UNCHANGED <<box, work, mails, notices, lastId>>
  BY <1>1, <1>5, <1>6, AckCommon
<1>8. Fresh' /\ Unannounced'
  BY <1>1, <1>6, <1>7 DEF MailsKept, Fresh, Unannounced, Pending
<1>9. KnownAreThere'
  <2>1. \A m : ~ Answering(m)
    BY <1>2, <1>3 DEF Answering
  <2>. QED  BY <1>6, <1>7, <2>1 DEF MailsKept, KnownAreThere
<1>. QED  BY <1>7, <1>8, <1>9 DEF MailsKept

LEMMA AckSendKeeps ==
  ASSUME OneAtATime, MailsKept, AckMailSend
  PROVE  MailsKept'
<1>. DEFINE ack == Head(acks)
<1>1. /\ Acknowledged("send") /\ CompleteTask
      /\ known' = [known EXCEPT ![ack.box] = Append(@, ack.mail)]
  BY DEF AckMailSend
<1>2. acks # <<>> /\ ack.type = "send"
  BY <1>1 DEF Acknowledged
<1>3. acks = <<ack>> /\ AckOK(ack) /\ ack \in Done \union Refusal
  BY <1>2, AckWaits
<1>. HIDE DEF ack
<1>4. /\ ack.box = "account" /\ ack.mail \in MailIds /\ ack.mail \in mails["account"]
      /\ ack.mail \notin Mine /\ <<"account", ack.mail>> \notin notices
      /\ ack.mail \in box["account"].ids
  <2>1. ack \notin Refusal
    BY <1>2 DEF Refusal
  <2>2. ack \in Done /\ DoneOK(ack) /\ ack.mail \in box["account"].ids
    BY <1>2, <1>3, <2>1 DEF AckOK
  <2>. QED  BY <1>2, <2>2, DoneFacts DEF DoneOK, BoxOf
<1>5. known \in [Boxes -> Seq(MailIds)]
  BY DEF MailsKept, TypeOK
<1>6. known' \in [Boxes -> Seq(MailIds)] /\ Mine' = Mine \union {ack.mail}
  <2>. DEFINE l == Append(known["account"], ack.mail)
  <2>0. known["account"] \in Seq(MailIds)
    BY <1>5 DEF Boxes
  <2>1. l \in Seq(MailIds) /\ ToSet(l) = Mine \union {ack.mail}
    BY <1>4, <2>0, AppendFacts DEF Mine
  <2>2. known' = [known EXCEPT !["account"] = l]
    BY <1>1, <1>4
  <2>. HIDE DEF l
  <2>. QED  BY <1>5, <2>1, <2>2 DEF Mine, Boxes
<1>7. /\ TypeOK' /\ BoxesOK' /\ InFlight' /\ acks' = <<>>
      /\ UNCHANGED <<box, work, mails, notices, lastId>>
  BY <1>1, <1>5, <1>6, AckCommon
<1>8. Fresh'
  BY <1>1, <1>4, <1>6, <1>7 DEF MailsKept, Fresh, Boxes
<1>9. Unannounced'
  BY <1>1, <1>4, <1>6, <1>7 DEF MailsKept, Unannounced, Pending
<1>10. KnownAreThere'
  <2>1. \A m : ~ Answering(m)
    BY <1>2, <1>3 DEF Answering
  <2>. QED  BY <1>4, <1>6, <1>7, <2>1 DEF MailsKept, KnownAreThere
<1>. QED  BY <1>7, <1>8, <1>9, <1>10 DEF MailsKept

LEMMA AckReadKeeps ==
  ASSUME OneAtATime, MailsKept, AckMailRead
  PROVE  MailsKept'
<1>. DEFINE ack == Head(acks)
<1>1. /\ Acknowledged("read") /\ CompleteTask
      /\ known' = [known EXCEPT ![ack.box] = Without(@, ack.mails)]
  BY DEF AckMailRead
<1>2. acks # <<>> /\ ack.type = "read"
  BY <1>1 DEF Acknowledged
<1>3. acks = <<ack>> /\ AckOK(ack) /\ ack \in Done \union Refusal
  BY <1>2, AckWaits
<1>. HIDE DEF ack
<1>4. ack.box = "account" /\ ack.mails \subseteq Mine \ mails["account"]
  <2>1. ack \notin Refusal
    BY <1>2 DEF Refusal
  <2>2. DoneOK(ack)
    BY <1>2, <1>3, <2>1 DEF AckOK
  <2>. QED  BY <1>2, <2>2 DEF DoneOK, BoxOf
<1>5. known \in [Boxes -> Seq(MailIds)]
  BY DEF MailsKept, TypeOK
<1>6. known' \in [Boxes -> Seq(MailIds)] /\ Mine' = Mine \ ack.mails
  <2>. DEFINE l == Without(known["account"], ack.mails)
  <2>0. known["account"] \in Seq(MailIds)
    BY <1>5 DEF Boxes
  <2>1. l \in Seq(MailIds) /\ ToSet(l) = Mine \ ack.mails
    BY <2>0, WithoutFacts DEF Mine
  <2>2. known' = [known EXCEPT !["account"] = l]
    BY <1>1, <1>4
  <2>. HIDE DEF l
  <2>. QED  BY <1>5, <2>1, <2>2 DEF Mine, Boxes
<1>8. /\ TypeOK' /\ BoxesOK' /\ InFlight' /\ acks' = <<>>
      /\ UNCHANGED <<box, work, mails, notices, lastId>>
  BY <1>1, <1>6, AckCommon
<1>9. Fresh'
  BY <1>1, <1>4, <1>6, <1>8 DEF MailsKept, Fresh
<1>10. Unannounced'
  BY <1>1, <1>6, <1>8 DEF MailsKept, Unannounced, Pending
<1>11. KnownAreThere'
  <2>1. \A m : Answering(m) => m \in ack.mails
    BY <1>3 DEF Answering
  <2>. QED  BY <1>6, <1>8, <2>1 DEF MailsKept, KnownAreThere
<1>. QED  BY <1>8, <1>9, <1>10, <1>11 DEF MailsKept

LEMMA AckFailureKeeps ==
  ASSUME OneAtATime, MailsKept, AckFailure
  PROVE  MailsKept'
<1>1. Acknowledged("refused") /\ CompleteTask /\ UNCHANGED known
  BY DEF AckFailure
<1>2. acks # <<>> /\ Head(acks).type = "refused"
  BY <1>1 DEF Acknowledged
<1>3. acks = <<Head(acks)>>
  BY <1>2, AckWaits
<1>4. known \in [Boxes -> Seq(MailIds)]
  BY DEF MailsKept, TypeOK
<1>5. /\ TypeOK' /\ BoxesOK' /\ InFlight' /\ acks' = <<>>
      /\ UNCHANGED <<box, work, mails, notices, lastId>>
  BY <1>1, <1>4, AckCommon
<1>6. Fresh' /\ Unannounced'
  BY <1>1, <1>5 DEF MailsKept, Fresh, Unannounced, Pending, Mine
<1>7. KnownAreThere'
  <2>1. \A m : ~ Answering(m)
    BY <1>2, <1>3 DEF Answering
  <2>. QED  BY <1>1, <1>5, <2>1 DEF MailsKept, KnownAreThere, Mine
<1>. QED  BY <1>5, <1>6, <1>7 DEF MailsKept

-----------------------------------------------------------------------------
(* The gateway and the database.                                           *)

LEMMA ServeCommon ==
  ASSUME OneAtATime, MailsKept, NEW type, NEW done \in Done, Serve(type, done),
         mails' \in [Boxes -> SUBSET MailIds], lastId' \in 0..MaxMails
  PROVE  /\ requests # <<>> /\ RequestOK(Head(requests)) /\ Head(requests).type = type
         /\ work = NoWork /\ work' = done /\ acks = <<>>
         /\ UNCHANGED <<known, acks, box, notices, Mine>>
         /\ TypeOK' /\ KnownAreThere' /\ (WorkOK' => InFlight')
<1>1. /\ requests # <<>> /\ Head(requests).type = type
      /\ work' = done /\ requests' = Tail(requests)
      /\ UNCHANGED <<task, requested, known, rounds, acks, box, notices>>
  BY DEF Serve, botVars
<1>2. /\ RequestOK(Head(requests)) /\ work = NoWork /\ acks = <<>> /\ requests' = <<>>
  BY <1>1, RequestWaits DEF Serve
<1>3. Mine' = Mine
  BY <1>1 DEF Mine
<1>4. TypeOK'
  <2>1. requests' \in Seq(Request)
    BY <1>2
  <2>. QED  BY <1>1, <2>1 DEF MailsKept, TypeOK
<1>5. KnownAreThere'
  BY <1>1, <1>3 DEF MailsKept, KnownAreThere, Answering
<1>6. WorkOK' => InFlight'
  <2>1. DOMAIN requests' = {} /\ DOMAIN acks' = {}
    BY <1>1, <1>2
  <2>. QED  BY <2>1 DEF InFlight
<1>. QED  BY <1>1, <1>2, <1>3, <1>4, <1>5, <1>6

LEMMA LoadKeeps ==
  ASSUME OneAtATime, MailsKept, LoadMails
  PROVE  MailsKept'
<1>. DEFINE b == Head(requests).box
            list == SetToSeq(mails[b])
            done == [type |-> "list", box |-> b, list |-> list]
<1>1. Serve("list", done) /\ UNCHANGED <<mails, lastId>>
  BY DEF LoadMails
<1>2. requests # <<>> /\ Head(requests).type = "list"
  BY <1>1 DEF Serve
<1>3. b = "user" /\ b \in Boxes
  BY <1>2, RequestWaits DEF RequestOK, BoxOf, Boxes
<1>4. mails \in [Boxes -> SUBSET MailIds] /\ lastId \in 0..MaxMails
  BY DEF MailsKept, TypeOK
<1>5. list \in Seq(MailIds) /\ ToSet(list) = mails["user"]
  <2>1. mails[b] \in SUBSET MailIds /\ mails[b] = mails["user"]
    BY <1>3, <1>4
  <2>2. IsFiniteSet(mails[b])
    BY <2>1, MailsAreFinite
  <2>3. list \in Seq(mails[b]) /\ ToSet(list) = mails[b]
    BY <2>2, SetToSeqFacts
  <2>. HIDE DEF list, b
  <2>. QED  BY <2>1, <2>3
<1>. HIDE DEF b, list
<1>6. done \in Done /\ done.type = "list" /\ done.box = "user" /\ done.list = list
  BY <1>3, <1>5 DEF Done
<1>. HIDE DEF done
<1>7. /\ work = NoWork /\ work' = done
      /\ UNCHANGED <<known, acks, box, notices, Mine>>
      /\ TypeOK' /\ KnownAreThere' /\ (WorkOK' => InFlight')
  BY <1>1, <1>4, <1>6, ServeCommon
<1>8. WorkOK'
  BY <1>1, <1>5, <1>6, <1>7 DEF WorkOK, ListOK, DoneOK, BoxOf, Boxes
<1>9. BoxesOK'
  <2>1. work.type = "none"
    BY <1>7 DEF NoWork
  <2>. QED  BY <1>1, <1>6, <1>7, <2>1 DEF MailsKept, BoxesOK, BoxOK, Coming, Pending, Going, Loading
<1>10. Fresh' /\ Unannounced'
  BY <1>1, <1>7 DEF MailsKept, Fresh, Unannounced, Pending
<1>. QED  BY <1>7, <1>8, <1>9, <1>10 DEF MailsKept

LEMMA StoreKeeps ==
  ASSUME OneAtATime, MailsKept, StoreMail
  PROVE  MailsKept'
<1>. DEFINE b == Head(requests).box
            mail == lastId + 1
            done == [type |-> "send", box |-> b, mail |-> mail]
<1>1. /\ lastId < MaxMails /\ Serve("send", done)
      /\ mails' = [mails EXCEPT ![b] = @ \union {mail}] /\ lastId' = mail
  BY DEF StoreMail
<1>2. requests # <<>> /\ Head(requests).type = "send"
  BY <1>1 DEF Serve
<1>3. b = "account" /\ b \in Boxes
  BY <1>2, RequestWaits DEF RequestOK, BoxOf, Boxes
<1>4. mails \in [Boxes -> SUBSET MailIds] /\ lastId \in 0..MaxMails
  BY DEF MailsKept, TypeOK
<1>5. mail \in MailIds /\ mail \in 0..MaxMails /\ lastId < mail /\ \A m \in MailIds : m > mail => m > lastId
  BY <1>1, <1>4, ScenarioMailAssumption DEF MailIds
<1>. HIDE DEF b
<1>6. done \in Done /\ done.type = "send" /\ done.box = "account" /\ done.mail = mail
  BY <1>3, <1>5 DEF Done
<1>. HIDE DEF mail, done
<1>7. /\ mails' \in [Boxes -> SUBSET MailIds]
      /\ mails'["account"] = mails["account"] \union {mail}
      /\ \A c \in Boxes : c # "account" => mails'[c] = mails[c]
  BY <1>1, <1>3, <1>4, <1>5 DEF Boxes
<1>8. /\ work = NoWork /\ work' = done /\ acks = <<>>
      /\ UNCHANGED <<known, acks, box, notices, Mine>>
      /\ TypeOK' /\ KnownAreThere' /\ (WorkOK' => InFlight')
  BY <1>1, <1>5, <1>6, <1>7, ServeCommon
<1>9. \* The new mail is nowhere yet.
      /\ mail \notin Mine
      /\ \A c \in Boxes : mail \notin mails[c] /\ mail \notin box[c].ids /\ <<c, mail>> \notin notices
  <2>1. mail > lastId
    BY <1>4, <1>5
  <2>. QED  BY <1>5, <2>1 DEF MailsKept, Fresh
<1>10. WorkOK'
  BY <1>3, <1>6, <1>7, <1>8, <1>9 DEF WorkOK, DoneOK, BoxOf
<1>11. BoxesOK'
  <2>1. work.type = "none" /\ BoxesOK
    BY <1>8 DEF NoWork, MailsKept
  <2>2. \A c \in Boxes : /\ Coming(c) = Pending(c) /\ Going(c) = {} /\ Going(c)' = {}
                          /\ ~Loading(c)
    BY <1>6, <1>8, <2>1 DEF Coming, Going, Loading
  <2>3. \A c \in Boxes : Pending(c)' = Pending(c)
    BY <1>8 DEF Pending
  <2>4. Coming("account")' = Pending("account") \union {mail}
        /\ \A c \in Boxes : c # "account" => Coming(c)' = Pending(c)
    BY <1>3, <1>6, <1>8, <2>3 DEF Coming
  <2>5. ASSUME NEW c \in Boxes PROVE BoxOK(c)'
    <3>1. BoxOK(c)
      BY <2>1 DEF BoxesOK
    <3>2. CASE c = "account"
      BY <1>7, <1>8, <2>2, <2>4, <3>1, <3>2 DEF BoxOK
    <3>3. CASE c # "account"
      BY <1>7, <1>8, <2>2, <2>4, <3>1, <3>3 DEF BoxOK
    <3>. QED  BY <3>2, <3>3
  <2>. QED  BY <2>5 DEF BoxesOK
<1>12. Fresh'
  <2>1. \A m \in MailIds : m > mail => m # mail
    BY <1>4, <1>5 DEF MailIds
  <2>2. ASSUME NEW m \in MailIds, m > lastId'
        PROVE  /\ m \notin Mine'
               /\ \A c \in Boxes : m \notin mails'[c] /\ m \notin box'[c].ids /\ <<c, m>> \notin notices'
    <3>1. m > mail /\ m > lastId /\ m # mail
      BY <1>1, <1>5, <2>1, <2>2
    <3>2. /\ m \notin Mine
          /\ \A c \in Boxes : m \notin mails[c] /\ m \notin box[c].ids /\ <<c, m>> \notin notices
      BY <3>1 DEF MailsKept, Fresh
    <3>. QED  BY <1>7, <1>8, <3>1, <3>2
  <2>. QED  BY <2>2 DEF Fresh
<1>13. Unannounced'
  BY <1>7, <1>8 DEF MailsKept, Unannounced, Pending
<1>. QED  BY <1>8, <1>10, <1>11, <1>12, <1>13 DEF MailsKept

LEMMA ReadKeeps ==
  ASSUME OneAtATime, MailsKept, ReadMails
  PROVE  MailsKept'
<1>. DEFINE b == Head(requests).box
<1>1. PICK read \in SUBSET MailIds :
        /\ Serve("read", [type |-> "read", box |-> b, mails |-> read])
        /\ read \subseteq Head(requests).mails \intersect mails[b]
        /\ mails' = [mails EXCEPT ![b] = @ \ read]
        /\ UNCHANGED lastId
  BY DEF ReadMails
<1>. DEFINE done == [type |-> "read", box |-> b, mails |-> read]
<1>2. requests # <<>> /\ Head(requests).type = "read"
  BY <1>1 DEF Serve
<1>3. b = "account" /\ b \in Boxes /\ read \subseteq Mine
  BY <1>1, <1>2, RequestWaits DEF RequestOK, BoxOf, Boxes
<1>4. mails \in [Boxes -> SUBSET MailIds] /\ lastId \in 0..MaxMails
  BY DEF MailsKept, TypeOK
<1>. HIDE DEF b
<1>5. done \in Done /\ done.type = "read" /\ done.box = "account" /\ done.mails = read
  BY <1>3 DEF Done
<1>6. Serve("read", done)
  BY <1>1
<1>. HIDE DEF done
<1>7. /\ mails' \in [Boxes -> SUBSET MailIds]
      /\ mails'["account"] = mails["account"] \ read
      /\ \A c \in Boxes : c # "account" => mails'[c] = mails[c]
  BY <1>1, <1>3, <1>4 DEF Boxes
<1>8. /\ work = NoWork /\ work' = done /\ acks = <<>>
      /\ UNCHANGED <<known, acks, box, notices, Mine>>
      /\ TypeOK' /\ KnownAreThere' /\ (WorkOK' => InFlight')
  BY <1>1, <1>4, <1>5, <1>6, <1>7, ServeCommon
<1>9. WorkOK'
  BY <1>3, <1>5, <1>7, <1>8 DEF WorkOK, DoneOK, BoxOf
<1>10. BoxesOK'
  <2>1. work.type = "none" /\ BoxesOK
    BY <1>8 DEF NoWork, MailsKept
  <2>2. \A c \in Boxes : Coming(c) = Pending(c) /\ Going(c) = {} /\ ~Loading(c)
    BY <2>1 DEF Coming, Going, Loading
  <2>3. \A c \in Boxes : Coming(c)' = Pending(c)
    BY <1>5, <1>8 DEF Coming, Pending
  <2>4. Going("account")' = read /\ \A c \in Boxes : c # "account" => Going(c)' = {}
    BY <1>5, <1>8 DEF Going
  <2>5. ASSUME NEW c \in Boxes PROVE BoxOK(c)'
    <3>1. BoxOK(c)
      BY <2>1 DEF BoxesOK
    <3>2. CASE c = "account"
      BY <1>7, <1>8, <2>2, <2>3, <2>4, <3>1, <3>2 DEF BoxOK
    <3>3. CASE c # "account"
      BY <1>7, <1>8, <2>2, <2>3, <2>4, <3>1, <3>3 DEF BoxOK
    <3>. QED  BY <3>2, <3>3
  <2>. QED  BY <2>5 DEF BoxesOK
<1>11. \A c \in Boxes : mails'[c] \subseteq mails[c]
  BY <1>7
<1>12. Fresh'
  BY <1>1, <1>8, <1>11 DEF MailsKept, Fresh
<1>13. Unannounced'
  <2>1. ASSUME NEW c \in Boxes, NEW m \in Pending(c)
        PROVE  m \in mails'[c] /\ (c = "account" => m \notin Mine)
    <3>1. m \in mails[c] /\ (c = "account" => m \notin Mine)
      BY DEF MailsKept, Unannounced
    <3>. QED  BY <1>3, <1>7, <3>1
  <2>. QED  BY <1>8, <2>1 DEF Unannounced, Pending
<1>. QED  BY <1>8, <1>9, <1>10, <1>12, <1>13 DEF MailsKept

LEMMA RefuseKeeps ==
  ASSUME OneAtATime, MailsKept, Refuse
  PROVE  MailsKept'
<1>. DEFINE ack == [type |-> "refused", of |-> Head(requests).type]
<1>1. /\ requests # <<>> /\ acks' = Append(acks, ack) /\ requests' = Tail(requests)
      /\ UNCHANGED <<task, requested, known, rounds, box, work, mails, notices, lastId>>
  BY DEF Refuse, botVars, gatewayVars
<1>2. acks = <<>> /\ requests' = <<>> /\ work.type = "none" /\ RequestOK(Head(requests))
  BY <1>1, RequestWaits DEF Refuse, NoWork
<1>3. ack \in Refusal
  BY <1>2, RequestFacts DEF Refusal, RequestOK
<1>. HIDE DEF ack
<1>4. acks' = <<ack>>
  BY <1>1, <1>2
<1>5. TypeOK'
  <2>1. acks' \in Seq(Done \union Refusal) /\ requests' \in Seq(Request)
    BY <1>2, <1>3, <1>4
  <2>. QED  BY <1>1, <2>1 DEF MailsKept, TypeOK
<1>6. BoxesOK'
  BY <1>1 DEF MailsKept, BoxesOK, BoxOK, Coming, Pending, Going, Loading
<1>7. InFlight'
  <2>1. DOMAIN requests' = {} /\ \A i \in DOMAIN acks' : acks'[i] = ack
    BY <1>2, <1>4
  <2>. QED  BY <1>1, <1>2, <1>3, <2>1 DEF InFlight, WorkOK, Free, AckOK
<1>8. Fresh' /\ Unannounced'
  BY <1>1 DEF MailsKept, Fresh, Unannounced, Pending, Mine
<1>9. KnownAreThere'
  <2>1. \A m : ~ Answering(m)
    BY <1>2 DEF Answering
  <2>. QED  BY <1>1, <2>1 DEF MailsKept, KnownAreThere, Mine
<1>. QED  BY <1>5, <1>6, <1>7, <1>8, <1>9 DEF MailsKept

\* What an acknowledgement leaves as it is, whatever was done.
LEMMA AcknowledgeCommon ==
  ASSUME OneAtATime, MailsKept, NEW b \in Boxes, NEW updated, NEW ack \in Done,
         Tidy(updated), ~Free, work.box = b,
         box' = [box EXCEPT ![b] = updated], acks' = Append(acks, ack), work' = NoWork,
         UNCHANGED <<botVars, requests, mails, notices, lastId>>,
         updated.ids \subseteq mails[b],
         updated.cached => mails[b] \subseteq updated.ids \union Pending(b),
         \A c \in Boxes : c # b => BoxOK(c)',
         AckOK(ack)', KnownAreThere'
  PROVE  MailsKept'
<1>1. UNCHANGED <<task, requested, known, rounds>>
  BY DEF botVars
<1>2. requests' = <<>> /\ acks' = <<ack>>
  <2>1. requests = <<>> /\ acks = <<>>
    BY WorkWaits
  <2>. QED  BY <2>1
<1>3. box \in [Boxes -> Box] /\ updated \in Box
  BY DEF MailsKept, TypeOK, Tidy, Box
<1>4. box' \in [Boxes -> Box] /\ box'[b] = updated /\ \A c \in Boxes : c # b => box'[c] = box[c]
  BY <1>3
<1>5. TypeOK'
  <2>1. acks' \in Seq(Done \union Refusal) /\ requests' \in Seq(Request)
    BY <1>2
  <2>2. work' \in Done \union Load \union {NoWork}
    OBVIOUS
  <2>. QED  BY <1>1, <1>4, <2>1, <2>2 DEF MailsKept, TypeOK, Box
<1>6. Mine' = Mine
  BY <1>1 DEF Mine
<1>7. BoxesOK'
  <2>1. Coming(b)' = Pending(b) /\ Going(b)' = {}
    BY DEF Coming, Going, Pending, NoWork
  <2>2. BoxOK(b)'
    BY <1>4, <2>1 DEF BoxOK
  <2>. QED  BY <2>2 DEF BoxesOK
<1>8. InFlight'
  <2>1. DOMAIN requests' = {} /\ \A i \in DOMAIN acks' : acks'[i] = ack
    BY <1>2
  <2>2. work'.type = "none"
    BY DEF NoWork
  <2>. QED  BY <2>1, <2>2 DEF InFlight, WorkOK, Free
<1>9. Fresh'
  <2>1. ASSUME NEW m \in MailIds, m > lastId
        PROVE  \A c \in Boxes : m \notin box'[c].ids
    <3>1. \A c \in Boxes : m \notin mails[c] /\ m \notin box[c].ids
      BY <2>1 DEF MailsKept, Fresh
    <3>. QED  BY <1>4, <3>1
  <2>. QED  BY <1>1, <1>6, <2>1 DEF MailsKept, Fresh
<1>10. Unannounced'
  BY <1>6 DEF MailsKept, Unannounced, Pending
<1>. QED  BY <1>5, <1>7, <1>8, <1>9, <1>10 DEF MailsKept

LEMMA AcknowledgeListKeeps ==
  ASSUME OneAtATime, MailsKept, Acknowledge, work.type = "list"
  PROVE  MailsKept'
<1>. DEFINE updated == CacheMailList(box["user"], work.list)
            ack == [work EXCEPT !.list = updated.list]
<1>1. /\ ~Free /\ acks = <<>> /\ ListOK /\ DoneOK(work)
      /\ box[work.box].cached
  BY WorkWaits DEF Acknowledge, WorkOK, Free
<1>2. /\ work.box = "user" /\ work.list \in Seq(MailIds)
      /\ work = [type |-> "list", box |-> work.box, list |-> work.list]
  BY <1>1, DoneFacts DEF DoneOK, BoxOf
<1>3. Updated(box[work.box]) = updated
  BY <1>2 DEF Updated
<1>4. /\ box' = [box EXCEPT !["user"] = updated] /\ acks' = Append(acks, ack) /\ work' = NoWork
      /\ UNCHANGED <<botVars, requests, mails, notices, lastId>>
  BY <1>2, <1>3 DEF Acknowledge
<1>5. BoxOK("user") /\ BoxOK("account")
  BY DEF MailsKept, BoxesOK, Boxes
<1>6. /\ Tidy(updated) /\ updated.ids = box["user"].ids \union ToSet(work.list)
      /\ updated.cached = box["user"].cached
  BY <1>2, <1>5, CacheTidy DEF BoxOK
<1>. HIDE DEF updated
<1>7. ack \in Done /\ ack.type = "list" /\ ack.box = "user"
  <2>1. ack = [type |-> "list", box |-> "user", list |-> updated.list]
    BY <1>2
  <2>2. updated.list \in Seq(MailIds)
    BY <1>6 DEF Tidy, Box
  <2>. QED  BY <2>1, <2>2 DEF Done, Boxes
<1>. HIDE DEF ack
<1>8. PICK done : done = ack /\ AckOK(done)'
  <2>1. \A done : done = ack => AckOK(done)'
    BY <1>7 DEF AckOK, DoneOK, BoxOf
  <2>. QED  BY <2>1
<1>9. updated.ids \subseteq mails["user"]
  BY <1>1, <1>2, <1>5, <1>6 DEF BoxOK, Going, ListOK
<1>10. mails["user"] \subseteq updated.ids \union Pending("user")
  BY <1>1, <1>2, <1>6 DEF ListOK
<1>11. \A c \in Boxes : c # "user" => box'[c] = box[c]
  BY <1>4 DEF MailsKept, TypeOK
<1>12. \A c \in Boxes : c # "user" => BoxOK(c)'
  <2>1. Coming("account")' = Coming("account") /\ Going("account")' = Going("account")
    BY <1>2, <1>4 DEF Coming, Going, Pending, NoWork
  <2>2. ~Loading("account")
    BY <1>2 DEF Loading
  <2>. QED  BY <1>4, <1>5, <1>11, <2>1, <2>2 DEF BoxOK, Boxes
<1>13. KnownAreThere'
  <2>1. \A m \in Mine : m \in box["account"].ids
    BY <1>1 DEF MailsKept, KnownAreThere, Answering
  <2>2. Mine' = Mine
    BY <1>4 DEF Mine, botVars
  <2>. QED  BY <1>11, <2>1, <2>2 DEF KnownAreThere, Boxes
<1>14. done \in Done /\ acks' = Append(acks, done)
  BY <1>4, <1>7, <1>8
<1>. QED  BY <1>1, <1>2, <1>4, <1>6, <1>8, <1>9, <1>10, <1>12, <1>13, <1>14, AcknowledgeCommon DEF Boxes

LEMMA AcknowledgeSendKeeps ==
  ASSUME OneAtATime, MailsKept, Acknowledge, work.type = "send"
  PROVE  MailsKept'
<1>. DEFINE updated == AddMail(box["account"], work.mail)
<1>1. ~Free /\ acks = <<>> /\ DoneOK(work)
  BY WorkWaits DEF Acknowledge, Free
<1>2. /\ work.box = "account" /\ work.mail \in MailIds /\ work \in Done
      /\ work.mail \in mails["account"] /\ work.mail \notin Mine
      /\ <<"account", work.mail>> \notin notices
  BY <1>1, DoneFacts DEF DoneOK, BoxOf
<1>3. Updated(box[work.box]) = updated
  BY <1>2 DEF Updated
<1>4. /\ box' = [box EXCEPT !["account"] = updated] /\ acks' = Append(acks, work) /\ work' = NoWork
      /\ UNCHANGED <<botVars, requests, mails, notices, lastId>>
  BY <1>2, <1>3 DEF Acknowledge
<1>5. BoxOK("user") /\ BoxOK("account")
  BY DEF MailsKept, BoxesOK, Boxes
<1>6. /\ Tidy(updated) /\ updated.ids = box["account"].ids \union {work.mail}
      /\ updated.cached = box["account"].cached
  BY <1>2, <1>5, AddTidy DEF BoxOK
<1>. HIDE DEF updated
<1>7. /\ \A c \in Boxes : c # "account" => box'[c] = box[c]
      /\ box'["account"] = updated
  BY <1>4 DEF MailsKept, TypeOK, Boxes
<1>8. Mine' = Mine
  BY <1>4 DEF Mine, botVars
<1>9. DoneOK(work) /\ UNCHANGED <<Mine, mails, notices>>
  BY <1>1, <1>4, <1>8
<1>10. PICK done : done = work /\ AckOK(done)'
  <2>1. \A done : done = work => AckOK(done)'
    BY <1>6, <1>7, <1>9 DEF AckOK, DoneOK
  <2>. QED  BY <2>1
<1>11. updated.ids \subseteq mails["account"]
  BY <1>2, <1>5, <1>6 DEF BoxOK, Going
<1>12. updated.cached => mails["account"] \subseteq updated.ids \union Pending("account")
  BY <1>2, <1>5, <1>6 DEF BoxOK, Coming, Loading
<1>13. \A c \in Boxes : c # "account" => BoxOK(c)'
  <2>1. Coming("user")' = Coming("user") /\ Going("user")' = Going("user")
    BY <1>2, <1>4 DEF Coming, Going, Pending, NoWork
  <2>2. ~Loading("user")
    BY <1>2 DEF Loading
  <2>. QED  BY <1>4, <1>5, <1>7, <2>1, <2>2 DEF BoxOK, Boxes
<1>14. KnownAreThere'
  <2>1. \A m \in Mine : m \in box["account"].ids
    BY <1>1 DEF MailsKept, KnownAreThere, Answering
  <2>. QED  BY <1>6, <1>7, <1>8, <2>1 DEF KnownAreThere
<1>15. done \in Done /\ acks' = Append(acks, done)
  BY <1>2, <1>4, <1>10
<1>. QED  BY <1>1, <1>2, <1>4, <1>6, <1>10, <1>11, <1>12, <1>13, <1>14, <1>15, AcknowledgeCommon DEF Boxes

LEMMA AcknowledgeReadKeeps ==
  ASSUME OneAtATime, MailsKept, Acknowledge, work.type = "read"
  PROVE  MailsKept'
<1>. DEFINE updated == FoldLeft(DeleteMail, box["account"], SetToSeq(work.mails))
<1>1. ~Free /\ acks = <<>> /\ DoneOK(work)
  BY WorkWaits DEF Acknowledge, Free
<1>2. /\ work.box = "account" /\ work.mails \in SUBSET MailIds /\ work \in Done
      /\ work.mails \subseteq Mine \ mails["account"]
  BY <1>1, DoneFacts DEF DoneOK, BoxOf
<1>3. Updated(box[work.box]) = updated
  BY <1>2 DEF Updated
<1>4. /\ box' = [box EXCEPT !["account"] = updated] /\ acks' = Append(acks, work) /\ work' = NoWork
      /\ UNCHANGED <<botVars, requests, mails, notices, lastId>>
  BY <1>2, <1>3 DEF Acknowledge
<1>5. BoxOK("user") /\ BoxOK("account")
  BY DEF MailsKept, BoxesOK, Boxes
<1>6. /\ Tidy(updated) /\ updated.ids = box["account"].ids \ work.mails
      /\ updated.cached = box["account"].cached
  BY <1>2, <1>5, DeleteAllTidy DEF BoxOK
<1>. HIDE DEF updated
<1>7. /\ \A c \in Boxes : c # "account" => box'[c] = box[c]
      /\ box'["account"] = updated
  BY <1>4 DEF MailsKept, TypeOK, Boxes
<1>8. Mine' = Mine
  BY <1>4 DEF Mine, botVars
<1>9. DoneOK(work) /\ UNCHANGED <<Mine, mails, notices>>
  BY <1>1, <1>4, <1>8
<1>10. PICK done : done = work /\ AckOK(done)'
  <2>1. \A done : done = work => AckOK(done)'
    BY <1>9 DEF AckOK, DoneOK
  <2>. QED  BY <2>1
<1>11. updated.ids \subseteq mails["account"]
  BY <1>2, <1>5, <1>6 DEF BoxOK, Going
<1>12. updated.cached => mails["account"] \subseteq updated.ids \union Pending("account")
  BY <1>2, <1>5, <1>6 DEF BoxOK, Coming, Loading
<1>13. \A c \in Boxes : c # "account" => BoxOK(c)'
  <2>1. Coming("user")' = Coming("user") /\ Going("user")' = Going("user")
    BY <1>2, <1>4 DEF Coming, Going, Pending, NoWork
  <2>2. ~Loading("user")
    BY <1>2 DEF Loading
  <2>. QED  BY <1>4, <1>5, <1>7, <2>1, <2>2 DEF BoxOK, Boxes
<1>14. KnownAreThere'
  <2>1. \A m \in Mine : m \in box["account"].ids
    BY <1>1 DEF MailsKept, KnownAreThere, Answering
  <2>2. acks' = <<work>>
    BY <1>1, <1>4
  <2>3. \A m \in work.mails : Answering(m)'
    BY <2>2 DEF Answering
  <2>. QED  BY <1>6, <1>7, <1>8, <2>1, <2>3 DEF KnownAreThere
<1>15. done \in Done /\ acks' = Append(acks, done)
  BY <1>2, <1>4, <1>10
<1>. QED  BY <1>1, <1>2, <1>4, <1>6, <1>10, <1>11, <1>12, <1>13, <1>14, <1>15, AcknowledgeCommon DEF Boxes

LEMMA AcknowledgeKeeps ==
  ASSUME OneAtATime, MailsKept, Acknowledge
  PROVE  MailsKept'
<1>1. work.type \in {"list", "send", "read"}
  BY DEF Acknowledge
<1>. QED  BY <1>1, AcknowledgeListKeeps, AcknowledgeSendKeeps, AcknowledgeReadKeeps

-----------------------------------------------------------------------------
(* What others do, with a request of the bot anywhere on its way.          *)

LEMMA OthersKeep ==
  ASSUME MailsKept, NEW b \in Boxes, OthersSend(b)
  PROVE  MailsKept'
<1>. DEFINE mail == lastId + 1
<1>1. /\ lastId < MaxMails /\ lastId' = mail
      /\ mails' = [mails EXCEPT ![b] = @ \union {mail}]
      /\ notices' = notices \union {<<b, mail>>}
      /\ UNCHANGED <<task, requested, known, rounds, requests, acks, box, work>>
  BY DEF OthersSend, botVars
<1>2. mails \in [Boxes -> SUBSET MailIds] /\ lastId \in 0..MaxMails
  BY DEF MailsKept, TypeOK
<1>3. /\ mail \in MailIds /\ mail \in 0..MaxMails /\ mail > lastId
      /\ \A m \in MailIds : m > mail => m > lastId /\ m # mail
  BY <1>1, <1>2, ScenarioMailAssumption DEF MailIds
<1>. HIDE DEF mail
<1>4. \* The new mail is nowhere yet.
      /\ mail \notin Mine
      /\ \A c \in Boxes : mail \notin mails[c] /\ mail \notin box[c].ids /\ <<c, mail>> \notin notices
  BY <1>3 DEF MailsKept, Fresh
<1>5. /\ mails' \in [Boxes -> SUBSET MailIds]
      /\ mails'[b] = mails[b] \union {mail}
      /\ \A c \in Boxes : c # b => mails'[c] = mails[c]
  BY <1>1, <1>2, <1>3
<1>6. /\ Pending(b)' = Pending(b) \union {mail}
      /\ \A c \in Boxes : c # b => Pending(c)' = Pending(c)
  BY <1>1, <1>3 DEF Pending
<1>7. TypeOK'
  BY <1>1, <1>3, <1>5 DEF MailsKept, TypeOK
<1>8. Mine' = Mine
  BY <1>1 DEF Mine
<1>9. BoxesOK'
  <2>1. \A c \in Boxes : Going(c)' = Going(c) /\ Loading(c)' = Loading(c)
    BY <1>1 DEF Going, Loading
  <2>2. Coming(b)' = Coming(b) \union {mail} /\ \A c \in Boxes : c # b => Coming(c)' = Coming(c)
    BY <1>1, <1>6 DEF Coming
  <2>3. ASSUME NEW c \in Boxes PROVE BoxOK(c)'
    <3>1. BoxOK(c)
      BY DEF MailsKept, BoxesOK
    <3>2. CASE c = b
      BY <1>1, <1>5, <2>1, <2>2, <3>1, <3>2 DEF BoxOK
    <3>3. CASE c # b
      BY <1>1, <1>5, <2>1, <2>2, <3>1, <3>3 DEF BoxOK
    <3>. QED  BY <3>2, <3>3
  <2>. QED  BY <2>3 DEF BoxesOK
<1>10. ASSUME NEW done, DoneOK(done) PROVE DoneOK(done)'
  BY <1>1, <1>4, <1>5, <1>8, <1>10 DEF DoneOK, Boxes
<1>11. InFlight'
  <2>1. (\A i \in DOMAIN requests : RequestOK(requests[i]))'
    BY <1>1, <1>8 DEF MailsKept, InFlight, RequestOK
  <2>2. WorkOK'
    <3>1. ASSUME ~Free PROVE DoneOK(work)'
      <4>1. PICK done : done = work
        OBVIOUS
      <4>2. DoneOK(done)'
        BY <1>10, <3>1, <4>1 DEF MailsKept, InFlight, WorkOK
      <4>. QED  BY <1>1, <4>1, <4>2
    <3>2. ASSUME work.type \in {"list", "load"} PROVE ListOK'
      <4>1. ListOK
        BY <3>2 DEF MailsKept, InFlight, WorkOK
      <4>2. CASE work.box = b
        BY <1>1, <1>5, <1>6, <4>1, <4>2 DEF ListOK
      <4>3. CASE work.box # b
        BY <1>1, <1>5, <1>6, <4>1, <4>3 DEF ListOK
      <4>. QED  BY <4>2, <4>3
    <3>. QED  BY <1>1, <3>1, <3>2 DEF WorkOK, Free
  <2>3. (\A i \in DOMAIN acks : AckOK(acks[i]))'
    <3>1. ASSUME NEW ack, AckOK(ack) PROVE AckOK(ack)'
      BY <1>1, <1>10, <3>1 DEF AckOK
    <3>. QED  BY <1>1, <3>1 DEF MailsKept, InFlight
  <2>. QED  BY <2>1, <2>2, <2>3 DEF InFlight
<1>12. Fresh'
  <2>1. ASSUME NEW m \in MailIds, m > lastId'
        PROVE  /\ m \notin Mine'
               /\ \A c \in Boxes : m \notin mails'[c] /\ m \notin box'[c].ids /\ <<c, m>> \notin notices'
    <3>1. m > lastId /\ m # mail
      BY <1>1, <1>3, <2>1
    <3>2. /\ m \notin Mine
          /\ \A c \in Boxes : m \notin mails[c] /\ m \notin box[c].ids /\ <<c, m>> \notin notices
      BY <3>1 DEF MailsKept, Fresh
    <3>. QED  BY <1>1, <1>5, <1>8, <3>1, <3>2
  <2>. QED  BY <2>1 DEF Fresh
<1>13. Unannounced'
  BY <1>4, <1>5, <1>6, <1>8 DEF MailsKept, Unannounced
<1>14. KnownAreThere'
  BY <1>1, <1>8 DEF MailsKept, KnownAreThere, Answering
<1>. QED  BY <1>7, <1>9, <1>11, <1>12, <1>13, <1>14 DEF MailsKept

LEMMA AnnounceKeeps ==
  ASSUME MailsKept, Announce
  PROVE  MailsKept'
<1>1. PICK n \in notices :
        /\ box' = [box EXCEPT ![n[1]] = AddMail(@, n[2])]
        /\ notices' = notices \ {n}
        /\ UNCHANGED <<botVars, requests, acks, work, mails, lastId>>
  BY DEF Announce
<1>2. PICK b \in Boxes, mail \in MailIds : n = <<b, mail>>
  BY DEF MailsKept, TypeOK
<1>3. /\ <<b, mail>> \in notices /\ notices' = notices \ {<<b, mail>>}
      /\ box' = [box EXCEPT ![b] = AddMail(@, mail)]
      /\ UNCHANGED <<task, requested, known, rounds, requests, acks, work, mails, lastId>>
  BY <1>1, <1>2 DEF botVars
<1>4. mail \in Pending(b) /\ mail \in mails[b]
  BY <1>3 DEF Pending, MailsKept, Unannounced
<1>5. BoxesOK /\ box \in [Boxes -> Box]
  BY DEF MailsKept, TypeOK, Box
<1>6. /\ Tidy(box'[b]) /\ box'[b].ids = box[b].ids \union {mail}
      /\ box'[b].cached = box[b].cached
  <2>1. box'[b] = AddMail(box[b], mail)
    BY <1>3, <1>5
  <2>. QED  BY <1>5, <2>1, AddTidy DEF BoxesOK, BoxOK
<1>7. \A c \in Boxes : c # b => box'[c] = box[c]
  BY <1>3, <1>5
<1>8. \A c \in Boxes : Pending(c)' \subseteq Pending(c) /\ (c # b => Pending(c)' = Pending(c))
  BY <1>3 DEF Pending
<1>9. Pending(b) \subseteq Pending(b)' \union {mail}
  BY <1>3 DEF Pending
<1>10. Mine' = Mine
  BY <1>3 DEF Mine
<1>11. TypeOK'
  <2>1. box' \in [Boxes -> Box]
    <3>1. AddMail(box[b], mail) \in Box
      BY <1>5, AddTidy DEF BoxesOK, BoxOK, Tidy
    <3>. QED  BY <1>3, <1>5, <3>1
  <2>. QED  BY <1>3, <2>1 DEF MailsKept, TypeOK, Box
<1>12. BoxesOK'
  <2>1. \A c \in Boxes : Going(c)' = Going(c) /\ Loading(c)' = Loading(c)
    BY <1>3 DEF Going, Loading
  <2>2. /\ Coming(b) \subseteq Coming(b)' \union {mail}
        /\ \A c \in Boxes : c # b => Coming(c)' = Coming(c)
    BY <1>3, <1>8, <1>9 DEF Coming
  <2>3. ASSUME NEW c \in Boxes PROVE BoxOK(c)'
    <3>1. BoxOK(c)
      BY <1>5 DEF BoxesOK
    <3>2. CASE c = b
      BY <1>3, <1>4, <1>6, <2>1, <2>2, <3>1, <3>2 DEF BoxOK
    <3>3. CASE c # b
      BY <1>3, <1>7, <2>1, <2>2, <3>1, <3>3 DEF BoxOK
    <3>. QED  BY <3>2, <3>3
  <2>. QED  BY <2>3 DEF BoxesOK
<1>13. ASSUME NEW done, DoneOK(done) PROVE DoneOK(done)'
  BY <1>3, <1>10, <1>13 DEF DoneOK
<1>14. \A c \in Boxes : box[c].ids \subseteq box'[c].ids
  BY <1>6, <1>7
<1>15. InFlight'
  <2>1. (\A i \in DOMAIN requests : RequestOK(requests[i]))'
    BY <1>3, <1>10 DEF MailsKept, InFlight, RequestOK
  <2>2. WorkOK'
    <3>1. ASSUME ~Free PROVE DoneOK(work)'
      <4>1. PICK done : done = work
        OBVIOUS
      <4>2. DoneOK(done)'
        BY <1>13, <3>1, <4>1 DEF MailsKept, InFlight, WorkOK
      <4>. QED  BY <1>3, <4>1, <4>2
    <3>2. ASSUME work.type \in {"list", "load"} PROVE ListOK'
      <4>1. ListOK
        BY <3>2 DEF MailsKept, InFlight, WorkOK
      <4>2. CASE work.box = b
        BY <1>3, <1>6, <1>9, <4>1, <4>2 DEF ListOK
      <4>3. CASE work.box # b
        BY <1>3, <1>7, <1>8, <4>1, <4>3 DEF ListOK
      <4>. QED  BY <4>2, <4>3
    <3>. QED  BY <1>3, <3>1, <3>2 DEF WorkOK, Free
  <2>3. (\A i \in DOMAIN acks : AckOK(acks[i]))'
    <3>1. ASSUME NEW ack, AckOK(ack) PROVE AckOK(ack)'
      BY <1>13, <1>14, <3>1 DEF AckOK, Boxes
    <3>. QED  BY <1>3, <3>1 DEF MailsKept, InFlight
  <2>. QED  BY <2>1, <2>2, <2>3 DEF InFlight
<1>16. Fresh'
  <2>1. ASSUME NEW m \in MailIds, m > lastId
        PROVE  \A c \in Boxes : m \notin box'[c].ids /\ <<c, m>> \notin notices'
    <3>1. \A c \in Boxes : m \notin box[c].ids /\ <<c, m>> \notin notices
      BY <2>1 DEF MailsKept, Fresh
    <3>2. m # mail
      BY <1>3, <3>1
    <3>. QED  BY <1>3, <1>6, <1>7, <3>1, <3>2
  <2>. QED  BY <1>3, <1>10, <2>1 DEF MailsKept, Fresh
<1>17. Unannounced'
  BY <1>3, <1>8, <1>10 DEF MailsKept, Unannounced
<1>18. KnownAreThere'
  <2>1. \A m : Answering(m)' <=> Answering(m)
    BY <1>3 DEF Answering
  <2>. QED  BY <1>10, <1>14, <2>1 DEF MailsKept, KnownAreThere, Boxes
<1>. QED  BY <1>11, <1>12, <1>15, <1>16, <1>17, <1>18 DEF MailsKept

-----------------------------------------------------------------------------
(* Lists the gateway loads for itself, and the flag that goes before a list. *)

\* A step of the gateway that leaves the mails and what is under way alone,
\* and only adds to a box what the database has.
LEMMA GatewayStep ==
  ASSUME MailsKept,
         UNCHANGED <<task, requested, known, rounds, requests, acks, mails, notices, lastId>>,
         box' \in [Boxes -> Box], work' \in Done \union Load \union {NoWork},
         BoxesOK', WorkOK',
         \A b \in Boxes : box[b].ids \subseteq box'[b].ids /\ box'[b].ids \subseteq
                            box[b].ids \union mails[b]
  PROVE  MailsKept'
<1>1. TypeOK'
  BY DEF MailsKept, TypeOK, Box
<1>2. Mine' = Mine
  BY DEF Mine
<1>3. InFlight'
  <2>1. (\A i \in DOMAIN requests : RequestOK(requests[i]))'
    BY <1>2 DEF MailsKept, InFlight, RequestOK
  <2>2. (\A i \in DOMAIN acks : AckOK(acks[i]))'
    <3>1. ASSUME NEW ack, AckOK(ack) PROVE AckOK(ack)'
      BY <1>2, <3>1 DEF AckOK, DoneOK, Boxes
    <3>. QED  BY <3>1 DEF MailsKept, InFlight
  <2>. QED  BY <2>1, <2>2 DEF InFlight
<1>4. Fresh'
  <2>1. ASSUME NEW m \in MailIds, m > lastId, NEW b \in Boxes
        PROVE  m \notin box'[b].ids
    BY <2>1 DEF MailsKept, Fresh
  <2>. QED  BY <1>2, <2>1 DEF MailsKept, Fresh
<1>5. Unannounced'
  BY <1>2 DEF MailsKept, Unannounced, Pending
<1>6. KnownAreThere'
  BY <1>2 DEF MailsKept, KnownAreThere, Answering, Boxes
<1>. QED  BY <1>1, <1>3, <1>4, <1>5, <1>6 DEF MailsKept

\* The gateway loads a list for itself.
LEMMA LoadBoxKeeps ==
  ASSUME MailsKept, NEW b \in Boxes, LoadBox(b)
  PROVE  MailsKept'
<1>. DEFINE list == SetToSeq(mails[b])
            load == [type |-> "load", box |-> b, list |-> list]
<1>1. /\ work.type = "none" /\ work' = load
      /\ UNCHANGED <<task, requested, known, rounds, requests, acks, box, mails, notices, lastId>>
  BY DEF LoadBox, NoWork, botVars
<1>2. list \in Seq(MailIds) /\ ToSet(list) = mails[b]
  <2>1. mails[b] \in SUBSET MailIds
    BY DEF MailsKept, TypeOK
  <2>2. list \in Seq(mails[b]) /\ ToSet(list) = mails[b]
    BY <2>1, MailsAreFinite, SetToSeqFacts
  <2>. HIDE DEF list
  <2>. QED  BY <2>1, <2>2
<1>. HIDE DEF list
<1>3. work'.type = "load" /\ work'.box = b /\ work'.list = list /\ work' \in Load
  BY <1>1, <1>2 DEF Load
<1>. HIDE DEF load
<1>4. WorkOK'
  BY <1>1, <1>2, <1>3 DEF WorkOK, ListOK, Free
<1>5. BoxesOK'
  BY <1>1, <1>3 DEF MailsKept, BoxesOK, BoxOK, Coming, Pending, Going, Loading
<1>6. box \in [Boxes -> Box]
  BY DEF MailsKept, TypeOK, Box
<1>. QED  BY <1>1, <1>3, <1>4, <1>5, <1>6, GatewayStep

\* mCached is set before the mails are added.
LEMMA StartCachingKeeps ==
  ASSUME MailsKept, StartCaching
  PROVE  MailsKept'
<1>1. PICK b \in Boxes :
        /\ Loading(b)
        /\ box' = [box EXCEPT ![b] = SetCached(@)]
        /\ UNCHANGED <<botVars, requests, acks, work, mails, notices, lastId>>
  BY DEF StartCaching
<1>2. UNCHANGED <<task, requested, known, rounds, requests, acks, work, mails, notices, lastId>>
  BY <1>1 DEF botVars
<1>3. box \in [Boxes -> Box] /\ work \in Done \union Load \union {NoWork}
  BY DEF MailsKept, TypeOK, Box
<1>4. /\ SetCached(box[b]) \in Box /\ SetCached(box[b]).ids = box[b].ids
      /\ SetCached(box[b]).list = box[b].list
  BY <1>3 DEF SetCached, Box
<1>5. /\ box' \in [Boxes -> Box]
      /\ \A c \in Boxes : box'[c].ids = box[c].ids /\ box'[c].list = box[c].list
      /\ \A c \in Boxes : c # b => box'[c] = box[c]
  BY <1>1, <1>3, <1>4
<1>6. BoxesOK'
  <2>1. ASSUME NEW c \in Boxes PROVE BoxOK(c)'
    <3>1. BoxOK(c)
      BY DEF MailsKept, BoxesOK
    <3>2. Tidy(box'[c])
      BY <1>5, <3>1 DEF BoxOK, Tidy
    <3>3. /\ Coming(c)' = Coming(c) /\ Going(c)' = Going(c) /\ Loading(c)' = Loading(c)
      BY <1>2 DEF Coming, Going, Pending, Loading
    <3>4. CASE c = b
      BY <1>1, <1>2, <1>5, <3>1, <3>2, <3>3, <3>4 DEF BoxOK
    <3>5. CASE c # b
      BY <1>2, <1>5, <3>1, <3>2, <3>3, <3>5 DEF BoxOK
    <3>. QED  BY <3>4, <3>5
  <2>. QED  BY <2>1 DEF BoxesOK
<1>7. WorkOK'
  <2>1. ListOK => ListOK'
    BY <1>2, <1>5 DEF ListOK, Pending
  <2>2. DoneOK(work) => DoneOK(work)'
    BY <1>2 DEF DoneOK, Mine
  <2>. QED  BY <1>2, <2>1, <2>2 DEF MailsKept, InFlight, WorkOK, Free
<1>. QED  BY <1>2, <1>3, <1>5, <1>6, <1>7, GatewayStep

\* The list the gateway has loaded is added.
LEMMA CacheLoadedKeeps ==
  ASSUME MailsKept, CacheLoaded
  PROVE  MailsKept'
<1>. DEFINE b == work.box
            updated == CacheMailList(box[b], work.list)
<1>1. /\ work.type = "load" /\ box' = [box EXCEPT ![b] = updated] /\ work' = NoWork
      /\ UNCHANGED <<task, requested, known, rounds, requests, acks, mails, notices, lastId>>
  BY DEF CacheLoaded, botVars
<1>2. ListOK
  BY <1>1 DEF MailsKept, InFlight, WorkOK
<1>3. b \in Boxes /\ work.list \in Seq(MailIds) /\ BoxOK(b)
  BY <1>2 DEF ListOK, MailsKept, BoxesOK
<1>4. Tidy(updated) /\ updated.ids = box[b].ids \union ToSet(work.list)
  BY <1>3, CacheTidy DEF BoxOK
<1>. HIDE DEF updated
<1>5. box \in [Boxes -> Box] /\ updated \in Box
  BY <1>4 DEF MailsKept, TypeOK, Tidy, Box
<1>6. /\ box' \in [Boxes -> Box] /\ box'[b] = updated
      /\ \A c \in Boxes : c # b => box'[c] = box[c]
  BY <1>1, <1>3, <1>5
<1>7. /\ updated.ids \subseteq mails[b]
      /\ mails[b] \subseteq updated.ids \union Pending(b)
  BY <1>1, <1>2, <1>3, <1>4 DEF ListOK, BoxOK, Going
<1>8. BoxesOK'
  <2>1. \A c \in Boxes : /\ Coming(c)' = Pending(c) /\ Going(c)' = {}
                         /\ Coming(c) = Pending(c) /\ Going(c) = {}
    BY <1>1 DEF Coming, Going, Pending, NoWork
  <2>2. ASSUME NEW c \in Boxes PROVE BoxOK(c)'
    <3>1. CASE c = b
      BY <1>1, <1>4, <1>6, <1>7, <2>1, <3>1 DEF BoxOK
    <3>2. CASE c # b
      <4>1. BoxOK(c) /\ ~Loading(c)
        BY <3>2 DEF MailsKept, BoxesOK, Loading
      <4>. QED  BY <1>1, <1>6, <2>1, <3>2, <4>1 DEF BoxOK
    <3>. QED  BY <3>1, <3>2
  <2>. QED  BY <2>2 DEF BoxesOK
<1>9. WorkOK'
  <2>1. work'.type = "none"
    BY <1>1 DEF NoWork
  <2>. QED  BY <2>1 DEF WorkOK, Free
<1>10. \A c \in Boxes : box[c].ids \subseteq box'[c].ids
                        /\ box'[c].ids \subseteq box[c].ids \union mails[c]
  BY <1>4, <1>6, <1>7
<1>. QED  BY <1>1, <1>6, <1>8, <1>9, <1>10, GatewayStep

-----------------------------------------------------------------------------
(* The theorems.                                                           *)

LEMMA InitKept == Init => MailsKept
<1>. SUFFICES ASSUME Init
              PROVE  MailsKept
  OBVIOUS
<1>1. TypeOK
  <2>1. /\ box \in [Boxes -> [ids : SUBSET MailIds, list : Seq(MailIds), cached : BOOLEAN]]
        /\ known \in [Boxes -> Seq(MailIds)]
    BY DEF Init, EmptyBox
  <2>2. requests \in Seq(Request) /\ acks \in Seq(Done \union Refusal)
    BY DEF Init
  <2>3. task \in Tasks /\ requested \in BOOLEAN
    BY DEF Init, Tasks
  <2>4. rounds \in 1..MaxRounds /\ lastId \in 0..MaxMails
    <3>1. 1 \in 1..MaxRounds /\ 0 \in 0..MaxMails
      BY ScenarioMailAssumption
    <3>. QED  BY <3>1 DEF Init
  <2>5. /\ work \in Done \union Load \union {NoWork}
        /\ mails \in [Boxes -> SUBSET MailIds] /\ notices \subseteq Boxes \X MailIds
    BY DEF Init
  <2>. QED  BY <2>1, <2>2, <2>3, <2>4, <2>5 DEF TypeOK
<1>2. Mine = {}
  BY DEF Init, Mine, ToSet, Boxes
<1>3. BoxesOK
  <2>1. Tidy(EmptyBox)
    BY DEF Tidy, Box, EmptyBox, ToSet, IsInjective
  <2>. QED  BY <2>1 DEF Init, BoxesOK, BoxOK, EmptyBox
<1>4. InFlight
  BY DEF Init, InFlight, WorkOK, Free, NoWork
<1>5. Fresh
  BY <1>2 DEF Init, Fresh, EmptyBox
<1>6. Unannounced
  BY DEF Init, Unannounced, Pending
<1>7. KnownAreThere
  BY <1>2 DEF KnownAreThere
<1>. QED  BY <1>1, <1>3, <1>4, <1>5, <1>6, <1>7 DEF MailsKept

LEMMA NextKeeps == OneAtATime /\ MailsKept /\ [Next]_vars => MailsKept'
<1>. SUFFICES ASSUME OneAtATime, MailsKept, [Next]_vars
              PROVE  MailsKept'
  OBVIOUS
<1>1. CASE TaskCheatMailList \/ TaskReqMailSend \/ TaskReqMailRead
  BY <1>1, TasksKeep
<1>2. CASE AckMailList
  BY <1>2, AckListKeeps
<1>3. CASE AckMailSend
  BY <1>3, AckSendKeeps
<1>4. CASE AckMailRead
  BY <1>4, AckReadKeeps
<1>5. CASE AckFailure
  BY <1>5, AckFailureKeeps
<1>6. CASE TaskCompleteScenario
  BY <1>6, CompleteKeeps
<1>7. CASE LoadMails
  BY <1>7, LoadKeeps
<1>8. CASE StoreMail
  BY <1>8, StoreKeeps
<1>9. CASE ReadMails
  BY <1>9, ReadKeeps
<1>10. CASE Refuse
  BY <1>10, RefuseKeeps
<1>11. CASE Acknowledge
  BY <1>11, AcknowledgeKeeps
<1>12. CASE \E b \in Boxes : OthersSend(b)
  BY <1>12, OthersKeep
<1>13. CASE Announce
  BY <1>13, AnnounceKeeps
<1>14. CASE \E b \in Boxes : LoadBox(b)
  BY <1>14, LoadBoxKeeps
<1>15. CASE StartCaching
  BY <1>15, StartCachingKeeps
<1>16. CASE CacheLoaded
  BY <1>16, CacheLoadedKeeps
<1>17. CASE UNCHANGED vars
  <2>1. UNCHANGED <<task, requested, known, rounds, requests, acks,
                    box, work, mails, notices, lastId>>
    BY <1>17 DEF vars, botVars, gatewayVars
  <2>. QED  BY <2>1 DEF MailsKept, TypeOK, BoxesOK, BoxOK, Coming, Going, Pending, InFlight,
                        RequestOK, WorkOK, AckOK, DoneOK, Fresh, Unannounced, KnownAreThere,
                        Answering, Mine, Loading, ListOK, Free
<1>. QED  BY <1>1, <1>2, <1>3, <1>4, <1>5, <1>6, <1>7, <1>8, <1>9, <1>10, <1>11, <1>12, <1>13,
             <1>14, <1>15, <1>16, <1>17 DEF Next, Bot, Gateway

\* The mails are where the invariant says, whatever the interleaving.
THEOREM MailsInvariance == Spec => []MailsKept
BY InitKept, NextKeeps, Invariance, PTL DEF Spec

\* Every task the bot comes to has a handler, and everything on its way is a
\* request, a result or a refusal of the bot's: the type invariant.
THEOREM TypeCorrect == Spec => []TypeOK
<1>1. MailsKept => TypeOK
  BY DEF MailsKept
<1>. QED  BY <1>1, MailsInvariance, PTL

\* MailBox: the set of ids is the set of the mails in the list, and no mail is
\* in the list twice, on whichever of its ways it comes into the box.
THEOREM MailsOnce == Spec => []EachMailIsInItsBoxOnce
<1>1. MailsKept => EachMailIsInItsBoxOnce
  BY TidyCount DEF MailsKept, BoxesOK, BoxOK, Tidy, EachMailIsInItsBoxOnce
<1>. QED  BY <1>1, MailsInvariance, PTL

\* MailBox: a cached box has the mails of the database, and none that went,
\* but for what is on its way to it or out of it; and so has one whose list is
\* being added, together with that list.
THEOREM CacheComplete == Spec => []CachedBoxIsComplete
<1>1. MailsKept => CachedBoxIsComplete
  <2>. DEFINE Notices(b) == {n[2] : n \in {x \in notices : x[1] = b}}
              Listed(b) == IF Loading(b) THEN ToSet(work.list) ELSE {}
  <2>. SUFFICES ASSUME MailsKept, NEW b \in Boxes, box[b].cached
                PROVE  /\ mails[b] \subseteq box[b].ids \union
                             (Notices(b) \union (IF work.type = "send" /\ work.box = b
                                                 THEN {work.mail} ELSE {}))
                             \union Listed(b)
                       /\ box[b].ids \union Listed(b) \subseteq mails[b] \union
                             (IF work.type = "read" /\ work.box = b THEN work.mails ELSE {})
    BY DEF CachedBoxIsComplete
  <2>1. BoxOK(b)
    BY DEF MailsKept, BoxesOK
  <2>2. Pending(b) \subseteq Notices(b)
    <3>. SUFFICES ASSUME NEW m \in Pending(b) PROVE m \in Notices(b)
      OBVIOUS
    <3>1. <<b, m>> \in {x \in notices : x[1] = b}
      BY DEF Pending
    <3>. QED  BY <3>1
  <2>. HIDE DEF Notices
  <2>3. CASE Loading(b)
    <3>1. ListOK /\ work.box = b
      BY <2>3 DEF MailsKept, InFlight, WorkOK, Loading
    <3>. QED  BY <2>1, <2>2, <2>3, <3>1 DEF BoxOK, ListOK, Going
  <2>4. CASE ~Loading(b)
    BY <2>1, <2>2, <2>4 DEF BoxOK, Coming, Going
  <2>. QED  BY <2>3, <2>4
<1>. QED  BY <1>1, MailsInvariance, PTL

\* The assertion of MailBox::DeleteMail: a mail the bot asks for, or that is
\* being read for it, is in the box.
THEOREM ReadsFind == Spec => []ReadsFindTheirMail
<1>1. OneAtATime /\ MailsKept => ReadsFindTheirMail
  <2>. SUFFICES ASSUME OneAtATime, MailsKept
                PROVE  ReadsFindTheirMail
    OBVIOUS
  <2>1. ASSUME acks = <<>> PROVE Mine \subseteq box["account"].ids
    BY <2>1 DEF MailsKept, KnownAreThere, Answering
  <2>2. ASSUME NEW i \in DOMAIN requests, requests[i].type = "read"
        PROVE  requests[i].mails \subseteq box[requests[i].box].ids
    <3>1. requests # <<>>
      OBVIOUS
    <3>2. RequestOK(requests[i])
      BY DEF MailsKept, InFlight
    <3>. QED  BY <2>1, <2>2, <3>1, <3>2, RequestWaits DEF RequestOK, BoxOf
  <2>3. ASSUME work.type = "read" PROVE work.mails \subseteq box[work.box].ids
    <3>1. ~Free
      BY <2>3 DEF Free
    <3>. QED  BY <2>1, <2>3, <3>1, WorkWaits DEF DoneOK, BoxOf
  <2>. QED  BY <2>2, <2>3 DEF ReadsFindTheirMail
<1>. QED  BY <1>1, Invariance, MailsInvariance, PTL
=============================================================================
