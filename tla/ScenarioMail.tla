---------------------------- MODULE ScenarioMail ----------------------------
(***************************************************************************)
(* The mail scenario of a stress bot, C++/Senario/ScenarioMail.cpp, with   *)
(* the gateway's mail boxes it talks to (MailBox).  The bot goes through   *)
(* its tasks: list the user's box, send itself a mail, read the mails it   *)
(* knows of; each sends a request, and its acknowledgement, or a refusal,  *)
(* completes the task.                                                     *)
(*                                                                         *)
(* The gateway's request handlers, the database and the library that runs  *)
(* the tasks are not in the repository.  The model takes requests of a bot *)
(* to be served in order, each with a database step before its effect on   *)
(* the box; mails of others are stored and announced to the gateway        *)
(* meanwhile.  The gateway may load either box for itself, as at a login,  *)
(* when no request is being served.  The scenario runs several times on    *)
(* the same lists.                                                         *)
(***************************************************************************)
EXTENDS MailBox, Naturals, Sequences, FiniteSets

CONSTANTS
  MaxMails,      \* bound: mails the database can store, with ids in order
  MaxReadCount,  \* MAX_MAIL_READ_COUNT
  MaxRounds      \* bound: how often the bot runs the scenario

ASSUME ScenarioMailAssumption ==
  MaxMails \in Nat /\ MaxReadCount \in Nat \ {0} /\ MaxRounds \in Nat \ {0}

VARIABLES
  task,       \* the current task of mTaskHelper
  requested,  \* TaskState::REQUESTED: its request was sent
  known,      \* mMailBoxLists: the mails the bot knows of, for every box
  rounds,     \* how often the scenario was started
  requests,   \* requests on their way to the gateway
  acks,       \* acknowledgements on their way to the bot
  box,        \* the gateway's mail boxes
  work,       \* what the database has done for the request being served, or
              \*   the list the gateway has loaded for itself
  mails,      \* mails in the database, for every box
  notices,    \* mails of others the gateway has not heard of yet
  lastId      \* the id of the last mail stored

botVars == <<task, requested, known, rounds>>
gatewayVars == <<box, work, mails, notices, lastId>>
vars == <<botVars, requests, acks, gatewayVars>>

Boxes == {"account", "user"}
MailIds == 1..MaxMails
Tasks == {"CHEAT_MAIL_LIST", "REQ_MAIL_SEND", "REQ_MAIL_READ", "COMPLETE_SCENARIO"}

Request ==
  [type : {"list", "send"}, box : Boxes]
    \union [type : {"read"}, box : Boxes, mails : SUBSET MailIds]
Done ==
  [type : {"list"}, box : Boxes, list : Seq(MailIds)]
    \union [type : {"send"}, box : Boxes, mail : MailIds]
    \union [type : {"read"}, box : Boxes, mails : SUBSET MailIds]
Load == [type : {"load"}, box : Boxes, list : Seq(MailIds)]
Refusal == [type : {"refused"}, of : {"list", "send", "read"}]
NoWork == [type |-> "none"]

\* Every task the bot comes to has a handler: what ProcessTask asserts.
TypeOK ==
  /\ task \in Tasks
  /\ requested \in BOOLEAN
  /\ known \in [Boxes -> Seq(MailIds)]
  /\ rounds \in 1..MaxRounds
  /\ requests \in Seq(Request)
  /\ acks \in Seq(Done \union Refusal)
  /\ box \in [Boxes -> [ids : SUBSET MailIds, list : Seq(MailIds), cached : BOOLEAN]]
  /\ work \in Done \union Load \union {NoWork}
  /\ mails \in [Boxes -> SUBSET MailIds]
  /\ notices \subseteq Boxes \X MailIds
  /\ lastId \in 0..MaxMails

Init ==
  /\ task = "CHEAT_MAIL_LIST" /\ requested = FALSE
  /\ known = [b \in Boxes |-> <<>>]
  /\ rounds = 1
  /\ requests = <<>> /\ acks = <<>>
  /\ box = [b \in Boxes |-> EmptyBox]
  /\ work = NoWork
  /\ mails = [b \in Boxes |-> {}]
  /\ notices = {}
  /\ lastId = 0

-----------------------------------------------------------------------------
(* The bot's tasks.  ProcessTask runs the handler of the current one.      *)

ProcessTask(current, sent) ==
  /\ task = current /\ ~requested
  /\ requested' = TRUE
  /\ requests' = requests \o sent
  /\ UNCHANGED <<task, known, rounds, acks, gatewayVars>>

\* The command is "refreshMail 1": the user's box.
TaskCheatMailList ==
  ProcessTask("CHEAT_MAIL_LIST", <<[type |-> "list", box |-> "user"]>>)

\* Mutant: one mail to each box.
SendToBothBoxes ==
  ProcessTask("REQ_MAIL_SEND",
    <<[type |-> "send", box |-> "account"], [type |-> "send", box |-> "user"]>>)

TaskReqMailSend ==
  ProcessTask("REQ_MAIL_SEND", <<[type |-> "send", box |-> "account"]>>)

\* The first mails of the account's list.
TaskReqMailRead ==
  LET n == IF Len(known["account"]) < MaxReadCount THEN Len(known["account"])
                                                   ELSE MaxReadCount
  IN  ProcessTask("REQ_MAIL_READ",
        <<[type |-> "read", box |-> "account", mails |-> {known["account"][i] : i \in 1..n}]>>)

\* The bot runs the scenario again, or is done.
TaskCompleteScenario ==
  /\ task = "COMPLETE_SCENARIO"
  /\ rounds < MaxRounds
  /\ rounds' = rounds + 1
  /\ task' = "CHEAT_MAIL_LIST"
  /\ UNCHANGED <<requested, known, requests, acks, gatewayVars>>

-----------------------------------------------------------------------------
(* Acknowledgements.                                                       *)

\* Mutant: the last task has no handler.
NextOfUnregistered(t) ==
  CASE t = "CHEAT_MAIL_LIST" -> "REQ_MAIL_SEND"
    [] t = "REQ_MAIL_SEND" -> "REQ_MAIL_READ"
    [] OTHER -> "REQ_MAIL_LIST_ACCOUNT"

\* The tasks in the order in which Init registers them.
NextTask(t) ==
  CASE t = "CHEAT_MAIL_LIST" -> "REQ_MAIL_SEND"
    [] t = "REQ_MAIL_SEND" -> "REQ_MAIL_READ"
    [] OTHER -> "COMPLETE_SCENARIO"

CompleteTask ==
  /\ task' = NextTask(task)
  /\ requested' = FALSE

Acknowledged(type) ==
  /\ acks # <<>>
  /\ Head(acks).type = type
  /\ acks' = Tail(acks)
  /\ UNCHANGED <<rounds, requests, gatewayVars>>

\* Mutant: every mail goes to the account's list.
AckListToAccount ==
  /\ Acknowledged("list")
  /\ known' = [known EXCEPT !["account"] = @ \o Head(acks).list]
  /\ CompleteTask

\* Asks nothing of the current task, unlike the other two.
AckMailList ==
  /\ Acknowledged("list")
  /\ known' = [known EXCEPT ![Head(acks).box] = @ \o Head(acks).list]
  /\ CompleteTask

AckMailSend ==
  /\ Acknowledged("send")
  /\ known' = [known EXCEPT ![Head(acks).box] = Append(@, Head(acks).mail)]
  /\ CompleteTask

AckMailRead ==
  /\ Acknowledged("read")
  /\ known' = [known EXCEPT ![Head(acks).box] = Without(@, Head(acks).mails)]
  /\ CompleteTask

\* Mutant: a refusal ends the handler before the task is completed.
RefusalIsForgotten ==
  /\ Acknowledged("refused")
  /\ UNCHANGED <<task, requested, known>>

\* All three handlers complete the task when the result is not a success.
AckFailure ==
  /\ Acknowledged("refused")
  /\ CompleteTask
  /\ UNCHANGED known

-----------------------------------------------------------------------------
(* The gateway and the database.                                           *)

Refuse ==
  /\ requests # <<>> /\ work = NoWork
  /\ acks' = Append(acks, [type |-> "refused", of |-> Head(requests).type])
  /\ requests' = Tail(requests)
  /\ UNCHANGED <<botVars, gatewayVars>>

Serve(type, done) ==
  /\ requests # <<>> /\ work = NoWork
  /\ Head(requests).type = type
  /\ work' = done
  /\ requests' = Tail(requests)
  /\ UNCHANGED <<botVars, acks, box, notices>>

LoadMails ==
  LET b == Head(requests).box
  IN  /\ Serve("list", [type |-> "list", box |-> b, list |-> SetToSeq(mails[b])])
      /\ UNCHANGED <<mails, lastId>>

StoreMail ==
  LET b == Head(requests).box
  IN  /\ lastId < MaxMails
      /\ Serve("send", [type |-> "send", box |-> b, mail |-> lastId + 1])
      /\ mails' = [mails EXCEPT ![b] = @ \union {lastId + 1}]
      /\ lastId' = lastId + 1

\* The gateway loads a box that is not cached.
LoadBox(b) ==
  /\ work = NoWork /\ ~box[b].cached
  /\ work' = [type |-> "load", box |-> b, list |-> SetToSeq(mails[b])]
  /\ UNCHANGED <<botVars, requests, acks, box, mails, notices, lastId>>

\* There may be room for the items of some of the mails only.
ReadMails ==
  \E read \in SUBSET MailIds :
    LET b == Head(requests).box
    IN  /\ Serve("read", [type |-> "read", box |-> b, mails |-> read])
        /\ read \subseteq Head(requests).mails \intersect mails[b]
        /\ mails' = [mails EXCEPT ![b] = @ \ read]
        /\ UNCHANGED lastId

\* The box after the database has done its work.
Updated(b) ==
  CASE work.type = "list" -> CacheMailList(b, work.list)
    [] work.type = "send" -> AddMail(b, work.mail)
    [] work.type = "read" -> FoldLeft(DeleteMail, b, SetToSeq(work.mails))

\* A list for b has been loaded, and is being added to it.
Loading(b) == work.type \in {"list", "load"} /\ work.box = b

\* CacheMailList sets mCached; where it was set, this changes nothing.
StartCaching ==
  \E b \in Boxes :
    /\ Loading(b) /\ ~box[b].cached
    /\ box' = [box EXCEPT ![b] = SetCached(@)]
    /\ UNCHANGED <<botVars, requests, acks, work, mails, notices, lastId>>

\* The list the gateway has loaded for itself.
CacheLoaded ==
  /\ work.type = "load" /\ box[work.box].cached
  /\ box' = [box EXCEPT ![work.box] = CacheMailList(@, work.list)]
  /\ work' = NoWork
  /\ UNCHANGED <<botVars, requests, acks, mails, notices, lastId>>

\* A list is acknowledged with the mails the box has then.
Acknowledge ==
  /\ work.type \in {"list", "send", "read"}
  /\ work.type = "list" => box[work.box].cached
  /\ LET updated == Updated(box[work.box])
     IN  /\ box' = [box EXCEPT ![work.box] = updated]
         /\ acks' = Append(acks, IF work.type = "list"
                                 THEN [work EXCEPT !.list = updated.list] ELSE work)
  /\ work' = NoWork
  /\ UNCHANGED <<botVars, requests, mails, notices, lastId>>

\* Others send mails too.
OthersSend(b) ==
  /\ lastId < MaxMails
  /\ lastId' = lastId + 1
  /\ mails' = [mails EXCEPT ![b] = @ \union {lastId + 1}]
  /\ notices' = notices \union {<<b, lastId + 1>>}
  /\ UNCHANGED <<botVars, requests, acks, box, work>>

Announce ==
  \E n \in notices :
    /\ box' = [box EXCEPT ![n[1]] = AddMail(@, n[2])]
    /\ notices' = notices \ {n}
    /\ UNCHANGED <<botVars, requests, acks, work, mails, lastId>>

-----------------------------------------------------------------------------
Bot ==
  \/ TaskCheatMailList
  \/ TaskReqMailSend
  \/ TaskReqMailRead
  \/ AckMailList
  \/ AckMailSend
  \/ AckMailRead
  \/ AckFailure

Gateway ==
  \/ LoadMails
  \/ StoreMail
  \/ ReadMails
  \/ Refuse
  \/ StartCaching
  \/ CacheLoaded
  \/ Acknowledge

Next ==
  \/ Bot
  \/ TaskCompleteScenario
  \/ Gateway
  \/ \E b \in Boxes : LoadBox(b)
  \/ \E b \in Boxes : OthersSend(b)
  \/ Announce

\* The bot handles what it can, and the gateway finishes what it has loaded and
\* answers every request.
Spec == Init /\ [][Next]_vars /\ WF_vars(Bot) /\ WF_vars(Gateway)

-----------------------------------------------------------------------------
(* Properties.                                                             *)

\* MailBox: the set of ids stays the set of the mails in the list, and no mail
\* is in the list twice, though a mail may be announced, or sent, while the
\* list that has it is being loaded.
EachMailIsInItsBoxOnce ==
  \A b \in Boxes :
    /\ ToSet(box[b].list) = box[b].ids
    /\ Len(box[b].list) = Cardinality(box[b].ids)

\* MailBox: a box that counts as cached (mCached) has the mails of the
\* database, and none that went, but for what is on its way to it: mails of
\* others that were not announced yet, and the effect of the request being
\* served.  Only between the store of mCached and the end of the list that is
\* then added may it lack some of that list.
CachedBoxIsComplete ==
  \A b \in Boxes :
    LET coming == {n[2] : n \in {x \in notices : x[1] = b}}
                    \union (IF work.type = "send" /\ work.box = b THEN {work.mail} ELSE {})
        going == IF work.type = "read" /\ work.box = b THEN work.mails ELSE {}
        list == IF Loading(b) THEN ToSet(work.list) ELSE {}
    IN  box[b].cached => /\ mails[b] \subseteq box[b].ids \union coming \union list
                         /\ box[b].ids \union list \subseteq mails[b] \union going

\* The assertion in MailBox::DeleteMail: whatever was read or refused before,
\* and whatever the bot still has in its list, a mail it asks for, or that is
\* being read for it, is in the gateway's box.
ReadsFindTheirMail ==
  /\ \A i \in DOMAIN requests :
       requests[i].type = "read" => requests[i].mails \subseteq box[requests[i].box].ids
  /\ work.type = "read" => work.mails \subseteq box[work.box].ids

TypeOfTask(t) ==
  CASE t = "CHEAT_MAIL_LIST" -> "list"
    [] t = "REQ_MAIL_SEND" -> "send"
    [] t = "REQ_MAIL_READ" -> "read"
    [] OTHER -> "none"

\* The CheckState assertions of the acknowledgements for sending and reading,
\* and what the one for lists, which checks nothing, relies on: an
\* acknowledgement finds the task that asked for it current and waiting.
AcksMeetTheirTask ==
  acks # <<>> =>
    /\ requested
    /\ TypeOfTask(task) = IF Head(acks).type = "refused" THEN Head(acks).of
                                                         ELSE Head(acks).type

\* Whatever is refused, the bot comes to the end of a scenario it has started.
ScenarioEnds == task = "CHEAT_MAIL_LIST" ~> task = "COMPLETE_SCENARIO"
=============================================================================
