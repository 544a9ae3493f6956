------------------------------ MODULE MailBox ------------------------------
(***************************************************************************)
(* The gateway's cache of a mail box, C++/MailBox.cpp.  A box keeps the    *)
(* ids of its mails (mMailDBIdSet) beside the mails (mMailDataList).       *)
(*                                                                         *)
(* A mail reaches the box on two ways, one by one and with the list loaded *)
(* from the database, in either order.                                     *)
(***************************************************************************)
EXTENDS SequencesExt

EmptyBox == [ids |-> {}, list |-> <<>>, cached |-> FALSE]

\* Mutant: a mail that is known is added to the list again.
AddMailTwice(box, mail) ==
  [box EXCEPT !.ids = @ \union {mail}, !.list = Append(@, mail)]

AddMail(box, mail) ==
  IF mail \in box.ids
  THEN box
  ELSE [box EXCEPT !.ids = @ \union {mail}, !.list = Append(@, mail)]

\* std::EraseIf: the list without the mails of S.
Without(list, S) ==
  LET kept[n \in 0..Len(list)] ==
        IF n = 0 THEN <<>>
        ELSE IF list[n] \in S THEN kept[n - 1] ELSE Append(kept[n - 1], list[n])
  IN  kept[Len(list)]

\* The code asserts that the box has the mail.
DeleteMail(box, mail) ==
  [box EXCEPT !.ids = @ \ {mail}, !.list = Without(@, {mail})]

\* CacheMailList begins with mCached.store(true), which others may read ...
SetCached(box) == [box EXCEPT !.cached = TRUE]

\* Mutant: the loaded list takes the place of the mails the box has.
CacheOnlyLoaded(box, mails) ==
  [box EXCEPT !.ids = ToSet(mails), !.list = mails]

\* ... and then adds the mails.
CacheMailList(box, mails) == FoldLeft(AddMail, box, mails)
=============================================================================
