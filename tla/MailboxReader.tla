----------------------------- MODULE MailboxReader -----------------------------
(***************************************************************************)
(* The mailbox reader (toolbox/app_imaps.go): a command lists mails or     *)
(* reads one over a connection of its own, which it opens, logs in on,     *)
(* and closes whatever happens.  Every conversation may fail.  Mail keeps  *)
(* arriving, and the server mentions it in the midst of other answers.     *)
(***************************************************************************)
EXTENDS Integers, SequencesExt

CONSTANTS
  Skips, Counts,    \* the numbers that a command may ask for
  Limit,            \* most headers of a list: 200 in the code
  Unparsed,         \* mails whose header ReadMailMessage cannot parse
  MaxMails          \* bound of the model: mails in the mailbox

(* The numbers are read from digits.                                       *)
ASSUME MailboxAssumption ==
  Skips \subseteq Nat /\ Counts \subseteq Nat /\ Limit \in Nat \ {0} /\ MaxMails \in Nat

VARIABLES
  mails,            \* number of mails in the mailbox
  ask,              \* the command
  imap,             \* the conversation that comes next, and tlsConn
  seen,             \* what EXAMINE answered
  list,             \* the result: numbers and headers, or an error
  absent            \* history: mails that were asked for and are not in the server's answer

imVars == <<mails, ask, imap, seen, list, absent>>

Error(why) == <<[num |-> 0, header |-> why]>>

IMInit ==
  /\ mails \in 0 .. MaxMails
  /\ ask \in [do : {"list", "read"}, skip : Skips, count : Counts]
  /\ imap = [next |-> "connect", open |-> FALSE]
  /\ seen = 0 /\ list = <<>> /\ absent = {}

MailIsDelivered ==
  /\ mails < MaxMails /\ imap.next # "done" /\ mails' = mails + 1
  /\ UNCHANGED <<ask, imap, seen, list, absent>>

(* ConnectLoginSelect: the connection is closed when the greeting, LOGIN   *)
(* or SELECT fails; after SELECT by way of LOGOUT.                         *)
Connect ==
  /\ imap.next = "connect"
  /\ \/ imap' = [next |-> "login", open |-> TRUE] /\ UNCHANGED list
     \/ imap' = [next |-> "done", open |-> FALSE] /\ list' = Error("network")
  /\ UNCHANGED <<mails, ask, seen, absent>>
LoginSelect ==
  /\ imap.next = "login"
  /\ \/ imap' = [imap EXCEPT !.next = IF ask.do = "list" THEN "examine" ELSE "read"] /\ UNCHANGED list
     \/ imap' = [next |-> "done", open |-> FALSE] /\ list' = Error("network")
     \/ imap' = [imap EXCEPT !.next = "logout"] /\ list' = Error("network")
  /\ UNCHANGED <<mails, ask, seen, absent>>

(* Converse: a bad status leaves the connection as it is, an error of the  *)
(* network closes it.  Both end the command, by way of LogoutDisconnect.   *)
ConverseFails ==
  /\ imap.next \in {"examine", "fetch", "read"}
  /\ imap' \in {[next |-> "logout", open |-> o] : o \in BOOLEAN}
  /\ list' = Error("network")
  /\ UNCHANGED <<mails, ask, seen, absent>>
LogoutDisconnect ==
  /\ imap.next = "logout" /\ imap' = [next |-> "done", open |-> FALSE]
  /\ UNCHANGED <<mails, ask, seen, list, absent>>

(* GetNumberMessages, and the end of a list that skips them all.           *)
GetNumberMessages ==
  /\ imap.next = "examine" /\ seen' = mails
  /\ IF ask.skip >= mails
     THEN imap' = [imap EXCEPT !.next = "logout"] /\ list' = Error("skip")
     ELSE imap' = [imap EXCEPT !.next = "fetch"] /\ UNCHANGED list
  /\ UNCHANGED <<mails, ask, absent>>

(* The numbers that ListMails asks for, the latest first.                  *)
AskedCount == Max({1, Min({ask.count, Limit})})
Window ==
  LET count == Min({AskedCount, seen - ask.skip})
  IN  [from |-> seen - count - ask.skip + 1, to |-> seen - ask.skip]

(* A server's answer to FETCH: for the mails of the range, but for those   *)
(* it leaves out (deleted meanwhile, say), in any order, the number, the   *)
(* header and the end of it; and perhaps, before one of them or at the     *)
(* end, the number of mails.                                               *)
Line(k, n) == [kind |-> k, num |-> n]
OneMail == <<"star", "header", "close">>
AllMails(nums) ==
  [n \in 1 .. 3 * Len(nums) |-> Line(OneMail[((n - 1) % 3) + 1], nums[((n - 1) \div 3) + 1])]
Answers(from, to) == {nums \in SeqOf(from .. to, to - from + 1) : IsInjective(nums)}
Responses(nums) ==
  {AllMails(nums)} \union
    {InsertAt(AllMails(nums), 3 * k + 1, Line("star", mails)) : k \in 0 .. Len(nums)}

(* GetHeaders walks over the lines: a star stores what there is and begins *)
(* with a new number, a bracket stores without beginning anew.             *)
Store(acc) ==
  IF acc.text = <<>> THEN acc.ret
  ELSE [n \in DOMAIN acc.ret \union {acc.num} |-> IF n = acc.num THEN acc.text ELSE acc.ret[n]]
WalkWithoutReset(acc, line) ==
  CASE line.kind = "star" -> [ret |-> Store(acc), num |-> line.num, text |-> acc.text]
    [] line.kind = "close" -> [ret |-> Store(acc), num |-> acc.num, text |-> acc.text]
    [] line.kind = "header" -> [ret |-> acc.ret, num |-> acc.num, text |-> Append(acc.text, line.num)]
WalkLine(acc, line) ==
  CASE line.kind = "star" -> [ret |-> Store(acc), num |-> line.num, text |-> <<>>]
    [] line.kind = "close" -> [ret |-> Store(acc), num |-> acc.num, text |-> acc.text]
    [] line.kind = "header" -> [ret |-> acc.ret, num |-> acc.num, text |-> Append(acc.text, line.num)]
NothingYet == [ret |-> [n \in {} |-> <<>>], num |-> 0, text |-> <<>>]
Walk(lines) ==
  LET after[n \in 0 .. Len(lines)] == IF n = 0 THEN NothingYet ELSE WalkLine(after[n - 1], lines[n])
  IN  after
GetHeaders(lines) == Walk(lines)[Len(lines)].ret

(* ListMails: from the latest to the earliest, those that were found and   *)
(* have a header that can be parsed, without a word about the others;      *)
(* GetHeaders refuses a range that is none.                                *)
PutOut(out, headers, i) ==
  IF i \in DOMAIN headers /\ i \notin Unparsed THEN Append(out, [num |-> i, header |-> headers[i]]) ELSE out
Output(headers, from, to) ==
  LET after[k \in 0 .. to - from + 1] == IF k = 0 THEN <<>> ELSE PutOut(after[k - 1], headers, to - k + 1)
  IN  after
ListMails ==
  /\ imap.next = "fetch"
  /\ IF Window.from < 1 \/ Window.from > Window.to
     THEN list' = Error("range") /\ UNCHANGED absent
     ELSE \E nums \in Answers(Window.from, Window.to) :
            /\ absent' = (Window.from .. Window.to) \ Range(nums)
            /\ \E lines \in Responses(nums) :
                 list' = Output(GetHeaders(lines), Window.from, Window.to)[Window.to - Window.from + 1]
  /\ imap' = [imap EXCEPT !.next = "logout"]
  /\ UNCHANGED <<mails, ask, seen>>
(* ReadMessage: the text of the mail, which there is or is not.            *)
ReadMessage ==
  /\ imap.next = "read"
  /\ list' = IF ask.count \in 1 .. mails THEN <<[num |-> ask.count, header |-> <<ask.count>>]>> ELSE Error("number")
  /\ imap' = [imap EXCEPT !.next = "logout"]
  /\ UNCHANGED <<mails, ask, seen, absent>>

IMNext ==
  \/ MailIsDelivered \/ Connect \/ LoginSelect \/ ConverseFails \/ LogoutDisconnect
  \/ GetNumberMessages \/ ListMails \/ ReadMessage

IMSpec == IMInit /\ [][IMNext]_imVars

-----------------------------------------------------------------------------
(* The numbers asked for: their rank among the mails counted, from the     *)
(* latest on.  And a list of them, latest first, with their headers.       *)
AskedFor == {n \in 1 .. seen : seen - n \in ask.skip .. ask.skip + AskedCount - 1}
IsListOf(out, nums) ==
  /\ \A k \in 1 .. Len(out) : out[k].num \in nums /\ out[k].header = <<out[k].num>>
  /\ \A n \in nums : \E k \in 1 .. Len(out) : out[k].num = n
  /\ \A j, k \in 1 .. Len(out) : j < k => out[j].num > out[k].num

(* A list that succeeds is the window that was asked for, latest first,    *)
(* and beside every number stands the header of that mail, though mail     *)
(* arrives between the count and the fetch, the server mentions it between *)
(* two headers and answers in an order of its own, and the window is cut   *)
(* at either end of the mailbox.  What the list lacks are the mails that   *)
(* the server left out and those whose header cannot be parsed: these the  *)
(* code skips (ListMails, GetNumberMessages, GetHeaders).                  *)
ListIsTheWindow ==
  imap.next = "done" /\ ask.do = "list" =>
    \/ list = Error("network")
    \/ list = Error("skip") /\ ask.skip >= seen
    \/ IsListOf(list, AskedFor \ (absent \union Unparsed))
================================================================================
