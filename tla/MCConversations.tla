---------------------------- MODULE MCConversations ----------------------------
(***************************************************************************)
(* The parts of laitos that must come to an end of what they begin, side   *)
(* by side: every behaviour is about the one part that its first state     *)
(* chooses.  The others rest in their initial states, in which nothing     *)
(* that fairness forces is possible.                                       *)
(***************************************************************************)
EXTENDS MailCommand, SerialPort, SocksTCP, Unlock

VARIABLE part  \* the part that moves

Parts == {"mc", "sp", "st", "ul"}

-----------------------------------------------------------------------------
(* Mails: a command alone, and after a part without one.                   *)
MCBodies == {<<"command">>, <<"plain", "command">>}

-----------------------------------------------------------------------------
Init == part \in Parts /\ MCInit /\ SPInit /\ STInit /\ ULInit

(* The other parts do not move.                                            *)
Rest(p, v) == IF part = p THEN TRUE ELSE UNCHANGED v

OthersRest ==
  /\ UNCHANGED part
  /\ Rest("mc", mcVars) /\ Rest("sp", spVars)
  /\ Rest("st", stVars) /\ Rest("ul", ulVars)

Next ==
  \/ part = "mc" /\ MCNext /\ OthersRest
  \/ part = "sp" /\ SPNext /\ OthersRest
  \/ part = "st" /\ STNext /\ OthersRest
  \/ part = "ul" /\ ULNext /\ OthersRest

Spec ==
  /\ Init /\ [][Next]_<<part, mcVars, spVars, stVars, ulVars>>
  /\ MCFairness /\ SPFairness /\ STFairness /\ ULFairness
=============================================================================
