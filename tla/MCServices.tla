------------------------------ MODULE MCServices ------------------------------
(***************************************************************************)
(* The parts of laitos that share no state with one another, side by side: *)
(* every behaviour is about the one part that its first state chooses, and *)
(* the others rest in a fixed initial state.                               *)
(***************************************************************************)
EXTENDS RateLimit, DNSNames, DNSCommands, TelegramBot, SocksUDP, BrowserInstances,
        BrowserPage, RemoteVM, WebHandlers, Maintenance, MailboxReader

VARIABLE part  \* the part that moves

Parts == {"rl", "dn", "dc", "tg", "su", "bi", "bp", "vm", "wh", "mt", "im"}

-----------------------------------------------------------------------------
(* Black lists: one name has an address, one is white-listed.              *)
Ads == <<"ads", "com">>
Bad == <<"bad", "site", "com">>
Good == <<"good", "com">>
Tracker == <<"trk", "net">>

MCLists == {{Ads, Bad, <<"localhost">>}, {Ads, Good, Tracker}}
MCWhitelist == {Good}
MCAddressOf == [n \in {Ads, Bad, Good, Tracker} |-> IF n = Ads THEN {<<"ip1">>} ELSE {}]
MCAsked == {<<>>, <<"x", "ads", "com">>, <<"site", "com">>}

(* Pages in which elements look alike, are hidden, or are too large.       *)
El(d, s) == [desc |-> d, size |-> s]

MCPages ==
  { <<>>,
    <<El("a", "short"), El("b", "medium"), El("a", "short"), El("c", "short")>>,
    <<El("b", "short"), El("d", "hidden"), El("a", "medium"), El("b", "short")>>,
    <<El("c", "medium"), El("a", "short")>> }

(* Web servers with a few handlers each.                                   *)
MCInstallations ==
  {{"sms", "upload"}, {"call", "callback"}, {"form", "ttn", "mail"}, {"bot"}}

MCPorts == <<"p1", "p2">>

(* Some of the computers that maintenance may find itself on.              *)
Setup(o, t, s, opt) == [os |-> o, throttle |-> t, swap |-> s, options |-> opt]
MCSetups == {Setup("debian", 1, "on", Options), Setup("debian", 5, "off", {"software"}),
             Setup("debian", 1, "unset", {"zone"}), Setup("windows", 1, "off", Options)}

-----------------------------------------------------------------------------
(* The part that moves starts in any of its initial states, the others in  *)
(* one of theirs.                                                          *)
ServicesInit ==
  /\ part \in Parts
  /\ Init /\ DCInit /\ TGInit /\ SUInit /\ BPInit /\ VMInit
  /\ DNInit /\ (part # "dn" => ~myPublicIP)
  /\ BIInit /\ (part # "bi" => setup = [engine |-> "phantomjs", use |-> "web"])
  /\ WHInit /\ (part # "wh" => installed = {"bot"})
  /\ MTInit /\ setup2 \in (IF part = "mt" THEN MCSetups ELSE {Setup("debian", 1, "on", Options)})
            /\ (part # "mt" => machine.clock = "right")
  /\ IMInit /\ (part # "im" => mails = 0 /\ ask = [do |-> "list", skip |-> 0, count |-> 0])

(* The other parts do not move.                                            *)
Rest(p, v) == IF part = p THEN TRUE ELSE UNCHANGED v

OthersRest ==
  /\ UNCHANGED part
  /\ Rest("rl", vars) /\ Rest("dn", dnVars) /\ Rest("dc", dcVars) /\ Rest("tg", tgVars)
  /\ Rest("su", suVars) /\ Rest("bi", biVars) /\ Rest("bp", bpVars) /\ Rest("vm", vmVars)
  /\ Rest("wh", whVars) /\ Rest("mt", mtVars) /\ Rest("im", imVars)

ServicesNext ==
  \/ part = "rl" /\ Next /\ OthersRest
  \/ part = "dn" /\ DNNext /\ OthersRest
  \/ part = "dc" /\ DCNext /\ OthersRest
  \/ part = "tg" /\ TGNext /\ OthersRest
  \/ part = "su" /\ SUNext /\ OthersRest
  \/ part = "bi" /\ BINext /\ OthersRest
  \/ part = "bp" /\ BPNext /\ OthersRest
  \/ part = "vm" /\ VMNext /\ OthersRest
  \/ part = "wh" /\ WHNext /\ OthersRest
  \/ part = "mt" /\ MTNext /\ OthersRest
  \/ part = "im" /\ IMNext /\ OthersRest

ServicesSpec ==
  ServicesInit /\ [][ServicesNext]_<<part, vars, dnVars, dcVars, tgVars, suVars,
                                    biVars, bpVars, vmVars, whVars, mtVars, imVars>>
=============================================================================
