-------------------------------- MODULE Unlock --------------------------------
(***************************************************************************)
(* How an encrypted configuration gets its password: the password input    *)
(* web server (launcher/passwdserver), the auto-unlock daemon of another   *)
(* computer that visits it (daemon/autounlock), the AWS Lambda handler     *)
(* (lambda), and the main program (main.go) that waits for the password,   *)
(* once as the supervisor and once as the program that runs the daemons.   *)
(***************************************************************************)
EXTENDS Naturals

CONSTANTS
  MaxVisits,        \* bound of the model: requests of a person, and Lambda invocations
  MaxRestarts       \* bound of the model: times a program that ended is started again

VARIABLES
  route,            \* the routine that main was told to run: fixed once it starts
  configFile,       \* the configuration file
  page,             \* WebServer: it accepts connections; alreadyUnlocked
  req,              \* client -> the request in flight
  robot,            \* where the loop of the auto-unlock daemon is
  launch,           \* where LaunchMainProgram is
  main,             \* process -> where main is
  stdin,            \* process -> the password that its standard input offers
  lam,              \* process -> where its Lambda handler is
  fed,              \* process -> IsProgramDataDecrypted
  visits,
  restarts

ulVars == <<route, configFile, page, req, robot, launch, main, stdin, lam, fed, visits, restarts>>
procVars == <<main, stdin, lam, fed>>
pageVars == <<page, req, robot, launch>>

Processes == {"supervisor", "daemons"}
Passwords == {"right", "wrong"}

NotStarted ==
  /\ page = [up |-> FALSE, unlocked |-> FALSE]
  /\ launch = "no"
  /\ main = [p \in Processes |-> "off"]
  /\ stdin = [p \in Processes |-> "none"]
  /\ lam = [p \in Processes |-> "off"]
  /\ fed = [p \in Processes |-> FALSE]

ULInit ==
  /\ NotStarted
  /\ route = "none" /\ configFile = "plain"
  /\ req = [c \in {"robot", "person"} |-> "none"]
  /\ robot = "probe" /\ visits = 0 /\ restarts = 0

-----------------------------------------------------------------------------
(* The data utility.  Encrypt empties the file before the cipher refuses a *)
(* key that is too long; DecryptFile overwrites it with what a wrong key   *)
(* makes of it.                                                            *)
EncryptFile ==
  /\ route = "none" /\ configFile = "plain"
  /\ configFile' \in {"encrypted", "lost"}
  /\ UNCHANGED <<route, pageVars, procVars, visits, restarts>>
DecryptFile ==
  /\ route = "none" /\ configFile = "encrypted"
  /\ configFile' \in {"plain", "lost"}
  /\ UNCHANGED <<route, pageVars, procVars, visits, restarts>>

(* The file according to a key: Decrypt refuses one without the header,    *)
(* and a wrong key may happen on a text that begins like JSON.             *)
Decrypt(key) ==
  IF configFile # "encrypted" THEN {"error"}
  ELSE IF key = "right" THEN {"json"} ELSE {"garbage", "brace"}

-----------------------------------------------------------------------------
(* main, until it waits for a password or goes on.  The daemons process    *)
(* runs with the flags of the supervisor, -awslambda included.             *)
AfterStart == IF configFile = "encrypted" THEN "reading" ELSE "loading"
MainBegins(r) ==
  /\ route = "none" /\ route' = r
  /\ IF r = "password page"
     THEN UNCHANGED <<main, stdin, lam>>
     ELSE /\ main' = [main EXCEPT !["supervisor"] = AfterStart]
          /\ stdin' = [stdin EXCEPT !["supervisor"] = IF r = "terminal" THEN "right" ELSE "none"]
          /\ lam' = [lam EXCEPT !["supervisor"] = IF r = "lambda" THEN "polling" ELSE "off"]
  /\ UNCHANGED <<configFile, pageVars, fed, visits, restarts>>

(* StartPasswordWebServer: AutoRestart tries until the port is free.       *)
PageStarts ==
  /\ route = "password page" /\ ~page.up /\ launch = "no"
  /\ page' = [page EXCEPT !.up = TRUE]
  /\ UNCHANGED <<route, configFile, req, robot, launch, procVars, visits, restarts>>

(* A request reaches the web server while it listens.                      *)
Visit(kind) ==
  /\ page.up /\ req["person"] = "none" /\ visits < MaxVisits
  /\ req' = [req EXCEPT !["person"] = kind] /\ visits' = visits + 1
  /\ UNCHANGED <<route, configFile, page, robot, launch, procVars, restarts>>

(* What the loop of the auto-unlock daemon does with an answer.            *)
RobotHears(heard) ==
  robot' = CASE robot = "probing" -> IF heard THEN "submit" ELSE "wait"
             [] robot = "submitting" -> "wait"

(* pageHandler holds the mutex from its first look at alreadyUnlocked to   *)
(* its end.  The client may not hear the answer.                           *)
PageHandlerUnlockedFirst(c, heard) ==
  /\ req[c] # "none"
  /\ req' = [req EXCEPT ![c] = "none"]
  /\ page' = [page EXCEPT !.unlocked = @ \/ req[c] \in Passwords]
  /\ IF page.unlocked \/ req[c] = "get" THEN UNCHANGED <<launch, stdin>>
     ELSE \E text \in Decrypt(req[c]) :
            IF text \in {"error", "garbage"} THEN UNCHANGED <<launch, stdin>>
            ELSE launch' = "closing" /\ stdin' = [stdin EXCEPT !["supervisor"] = req[c]]
  /\ IF c = "robot" THEN RobotHears(heard) ELSE UNCHANGED robot
  /\ UNCHANGED <<route, configFile, main, lam, fed, visits, restarts>>
PageHandler(c, heard) ==
  /\ req[c] # "none"
  /\ req' = [req EXCEPT ![c] = "none"]
  /\ IF page.unlocked \/ req[c] = "get" THEN UNCHANGED <<page, launch, stdin>>
     ELSE \E text \in Decrypt(req[c]) :
            IF text \in {"error", "garbage"} THEN UNCHANGED <<page, launch, stdin>>
            ELSE /\ page' = [page EXCEPT !.unlocked = TRUE]
                 /\ launch' = "closing"
                 /\ stdin' = [stdin EXCEPT !["supervisor"] = req[c]]
  /\ IF c = "robot" THEN RobotHears(heard) ELSE UNCHANGED robot
  /\ UNCHANGED <<route, configFile, main, lam, fed, visits, restarts>>

(* LaunchMainProgram: Shutdown closes the listener, and waits 10 seconds   *)
(* for the requests in flight; a client has 30 to send its own.            *)
ShutdownBegins ==
  /\ launch = "closing" /\ page.up
  /\ page' = [page EXCEPT !.up = FALSE]
  /\ UNCHANGED <<route, configFile, req, robot, launch, procVars, visits, restarts>>
ShutdownEnds ==
  /\ launch = "closing" /\ ~page.up /\ \A c \in DOMAIN req : req[c] = "none"
  /\ launch' = "starting"
  /\ UNCHANGED <<route, configFile, page, req, robot, procVars, visits, restarts>>
(* Abort ends the program, at a shutdown that takes too long, when the     *)
(* main program does not start or ends with an error, or in main itself.   *)
Abort ==
  /\ \/ launch = "closing" /\ ~page.up /\ \E c \in DOMAIN req : req[c] # "none"
     \/ launch = "starting"
     \/ main["supervisor"] = "aborted"
  /\ launch' = "aborted"
  /\ req' = [c \in DOMAIN req |-> "none"]
  /\ robot' = IF robot \in {"probing", "submitting"} THEN "wait" ELSE robot
  /\ UNCHANGED <<route, configFile, page, procVars, visits, restarts>>
(* FeedDecryptionPasswordToStdinAndStart, by the web server, and by the    *)
(* supervisor, which feeds the password it was given itself.               *)
StartMainProgram ==
  /\ launch = "starting" /\ launch' = "started"
  /\ main' = [main EXCEPT !["supervisor"] = AfterStart]
  /\ UNCHANGED <<route, configFile, page, req, robot, stdin, lam, fed, visits, restarts>>
SuperviseDaemons ==
  /\ main["supervisor"] = "running" /\ main["daemons"] = "off"
  /\ main' = [main EXCEPT !["daemons"] = AfterStart]
  /\ stdin' = [stdin EXCEPT !["daemons"] = "right"]
  /\ lam' = [lam EXCEPT !["daemons"] = IF route = "lambda" THEN "polling" ELSE "off"]
  /\ UNCHANGED <<route, configFile, pageVars, fed, visits, restarts>>

(* main takes one password, from its standard input or from the Lambda     *)
(* handler, which waits until it is taken.                                 *)
MainReads(p) ==
  /\ main[p] = "reading"
  /\ \E key \in Passwords :
       /\ \/ stdin[p] = key /\ stdin' = [stdin EXCEPT ![p] = "none"] /\ UNCHANGED lam
          \/ lam[p] = "feeding" /\ key = "right" /\ lam' = [lam EXCEPT ![p] = "proxying"]
             /\ UNCHANGED stdin
       /\ main' = [main EXCEPT ![p] = IF key = "right" THEN "loading" ELSE "aborted"]
  /\ UNCHANGED <<route, configFile, pageVars, fed, visits, restarts>>
(* The configuration is deserialised, and the daemons are started.         *)
MainLoads(p) ==
  /\ main[p] = "loading"
  /\ main' = [main EXCEPT ![p] = IF configFile = "lost" THEN "aborted" ELSE "running"]
  /\ UNCHANGED <<route, configFile, pageVars, stdin, lam, fed, visits, restarts>>

-----------------------------------------------------------------------------
(* StartAndBlock of the auto-unlock daemon: a probe, the password if the   *)
(* answer has the magic header, and a pause.                               *)
RobotProbes ==
  /\ page.up /\ robot = "probe"
  /\ robot' = "probing" /\ req' = [req EXCEPT !["robot"] = "get"]
  /\ UNCHANGED <<route, configFile, page, launch, procVars, visits, restarts>>
RobotSubmits ==
  /\ page.up /\ robot = "submit"
  /\ robot' = "submitting" /\ req' = [req EXCEPT !["robot"] = "right"]
  /\ UNCHANGED <<route, configFile, page, launch, procVars, visits, restarts>>
RobotFails ==
  /\ robot \in {"probe", "submit"} /\ robot' = "wait"
  /\ UNCHANGED <<route, configFile, page, req, launch, procVars, visits, restarts>>
RobotWakes ==
  /\ robot = "wait" /\ robot' = "probe"
  /\ UNCHANGED <<route, configFile, page, req, launch, procVars, visits, restarts>>
(* Stop is heard while the loop waits, a lock-down at the top of the loop. *)
RobotEnds ==
  /\ robot \in {"wait", "probe"} /\ robot' = "ended"
  /\ UNCHANGED <<route, configFile, page, req, launch, procVars, visits, restarts>>

(* getAndProcessLambdaInvocation, by the handler of either process: the    *)
(* first password is handed to main, whoever waits for it or not.          *)
NextInvocation(p) ==
  /\ lam[p] = "polling" /\ visits < MaxVisits
  /\ visits' = visits + 1
  /\ lam' = [lam EXCEPT ![p] = IF fed[p] THEN "proxying" ELSE "feeding"]
  /\ fed' = [fed EXCEPT ![p] = TRUE]
  /\ UNCHANGED <<route, configFile, pageVars, main, stdin, restarts>>
(* decodeAndHandleHTTPRequest: the web server answers, or after all        *)
(* attempts it has not, and there is no response.                          *)
ProxyRequest(p) ==
  /\ lam[p] = "proxying"
  /\ lam' = [lam EXCEPT ![p] = "polling"]
  /\ UNCHANGED <<route, configFile, pageVars, main, stdin, fed, visits, restarts>>

(* Whatever started laitos starts it again with the same flags.            *)
ServiceRestarts ==
  /\ launch = "aborted"
  /\ restarts < MaxRestarts /\ restarts' = restarts + 1
  /\ page' = [up |-> FALSE, unlocked |-> FALSE] /\ launch' = "no"
  /\ main' = [p \in Processes |-> IF p = "supervisor" /\ route # "password page" THEN AfterStart ELSE "off"]
  /\ stdin' = [p \in Processes |-> "none"]
  /\ lam' = [p \in Processes |-> IF p = "supervisor" /\ route = "lambda" THEN "polling" ELSE "off"]
  /\ fed' = [p \in Processes |-> FALSE]
  /\ UNCHANGED <<route, configFile, req, robot, visits>>

ULNext ==
  \/ EncryptFile \/ DecryptFile
  \/ \E r \in {"password page", "terminal", "lambda"} : MainBegins(r)
  \/ PageStarts \/ ShutdownBegins \/ ShutdownEnds \/ Abort \/ StartMainProgram \/ SuperviseDaemons
  \/ \E kind \in {"get"} \union Passwords : Visit(kind)
  \/ \E c \in DOMAIN req, heard \in BOOLEAN : PageHandler(c, heard)
  \/ \E p \in Processes : MainReads(p) \/ MainLoads(p) \/ NextInvocation(p) \/ ProxyRequest(p)
  \/ RobotProbes \/ RobotSubmits \/ RobotFails \/ RobotWakes \/ RobotEnds
  \/ ServiceRestarts

(* Every goroutine goes on.  The network between the two computers works   *)
(* again and again, invocations keep coming, and what starts laitos starts *)
(* it again.                                                               *)
ULFairness ==
  /\ WF_ulVars(PageStarts) /\ WF_ulVars(ShutdownBegins) /\ WF_ulVars(ShutdownEnds)
  /\ WF_ulVars(StartMainProgram) /\ WF_ulVars(Abort)
  /\ WF_ulVars(SuperviseDaemons) /\ WF_ulVars(ServiceRestarts)
  /\ \A p \in Processes : WF_ulVars(MainReads(p)) /\ WF_ulVars(MainLoads(p))
                          /\ WF_ulVars(NextInvocation(p)) /\ WF_ulVars(ProxyRequest(p))
  /\ WF_ulVars(RobotWakes) /\ SF_ulVars(RobotProbes) /\ SF_ulVars(RobotSubmits)
  /\ SF_ulVars(PageHandler("robot", TRUE)) /\ WF_ulVars(\E h \in BOOLEAN : PageHandler("person", h))

-----------------------------------------------------------------------------
DaemonsRun == main["daemons"] = "running"
GaveUp ==
  \/ restarts = MaxRestarts /\ (launch = "aborted" \/ main["supervisor"] = "aborted")
  \/ route = "password page" /\ robot = "ended"

(* An encrypted computer is unlocked in the end: whatever passwords people *)
(* try at the page, however often the network fails, whoever visits while  *)
(* the page closes and whichever of two simultaneous passwords is taken,   *)
(* the daemons run at last, unless the program ended each time it was      *)
(* started or nobody is left to bring the password (pageHandler,           *)
(* LaunchMainProgram, autounlock's StartAndBlock, main).                   *)
EventuallyUnlocked ==
  (configFile = "encrypted" /\ route # "none") ~> (DaemonsRun \/ GaveUp)
================================================================================
