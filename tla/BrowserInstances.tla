--------------------------- MODULE BrowserInstances ---------------------------
(***************************************************************************)
(* The remote browsers: browser/phantomjs and browser/slimerjs keep a      *)
(* fixed number of browser server processes, one per slot and port; the    *)
(* web pages (httpd/handler/browserp.go, browsers.go) share them among     *)
(* many users, and the app (toolbox/app_browserp.go, app_browsers.go)      *)
(* keeps one for itself.  A session is known by the tag of its instance.   *)
(* The two engines are copies of each other; what differs is the launch.   *)
(***************************************************************************)
EXTENDS Integers

CONSTANTS
  Surfers,          \* users of the web pages
  WebSlots,         \* MaxInstances of the web pages
  MaxStarts         \* bound of the model: instances made

(* "free" and "app" are no users of the web pages.                         *)
ASSUME BIAssumption ==
  /\ MaxStarts \in Nat /\ WebSlots \in Nat \ {0}
  /\ Surfers \intersect {"free", "app"} = {}

VARIABLES
  setup,            \* the engine, and who uses it: fixed in a behaviour
  browsers,         \* slot -> tag of its instance, 0 when there was none
  instance,         \* tag -> its slot, whether jsProcCmd is set, its timer, its process
  browserCounter,   \* instances acquired so far, less one
  browserMutex,     \* the user who holds it, or "free"
  docker,           \* prepareDockerOnce and its routine
  surfer            \* user -> what the user is doing, with which instance; as history, who
                    \* answered, and how many instances there were when it was looked up

biVars == <<setup, browsers, instance, browserCounter, browserMutex, docker, surfer>>

TheApp == "app"
Users == IF setup.use = "app" THEN {TheApp} ELSE Surfers
SlotsUsed == IF setup.use = "app" THEN 1 ELSE WebSlots
NoInstance == [slot |-> 0, cmd |-> FALSE, timer |-> FALSE, proc |-> "none"]
Surfing(pc, tag) == [pc |-> pc, tag |-> tag, by |-> 0, since |-> 0]
Made == {t \in DOMAIN instance : instance[t] # NoInstance}

BIInit ==
  /\ setup \in [engine : {"phantomjs", "slimerjs"}, use : {"web", "app"}]
  /\ browsers = [s \in 0 .. SlotsUsed - 1 |-> 0]
  /\ instance = [t \in 1 .. MaxStarts |-> NoInstance]
  /\ browserCounter = -1
  /\ browserMutex = "free"
  /\ docker = "unprepared"
  /\ surfer = [u \in Users |-> Surfing("idle", 0)]

(* Instance.Kill: nothing unless jsProcCmd is set.                         *)
Killed(i) == IF i.cmd THEN [i EXCEPT !.cmd = FALSE, !.proc = IF @ = "running" THEN "gone" ELSE @]
                      ELSE i
KillInstances(T) == instance' = [t \in DOMAIN instance |-> IF t \in T THEN Killed(instance[t]) ELSE instance[t]]

(* The process that answers at the port of a slot.                         *)
Listening(s) == {t \in Made : instance[t].slot = s /\ instance[t].proc = "running"}

(* Acquire, up to Start: the counter picks the slot, the instance there is *)
(* killed and replaced.  The mutex is held until Start returns.            *)
Acquire(u) ==
  LET t == browserCounter + 2
      s == (browserCounter + 1) % SlotsUsed IN
  /\ instance' = [[o \in DOMAIN instance |->
                     IF o = browsers[s] THEN Killed(instance[o]) ELSE instance[o]]
                  EXCEPT ![t] = [NoInstance EXCEPT !.slot = s]]
  /\ browsers' = [browsers EXCEPT ![s] = t]
  /\ browserCounter' = browserCounter + 1
  /\ browserMutex' = u
  /\ surfer' = [surfer EXCEPT ![u].pc = "start"]
AcquirePhantomJS(u) ==
  /\ setup.engine = "phantomjs"
  /\ surfer[u].pc = "acquire" /\ browserMutex = "free" /\ browserCounter + 1 < MaxStarts
  /\ Acquire(u)
  /\ UNCHANGED <<setup, docker>>
AcquireSlimerJS(u) ==
  /\ setup.engine = "slimerjs"
  /\ surfer[u].pc = "acquire" /\ browserMutex = "free" /\ browserCounter + 1 < MaxStarts
  /\ docker' = IF docker = "unprepared" THEN "preparing" ELSE docker
  /\ Acquire(u)
  /\ UNCHANGED setup
(* The routine that starts docker and pulls the image.                     *)
PrepareDocker ==
  /\ docker = "preparing"
  /\ docker' = "prepared"
  /\ UNCHANGED <<setup, browsers, instance, browserCounter, browserMutex, surfer>>

(* Start: a file that cannot be written or a program that cannot be run    *)
(* ends it at once, the first before jsProcCmd is set.  Otherwise the      *)
(* process is on its way, and the timer that kills it in the end is set.   *)
Fails(u, cmd) ==
  /\ instance' = [instance EXCEPT ![browserCounter + 1].cmd = cmd]
  /\ surfer' = [surfer EXCEPT ![u].pc = "failed"]
Launches(u, proc) ==
  /\ instance' = [instance EXCEPT ![browserCounter + 1].cmd = TRUE,
                                  ![browserCounter + 1].timer = TRUE,
                                  ![browserCounter + 1].proc = proc]
  /\ surfer' = [surfer EXCEPT ![u].pc = "knock"]
StartPhantomJS(u) ==
  /\ setup.engine = "phantomjs" /\ surfer[u].pc = "start"
  /\ \/ \E cmd \in BOOLEAN : Fails(u, cmd)
     \/ Launches(u, "running")
  /\ UNCHANGED <<setup, browsers, browserCounter, browserMutex, docker>>
(* docker runs, but without its image there is no server to come.          *)
StartSlimerJS(u) ==
  /\ setup.engine = "slimerjs" /\ surfer[u].pc = "start"
  /\ \/ \E cmd \in BOOLEAN : Fails(u, cmd)
     \/ Launches(u, IF docker = "prepared" THEN "running" ELSE "gone")
  /\ UNCHANGED <<setup, browsers, browserCounter, browserMutex, docker>>

(* Up to twenty knocks on the port.  Whoever listens there will do.        *)
Knock(u) ==
  LET t == browserCounter + 1 IN
  /\ surfer[u].pc = "knock"
  /\ \/ /\ Listening(instance[t].slot) # {}
        /\ surfer' = [surfer EXCEPT ![u].pc = "acquired"]
        /\ UNCHANGED instance
     \/ /\ KillInstances({t})
        /\ surfer' = [surfer EXCEPT ![u].pc = "failed"]
  /\ UNCHANGED <<setup, browsers, browserCounter, browserMutex, docker>>

ProcessExits(t) ==
  /\ instance[t].proc = "running"
  /\ instance' = [instance EXCEPT ![t].proc = "gone"]
  /\ UNCHANGED <<setup, browsers, browserCounter, browserMutex, docker, surfer>>
(* MaxLifetimeSec after the launch, without the mutex.                     *)
AutoKill(t) ==
  /\ instance[t].timer
  /\ instance' = [instance EXCEPT ![t] = [Killed(@) EXCEPT !.timer = FALSE]]
  /\ UNCHANGED <<setup, browsers, browserCounter, browserMutex, docker, surfer>>

(* Acquire returns.  The page shown to a web user holds the new tag, and   *)
(* an error page holds none; the app keeps the instance even when its      *)
(* start failed, and goes on with the command otherwise.                   *)
AcquireReturns(u) ==
  LET t == browserCounter + 1 IN
  /\ browserMutex' = "free"
  /\ \/ u = TheApp /\ surfer[u].pc = "acquired" /\ surfer' = [surfer EXCEPT ![u] = [Surfing("act", t) EXCEPT !.since = t]]
     \/ /\ IF u = TheApp THEN surfer[u].pc = "failed" ELSE surfer[u].pc = "acquired"
        /\ surfer' = [surfer EXCEPT ![u] = Surfing("idle", t)]
     \/ /\ u # TheApp /\ surfer[u].pc = "failed"
        /\ surfer' = [surfer EXCEPT ![u] = Surfing("idle", surfer[u].tag)]
  /\ UNCHANGED <<setup, browsers, instance, browserCounter, docker>>

(* A request of an idle user begins.                                       *)
Begins(u, engine, pc) ==
  /\ setup.engine = engine /\ surfer[u].pc = "idle"
  /\ surfer' = [surfer EXCEPT ![u].pc = pc]
  /\ UNCHANGED <<setup, browsers, instance, browserCounter, browserMutex, docker>>

(* The web pages: GET starts a new browser; POST, and the address of the   *)
(* image, name the tag they were shown with.                               *)
HandleBrowserPhantomJS(u) ==
  /\ u # TheApp
  /\ \/ Begins(u, "phantomjs", "acquire")
     \/ surfer[u].tag # 0 /\ Begins(u, "phantomjs", "post")
HandleBrowserSlimerJS(u) ==
  /\ u # TheApp
  /\ \/ Begins(u, "slimerjs", "acquire")
     \/ surfer[u].tag # 0 /\ Begins(u, "slimerjs", "post")
HandleBrowserPhantomJSImage(u) == u # TheApp /\ surfer[u].tag # 0 /\ Begins(u, "phantomjs", "image")
HandleBrowserSlimerJSImage(u) == u # TheApp /\ surfer[u].tag # 0 /\ Begins(u, "slimerjs", "image")

(* The apps, up to the retrieval: a new browser if there was none.         *)
BrowserPhantomJS(u) ==
  u = TheApp /\ Begins(u, "phantomjs", IF surfer[u].tag = 0 THEN "acquire" ELSE "post")
BrowserSlimerJS(u) ==
  u = TheApp /\ Begins(u, "slimerjs", IF surfer[u].tag = 0 THEN "acquire" ELSE "post")

(* Retrieve: the tag of the slot must match; whether the process lives is  *)
(* not asked.  Without a match, a new browser, or an error for the image.  *)
RetrieveIf(u, found) ==
  LET Goes(pc, since) == surfer' = [surfer EXCEPT ![u].pc = pc, ![u].since = since] IN
  /\ browserMutex = "free"
  /\ \/ surfer[u].pc = "post" /\ found /\ Goes("act", browserCounter + 1)
     \/ surfer[u].pc = "image" /\ found /\ Goes("draw", browserCounter + 1)
     \/ surfer[u].pc = "post" /\ ~found /\ Goes("acquire", 0)
     \/ surfer[u].pc = "image" /\ ~found /\ Goes("idle", 0)
  /\ UNCHANGED <<setup, browsers, instance, browserCounter, browserMutex, docker>>
RetrieveSlot(u) == RetrieveIf(u, browsers[instance[surfer[u].tag].slot] # 0)
Retrieve(u) == RetrieveIf(u, browsers[instance[surfer[u].tag].slot] = surfer[u].tag)

(* SendRequest: whoever listens at the port of the slot answers.  The      *)
(* mutex is not held, and DoHTTP tries again for a while.                  *)
SendRequest(u) ==
  LET L == Listening(instance[surfer[u].tag].slot) IN
  /\ surfer[u].pc \in {"act", "draw"}
  /\ \/ L = {} /\ surfer' = [surfer EXCEPT ![u].pc = "info", ![u].by = 0]
     \/ \E t \in L : (\A o \in L : t <= o) /\ surfer' = [surfer EXCEPT ![u].pc = "info", ![u].by = t]
  /\ UNCHANGED <<setup, browsers, instance, browserCounter, browserMutex, docker>>
(* GetPageInfo, or the rendered image, ends the request.                   *)
RenderPage(u) ==
  /\ surfer[u].pc = "info"
  /\ surfer' = [surfer EXCEPT ![u] = Surfing("idle", @.tag)]
  /\ UNCHANGED <<setup, browsers, instance, browserCounter, browserMutex, docker>>
(* "Kill All" of the web pages.                                            *)
KillAll(u) ==
  /\ surfer[u].pc = "act" /\ u # TheApp /\ browserMutex = "free"
  /\ KillInstances({browsers[s] : s \in DOMAIN browsers})
  /\ surfer' = [surfer EXCEPT ![u].pc = "info"]
  /\ UNCHANGED <<setup, browsers, browserCounter, browserMutex, docker>>
(* "k" of the app: its instance is killed and forgotten.                   *)
KillRenderer(u) ==
  /\ surfer[u].pc = "act" /\ u = TheApp
  /\ KillInstances({surfer[u].tag})
  /\ surfer' = [surfer EXCEPT ![u] = Surfing("idle", 0)]
  /\ UNCHANGED <<setup, browsers, browserCounter, browserMutex, docker>>

BIStep(u) ==
  \/ HandleBrowserPhantomJS(u) \/ HandleBrowserSlimerJS(u)
  \/ HandleBrowserPhantomJSImage(u) \/ HandleBrowserSlimerJSImage(u)
  \/ BrowserPhantomJS(u) \/ BrowserSlimerJS(u) \/ Retrieve(u)
  \/ AcquirePhantomJS(u) \/ AcquireSlimerJS(u) \/ StartPhantomJS(u) \/ StartSlimerJS(u)
  \/ Knock(u) \/ AcquireReturns(u)
  \/ SendRequest(u) \/ RenderPage(u) \/ KillAll(u) \/ KillRenderer(u)
BINext ==
  \/ \E u \in Users : BIStep(u)
  \/ \E t \in DOMAIN instance : ProcessExits(t) \/ AutoKill(t)
  \/ PrepareDocker

BISpec == BIInit /\ [][BINext]_biVars

-----------------------------------------------------------------------------
(* Sessions are kept apart: a server process that runs is the one its slot *)
(* knows, so that it can be replaced and killed; and a request is answered *)
(* by the browser of its own session, or by one that took over the slot    *)
(* after the request had looked its session up, never by one that was      *)
(* there before: SendRequest goes to the port without the mutex (Acquire,  *)
(* Retrieve, Kill).                                                        *)
SessionsAreKeptApart ==
  /\ \A t \in Made : instance[t].proc = "running" => browsers[instance[t].slot] = t
  /\ \A u \in DOMAIN surfer :
       surfer[u].by # 0 => surfer[u].by = surfer[u].tag \/ surfer[u].by > surfer[u].since
===============================================================================
