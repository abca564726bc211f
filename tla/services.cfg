SPECIFICATION ServicesSpec
CONSTANTS
  Actor = {"a1", "a2"}
  UnitSecs = 1
  MaxCount = 2
  MaxTime = 3
  Lists <- MCLists
  Whitelist <- MCWhitelist
  AddressOf <- MCAddressOf
  Asked <- MCAsked
  MaxEntries = 3
  FirstRoutines = 3
  LaterRoutines = 2
  Clients = {"local", "own", "friend", "other"}
  AllowedClients = {"friend"}
  RefreshInterval = 0
  DNMaxTime = 1
  Handlers = {"h1", "h2", "h3"}
  Commands = {"none", "c"}
  TTL = 1
  DCMaxTime = 3
  MaxUpdates = 3
  TGMaxTime = 3
  MaxStops = 1
  UDPClients = {"a", "b"}
  Packets = {1, 2}
  Sockets = {1, 2}
  Surfers = {"x", "y"}
  WebSlots = 2
  MaxStarts = 3
  Pages <- MCPages
  Jumps = {0, 1, 2}
  Operators = {"x", "y"}
  MaxBoots = 2
  MaxConns = 2
  MaxEvents = 1
  Requests = {1, 2}
  Senders = {"none", "s"}
  Installations <- MCInstallations
  SenderInterval = 2
  TokenLife = 1
  WHMaxTime = 3
  AllowedPorts <- MCPorts
  ToDisable = {"firewall", "both"}
  ToEnable = {"both", "web"}
  LocalUsers = {"root", "guest"}
  LoginExcept = {"root"}
  MaxRuns = 2
  MaxFaults = 2
  Skips = {0, 1, 3}
  Counts = {0, 1, 2, 5}
  Limit = 3
  Unparsed = {2}
  MaxMails = 4
\* A page, a mailbox, a clock or a machine at its bound has nothing more to do.
CHECK_DEADLOCK FALSE
INVARIANTS
  AtMostTwiceTheAllowance
  RefusedOnlyWhenBusy
  BlackListIsWhole
  OngoingIsRunning
  AnswersAreFresh
  RunAtMostOnce
  OpenSocketHasReader
  
  FocusIsReported
  EmulatorIsKnown
  RenewedWhenExpired
  FirewallIsWhole
  CleanRunDelivers
  ListIsTheWindow
