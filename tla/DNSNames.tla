------------------------------- MODULE DNSNames -------------------------------
(***************************************************************************)
(* The DNS server's name queries (daemon/dnsd): the black list and the     *)
(* goroutines that build a new one, the clients that may query, and the    *)
(* answer to a query, by UDP or TCP.  The SOCKS server asks the same black *)
(* list.  A name is the sequence of its labels.                            *)
(***************************************************************************)
EXTENDS Integers, Sequences, FiniteSets

CONSTANTS
  Lists,            \* hosts files: what each of them has, as a set of names
  Whitelist,        \* names that are never blocked
  MaxEntries,       \* BlacklistMaxEntries
  FirstRoutines,    \* goroutines that resolve names for the first list (12)
  LaterRoutines,    \* and for the lists after it (6)
  AddressOf,        \* name -> the addresses it resolves to
  Asked,            \* the names that clients ask for
  Clients,          \* "local", "own" (the public address), and others
  AllowedClients,   \* those that match AllowQueryIPPrefixes
  RefreshInterval,  \* PublicIPRefreshIntervalSec
  DNMaxTime         \* bound of the model: the clock stops here

(* Hosts files are finite, and there are no more goroutines for a later    *)
(* list than for the first one.                                            *)
ASSUME DNAssumption ==
  /\ IsFiniteSet(UNION Lists)
  /\ FirstRoutines \in Nat /\ LaterRoutines \in 1 .. FirstRoutines

VARIABLES
  blackList,        \* names and addresses
  updating,         \* blackListUpdating
  building,         \* UpdateBlackList: names to resolve, and the new list
  applied,          \* history: the names of the download behind blackList
  myPublicIP,       \* is the address "own" known?
  refreshedAt,      \* allowQueryLastUpdate
  query,            \* the query that is being handled
  dnTime            \* the clock

dnVars == <<blackList, updating, building, applied, myPublicIP, refreshedAt, query, dnTime>>

NoQuery == [pc |-> "idle", transport |-> "udp", client |-> "local", name |-> <<>>, answer |-> "none"]
NotBuilding == [todo |-> {}, names |-> {}, list |-> {}]

DNInit ==
  /\ blackList = {} /\ updating = FALSE /\ building = NotBuilding /\ applied = {}
  /\ myPublicIP \in BOOLEAN /\ refreshedAt = 0
  /\ query = NoQuery /\ dnTime = 0

-----------------------------------------------------------------------------
(* ExtractNamesFromHostsContent skips the names of this very computer.     *)
ExtractNames(file) == {n \in file : n # <<"localhost">>}

(* DownloadAllBlacklists: the files that could be downloaded.              *)
DownloadAllBlacklists(files) == (UNION {ExtractNames(f) : f \in files}) \ Whitelist

(* UpdateBlackList runs once at a time.  Of all names, in no particular    *)
(* order, those beyond MaxEntries are dropped; each goroutine takes an     *)
(* equal share, and the names left over by the division are left out.      *)
Shares(names, routines) ==
  {share \in SUBSET names :
     Cardinality(share) = routines * (Cardinality(names) \div routines)}
UpdateBegins ==
  /\ ~updating /\ building = NotBuilding
  /\ \E files \in SUBSET Lists :
       LET all == DownloadAllBlacklists(files) IN
       \E names \in SUBSET all :
         /\ Cardinality(names) = IF Cardinality(all) > MaxEntries THEN MaxEntries ELSE Cardinality(all)
         /\ \E todo \in Shares(names, IF blackList = {} THEN FirstRoutines ELSE LaterRoutines) :
              building' = [todo |-> todo, names |-> names, list |-> {}]
  /\ updating' = TRUE
  /\ UNCHANGED <<blackList, applied, myPublicIP, refreshedAt, query, dnTime>>

(* One goroutine: a name, and its addresses if it can be resolved.         *)
Resolve(n) ==
  /\ updating /\ n \in building.todo
  /\ \E addresses \in {{}, AddressOf[n]} :
       building' = [building EXCEPT !.todo = @ \ {n}, !.list = @ \cup {n} \cup addresses]
  /\ UNCHANGED <<blackList, updating, applied, myPublicIP, refreshedAt, query, dnTime>>

SwapWithoutWaiting ==
  /\ updating /\ building # NotBuilding
  /\ blackList' = building.list /\ applied' = building.names
  /\ building' = NotBuilding /\ updating' = FALSE
  /\ UNCHANGED <<myPublicIP, refreshedAt, query, dnTime>>
(* When all goroutines are done, the new list takes the place of the old.  *)
SwapBlackList ==
  /\ updating /\ building.todo = {}
  /\ blackList' = building.list /\ applied' = building.names
  /\ building' = NotBuilding /\ updating' = FALSE
  /\ UNCHANGED <<myPublicIP, refreshedAt, query, dnTime>>

(* IsInBlacklist: the name and the domains it is in, short of a domain of  *)
(* less than four characters.                                              *)
ShortDomains == {<<"com">>, <<"net">>}
Candidates(name) ==
  {name} \cup ({SubSeq(name, i, Len(name)) : i \in 2 .. Len(name)} \ ShortDomains)
IsInBlacklist(name) == Candidates(name) \cap blackList # {}

-----------------------------------------------------------------------------
(* A query with a name (ExtractDomainName) or of another kind, for which   *)
(* the name is empty.  A packet that is too short is dropped, as is a TCP  *)
(* conversation whose length prefix is out of bounds.                      *)
Receive(transport, client, name) ==
  /\ query.pc = "idle"
  /\ query' = [NoQuery EXCEPT !.pc = "asked", !.transport = transport, !.client = client, !.name = name]
  /\ UNCHANGED <<blackList, updating, building, applied, myPublicIP, refreshedAt, dnTime>>

(* checkAllowClientIP: this computer at once; then the public address is   *)
(* looked up if it is time to, and the configured prefixes are compared    *)
(* (the address found just now counts from the next query on).             *)
FastTrack == query.client = "local" \/ (query.client = "own" /\ myPublicIP)
AllowMyPublicIP ==
  IF ~FastTrack /\ refreshedAt + RefreshInterval < dnTime
  THEN refreshedAt' = dnTime /\ (myPublicIP' = myPublicIP \/ myPublicIP' = TRUE)
  ELSE UNCHANGED <<refreshedAt, myPublicIP>>
CheckAllowClientIP == FastTrack \/ query.client \in AllowedClients

(* handleUDPNameOrOtherQuery looks at the black list first,                *)
(* handleTCPNameOrOtherQuery at the client and then at the black list.     *)
HandleNameQuery ==
  /\ query.pc = "asked"
  /\ \/ /\ query.transport = "tcp" /\ AllowMyPublicIP
        /\ query' = IF ~CheckAllowClientIP THEN [query EXCEPT !.pc = "done"]
                    ELSE IF IsInBlacklist(query.name)
                    THEN [query EXCEPT !.pc = "done", !.answer = "black hole"]
                    ELSE [query EXCEPT !.pc = "recurse"]
     \/ /\ query.transport = "udp"
        /\ query' = IF IsInBlacklist(query.name)
                    THEN [query EXCEPT !.pc = "done", !.answer = "black hole"]
                    ELSE [query EXCEPT !.pc = "recurse"]
        /\ UNCHANGED <<refreshedAt, myPublicIP>>
  /\ UNCHANGED <<blackList, updating, building, applied, dnTime>>

(* handleUDPRecursiveQuery and handleTCPRecursiveQuery: an answer of the   *)
(* forwarder is passed on.  When nothing is read from the forwarder in     *)
(* time the buffer goes out all the same: an empty packet by UDP, and by   *)
(* TCP zeros in the length that the forwarder had announced.               *)
HandleRecursiveQuery ==
  /\ query.pc = "recurse"
  /\ AllowMyPublicIP
  /\ IF CheckAllowClientIP
     THEN \E answer \in {"none", "forwarded", "zeros"} :
            query' = [query EXCEPT !.pc = "done", !.answer = answer]
     ELSE query' = [query EXCEPT !.pc = "done"]
  /\ UNCHANGED <<blackList, updating, building, applied, dnTime>>

Respond ==
  /\ query.pc = "done"
  /\ query' = NoQuery
  /\ UNCHANGED <<blackList, updating, building, applied, myPublicIP, refreshedAt, dnTime>>

DNTick ==
  /\ dnTime < DNMaxTime
  /\ dnTime' = dnTime + 1
  /\ UNCHANGED <<blackList, updating, building, applied, myPublicIP, refreshedAt, query>>

DNNext ==
  \/ UpdateBegins \/ SwapBlackList \/ HandleNameQuery \/ HandleRecursiveQuery \/ Respond \/ DNTick
  \/ \E n \in building.todo : Resolve(n)
  \/ \E t \in {"udp", "tcp"}, c \in Clients, n \in Asked : Receive(t, c, n)

DNSpec == DNInit /\ [][DNNext]_dnVars

-----------------------------------------------------------------------------
(* The list in force comes from one whole download: all its names but the  *)
(* few that the division among goroutines leaves over, nothing else but    *)
(* their addresses, and no name of the white list (UpdateBlackList).       *)
BlackListIsWhole ==
  /\ blackList \subseteq applied \cup UNION {AddressOf[n] : n \in applied}
  /\ Cardinality(applied \ blackList) < FirstRoutines
  /\ Cardinality(applied) >= FirstRoutines => blackList # {}
  /\ applied \cap Whitelist = {}
===============================================================================
