----------------------------- MODULE P2pManager -----------------------------
(***************************************************************************)
(* Wi-Fi Direct: the search for sinks (discover_sinks), the choice of one, *)
(* and the forming of a group with it (resolve_sink, connect_prepared).    *)
(*                                                                         *)
(* NetworkManager, wpa_supplicant, other devices and other groups are the  *)
(* environment and act between any two awaits.                             *)
(***************************************************************************)
EXTENDS Naturals, Sequences, FiniteSets

CONSTANTS
  Peers,       \* devices that may come into reach
  Sinks,       \* those whose WFD elements say Miracast sink
  None

ASSUME ConstantsAssumption == Sinks \subseteq Peers /\ None \notin Peers

VARIABLES
  \* the radio, NetworkManager and wpa_supplicant
  visible,     \* peers NetworkManager lists
  searching,   \* is the radio searching
  wpa,         \* wpa_supplicant's objects: of the P2P device, its radio, another radio
  active,      \* is our activation there
  up,          \* P2P interfaces: of our group, of another
  role,        \* our role in the group
  address,     \* of each interface
  shared,      \* did NetworkManager take up our shared configuration
  journal,     \* the group that the last group-start line of the past 5 s names
  \* the program
  pc, strict,
  preferred, spelled,  \* the sink asked for, and whether it is spelled as it is listed
  found,       \* peers announced during the search
  todo,        \* peers listed and not yet read
  sinks,       \* what the search returns
  signals,     \* PeerAdded signals not yet received
  watched,     \* the object whose GroupStarted signals we receive, or None
  events,      \* such signals not yet dealt with: at "parse" the first is in hand
  group,       \* GroupStartedInfo
  result,      \* the P2pConnection
  steady,      \* peers listed without a break since the search began, and readable at its
               \* end (history)
  unread       \* was the signal of a group that is up dropped as unreadable (history)

radio   == <<visible, searching, wpa, active, up, role, address, shared, journal>>
search  == <<found, todo, sinks, signals>>
forming == <<watched, events, group, result>>
history == <<steady, unread>>
vars    == <<radio, pc, strict, preferred, spelled, search, forming, history>>

---------------------------------------------------------------------------
Objects    == {"p2p-dev", "radio", "elsewhere"}
Interfaces == {"own", "other"}
Roles      == {"client", "GO"}

\* An address is of the group of one interface: one the other side handed out or a
\* shared configuration's default, or the one we ask for as group owner; ".1" is the
\* group owner's address as it is derived from a client's.
Hosts     == {"lease", "default", "expected", ".1"}
Address   == [net : Interfaces, host : Hosts]
At(i, h)  == [net |-> i, host |-> h]
Group     == [interface : Interfaces, role : Roles, go : Address \cup {None}]

ASSUME NoneAssumption == None \notin Objects \cup Interfaces \cup Address \cup Group

Searching == {"find", "subscribe", "search", "polling", "collect", "stop"}
Forming   == {"watch", "activate", "event", "parse", "journal", "prepare", "reapply", "expect",
              "address", "lookup"}
Points    == Searching \cup Forming \cup {"found", "connected", "failed"}

TypeOK ==
  /\ visible \subseteq Peers /\ searching \in BOOLEAN /\ wpa \subseteq Objects
  /\ active \in BOOLEAN /\ up \subseteq Interfaces /\ role \in Roles
  /\ address \in [Interfaces -> Address \cup {None}] /\ shared \in BOOLEAN
  /\ journal \in Interfaces \cup {None}
  /\ pc \in Points /\ strict \in BOOLEAN /\ preferred \in Peers \cup {None} /\ spelled \in BOOLEAN
  /\ found \subseteq Peers /\ todo \subseteq Peers /\ sinks \subseteq Sinks
  /\ signals \subseteq Peers
  /\ watched \in Objects \cup {None} /\ events \in Seq(Interfaces)
  /\ group \in Group \cup {None}
  /\ result \in [interface : Interfaces \cup {"radio"}, ip : Address, go : Address \cup {None}] \cup {None}
  /\ steady \subseteq Peers /\ unread \in BOOLEAN

Init ==
  /\ visible \in SUBSET Peers /\ searching = FALSE
  /\ wpa \in SUBSET Objects /\ active = FALSE /\ up \in SUBSET {"other"} /\ role \in Roles
  /\ address = [i \in Interfaces |-> IF i \in up THEN At(i, "lease") ELSE None]
  /\ shared = FALSE /\ journal = None
  /\ pc = "find" /\ strict \in BOOLEAN
  /\ preferred \in Peers \cup {None} /\ spelled \in {TRUE, preferred = None}
  /\ found = {} /\ todo = {} /\ sinks = {} /\ signals = {}
  /\ watched = None /\ events = <<>> /\ group = None /\ result = None
  /\ steady = visible /\ unread = FALSE

Goto(point) == pc' = point
Given       == UNCHANGED <<strict, preferred, spelled>>

---------------------------------------------------------------------------
\* The search

StartFind ==
  /\ pc = "find"
  /\ searching' = TRUE
  /\ Goto("subscribe")
  /\ Given /\ UNCHANGED <<visible, wpa, active, up, role, address, shared, journal, search,
                          forming, history>>

\* From here on peers are announced to us.
Subscribe ==
  /\ pc = "subscribe"
  /\ Goto("search")
  /\ Given /\ UNCHANGED <<radio, search, forming, history>>

\* What the search has gathered goes with it.
SearchOver == found' = {} /\ todo' = {} /\ sinks' = {} /\ signals' = {} /\ steady' = {}

\* A call of the search fails, as the read of a peer's address does when the peer has
\* gone since it was listed or announced: the error is returned as it is.
SearchFails ==
  /\ pc \in Searching
  /\ Goto("failed") /\ SearchOver
  /\ Given /\ UNCHANGED <<radio, forming, unread>>

\* peer_to_sink.  A failed read of the WFD elements or of the name is swallowed: the
\* peer then passes for no sink at all, or for one of another name.
Match(p) == p \in Sinks /\ p = preferred

\* A PeerAdded signal; with a preferred sink the peer is looked at there and then.
PeerSignal(p) ==
  /\ pc = "search" /\ p \in signals /\ (preferred = None \/ p \in visible)
  /\ signals' = signals \ {p}
  /\ found' = found \cup {p}
  /\ \/ Match(p) /\ Goto("stop") /\ sinks' = {p}
     \/ UNCHANGED <<pc, sinks>>
  /\ Given /\ UNCHANGED <<radio, todo, forming, history>>

\* Every 500 ms, with a preferred sink: list the peers, then read them one by one.
Poll ==
  /\ pc = "search" /\ preferred # None
  /\ todo' = visible
  /\ Goto("polling")
  /\ Given /\ UNCHANGED <<radio, found, sinks, signals, forming, history>>

ReadPolled(p) ==
  /\ pc = "polling" /\ p \in todo \cap visible
  /\ \/ Match(p) /\ Goto("stop") /\ sinks' = {p} /\ todo' = {}
     \/ todo' = todo \ {p} /\ UNCHANGED <<pc, sinks>>
  /\ Given /\ UNCHANGED <<radio, found, signals, forming, history>>

PollEnds ==
  /\ pc = "polling" /\ todo = {}
  /\ Goto("search")
  /\ Given /\ UNCHANGED <<radio, search, forming, history>>

\* Mutant: only the peers that were announced are read.
TimeoutAnnounced ==
  /\ pc = "search"
  /\ todo' = found
  /\ Goto("collect")
  /\ Given /\ UNCHANGED <<radio, found, sinks, signals, forming, history>>

\* The time is up: read the peers announced and those listed now.
Timeout ==
  /\ pc = "search"
  /\ todo' = found \cup visible
  /\ Goto("collect")
  /\ Given /\ UNCHANGED <<radio, found, sinks, signals, forming, history>>

Collect(p) ==
  /\ pc = "collect" /\ p \in todo \cap visible
  /\ todo' = todo \ {p}
  /\ \/ /\ sinks' = sinks \cup ({p} \cap Sinks)
        \* without its name it is not the one that was asked for by name
        /\ spelled' \in {spelled, spelled /\ p # preferred}
        /\ UNCHANGED steady
     \/ steady' = steady \ {p} /\ UNCHANGED <<sinks, spelled>>
  /\ UNCHANGED <<strict, preferred, radio, pc, found, signals, forming, unread>>

StopFind ==
  /\ pc = "stop" \/ (pc = "collect" /\ todo = {})
  /\ searching' = FALSE
  /\ Goto("found")
  /\ Given /\ UNCHANGED <<visible, wpa, active, up, role, address, shared, journal, search,
                          forming, history>>

---------------------------------------------------------------------------
\* The group

\* The search compares MAC addresses whatever their case, the daemon does not.
Choosable(p) == p \in sinks /\ (preferred = None \/ (p = preferred /\ spelled))

NoneChosen ==
  /\ pc = "found" /\ \A p \in Peers : ~Choosable(p)
  /\ Goto("failed") /\ SearchOver
  /\ Given /\ UNCHANGED <<radio, forming, unread>>

\* The daemon takes a sink that was found; the helper's resolve_sink looks it up anew
\* among the peers that are listed now, and may not find it or fail to read it.
Resolve(p) ==
  /\ pc = "found" /\ Choosable(p)
  /\ (p \in visible /\ Goto("watch")) \/ Goto("failed")
  /\ SearchOver
  /\ Given /\ UNCHANGED <<radio, forming, unread>>

\* Mutant: any P2P device will do.
AnyDevice == IF wpa = {} THEN None ELSE CHOOSE o \in wpa : TRUE

\* find_wpa_p2p_device_path: the dedicated object, or the radio's own, never one of
\* another radio.
WpaDevice ==
  IF "p2p-dev" \in wpa THEN "p2p-dev" ELSE IF "radio" \in wpa THEN "radio" ELSE None

\* The subscription comes before the activation.
Watch ==
  /\ pc = "watch"
  /\ IF WpaDevice = None /\ strict THEN Goto("failed") ELSE Goto("activate")
  /\ watched' = WpaDevice
  /\ Given /\ UNCHANGED <<radio, search, events, group, result, history>>

\* Mutant: the subscription follows the activation, and the group can be faster.
ActivateFirst ==
  /\ pc = "activate"
  /\ active' = TRUE
  /\ \/ up' = up \cup {"own"} /\ journal' = "own"
     \/ UNCHANGED <<up, journal>>
  /\ Goto(IF watched = None THEN "journal" ELSE "event")
  /\ Given /\ UNCHANGED <<visible, searching, wpa, role, address, shared, search, forming, history>>

\* add_and_activate_connection2 with ipv4.method=auto, bound to our bus connection.
Activate ==
  /\ pc = "activate"
  /\ active' = TRUE
  /\ Goto(IF watched = None THEN "journal" ELSE "event")
  /\ Given /\ UNCHANGED <<visible, searching, wpa, up, role, address, shared, journal, search,
                          forming, history>>

\* The next signal is in hand, and its group's name is read from wpa_supplicant.
TakeEvent ==
  /\ pc = "event" /\ events # <<>>
  /\ Goto("parse")
  /\ Given /\ UNCHANGED <<radio, search, forming, history>>

\* parse_group_started_properties.
ParseEvent ==
  /\ pc = "parse" /\ Head(events) \in up
  /\ events' = Tail(events)
  /\ group' = [interface |-> Head(events), role |-> role, go |-> None]
  /\ Goto("prepare")
  /\ Given /\ UNCHANGED <<radio, search, watched, result, history>>

\* A key is missing or the read fails, as it does of an interface that has gone: the
\* signal is dropped, and we wait for another.
ParseFails ==
  /\ pc = "parse"
  /\ events' = Tail(events)
  /\ unread' = (unread \/ Head(events) \in up)
  /\ Goto("event")
  /\ Given /\ UNCHANGED <<radio, search, watched, group, result, steady>>

\* The 45 s are over, or the stream of signals ends, whatever is queued or in hand.
EventTimeout ==
  /\ pc = "event" \/ pc = "parse"
  /\ Goto(IF strict THEN "failed" ELSE "address")
  /\ Given /\ UNCHANGED <<radio, search, forming, history>>

\* Without wpa_supplicant's signals: the last group-start line of the journal, which
\* may be of any group; or 45 s without one.
ReadJournal ==
  /\ pc = "journal"
  /\ \/ /\ journal # None
        /\ \E r \in IF journal = "own" THEN {role} ELSE Roles :
             \E go \in {None} \cup (IF r = "GO" THEN {} ELSE {At(journal, ".1")}) :
               group' = [interface |-> journal, role |-> r, go |-> go]
        /\ Goto("prepare")
     \/ UNCHANGED group /\ Goto("address")
  /\ Given /\ UNCHANGED <<radio, search, watched, events, result, history>>

\* The caller's preparation (with the helper: claim the interface, load the first
\* rules) succeeds or fails.
Prepare ==
  /\ pc = "prepare"
  /\ Goto(IF group.role = "GO" THEN "reapply" ELSE "address") \/ (strict /\ Goto("failed"))
  /\ Given /\ UNCHANGED <<radio, search, forming, history>>

\* reapply with ipv4.method=shared; its failure is only logged.
Reapply ==
  /\ pc = "reapply"
  /\ shared' \in {shared, TRUE}
  /\ Goto("expect")
  /\ Given /\ UNCHANGED <<visible, searching, wpa, active, up, role, address, journal, search,
                          forming, history>>

\* Mutant: any address will do.
ExpectAny ==
  /\ pc = "expect"
  /\ address[group.interface] # None
  /\ Goto("address")
  /\ Given /\ UNCHANGED <<radio, search, forming, history>>

\* wait_for_expected_address: 40 polls of the interface, for the address asked for.
Expect ==
  /\ pc = "expect"
  /\ address[group.interface] # None /\ address[group.interface].host = "expected"
  /\ Goto("address")
  /\ Given /\ UNCHANGED <<radio, search, forming, history>>

\* The group owner's address: our own, the one announced, or .1 of our network.
GoOf(ip) ==
  IF group = None THEN At(ip.net, ".1")
  ELSE IF group.role = "GO" THEN ip
  ELSE IF group.go # None THEN group.go ELSE At(ip.net, ".1")

\* find_p2p_interface_address: of the interface of the group, when it is known.
Ready ==
  {i \in up : address[i] # None /\ (group # None => i = group.interface)}

WaitAddress ==
  /\ pc = "address"
  /\ \E i \in Ready :
       result' = [interface |-> i, ip |-> address[i], go |-> GoOf(address[i])]
  /\ Goto("connected")
  /\ Given /\ UNCHANGED <<radio, search, watched, events, group, history>>

\* 40 polls without an address: strict fails here, for there is none on the group's
\* interface; the other way asks NetworkManager.
NoAddress ==
  /\ pc = "address"
  /\ Goto(IF strict THEN "failed" ELSE "lookup")
  /\ Given /\ UNCHANGED <<radio, search, forming, history>>

\* get_ip_from_active_connection, get_device_ip_address.
Lookup ==
  /\ pc = "lookup" /\ active /\ address["own"] # None
  /\ result' = [interface |-> IF group = None THEN "radio" ELSE group.interface,
                ip |-> address["own"], go |-> GoOf(address["own"])]
  /\ Goto("connected")
  /\ Given /\ UNCHANGED <<radio, search, watched, events, group, history>>

\* A call fails, or the last poll.
FormingFails ==
  /\ pc \in {"watch", "activate", "expect", "lookup"}
  /\ Goto("failed")
  /\ Given /\ UNCHANGED <<radio, search, forming, history>>

\* The bus connection is dropped with the manager, and the activation with it.
Release ==
  /\ pc = "failed" /\ active
  /\ active' = FALSE /\ up' = up \ {"own"} /\ address' = [address EXCEPT !["own"] = None]
  /\ Given /\ UNCHANGED <<visible, searching, wpa, role, shared, journal, pc, search, forming,
                          history>>

---------------------------------------------------------------------------
\* The environment

\* Peers are found while the radio searches, and lost at any time.
PeerAppears(p) ==
  /\ pc \in Searching /\ searching /\ p \notin visible
  /\ visible' = visible \cup {p}
  /\ signals' = IF pc \in {"find", "subscribe"} THEN signals ELSE signals \cup {p}
  /\ Given /\ UNCHANGED <<searching, wpa, active, up, role, address, shared, journal, pc,
                          found, todo, sinks, forming, history>>

PeerVanishes(p) ==
  /\ pc \in Searching \cup {"found"} /\ p \in visible
  /\ visible' = visible \ {p}
  /\ steady' = steady \ {p}
  /\ Given /\ UNCHANGED <<searching, wpa, active, up, role, address, shared, journal, pc,
                          search, forming, unread>>

\* wpa_supplicant signals a group on the object of the device that formed it.
Signals(object, i) ==
  events' = IF watched = object THEN Append(events, i) ELSE events

GroupForms ==
  /\ active /\ "own" \notin up
  /\ up' = up \cup {"own"} /\ journal' = "own"
  /\ \E o \in (wpa \ {"elsewhere"}) \cup {None} :
       /\ (o = None) = (wpa \cap {"p2p-dev", "radio"} = {})
       /\ o = "radio" => "p2p-dev" \notin wpa
       /\ Signals(o, "own")
  /\ Given /\ UNCHANGED <<visible, searching, wpa, active, role, address, shared, pc, search,
                          watched, group, result, history>>

\* Another program's group, on another radio.
OtherForms ==
  /\ pc \in Forming /\ "other" \notin up
  /\ up' = up \cup {"other"} /\ journal' = "other"
  /\ address' = [address EXCEPT !["other"] = At("other", "lease")]
  /\ IF "elsewhere" \in wpa THEN Signals("elsewhere", "other") ELSE UNCHANGED events
  /\ Given /\ UNCHANGED <<visible, searching, wpa, active, role, shared, pc, search,
                          watched, group, result, history>>

\* A client is handed an address; a group owner has the one of the shared
\* configuration, after NetworkManager's own default for a while.
Addressed ==
  /\ "own" \in up
  /\ \/ role = "client" /\ address["own"] = None
        /\ address' = [address EXCEPT !["own"] = At("own", "lease")]
     \/ role = "GO" /\ shared
        /\ \/ address["own"] = None /\ address' = [address EXCEPT !["own"] = At("own", "default")]
           \/ address["own"] \in {None, At("own", "default")}
              /\ address' = [address EXCEPT !["own"] = At("own", "expected")]
  /\ Given /\ UNCHANGED <<visible, searching, wpa, active, up, role, shared, journal, pc,
                          search, forming, history>>

\* The TV leaves the group.
GroupEnds(i) ==
  /\ pc \in Forming /\ i \in up
  /\ up' = up \ {i} /\ address' = [address EXCEPT ![i] = None]
  /\ active' = (active /\ i # "own")
  /\ Given /\ UNCHANGED <<visible, searching, wpa, role, shared, journal, pc, search, forming,
                          history>>

JournalAges ==
  /\ pc \in Forming /\ journal # None
  /\ journal' = None
  /\ Given /\ UNCHANGED <<visible, searching, wpa, active, up, role, address, shared, pc,
                          search, forming, history>>

---------------------------------------------------------------------------
Search ==
  \/ StartFind \/ Subscribe \/ SearchFails \/ Poll \/ PollEnds \/ Timeout \/ StopFind \/ NoneChosen
  \/ \E p \in Peers : PeerSignal(p) \/ ReadPolled(p) \/ Collect(p) \/ Resolve(p)

Form ==
  \/ Watch \/ Activate \/ TakeEvent \/ ParseEvent \/ ParseFails \/ EventTimeout \/ ReadJournal
  \/ Prepare \/ Reapply \/ Expect \/ WaitAddress \/ NoAddress \/ Lookup \/ FormingFails \/ Release

Environment ==
  \/ \E p \in Peers : PeerAppears(p) \/ PeerVanishes(p)
  \/ GroupForms \/ OtherForms \/ Addressed \/ JournalAges
  \/ \E i \in Interfaces : GroupEnds(i)

Next == Search \/ Form \/ Environment

Spec == Init /\ [][Next]_vars

---------------------------------------------------------------------------
\* Properties

\* A search that returns has stopped the radio and missed no sink: it returns the
\* preferred one if that was in reach all the time, or else all that were.  Only an
\* error keeps a sink back, of the search or, swallowed, of the last read of that peer.
SearchCompletes ==
  pc = "found" =>
    /\ ~searching
    /\ preferred \in steady \cap Sinks => preferred \in sinks
    /\ preferred \notin sinks => steady \cap Sinks \subseteq sinks

\* A group of ours that forms while we wait is signalled to us, however soon after the
\* activation it forms: its signal is queued or in hand, or could not be read.  So a
\* wait given up with the group up was cut short at the deadline or had a failed read.
GroupStartSeen ==
  pc \in {"event", "parse"} /\ "own" \in up => events # <<>> \/ unread

\* What the helper is told, and what is connected to, is all of the group that was
\* formed for this session, whatever groups of other radios come and go meanwhile.  (A
\* group of another program on our own radio would be taken for ours.)
ConnectsOwnGroup ==
  strict /\ result # None =>
    result.interface = "own" /\ result.ip.net = "own" /\ result.go.net = "own"

\* As group owner the session starts with the address it asked for, and names itself
\* as the group owner.
OwnerHasExpectedAddress ==
  result # None /\ group # None /\ group.interface = "own" /\ role = "GO" =>
    result.ip = At("own", "expected") /\ result.go = result.ip

\* docs/networking.md:14: "--sink <name-or-MAC>": the sink that the search was ended
\* for is the one that is connected to.  No run checks this: it does not hold (README,
\* section 5).
PreferredIsTaken ==
  [][ pc = "found" /\ preferred \in sinks => pc' # "failed" \/ preferred \notin visible ]_vars

---------------------------------------------------------------------------
\* The inductive invariant of the proofs

\* What we listen to signals our own groups only.
ListensToOwn ==
  /\ watched # "elsewhere"
  /\ \A k \in DOMAIN events : events[k] = "own"
  /\ pc = "parse" => events # <<>>
  /\ strict /\ pc \in {"activate", "event", "parse"} => watched # None

\* What is known of the group, and how it came to be known.
KnowsGroup ==
  /\ pc \in Searching \cup {"found", "watch", "activate", "event", "parse", "journal"} =>
       group = None
  /\ pc \in {"journal", "lookup"} => ~strict
  /\ group # None /\ group.interface = "own" => group.role = role
  /\ strict /\ group # None => group.interface = "own" /\ group.go = None
  /\ strict /\ pc \in {"prepare", "reapply", "expect", "address", "connected"} => group # None
  /\ pc \in {"prepare", "reapply", "expect"} => group # None
  /\ pc \in {"reapply", "expect"} => group.role = "GO"

\* From the moment on that the address asked for was seen, it is there or the group
\* has gone for good.
OwnsGroup == group # None /\ group.interface = "own" /\ role = "GO"
AddressSeen ==
  /\ \A i \in Interfaces : address[i] # None => address[i].net = i
  /\ pc \in {"address", "lookup"} /\ OwnsGroup =>
       \/ address["own"] = At("own", "expected")
       \/ address["own"] = None /\ ~active /\ "own" \notin up
  /\ result # None => pc = "connected"

IInv ==
  TypeOK /\ ListensToOwn /\ KnowsGroup /\ AddressSeen /\ ConnectsOwnGroup /\ OwnerHasExpectedAddress

\* Nothing that was in reach all along is lost on the way into the result.
Searched ==
  /\ steady \subseteq visible
  /\ pc = "found" => ~searching
  /\ pc \in {"find", "subscribe", "search", "polling"} => sinks = {}
  /\ pc = "stop" => sinks = {preferred}
  /\ pc = "collect" => steady \cap Sinks \subseteq todo \cup sinks
  /\ SearchCompletes

\* We listen to the object that will signal our group, from before there is one.
Listening ==
  /\ pc \in Searching \cup {"found", "watch", "activate"} => ~active /\ "own" \notin up
  /\ pc \in {"activate", "event", "parse", "journal"} => watched = WpaDevice
  /\ pc \in {"event", "parse"} => watched # None
  /\ GroupStartSeen

IInvWhole == IInv /\ Searched /\ Listening
=============================================================================
