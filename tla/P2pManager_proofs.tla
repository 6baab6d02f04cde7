------------------------- MODULE P2pManager_proofs -------------------------
(***************************************************************************)
(* Proofs about P2pManager, for any peers, in reach or not, in any order.  *)
(***************************************************************************)
EXTENDS P2pManager, TLAPS

USE ConstantsAssumption, NoneAssumption

\* The invariant holds initially: nothing is known of any group.
LEMMA InitInv == Init => IInv
<1> SUFFICES ASSUME Init PROVE IInv
  OBVIOUS
<1>1. TypeOK
  <2>1. address \in [Interfaces -> Address \cup {None}]
    BY DEF Init, At, Address, Hosts, Interfaces
  <2>2. pc \in Points /\ up \subseteq Interfaces
    BY DEF Init, Points, Searching, Interfaces
  <2>3. events \in Seq(Interfaces)
    BY DEF Init
  <2>4. visible \subseteq Peers /\ wpa \subseteq Objects /\ steady \subseteq Peers /\ unread \in BOOLEAN
    BY DEF Init
  <2>5. found \subseteq Peers /\ todo \subseteq Peers /\ sinks \subseteq Sinks
    BY DEF Init
  <2>6. signals \subseteq Peers
    BY DEF Init
  <2>7. /\ watched \in Objects \cup {None} /\ group \in Group \cup {None}
        /\ result \in [interface : Interfaces \cup {"radio"}, ip : Address, go : Address \cup {None}] \cup {None}
    BY DEF Init
  <2>8. /\ journal \in Interfaces \cup {None} /\ preferred \in Peers \cup {None}
        /\ searching \in BOOLEAN /\ active \in BOOLEAN /\ shared \in BOOLEAN
        /\ strict \in BOOLEAN /\ spelled \in BOOLEAN /\ role \in Roles
    BY DEF Init
  <2> QED BY <2>1, <2>2, <2>3, <2>4, <2>5, <2>6, <2>7, <2>8 DEF TypeOK
<1>2. ListensToOwn /\ KnowsGroup
  BY DEF Init, ListensToOwn, KnowsGroup, Searching, Objects
<1>3. AddressSeen /\ ConnectsOwnGroup /\ OwnerHasExpectedAddress
  BY DEF Init, AddressSeen, ConnectsOwnGroup, OwnerHasExpectedAddress, OwnsGroup, Interfaces, At
<1> QED BY <1>1, <1>2, <1>3 DEF IInv

\* What the search leaves alone.
LEMMA SearchFrame ==
  ASSUME IInv, Search
  PROVE  /\ UNCHANGED <<wpa, active, up, role, address, shared, journal, strict, preferred,
                        watched, events, group, result, unread>>
         /\ pc \in Searching \cup {"found"}
         /\ pc' \in Searching \cup {"found", "watch", "failed"}
BY DEF Search, StartFind, Subscribe, SearchFails, Poll, PollEnds, Timeout, StopFind, NoneChosen,
       PeerSignal, ReadPolled, Collect, Resolve, Goto, SearchOver, Given, radio, search, forming,
       history, Searching

\* A step of the search keeps the invariant.
LEMMA SearchInv == ASSUME IInv, Search PROVE IInv'
<1> USE SearchFrame
<1>1. TypeOK'
  <2> USE DEF IInv, TypeOK
  <2>1. pc' \in Points
    BY DEF Points, Searching, Forming
  <2>2. visible' \subseteq Peers /\ searching' \in BOOLEAN /\ steady' \subseteq Peers
    BY DEF Search, StartFind, Subscribe, SearchFails, Poll, PollEnds, Timeout, StopFind, NoneChosen,
           PeerSignal, ReadPolled, Collect, Resolve, SearchOver, radio, history
  <2>6. spelled' \in BOOLEAN
    BY DEF Search, StartFind, Subscribe, SearchFails, Poll, PollEnds, Timeout, StopFind, NoneChosen,
           PeerSignal, ReadPolled, Collect, Resolve, Given
  <2>3. found' \subseteq Peers /\ todo' \subseteq Peers
    BY DEF Search, StartFind, Subscribe, SearchFails, Poll, PollEnds, Timeout, StopFind, NoneChosen,
           PeerSignal, ReadPolled, Collect, Resolve, SearchOver, search
  <2>4. sinks' \subseteq Sinks
    BY DEF Search, StartFind, Subscribe, SearchFails, Poll, PollEnds, Timeout, StopFind, NoneChosen,
           PeerSignal, ReadPolled, Collect, Resolve, SearchOver, search, Match
  <2>5. signals' \subseteq Peers
    BY DEF Search, StartFind, Subscribe, SearchFails, Poll, PollEnds, Timeout, StopFind, NoneChosen,
           PeerSignal, ReadPolled, Collect, Resolve, SearchOver, search
  <2> QED BY <2>1, <2>2, <2>3, <2>4, <2>5, <2>6
<1>2. ListensToOwn' /\ KnowsGroup'
  BY DEF IInv, ListensToOwn, KnowsGroup, Searching
<1>3. AddressSeen' /\ ConnectsOwnGroup' /\ OwnerHasExpectedAddress'
  BY DEF IInv, AddressSeen, ConnectsOwnGroup, OwnerHasExpectedAddress, OwnsGroup, Searching
<1> QED BY <1>1, <1>2, <1>3 DEF IInv

---------------------------------------------------------------------------
\* What forming a group leaves alone.
LEMMA FormFrame ==
  ASSUME Form
  PROVE  UNCHANGED <<visible, searching, wpa, role, journal, strict, preferred, spelled, search, steady>>
BY DEF Form, Watch, Activate, TakeEvent, ParseEvent, ParseFails, EventTimeout, ReadJournal,
       Prepare, Reapply, Expect,
       WaitAddress, NoAddress, Lookup, FormingFails, Release, Given, radio, history

\* The device listened to is an object of ours.
LEMMA DeviceType == WpaDevice \in {"p2p-dev", "radio"} \cup {None}
BY DEF WpaDevice

\* A group that was signalled or read is a group.
LEMMA GroupType ==
  ASSUME TypeOK, pc = "parse" => events # <<>>, ParseEvent \/ ReadJournal
  PROVE  group' \in Group \cup {None}
<1>1. CASE ParseEvent
  <2>1. Head(events) \in Interfaces
    BY <1>1 DEF ParseEvent, TypeOK
  <2> QED BY <1>1, <2>1 DEF ParseEvent, Group, TypeOK
<1>2. CASE ReadJournal
  <2>1. CASE group' = group
    BY <2>1 DEF TypeOK
  <2>2. CASE group' # group
    <3>1. journal \in Interfaces
      BY <1>2, <2>2 DEF ReadJournal, TypeOK
    <3>2. PICK r \in Roles, go \in {None, At(journal, ".1")} :
            group' = [interface |-> journal, role |-> r, go |-> go]
      BY <1>2, <2>2 DEF ReadJournal, TypeOK
    <3>3. go \in Address \cup {None}
      BY <3>1, <3>2 DEF At, Address, Hosts
    <3> QED BY <3>1, <3>2, <3>3 DEF Group
  <2> QED BY <2>1, <2>2
<1> QED BY <1>1, <1>2

\* What is connected to has the type of a connection.
LEMMA ResultType ==
  ASSUME TypeOK, WaitAddress \/ Lookup, pc \in {"address", "lookup"}
  PROVE  result' \in [interface : Interfaces \cup {"radio"}, ip : Address, go : Address \cup {None}] \cup {None}
<1>1. ASSUME NEW ip \in Address PROVE GoOf(ip) \in Address \cup {None}
  BY <1>1 DEF GoOf, TypeOK, Group, Address, Hosts, At
<1>2. CASE WaitAddress
  <2>1. PICK i \in Ready : result' = [interface |-> i, ip |-> address[i], go |-> GoOf(address[i])]
    BY <1>2 DEF WaitAddress
  <2>2. i \in Interfaces /\ address[i] \in Address
    BY <2>1 DEF Ready, TypeOK
  <2> QED BY <1>1, <2>1, <2>2
<1>3. CASE Lookup
  <2>1. address["own"] \in Address
    BY <1>3 DEF Lookup, TypeOK, Interfaces
  <2>2. (IF group = None THEN "radio" ELSE group.interface) \in Interfaces \cup {"radio"}
    BY DEF TypeOK, Group
  <2> QED BY <1>1, <1>3, <2>1, <2>2 DEF Lookup
<1> QED BY <1>2, <1>3

\* A step that forms the group keeps the types.
LEMMA FormType == ASSUME TypeOK, pc = "parse" => events # <<>>, Form PROVE TypeOK'
<1> USE FormFrame
<1>1. pc' \in Points
  BY DEF TypeOK, Points, Searching, Forming, Goto, Form, Watch, Activate, TakeEvent, ParseEvent,
         ParseFails, EventTimeout,
         ReadJournal, Prepare, Reapply, Expect, WaitAddress, NoAddress, Lookup, FormingFails,
         Release
<1>2. active' \in BOOLEAN /\ up' \subseteq Interfaces /\ shared' \in BOOLEAN
  BY DEF TypeOK, Form, Watch, Activate, TakeEvent, ParseEvent, ParseFails, EventTimeout,
         ReadJournal, Prepare, Reapply,
         Expect, WaitAddress, NoAddress, Lookup, FormingFails, Release, radio
<1>3. address' \in [Interfaces -> Address \cup {None}]
  BY DEF TypeOK, Form, Watch, Activate, TakeEvent, ParseEvent, ParseFails, EventTimeout,
         ReadJournal, Prepare, Reapply,
         Expect, WaitAddress, NoAddress, Lookup, FormingFails, Release, radio
<1>4. watched' \in Objects \cup {None}
  BY DeviceType DEF TypeOK, Objects, Form, Watch, Activate, TakeEvent, ParseEvent, ParseFails,
         EventTimeout, ReadJournal,
         Prepare, Reapply, Expect, WaitAddress, NoAddress, Lookup, FormingFails, Release, forming
<1>5. events' \in Seq(Interfaces)
  <2>1. CASE ParseEvent \/ ParseFails
    BY <2>1 DEF TypeOK, ParseEvent, ParseFails
  <2>2. CASE events' = events
    BY <2>2 DEF TypeOK
  <2> QED
    BY <2>1, <2>2
    DEF Form, Watch, Activate, TakeEvent, EventTimeout, ReadJournal, Prepare, Reapply, Expect,
        WaitAddress,
        NoAddress, Lookup, FormingFails, Release, forming
<1>6. group' \in Group \cup {None}
  BY GroupType DEF TypeOK, Form, Watch, Activate, TakeEvent, ParseFails, EventTimeout, Prepare,
         Reapply,
         Expect, WaitAddress, NoAddress, Lookup, FormingFails, Release, forming
<1>7. result' \in [interface : Interfaces \cup {"radio"}, ip : Address, go : Address \cup {None}] \cup {None}
  BY ResultType DEF TypeOK, Form, Watch, Activate, TakeEvent, ParseEvent, ParseFails,
         EventTimeout, ReadJournal, Prepare,
         Reapply, Expect, WaitAddress, NoAddress, Lookup, FormingFails, Release, forming
<1>8. unread' \in BOOLEAN
  BY DEF TypeOK, Form, Watch, Activate, TakeEvent, ParseEvent, ParseFails, EventTimeout,
         ReadJournal,
         Prepare, Reapply, Expect, WaitAddress, NoAddress, Lookup, FormingFails, Release, history
<1> QED BY <1>1, <1>2, <1>3, <1>4, <1>5, <1>6, <1>7, <1>8 DEF TypeOK, search

\* The device listened to is never of another radio, and strict goes on only with one.
LEMMA FormListens == ASSUME IInv, Form PROVE ListensToOwn'
<1> USE FormFrame DEF IInv, ListensToOwn
<1>1. CASE Watch
  BY <1>1, DeviceType DEF Watch, Goto, Objects
<1>2. CASE ParseEvent \/ ParseFails
  <2>1. events' = Tail(events) /\ events # <<>> /\ events \in Seq(Interfaces)
    BY <1>2 DEF ParseEvent, ParseFails, TypeOK
  <2>2. \A k \in DOMAIN events' : events'[k] = "own"
    BY <2>1
  <2>3. watched' = watched /\ pc' \in {"prepare", "event"} /\ pc = "parse"
    BY <1>2 DEF ParseEvent, ParseFails, Goto
  <2> QED BY <2>2, <2>3
<1>3. CASE TakeEvent
  BY <1>3 DEF TakeEvent, forming, Goto
<1>4. CASE ~Watch /\ ~TakeEvent /\ ~ParseEvent /\ ~ParseFails
  <2>1. watched' = watched /\ events' = events
    BY <1>4 DEF Form, Activate, EventTimeout, ReadJournal, Prepare, Reapply, Expect, WaitAddress,
                NoAddress, Lookup, FormingFails, Release, forming
  <2>2. pc' # "parse" /\ (pc' \in {"activate", "event"} => pc \in {"activate", "event"})
    BY <1>4 DEF Form, Activate, EventTimeout, ReadJournal, Prepare, Reapply, Expect, WaitAddress,
                NoAddress, Lookup, FormingFails, Release, Goto
  <2> QED BY <2>1, <2>2
<1> QED BY <1>1, <1>2, <1>3, <1>4

\* A group is recorded once, and strict only ever records our own.
LEMMA FormKnows == ASSUME IInv, Form PROVE KnowsGroup'
<1> USE FormFrame DEF IInv, KnowsGroup, Goto
<1>1. CASE Watch \/ Activate
  BY <1>1 DEF Watch, Activate, ListensToOwn, forming, Searching
<1>2. CASE ParseEvent
  <2>1. Head(events) = "own"
    BY <1>2 DEF ParseEvent, TypeOK, ListensToOwn
  <2>2. group' = [interface |-> "own", role |-> role, go |-> None] /\ pc' = "prepare"
    BY <1>2, <2>1 DEF ParseEvent
  <2>3. group' # None
    BY <2>2, GroupType, <1>2 DEF Group, Interfaces, TypeOK, ListensToOwn
  <2> QED BY <2>2, <2>3 DEF Searching
<1>7. CASE TakeEvent \/ ParseFails
  BY <1>7 DEF TakeEvent, ParseFails, forming, Searching
<1>3. CASE ReadJournal
  <2>1. ~strict /\ group = None
    BY <1>3 DEF ReadJournal
  <2>2. CASE pc' = "prepare"
    <3>1. PICK r \in Roles, go \in {None, At(journal, ".1")} :
            /\ group' = [interface |-> journal, role |-> r, go |-> go]
            /\ journal = "own" => r = role
      BY <1>3, <2>2 DEF ReadJournal, TypeOK
    <3>2. journal \in Interfaces /\ go \in Address \cup {None}
      BY <1>3, <2>2, <3>1 DEF ReadJournal, TypeOK, At, Address, Hosts
    <3>3. group' # None
      BY <3>1, <3>2 DEF Group
    <3> QED BY <2>1, <2>2, <3>1, <3>3 DEF Searching
  <2>3. CASE pc' # "prepare"
    BY <1>3, <2>1, <2>3 DEF ReadJournal, Searching
  <2> QED BY <2>2, <2>3
<1>4. CASE EventTimeout
  BY <1>4 DEF EventTimeout, forming, Searching
<1>5. CASE Prepare \/ Reapply \/ Expect
  <2>1. group' = group /\ group # None /\ pc \in {"prepare", "reapply", "expect"}
    BY <1>5 DEF Prepare, Reapply, Expect, forming
  <2>2. /\ pc' \in {"reapply", "expect", "address", "failed"}
        /\ pc' \in {"reapply", "expect"} => group.role = "GO"
    BY <1>5 DEF Prepare, Reapply, Expect
  <2> QED BY <2>1, <2>2 DEF Searching
<1>6. CASE WaitAddress \/ NoAddress \/ Lookup \/ FormingFails \/ Release
  BY <1>6 DEF WaitAddress, NoAddress, Lookup, FormingFails, Release, forming, Searching
<1> QED BY <1>1, <1>2, <1>3, <1>4, <1>5, <1>6, <1>7 DEF Form

\* As group owner the address step is reached only by seeing the address asked for.
LEMMA FormSees == ASSUME IInv, Form PROVE AddressSeen'
<1> USE FormFrame DEF IInv, AddressSeen, OwnsGroup, Goto
<1>1. CASE Watch \/ Activate \/ TakeEvent \/ ParseEvent \/ ParseFails \/ EventTimeout \/ ReadJournal
  BY <1>1 DEF Watch, Activate, TakeEvent, ParseEvent, ParseFails, EventTimeout, ReadJournal, radio,
             forming, KnowsGroup
<1>2. CASE Prepare \/ Reapply
  BY <1>2 DEF Prepare, Reapply, radio, forming, KnowsGroup
<1>3. CASE Expect
  <2>1. UNCHANGED <<address, active, up, group, role, result>> /\ pc' = "address" /\ pc = "expect"
    BY <1>3 DEF Expect, radio, forming
  <2>2. CASE OwnsGroup
    <3>1. address["own"] # None /\ address["own"].host = "expected" /\ address["own"].net = "own"
      BY <1>3, <2>2 DEF Expect, Interfaces
    <3>2. address["own"] \in Address
      BY <3>1 DEF TypeOK, Interfaces
    <3>3. address["own"] = At("own", "expected")
      BY <3>1, <3>2 DEF Address, At
    <3> QED BY <2>1, <3>3
  <2>3. CASE ~OwnsGroup
    BY <2>1, <2>3
  <2> QED BY <2>2, <2>3
<1>4. CASE WaitAddress \/ NoAddress \/ Lookup \/ FormingFails
  BY <1>4 DEF WaitAddress, NoAddress, Lookup, FormingFails, radio, forming
<1>5. CASE Release
  BY <1>5 DEF Release, forming, TypeOK, Interfaces
<1> QED BY <1>1, <1>2, <1>3, <1>4, <1>5 DEF Form

\* What is connected to is our own group, with the address it should have.
LEMMA FormConnects == ASSUME IInv, Form PROVE ConnectsOwnGroup' /\ OwnerHasExpectedAddress'
<1> USE FormFrame DEF IInv, ConnectsOwnGroup, OwnerHasExpectedAddress
<1>1. CASE WaitAddress
  <2>1. PICK i \in Ready : result' = [interface |-> i, ip |-> address[i], go |-> GoOf(address[i])]
    BY <1>1 DEF WaitAddress
  <2>2. i \in Interfaces /\ i \in up /\ address[i] \in Address /\ address[i].net = i
    BY <2>1 DEF Ready, TypeOK, AddressSeen
  <2>3. group # None => i = group.interface
    BY <2>1 DEF Ready
  <2>4. pc = "address" /\ group' = group
    BY <1>1 DEF WaitAddress
  <2>5. GoOf(address[i]) = IF group # None /\ group.role = "GO" THEN address[i]
                           ELSE IF group # None /\ group.go # None THEN group.go
                           ELSE At(address[i].net, ".1")
    BY DEF GoOf
  <2>6. strict => i = "own" /\ GoOf(address[i]).net = "own"
    BY <2>2, <2>3, <2>4, <2>5 DEF KnowsGroup, At
  <2>7. group # None /\ group.interface = "own" /\ role = "GO" =>
          address[i] = At("own", "expected") /\ GoOf(address[i]) = address[i]
    BY <2>2, <2>3, <2>4, <2>5 DEF KnowsGroup, AddressSeen, OwnsGroup
  <2> QED BY <2>1, <2>2, <2>4, <2>6, <2>7
<1>2. CASE Lookup
  <2>1. ~strict /\ pc = "lookup" /\ address["own"] # None
    BY <1>2 DEF Lookup, KnowsGroup
  <2>2. group # None /\ group.interface = "own" /\ role = "GO" =>
          address["own"] = At("own", "expected") /\ GoOf(address["own"]) = address["own"]
    BY <2>1 DEF GoOf, KnowsGroup, AddressSeen, OwnsGroup
  <2> QED BY <1>2, <2>1, <2>2 DEF Lookup
<1>3. CASE ~WaitAddress /\ ~Lookup
  <2>1. result' = result
    BY <1>3 DEF Form, Watch, Activate, TakeEvent, ParseEvent, ParseFails, EventTimeout,
           ReadJournal, Prepare, Reapply,
                Expect, NoAddress, FormingFails, Release, forming
  <2>2. result # None => group' = group
    BY <1>3 DEF Form, Watch, Activate, TakeEvent, ParseEvent, ParseFails, EventTimeout,
           ReadJournal, Prepare, Reapply,
                Expect, NoAddress, FormingFails, Release, forming, AddressSeen
  <2> QED BY <2>1, <2>2
<1> QED BY <1>1, <1>2, <1>3

---------------------------------------------------------------------------
\* What the environment leaves alone.
LEMMA EnvironmentFrame ==
  ASSUME Environment
  PROVE  UNCHANGED <<pc, searching, wpa, role, shared, strict, preferred, spelled, found, todo,
                     sinks, watched, group, result, unread>>
BY DEF Environment, PeerAppears, PeerVanishes, GroupForms, OtherForms, Addressed, JournalAges,
       GroupEnds, Given, search, forming, history

\* The environment signals to us only groups of the object that we listen to.
LEMMA EnvironmentSignals ==
  ASSUME IInv, Environment
  PROVE  /\ events' \in Seq(Interfaces)
         /\ \A k \in DOMAIN events' : events'[k] = "own"
<1> USE DEF IInv, TypeOK, ListensToOwn
<1>1. CASE GroupForms
  <2>1. events' = events \/ events' = Append(events, "own")
    BY <1>1 DEF GroupForms, Signals
  <2> QED BY <2>1 DEF Interfaces
<1>2. CASE OtherForms
  BY <1>2 DEF OtherForms, Signals
<1>3. CASE events' = events
  BY <1>3
<1> QED
  BY <1>1, <1>2, <1>3
  DEF Environment, PeerAppears, PeerVanishes, Addressed, JournalAges, GroupEnds, forming

\* An event that is queued is there.
LEMMA AppendNonempty ==
  ASSUME NEW s \in Seq(Interfaces), NEW i \in Interfaces
  PROVE  Append(s, i) # <<>>
<1>1. Len(Append(s, i)) = Len(s) + 1 /\ Len(s) \in Nat
  OBVIOUS
<1>2. Len(<<>>) = 0
  OBVIOUS
<1> QED BY <1>1, <1>2

\* It takes no signal away.
LEMMA EnvironmentQueues ==
  ASSUME IInv, Environment
  PROVE  events' = events \/ events' # <<>>
<1> USE AppendNonempty DEF IInv, TypeOK, Interfaces
<1>1. CASE GroupForms
  BY <1>1 DEF GroupForms, Signals
<1>2. CASE OtherForms
  BY <1>2 DEF OtherForms, Signals
<1>3. CASE ~GroupForms /\ ~OtherForms
  BY <1>3 DEF Environment, PeerAppears, PeerVanishes, Addressed, JournalAges, GroupEnds, forming
<1> QED BY <1>1, <1>2, <1>3

\* A step of the environment keeps the invariant.
LEMMA EnvironmentInv == ASSUME IInv, Environment PROVE IInv'
<1> USE EnvironmentFrame
<1>1. TypeOK'
  <2> USE DEF IInv, TypeOK
  <2>1. visible' \subseteq Peers /\ signals' \subseteq Peers /\ steady' \subseteq Peers
    BY DEF Environment, PeerAppears, PeerVanishes, GroupForms, OtherForms, Addressed, JournalAges,
           GroupEnds, search, history
  <2>2. active' \in BOOLEAN /\ up' \subseteq Interfaces /\ journal' \in Interfaces \cup {None}
    BY DEF Environment, PeerAppears, PeerVanishes, GroupForms, OtherForms, Addressed, JournalAges,
           GroupEnds, Interfaces
  <2>3. address' \in [Interfaces -> Address \cup {None}]
    BY DEF Environment, PeerAppears, PeerVanishes, GroupForms, OtherForms, Addressed, JournalAges,
           GroupEnds, At, Address, Hosts, Interfaces
  <2> QED BY <2>1, <2>2, <2>3, EnvironmentSignals
<1>2. ListensToOwn' /\ KnowsGroup'
  BY EnvironmentSignals, EnvironmentQueues DEF IInv, ListensToOwn, KnowsGroup
<1>3. AddressSeen'
  <2> USE DEF IInv, AddressSeen, OwnsGroup
  <2>1. CASE Addressed
    <3>1. At("own", "expected") \notin {None, At("own", "default")}
      BY DEF At, Address, Interfaces, Hosts
    <3>2. pc \in {"address", "lookup"} => ~OwnsGroup
      <4>1. SUFFICES ASSUME pc \in {"address", "lookup"}, OwnsGroup PROVE FALSE
        OBVIOUS
      <4>2. address["own"] = At("own", "expected") /\ role = "GO"
        BY <2>1, <4>1 DEF Addressed
      <4> QED BY <2>1, <3>1, <4>2 DEF Addressed
    <3>3. \A i \in Interfaces : address'[i] # None => address'[i].net = i
      BY <2>1 DEF Addressed, TypeOK, Interfaces, At
    <3> QED BY <3>2, <3>3
  <2>2. CASE OtherForms
    BY <2>2 DEF OtherForms, TypeOK, Interfaces, At
  <2>3. CASE GroupForms
    BY <2>3 DEF GroupForms, Interfaces, At
  <2>4. CASE \E i \in Interfaces : GroupEnds(i)
    BY <2>4 DEF GroupEnds, TypeOK, Interfaces
  <2>5. CASE UNCHANGED <<address, active, up>>
    BY <2>5
  <2> QED BY <2>1, <2>2, <2>3, <2>4, <2>5 DEF Environment, PeerAppears, PeerVanishes, JournalAges
<1>4. ConnectsOwnGroup' /\ OwnerHasExpectedAddress'
  BY DEF IInv, ConnectsOwnGroup, OwnerHasExpectedAddress
<1> QED BY <1>1, <1>2, <1>3, <1>4 DEF IInv

\* Every step keeps the invariant.
LEMMA NextInv == IInv /\ [Next]_vars => IInv'
<1> SUFFICES ASSUME IInv, [Next]_vars PROVE IInv'
  OBVIOUS
<1>1. CASE UNCHANGED vars
  BY <1>1 DEF vars, radio, search, forming, history, IInv, TypeOK, ListensToOwn, KnowsGroup,
         AddressSeen,
              OwnsGroup, ConnectsOwnGroup, OwnerHasExpectedAddress
<1>2. CASE Search
  BY <1>2, SearchInv
<1>3. CASE Form
  <2>1. TypeOK'
    BY <1>3, FormType DEF IInv, ListensToOwn
  <2> QED BY <1>3, <2>1, FormListens, FormKnows, FormSees, FormConnects DEF IInv
<1>4. CASE Environment
  BY <1>4, EnvironmentInv
<1> QED BY <1>1, <1>2, <1>3, <1>4 DEF Next

---------------------------------------------------------------------------
\* The inductive invariant of P2pManager holds always.
THEOREM Invariance == Spec => []IInv
BY InitInv, NextInv, PTL DEF Spec

\* The variables of P2pManager keep their types.
THEOREM TypeCorrect == Spec => []TypeOK
<1>1. IInv => TypeOK
  BY DEF IInv
<1> QED BY <1>1, Invariance, PTL

\* With the helper, what is connected to is this session's group in all its parts,
\* whatever groups of other radios come and go and whenever they are signalled.
THEOREM OwnGroupOnly == Spec => []ConnectsOwnGroup
<1>1. IInv => ConnectsOwnGroup
  BY DEF IInv
<1> QED BY <1>1, Invariance, PTL

\* As group owner, a session has the address it asked for when it starts.
THEOREM OwnerIsAddressed == Spec => []OwnerHasExpectedAddress
<1>1. IInv => OwnerHasExpectedAddress
  BY DEF IInv
<1> QED BY <1>1, Invariance, PTL

---------------------------------------------------------------------------
\* The search: what was in reach all along is never lost

\* What the environment leaves of the search.
LEMMA EnvironmentSearches ==
  ASSUME Environment
  PROVE  /\ UNCHANGED <<pc, searching, preferred, sinks, todo>>
         /\ steady' \subseteq steady
         /\ steady \subseteq visible => steady' \subseteq visible'
BY DEF Environment, PeerAppears, PeerVanishes, GroupForms, OtherForms, Addressed, JournalAges,
       GroupEnds, search, Given, history

LEMMA SearchedStep == ASSUME IInv, Searched, [Next]_vars PROVE Searched'
<1> USE DEF Searched, SearchCompletes, Searching
<1>1. CASE Form \/ UNCHANGED vars
  <2>1. CASE Form
    <3>1. UNCHANGED <<visible, searching, preferred, search, steady>>
      BY <2>1, FormFrame
    <3>2. pc' \notin {"find", "subscribe", "search", "polling", "stop", "collect", "found"}
      BY <2>1 DEF Form, Watch, Activate, TakeEvent, ParseEvent, ParseFails, EventTimeout,
             ReadJournal, Prepare, Reapply, Expect,
         WaitAddress, NoAddress, Lookup, FormingFails, Release, Goto
    <3> QED BY <3>1, <3>2 DEF search
  <2>2. CASE UNCHANGED vars
    BY <2>2 DEF vars, radio, search, history
  <2> QED BY <1>1, <2>1, <2>2
<1>2. CASE Environment
  BY <1>2, EnvironmentSearches
<1>3. CASE Search
  <2> USE DEF Goto, Given, radio, search, history, SearchOver
  <2>0. preferred' = preferred
    BY <1>3, SearchFrame
  <2>1. CASE StartFind \/ Subscribe \/ SearchFails \/ NoneChosen
    BY <2>0, <2>1 DEF StartFind, Subscribe, SearchFails, NoneChosen
  <2>2. CASE Poll \/ PollEnds \/ Timeout
    BY <2>0, <2>2 DEF Poll, PollEnds, Timeout
  <2>3. CASE StopFind
    <3>1. /\ pc' = "found" /\ ~searching' /\ sinks' = sinks /\ steady' = steady /\ visible' = visible
      BY <2>3 DEF StopFind
    <3>2. CASE pc = "stop"
      BY <2>0, <3>1, <3>2
    <3>3. CASE pc = "collect" /\ todo = {}
      BY <2>0, <3>1, <3>3
    <3> QED BY <2>3, <3>2, <3>3 DEF StopFind
  <2>4. ASSUME NEW p \in Peers, PeerSignal(p) \/ ReadPolled(p) PROVE Searched'
    BY <2>0, <2>4 DEF PeerSignal, ReadPolled, Match
  <2>5. ASSUME NEW p \in Peers, Collect(p) PROVE Searched'
    BY <2>0, <2>5 DEF Collect
  <2>6. ASSUME NEW p \in Peers, Resolve(p) PROVE Searched'
    BY <2>0, <2>6 DEF Resolve
  <2> QED BY <1>3, <2>1, <2>2, <2>3, <2>4, <2>5, <2>6 DEF Search
<1> QED BY <1>1, <1>2, <1>3 DEF Next

---------------------------------------------------------------------------
\* The group: its start is never missed

\* wpa_supplicant signals our group on the object that was chosen.
LEMMA SignalledObject ==
  ASSUME wpa \subseteq Objects, NEW o \in (wpa \ {"elsewhere"}) \cup {None},
         (o = None) = (wpa \cap {"p2p-dev", "radio"} = {}), o = "radio" => "p2p-dev" \notin wpa
  PROVE  o = WpaDevice
BY DEF WpaDevice, Objects

\* Only GroupForms makes our group or our activation: the rest of the environment ends
\* them, and takes no signal away.
LEMMA EnvironmentEnds ==
  ASSUME IInv, Environment, ~GroupForms
  PROVE  /\ active' => active
         /\ "own" \in up' => "own" \in up
<1>1. CASE \E i \in Interfaces : GroupEnds(i)
  <2>1. PICK i \in Interfaces : active' = (active /\ i # "own") /\ up' = up \ {i}
    BY <1>1 DEF GroupEnds
  <2>2. active' => active
    BY <2>1, Zenon
  <2> QED BY <2>1, <2>2
<1>2. CASE ~\E i \in Interfaces : GroupEnds(i)
  <2>1. active' = active /\ up' \subseteq up \cup {"other"}
    BY <1>2 DEF Environment, PeerAppears, PeerVanishes, OtherForms, Addressed, JournalAges
  <2> QED BY <2>1
<1> QED BY <1>1, <1>2

LEMMA ListeningStep == ASSUME IInv, Listening, [Next]_vars PROVE Listening'
<1> USE DEF Listening, GroupStartSeen, Searching
<1>1. CASE UNCHANGED vars
  BY <1>1 DEF vars, radio, forming, history, WpaDevice
<1>2. CASE Search
  <2>1. UNCHANGED <<wpa, active, up, watched, events, unread>> /\ pc \in Searching \cup {"found"}
        /\ pc' \in Searching \cup {"found", "watch", "failed"}
    BY <1>2, SearchFrame
  <2> QED BY <2>1
<1>3. CASE Form
  <2> USE DEF Goto
  <2>1. WpaDevice' = WpaDevice
    BY <1>3, FormFrame DEF WpaDevice
  <2>2. CASE Watch
    BY <2>1, <2>2 DEF Watch, radio
  <2>3. CASE Activate
    BY <2>1, <2>3 DEF Activate, forming
  <2>4. CASE TakeEvent
    BY <2>1, <2>4 DEF TakeEvent, radio, forming, history
  <2>5. CASE ParseFails
    <3>1. /\ pc = "parse" /\ pc' = "event" /\ watched' = watched /\ up' = up
          /\ unread' = (unread \/ Head(events) \in up)
      BY <2>5 DEF ParseFails, radio
    <3>2. Head(events) = "own"
      BY <3>1 DEF IInv, TypeOK, ListensToOwn
    <3>3. "own" \in up' => unread'
      BY <3>1, <3>2, Zenon
    <3> QED BY <2>1, <3>1, <3>3
  <2>6. CASE Release
    <3>1. pc = "failed" /\ pc' = pc
      BY <2>6 DEF Release
    <3> QED BY <3>1
  <2>7. CASE \/ ParseEvent \/ EventTimeout \/ ReadJournal \/ Prepare \/ Reapply \/ Expect
             \/ WaitAddress \/ NoAddress \/ Lookup \/ FormingFails
    <3>1. pc' \in {"failed", "address", "prepare", "reapply", "expect", "connected", "lookup"}
      BY <2>7 DEF ParseEvent, EventTimeout, ReadJournal, Prepare, Reapply, Expect, WaitAddress,
         NoAddress, Lookup, FormingFails
    <3> QED BY <3>1
  <2> QED BY <1>3, <2>2, <2>3, <2>4, <2>5, <2>6, <2>7 DEF Form
<1>4. CASE Environment
  <2>1. pc' = pc /\ watched' = watched /\ unread' = unread /\ WpaDevice' = WpaDevice
    <3>1. wpa' = wpa
      BY <1>4, EnvironmentFrame
    <3> QED BY <1>4, <3>1, EnvironmentFrame DEF WpaDevice
  <2>2. CASE GroupForms
    <3>1. active /\ "own" \notin up /\ active' = active
      BY <2>2 DEF GroupForms
    <3>2. PICK o \in (wpa \ {"elsewhere"}) \cup {None} :
            /\ (o = None) = (wpa \cap {"p2p-dev", "radio"} = {})
            /\ o = "radio" => "p2p-dev" \notin wpa
            /\ Signals(o, "own")
      BY <2>2 DEF GroupForms
    <3>3. o = WpaDevice
      BY <3>2, SignalledObject DEF IInv, TypeOK
    <3>4. pc \in {"event", "parse"} => events' = Append(events, "own")
      BY <3>2, <3>3 DEF Signals
    <3>5. Append(events, "own") # <<>>
      BY AppendNonempty DEF IInv, TypeOK, Interfaces
    <3> QED BY <2>1, <3>1, <3>4, <3>5
  <2>3. CASE ~GroupForms
    BY <1>4, <2>1, <2>3, EnvironmentEnds, EnvironmentQueues
  <2> QED BY <2>2, <2>3
<1> QED BY <1>1, <1>2, <1>3, <1>4 DEF Next

\* Both hold initially, and with the invariant always.
LEMMA WholeInvariance == Spec => []IInvWhole
<1>1. Init => IInvWhole
  <2> SUFFICES ASSUME Init PROVE Searched /\ Listening
    BY InitInv DEF IInvWhole
  <2> QED BY DEF Init, Searched, SearchCompletes, Listening, GroupStartSeen, Searching
<1>2. IInvWhole /\ [Next]_vars => IInvWhole'
  BY NextInv, SearchedStep, ListeningStep DEF IInvWhole
<1> QED BY <1>1, <1>2, PTL DEF Spec

\* A search that returns missed no sink, in whatever order peers are announced, listed,
\* read and lost, and it leaves the radio at rest.
THEOREM NoSinkIsMissed == Spec => []SearchCompletes
<1>1. IInvWhole => SearchCompletes
  BY DEF IInvWhole, Searched
<1> QED BY <1>1, WholeInvariance, PTL

\* However soon after its activation a group forms, its signal reaches the one who waits
\* for it: queued, in hand, or lost to a read that failed.
THEOREM StartIsSeen == Spec => []GroupStartSeen
<1>1. IInvWhole => GroupStartSeen
  BY DEF IInvWhole, Listening
<1> QED BY <1>1, WholeInvariance, PTL
=============================================================================
