------------------------ MODULE DaemonSession_proofs ------------------------
(***************************************************************************)
(* Proofs about DaemonSession, for every number of runs and configuration. *)
(***************************************************************************)
EXTENDS DaemonSession, TLAPS

USE ConstantsAssumption DEF Runs

\* The names of the events, one by one.
LEMMA EventList ==
  EventNames = {"Started", "Discovered", "Connected", "VirtualOutputCreated",
                "Negotiated", "StreamingStarted", "ErrorOccurred",
                "StreamingStopped", "Ended"}
<1>1. DOMAIN Events = 1..9
  BY DEF Events
<1>2. \A i \in 1..9 : i = 1 \/ i = 2 \/ i = 3 \/ i = 4 \/ i = 5 \/ i = 6 \/ i = 7 \/ i = 8 \/ i = 9
  OBVIOUS
<1> QED BY <1>1, <1>2 DEF EventNames, Events

\* The invariant holds initially: run 0 is idle and nothing was created.
LEMMA InitInv == Init => IInv
<1> SUFFICES ASSUME Init PROVE IInv
  OBVIOUS
<1>1. TypeOK
  BY DEF Init, TypeOK, Points, Startup, Awaiting, Teardown, States, Resources
<1> QED BY <1>1 DEF Init, IInv, Unwinding, Running, NothingLeft, Resources

\* Recording and dropping resources keeps the type of owned.
LEMMA RecordType ==
  ASSUME owned \in [Resources -> 0..MaxRuns], run \in 0..MaxRuns,
         NEW R, Record(R)
  PROVE  owned' \in [Resources -> 0..MaxRuns]
BY DEF Record

\* The same for an EXCEPT that drops one of them.
LEMMA DropType ==
  ASSUME NEW f \in [Resources -> 0..MaxRuns], NEW x
  PROVE  [f EXCEPT ![x] = 0] \in [Resources -> 0..MaxRuns]
<1>1. 0 \in 0..MaxRuns
  OBVIOUS
<1> QED BY <1>1

\* Events told are events.
LEMMA TellType ==
  ASSUME told \in Seq(EventNames), NEW events \in Seq(EventNames), Tell(events)
  PROVE  told' \in Seq(EventNames)
BY DEF Tell

\* A step of run_inner, or of run() with its signal, keeps the types.
LEMMA StartupType == TypeOK /\ Running /\ (StartRun \/ RunInner \/ Signal) => TypeOK'
<1> SUFFICES ASSUME TypeOK, Running, StartRun \/ RunInner \/ Signal PROVE TypeOK'
  OBVIOUS
<1> USE DEF TypeOK, Points, Startup, Awaiting, Teardown, States, world, tasks, Fail
<1>1. CASE StartRun
  BY <1>1, EventList DEF StartRun
<1>2. CASE Discover
  <2>1. <<"Discovered">> \in Seq(EventNames)
    BY EventList
  <2>2. told' \in Seq(EventNames)
    BY <1>2, <2>1, TellType DEF Discover
  <2> QED BY <1>2, <2>2 DEF Discover
<1>3. CASE DiscoverFails
  <2>1. <<"Discovered">> \in Seq(EventNames)
    BY EventList
  <2>2. told' \in Seq(EventNames)
    BY <1>3, <2>1, TellType DEF DiscoverFails
  <2> QED BY <1>3, <2>2 DEF DiscoverFails
<1>4. CASE BeginReturns
  <2>1. <<"Connected">> \in Seq(EventNames)
    BY EventList
  <2>2. told' \in Seq(EventNames)
    BY <1>4, <2>1, TellType DEF BeginReturns
  <2>3. owned' \in [Resources -> 0..MaxRuns]
    BY <1>4, RecordType DEF BeginReturns
  <2> QED BY <1>4, <2>2, <2>3 DEF BeginReturns
<1>5. CASE BeginFails
  BY <1>5 DEF BeginFails
<1>6. CASE CreateOutput
  <2>1. <<"VirtualOutputCreated">> \in Seq(EventNames)
    BY EventList
  <2>2. told' \in Seq(EventNames)
    BY <1>6, <2>1, TellType DEF CreateOutput
  <2>3. owned' \in [Resources -> 0..MaxRuns]
    BY <1>6, RecordType DEF CreateOutput
  <2> QED BY <1>6, <2>2, <2>3 DEF CreateOutput
<1>7. CASE CreateAudio
  <2>1. owned' \in [Resources -> 0..MaxRuns]
    BY <1>7, RecordType DEF CreateAudio
  <2> QED BY <1>7, <2>1 DEF CreateAudio
<1>8. CASE CreateFails
  BY <1>8 DEF CreateFails
<1>9. CASE Negotiated
  <2>1. <<"Negotiated">> \in Seq(EventNames)
    BY EventList
  <2>2. told' \in Seq(EventNames)
    BY <1>9, <2>1, TellType DEF Negotiated
  <2>3. tvUp' \subseteq Runs
    BY <1>9 DEF Negotiated, Running
  <2>4. UNCHANGED <<run, signal, result, owned, ends, health, keepalive, call, leases>>
    BY <1>9 DEF Negotiated
  <2>5. at' = "capture" /\ state' = "Streaming"
    BY <1>9 DEF Negotiated
  <2> QED BY <2>2, <2>3, <2>4, <2>5
<1>10. CASE NegotiateFails
  BY <1>10 DEF NegotiateFails
<1>11. CASE CaptureStarted
  BY <1>11 DEF CaptureStarted
<1>12. CASE StreamStarted
  <2>1. <<"StreamingStarted">> \in Seq(EventNames)
    BY EventList
  <2>2. told' \in Seq(EventNames)
    BY <1>12, <2>1, TellType DEF StreamStarted
  <2>3. owned' \in [Resources -> 0..MaxRuns]
    BY <1>12, RecordType DEF StreamStarted
  <2> QED BY <1>12, <2>2, <2>3 DEF StreamStarted
<1>13. CASE Signal
  BY <1>13 DEF Signal
<1> QED BY <1>1, <1>2, <1>3, <1>4, <1>5, <1>6, <1>7, <1>8, <1>9, <1>10, <1>11, <1>12, <1>13 DEF RunInner

\* ... and so do the end of the hold and teardown.
LEMMA ReactType == TypeOK /\ React => TypeOK'
<1> SUFFICES ASSUME TypeOK, React PROVE TypeOK'
  OBVIOUS
<1> USE DEF TypeOK, Points, Startup, Awaiting, Teardown, States, world, tasks
<1>1. CASE CancelStartup
  BY <1>1 DEF CancelStartup
<1>2. CASE HoldSignal
  BY <1>2 DEF HoldSignal
<1>3. CASE HoldEnd
  <2>1. <<"ErrorOccurred">> \in Seq(EventNames)
    BY EventList
  <2>2. told' \in Seq(EventNames)
    BY <1>3, <2>1, TellType DEF HoldEnd
  <2>3. ends' \in Seq(Runs)
    BY <1>3 DEF HoldEnd
  <2> QED BY <1>3, <2>2, <2>3 DEF HoldEnd
<1>4. CASE HoldPanics
  BY <1>4 DEF HoldPanics
<1>5. CASE StopStream
  <2>1. <<"StreamingStopped">> \in Seq(EventNames)
    BY EventList
  <2>2. told' \in Seq(EventNames)
    BY <1>5, <2>1, TellType DEF StopStream
  <2>3. owned' \in [Resources -> 0..MaxRuns]
    BY <1>5, DropType DEF StopStream
  <2> QED BY <1>5, <2>2, <2>3 DEF StopStream
<1>6. CASE Disconnect
  <2>1. owned' \in [Resources -> 0..MaxRuns]
    BY <1>6, DropType DEF Disconnect
  <2>3. leases' \subseteq Runs
    BY <1>6 DEF Disconnect
  <2>2. state' \in States /\ at' \in Points
    BY <1>6 DEF Disconnect
  <2> QED BY <1>6, <2>1, <2>2, <2>3 DEF Disconnect
<1>7. CASE Unwind
  <2>1. <<"Ended">> \in Seq(EventNames) /\ <<"ErrorOccurred", "Ended">> \in Seq(EventNames)
    BY EventList
  <2>2. told' \in Seq(EventNames)
    BY <1>7, <2>1, TellType DEF Unwind
  <2>3. [owned EXCEPT !["output"] = 0] \in [Resources -> 0..MaxRuns]
    BY DropType
  <2>4. [[owned EXCEPT !["output"] = 0] EXCEPT !["audio"] = 0] \in [Resources -> 0..MaxRuns]
    BY <2>3, DropType
  <2>5. owned' = [[owned EXCEPT !["output"] = 0] EXCEPT !["audio"] = 0]
    BY <1>7 DEF Unwind
  <2> QED BY <1>7, <2>2, <2>4, <2>5 DEF Unwind
<1> QED BY <1>1, <1>2, <1>3, <1>4, <1>5, <1>6, <1>7 DEF React

\* The tasks, the helper and the TV.
Around(r) == Task(r) \/ HelperBegins(r) \/ HelperEnds(r) \/ HelperNotices(r) \/ TvLeaves(r)

\* A step of one of them keeps the types.
LEMMA AroundType == ASSUME TypeOK, NEW r \in Runs, Around(r) PROVE TypeOK'
<1> USE DEF TypeOK, self, tasks, world
<1>1. CASE HealthPoll(r) \/ HealthGood(r)
  BY <1>1 DEF HealthPoll, HealthGood
<1>2. CASE HealthBad(r)
  BY <1>2 DEF HealthBad, Report
<1>3. CASE KeepaliveEnds(r)
  BY <1>3 DEF KeepaliveEnds, Report
<1>4. CASE HelperBegins(r)
  BY <1>4 DEF HelperBegins
<1>5. CASE HelperEnds(r) \/ HelperNotices(r) \/ TvLeaves(r)
  BY <1>5 DEF HelperEnds, HelperNotices, TvLeaves
<1> QED BY <1>1, <1>2, <1>3, <1>4, <1>5 DEF Around, Task

\* Nothing around run() touches what it holds.
LEMMA AroundSelf == ASSUME NEW r \in Runs, Around(r) PROVE UNCHANGED self
BY DEF Around, Task, HealthPoll, HealthGood, HealthBad, KeepaliveEnds,
       HelperBegins, HelperEnds, HelperNotices, TvLeaves

\* Every step of the Daemon keeps the invariant.
LEMMA NextInv == IInv /\ [Next]_vars => IInv'
<1> SUFFICES ASSUME IInv, [Next]_vars PROVE IInv'
  OBVIOUS
<1> USE DEF IInv
<1>1. CASE StartRun \/ RunInner \/ Signal
  <2>1. TypeOK'
    BY <1>1, StartupType
  <2>2. at' \in Startup \cup {"hold", "stop_stream"}
    BY <1>1 DEF StartRun, RunInner, Signal, Startup, Awaiting, Discover, DiscoverFails,
         BeginReturns, BeginFails, CreateOutput, CreateAudio, CreateFails, Negotiated,
         NegotiateFails, CaptureStarted, StreamStarted, Fail
  <2>3. run' \in Runs
    BY <1>1 DEF StartRun, RunInner, Signal, Startup, Awaiting, Discover, DiscoverFails,
         BeginReturns, BeginFails, CreateOutput, CreateAudio, CreateFails, Negotiated,
         NegotiateFails, CaptureStarted, StreamStarted, Fail, Running, TypeOK
  <2> QED BY <2>1, <2>2, <2>3 DEF Startup, Awaiting, Unwinding, Running, NothingLeft
<1>2. CASE React
  <2>1. TypeOK'
    BY <1>2, ReactType
  <2>2. CASE StopStream
    BY <2>1, <2>2 DEF StopStream, TypeOK, Unwinding, Running, NothingLeft, Resources
  <2>3. CASE Disconnect
    BY <2>1, <2>3 DEF Disconnect, TypeOK, Unwinding, Running, NothingLeft, Resources
  <2>4. CASE Unwind
    BY <2>1, <2>4 DEF Unwind, TypeOK, Unwinding, Running, NothingLeft, Resources
  <2>5. CASE CancelStartup \/ HoldSignal \/ HoldEnd \/ HoldPanics
    BY <2>1, <2>5 DEF CancelStartup, Awaiting, HoldSignal, HoldEnd, HoldPanics, Unwinding, Running, NothingLeft
  <2> QED BY <1>2, <2>2, <2>3, <2>4, <2>5 DEF React
<1>3. ASSUME NEW r \in Runs, Around(r) PROVE IInv'
  <2>1. UNCHANGED self
    BY <1>3, AroundSelf
  <2>2. TypeOK'
    BY <1>3, AroundType
  <2> QED BY <2>1, <2>2 DEF self, Unwinding, Running, NothingLeft
<1>4. CASE UNCHANGED vars
  BY <1>4 DEF vars, self, tasks, world, TypeOK, Unwinding, Running, NothingLeft
<1> QED BY <1>1, <1>2, <1>3, <1>4 DEF Next, Around

\* The inductive invariant holds in every run of a Daemon.
THEOREM Invariance == Spec => []IInv
<1> QED BY InitInv, NextInv, PTL DEF Spec

\* Every variable keeps its type; in particular only the states listed are used.
THEOREM TypeCorrect == Spec => []TypeOK
<1>1. IInv => TypeOK
  BY DEF IInv
<1> QED BY Invariance, <1>1, PTL

\* Between runs the Daemon is Idle and holds nothing but the last capture,
\* whatever failed, was cancelled or timed out on the way.
THEOREM LeavesNothing == Spec => []NothingLeft
<1>1. IInv => NothingLeft
  BY DEF IInv
<1> QED BY Invariance, <1>1, PTL

---------------------------------------------------------------------------
\* The stage of each event that is not an error.
LEMMA Stages ==
  /\ Stage("Started") = 1 /\ Stage("Discovered") = 2 /\ Stage("Connected") = 3
  /\ Stage("VirtualOutputCreated") = 4 /\ Stage("Negotiated") = 5
  /\ Stage("StreamingStarted") = 6 /\ Stage("StreamingStopped") = 8 /\ Stage("Ended") = 9
<1>1. DOMAIN Events = 1..9
  BY DEF Events
<1>2. \A i \in 1..9 : i = 1 \/ i = 2 \/ i = 3 \/ i = 4 \/ i = 5 \/ i = 6 \/ i = 7 \/ i = 8 \/ i = 9
  OBVIOUS
<1>3. /\ Events[1] = "Started" /\ Events[2] = "Discovered" /\ Events[3] = "Connected"
      /\ Events[4] = "VirtualOutputCreated" /\ Events[5] = "Negotiated"
      /\ Events[6] = "StreamingStarted" /\ Events[7] = "ErrorOccurred"
      /\ Events[8] = "StreamingStopped" /\ Events[9] = "Ended"
  BY DEF Events
<1>4. ASSUME NEW n \in 1..9 PROVE Stage(Events[n]) = n
  <2>1. \A i \in DOMAIN Events : Events[i] = Events[n] => i = n
    BY <1>1, <1>2, <1>3
  <2> QED BY <1>1, <2>1 DEF Stage
<1> QED BY <1>3, <1>4

\* Events in order stay so when a later one, or an error, is told.
LEMMA TellOrdered ==
  ASSUME NEW events \in Seq(EventNames), NEW n \in 1..9, NEW m \in 1..9, n <= m,
         Ordered(events, n), NEW e \in EventNames,
         e # "ErrorOccurred" => n < Stage(e) /\ Stage(e) <= m
  PROVE  Ordered(events \o <<e>>, m)
<1> DEFINE longer == events \o <<e>>
<1>1. /\ DOMAIN longer = 1..(Len(events) + 1)
      /\ \A i \in 1..Len(events) : longer[i] = events[i]
      /\ longer[Len(events) + 1] = e
  OBVIOUS
<1>2. \A i \in 1..Len(events) : i \in DOMAIN events
  OBVIOUS
<1>3. \A i \in 1..Len(events) :
        events[i] # "ErrorOccurred" => Stage(events[i]) \in 1..9 /\ Stage(events[i]) <= n
  <2> SUFFICES ASSUME NEW i \in 1..Len(events), events[i] # "ErrorOccurred"
               PROVE  Stage(events[i]) \in 1..9 /\ Stage(events[i]) <= n
    OBVIOUS
  <2>1. events[i] \in EventNames
    OBVIOUS
  <2>2. Stage(events[i]) \in 1..9
    BY <2>1, EventList, Stages
  <2> QED BY <1>2, <2>2 DEF Ordered
<1>4. e # "ErrorOccurred" => Stage(e) \in 1..9
  BY EventList, Stages
<1>5. \A i \in DOMAIN longer, j \in DOMAIN longer :
        i < j /\ longer[j] # "ErrorOccurred" /\ longer[i] # "ErrorOccurred"
          => Stage(longer[i]) < Stage(longer[j])
  <2> SUFFICES ASSUME NEW i \in DOMAIN longer, NEW j \in DOMAIN longer,
                      i < j, longer[j] # "ErrorOccurred", longer[i] # "ErrorOccurred"
               PROVE  Stage(longer[i]) < Stage(longer[j])
    OBVIOUS
  <2>1. i \in 1..Len(events) /\ longer[i] = events[i]
    BY <1>1
  <2>2. CASE j = Len(events) + 1
    BY <1>1, <1>3, <1>4, <2>1, <2>2
  <2>3. CASE j # Len(events) + 1
    <3>1. j \in 1..Len(events) /\ longer[j] = events[j]
      BY <1>1, <2>3
    <3> QED BY <1>2, <2>1, <3>1 DEF Ordered
  <2> QED BY <2>2, <2>3
<1>6. \A i \in DOMAIN longer : longer[i] # "ErrorOccurred" => Stage(longer[i]) <= m
  BY <1>1, <1>3, <1>4
<1> QED BY <1>5, <1>6 DEF Ordered

\* What the steps tell, each at its place.
LEMMA Tells ==
  ASSUME NEW events \in Seq(EventNames)
  PROVE  /\ Ordered(events, 1) => Ordered(events \o <<"Discovered">>, 2)
         /\ Ordered(events, 1) => Ordered(events \o <<"Discovered">>, 6)
         /\ Ordered(events, 2) => Ordered(events \o <<"Connected">>, 3)
         /\ Ordered(events, 3) => Ordered(events \o <<"VirtualOutputCreated">>, 4)
         /\ Ordered(events, 4) => Ordered(events \o <<"Negotiated">>, 5)
         /\ Ordered(events, 5) => Ordered(events \o <<"StreamingStarted">>, 6)
         /\ Ordered(events, 6) => Ordered(events \o <<"StreamingStopped">>, 8)
         /\ Ordered(events, 8) => Ordered(events \o <<"Ended">>, 9)
         /\ Ordered(events, 6) => Ordered(events \o <<"ErrorOccurred">>, 6)
         /\ Ordered(events, 8) => Ordered(events \o <<"ErrorOccurred">>, 8)
<1>1. ASSUME NEW n \in 1..9, NEW m \in 1..9, n <= m, Ordered(events, n),
             NEW e \in EventNames, e # "ErrorOccurred" => n < Stage(e) /\ Stage(e) <= m
      PROVE  Ordered(events \o <<e>>, m)
  BY <1>1, TellOrdered
<1>2. Ordered(events, 1) => Ordered(events \o <<"Discovered">>, 2)
  BY <1>1, Stages, EventList
<1>3. Ordered(events, 1) => Ordered(events \o <<"Discovered">>, 6)
  BY <1>1, Stages, EventList
<1>4. Ordered(events, 2) => Ordered(events \o <<"Connected">>, 3)
  BY <1>1, Stages, EventList
<1>5. Ordered(events, 3) => Ordered(events \o <<"VirtualOutputCreated">>, 4)
  BY <1>1, Stages, EventList
<1>6. Ordered(events, 4) => Ordered(events \o <<"Negotiated">>, 5)
  BY <1>1, Stages, EventList
<1>7. Ordered(events, 5) => Ordered(events \o <<"StreamingStarted">>, 6)
  BY <1>1, Stages, EventList
<1>8. Ordered(events, 6) => Ordered(events \o <<"StreamingStopped">>, 8)
  BY <1>1, Stages, EventList
<1>9. Ordered(events, 8) => Ordered(events \o <<"Ended">>, 9)
  BY <1>1, Stages, EventList
<1>10. \A n \in {6, 8} : Ordered(events, n) => Ordered(events \o <<"ErrorOccurred">>, n)
  BY <1>1, EventList
<1> QED BY <1>2, <1>3, <1>4, <1>5, <1>6, <1>7, <1>8, <1>9, <1>10

\* Events in order are so up to a later stage too.
LEMMA OrderedFurther ==
  ASSUME NEW events \in Seq(EventNames), NEW n \in 1..9, NEW m \in 1..9, n <= m, Ordered(events, n)
  PROVE  Ordered(events, m)
<1>1. ASSUME NEW i \in DOMAIN events, events[i] # "ErrorOccurred" PROVE Stage(events[i]) <= m
  <2>1. events[i] \in EventNames
    OBVIOUS
  <2>2. Stage(events[i]) \in 1..9 /\ Stage(events[i]) <= n
    BY <1>1, <2>1, EventList, Stages DEF Ordered
  <2> QED BY <2>2
<1> QED BY <1>1 DEF Ordered

\* A step of startup tells what comes next, or nothing.
LEMMA StartupTells == ASSUME IInv, Telling, StartRun \/ RunInner \/ Signal PROVE Telling'
<1> USE DEF IInv, TypeOK, Telling, Fail
<1>0. told \in Seq(EventNames) /\ EventNames # {} /\ at \in Points
  BY EventList
<1>1. CASE StartRun
  <2>1. told' = <<"Started">> /\ at' = "discover"
    BY <1>1 DEF StartRun
  <2>2. Ordered(<<"Started">>, 1)
    BY Stages DEF Ordered
  <2> QED BY <2>1, <2>2 DEF Reached
<1>2. CASE Discover
  <2>1. told' = told \o <<"Discovered">> /\ at = "discover" /\ at' = "begin"
    BY <1>2 DEF Discover, Tell
  <2>2. Ordered(told, 1)
    BY <2>1 DEF Reached
  <2>3. Ordered(told', 2)
    BY <2>1, <2>2, Tells
  <2> QED BY <2>1, <2>3 DEF Reached
<1>3. CASE DiscoverFails
  <2>1. at = "discover" /\ at' = "stop_stream" /\ Ordered(told, 1)
    BY <1>3 DEF DiscoverFails, Reached
  <2>2. CASE told' = told
    <3>1. Ordered(told', 6)
      BY <2>1, <2>2, OrderedFurther
    <3> QED BY <2>1, <3>1 DEF Reached
  <2>3. CASE told' = told \o <<"Discovered">>
    <3>1. Ordered(told', 6)
      BY <2>1, <2>3, Tells
    <3> QED BY <2>1, <3>1 DEF Reached
  <2> QED BY <1>3, <2>2, <2>3 DEF DiscoverFails, Tell
<1>4. CASE BeginReturns
  <2>1. told' = told \o <<"Connected">> /\ at' = "output" /\ Ordered(told, 2)
    BY <1>4 DEF BeginReturns, Tell, Reached
  <2>2. Ordered(told', 3)
    BY <2>1, Tells
  <2> QED BY <2>1, <2>2 DEF Reached
<1>5. CASE CreateOutput
  <2>1. at' = "audio" /\ Ordered(told, 3)
    BY <1>5 DEF CreateOutput, Reached
  <2>2. CASE told' = told
    <3>1. Ordered(told', 4)
      BY <2>1, <2>2, OrderedFurther
    <3> QED BY <2>1, <3>1 DEF Reached
  <2>3. CASE told' = told \o <<"VirtualOutputCreated">>
    <3>1. Ordered(told', 4)
      BY <2>1, <2>3, Tells
    <3> QED BY <2>1, <3>1 DEF Reached
  <2> QED BY <1>5, <2>2, <2>3 DEF CreateOutput, Tell
<1>6. CASE CreateAudio \/ CaptureStarted
  BY <1>6 DEF CreateAudio, CaptureStarted, Reached
<1>7. CASE Negotiated
  <2>1. told' = told \o <<"Negotiated">> /\ at' = "capture" /\ Ordered(told, 4)
    BY <1>7 DEF Negotiated, Tell, Reached
  <2>2. Ordered(told', 5)
    BY <2>1, Tells
  <2> QED BY <2>1, <2>2 DEF Reached
<1>8. CASE StreamStarted
  <2>1. told' = told \o <<"StreamingStarted">> /\ at' = "hold" /\ Ordered(told, 5)
    BY <1>8 DEF StreamStarted, Tell, Reached
  <2>2. Ordered(told', 6)
    BY <2>1, Tells
  <2> QED BY <2>1, <2>2 DEF Reached
<1>9. CASE BeginFails \/ CreateFails \/ NegotiateFails
  <2>1. told' = told /\ at' = "stop_stream" /\ at \in Startup
    BY <1>9 DEF BeginFails, CreateFails, NegotiateFails, Startup, Awaiting
  <2>2. Reached \in 1..6
    BY <2>1 DEF Reached, Startup, Awaiting
  <2>3. Ordered(told', 6)
    BY <2>1, <2>2, OrderedFurther
  <2> QED BY <2>1, <2>3 DEF Reached
<1>10. CASE Signal
  BY <1>10 DEF Signal, Reached
<1> QED BY <1>1, <1>2, <1>3, <1>4, <1>5, <1>6, <1>7, <1>8, <1>9, <1>10 DEF RunInner

\* ... and so does a step that ends the run: Ended comes last.
LEMMA ReactTells == ASSUME IInv, Telling, React PROVE Telling'
<1> USE DEF IInv, TypeOK, Telling
<1>1. CASE CancelStartup
  <2>1. told' = told /\ at' \in {"hold", "stop_stream"} /\ at \in Awaiting
    BY <1>1 DEF CancelStartup
  <2>2. Reached \in 1..6
    BY <2>1 DEF Reached, Awaiting
  <2>3. Ordered(told', 6)
    BY <2>1, <2>2, OrderedFurther
  <2> QED BY <2>1, <2>3 DEF Reached
<1>2. CASE HoldSignal \/ HoldPanics
  BY <1>2 DEF HoldSignal, HoldPanics, Reached
<1>3. CASE HoldEnd
  <2>1. told' = told \o <<"ErrorOccurred">> /\ at' = "stop_stream" /\ Ordered(told, 6)
    BY <1>3 DEF HoldEnd, Tell, Reached
  <2>2. Ordered(told', 6)
    BY <2>1, Tells
  <2> QED BY <2>1, <2>2 DEF Reached
<1>4. CASE StopStream
  <2>1. told' = told \o <<"StreamingStopped">> /\ at' = "disconnect" /\ Ordered(told, 6)
    BY <1>4 DEF StopStream, Tell, Reached
  <2>2. Ordered(told', 8)
    BY <2>1, Tells
  <2> QED BY <2>1, <2>2 DEF Reached
<1>5. CASE Disconnect
  BY <1>5 DEF Disconnect, Reached
<1>6. CASE Unwind
  <2>1. at' = "idle" /\ Ordered(told, 8)
    BY <1>6 DEF Unwind, Reached
  <2>2. PICK events \in Seq(EventNames) : Ordered(events, 8) /\ told' = events \o <<"Ended">>
    <3>1. CASE result = "error"
      <4>1. told' = (told \o <<"ErrorOccurred">>) \o <<"Ended">>
        BY <1>6, <3>1, EventList DEF Unwind, Tell
      <4>2. Ordered(told \o <<"ErrorOccurred">>, 8)
        BY <2>1, Tells
      <4>3. "ErrorOccurred" \in EventNames /\ told \in Seq(EventNames)
        BY EventList
      <4>4. told \o <<"ErrorOccurred">> \in Seq(EventNames)
        BY <4>3
      <4> QED BY <4>1, <4>2, <4>4
    <3>2. CASE result # "error"
      BY <1>6, <2>1, <3>2 DEF Unwind, Tell
    <3> QED BY <3>1, <3>2
  <2>3. Ordered(told', 9)
    BY <2>2, Tells
  <2>4. told'[Len(told')] = "Ended"
    BY <2>2
  <2> QED BY <2>1, <2>3, <2>4 DEF Reached
<1> QED BY <1>1, <1>2, <1>3, <1>4, <1>5, <1>6 DEF React

\* Telling implies that the events are in order and that Ended ends them.
LEMMA TellingOrders == ASSUME TypeOK, Telling PROVE EventsInOrder
<1>1. ASSUME NEW i \in DOMAIN told, told[i] = "Ended" PROVE i = Len(told) /\ at = "idle"
  <2>1. at = "idle"
    <3>1. Stage(told[i]) <= Reached
      BY <1>1 DEF Telling, Ordered
    <3>2. at # "idle" => Reached \in 1..8
      BY DEF TypeOK, Reached, Points, Startup, Awaiting, Teardown
    <3> QED BY <1>1, <3>1, <3>2, Stages
  <2>2. i = Len(told)
    <3>1. told[Len(told)] = "Ended" /\ Len(told) \in DOMAIN told /\ i <= Len(told)
      BY <2>1 DEF TypeOK, Telling
    <3>2. ~(i < Len(told))
      BY <1>1, <3>1, Stages DEF Telling, Ordered
    <3> QED BY <3>1, <3>2 DEF TypeOK
  <2> QED BY <2>1, <2>2
<1>2. ASSUME NEW i \in DOMAIN told, i = Len(told), at = "idle" PROVE told[i] = "Ended"
  BY <1>2 DEF TypeOK, Telling
<1> QED BY <1>1, <1>2 DEF EventsInOrder, Telling, Ordered

\* The events of every run come in the order of a cast and end with Ended, wherever a
\* signal, an error or the end of the session meets it.
THEOREM ToldInOrder == Spec => []EventsInOrder
<1>1. Init => Telling
  BY DEF Init, Telling, Ordered
<1>2. IInv /\ Telling /\ [Next]_vars => Telling'
  <2> SUFFICES ASSUME IInv, Telling, [Next]_vars PROVE Telling'
    OBVIOUS
  <2>1. CASE UNCHANGED <<at, told>>
    BY <2>1 DEF Telling, Reached
  <2>2. ASSUME NEW r \in Runs, Around(r) PROVE UNCHANGED <<at, told>>
    BY <2>2 DEF Around, Task, HealthPoll, HealthGood, HealthBad, KeepaliveEnds, HelperBegins,
         HelperEnds, HelperNotices, TvLeaves, self
  <2>3. UNCHANGED vars => UNCHANGED <<at, told>>
    BY DEF vars, self
  <2> QED BY <2>1, <2>2, <2>3, StartupTells, ReactTells DEF Next, Around
<1>3. IInv /\ Telling => EventsInOrder
  BY TellingOrders DEF IInv
<1> QED BY <1>1, <1>2, <1>3, Invariance, PTL DEF Spec
=============================================================================
