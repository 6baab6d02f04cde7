-------------------------- MODULE NetHelper_proofs --------------------------
(***************************************************************************)
(* Proofs about NetHelper for every set of callers, peers and ports and    *)
(* every value of the bounds.                                              *)
(***************************************************************************)
EXTENDS NetHelper, TLAPS

\* The initial state satisfies the invariant.
LEMMA InitInv == Init => IInv
  BY ConstantsAssumption
     DEF Init, IInv, TypeOK, MutexDiscipline, ChainEmptyHere, TaggedIsOurs,
         SocketsWithRules, ChainOwned, NoInheritance, ActivationHeld, SetupWidth, Pcs,
         HelperStates, SweepPcs, BeginPcs, ClosePcs, SetupPcs

\* What the actions build out of a session or an interface has its type.
LEMMA BuiltTypes ==
  ASSUME NEW s \in Session
  PROVE  /\ AllowanceOf(s) \in Allowance
         /\ \A i \in 0..MaxIfindex, go \in BOOLEAN :
              [s EXCEPT !.rules.idx = i, !.rules.go = go] \in Session
         /\ [s EXCEPT !.rules.local = TRUE] \in Session
         /\ \A peer \in Peers, port \in Ports, rtcp \in Ports \cup {None} :
              [s EXCEPT !.rules = MediaRules(s.rules, peer, rtcp), !.pins = port]
                \in Session
  BY DEF Session, Rules, Allowance, AllowanceOf, MediaRules

LEMMA TaggedType ==
  ASSUME NEW i \in Interface
  PROVE  [i EXCEPT !.tagged = TRUE] \in Interface
  BY DEF Interface

\* A command killed half way leaves well-typed kernel state.
LEMMA KilledTypes ==
  TypeOK /\ MutexDiscipline /\ CommandKilled
    => chain' \in Allowance \cup {None} /\ iface' \in Interface \cup {None}
<1> SUFFICES ASSUME TypeOK, MutexDiscipline, CommandKilled
             PROVE  chain' \in Allowance \cup {None} /\ iface' \in Interface \cup {None}
    OBVIOUS
<1>1. pc \in {"restore", "commit", "media"} => AllowanceOf(work) \in Allowance
    BY BuiltTypes DEF TypeOK, MutexDiscipline, SweepPcs
<1>2. iface # None => [iface EXCEPT !.tagged = TRUE] \in Interface
    BY TaggedType DEF TypeOK
<1> QED
    BY <1>1, <1>2 DEF CommandKilled, TypeOK

\* Every step preserves types, given who holds what.
LEMMA StepTypes == TypeOK /\ MutexDiscipline /\ [Next]_vars => TypeOK'
<1> SUFFICES ASSUME TypeOK, MutexDiscipline, [Next]_vars PROVE TypeOK'
    OBVIOUS
<1>a. pc \notin {"free"} \cup SweepPcs => work \in Session
    BY DEF TypeOK, MutexDiscipline
<1>b. pc \in {"media"} \cup SweepPcs => session \in Session
    BY DEF TypeOK, MutexDiscipline
<1> USE ConstantsAssumption
    DEF TypeOK, Pcs, SetupPcs, BeginPcs, ClosePcs, SweepPcs, HelperStates,
        Calls, Methods, service, firewall, network, Serving, Fault, NoFault
<1>1. ASSUME NEW m \in Methods, NEW c \in Callers, Send(m, c) PROVE TypeOK'
    BY <1>1 DEF Send
<1>2. ASSUME NEW c \in Callers, Depart(c) PROVE TypeOK'
    BY <1>2 DEF Depart
<1>3. ASSUME NEW c \in Callers, BeginRefused(c) \/ MediaRefused(c) \/ EndIgnored(c)
      PROVE TypeOK'
    BY <1>3 DEF BeginRefused, MediaRefused, EndIgnored, Receive
<1>4. ASSUME NEW c \in Callers, BeginAdmitted(c) PROVE TypeOK'
    BY <1>4 DEF BeginAdmitted, Receive, Session, Rules, NoInterfaceYet
<1>5. CASE BeginHook
    BY <1>5 DEF BeginHook
<1>6. CASE BeginPreclear
    BY <1>6 DEF BeginPreclear, ClearRules, CleanupOk, CleanupFailed, ProcessEnds
<1>7. CASE BeginActivate
    BY <1>7 DEF BeginActivate
<1>8. ASSUME NEW go \in BOOLEAN, BeginGroupStarted(go) PROVE TypeOK'
  <2>1. work' \in Session /\ iface' \in Interface
    <3>1. work \in Session /\ lastIfindex + 1 \in 1..MaxIfindex
      BY <1>a, <1>8 DEF BeginGroupStarted
    <3>2. lastIfindex + 1 \in 0..MaxIfindex
      BY <3>1
    <3>3. work' \in Session
      BY <3>1, <3>2, <1>8, BuiltTypes DEF BeginGroupStarted
    <3>4. iface' \in Interface
      BY <3>1, <1>8 DEF BeginGroupStarted, Interface
    <3> QED
      BY <3>3, <3>4
  <2> QED
    BY <2>1, <1>8 DEF BeginGroupStarted
<1>9. CASE BeginTag
  <2>1. iface' \in Interface
    BY <1>9, TaggedType DEF BeginTag
  <2> QED
    BY <2>1, <1>9 DEF BeginTag
<1>10. CASE BeginCheck
    BY <1>10 DEF BeginCheck
<1>11. CASE BeginRestore
    BY <1>a, <1>11, BuiltTypes DEF BeginRestore, RestoreOk
<1>12. CASE BeginAddress
  <2>1. work' \in Session
    BY <1>a, <1>12, BuiltTypes DEF BeginAddress
  <2> QED
    BY <2>1, <1>12 DEF BeginAddress
<1>13. CASE SetupAborted
  <2>1. chain' \in Allowance \cup {None} /\ iface' \in Interface \cup {None}
    BY <1>13, KilledTypes DEF SetupAborted
  <2> QED
    BY <2>1, <1>13 DEF SetupAborted, DropActivationBus
<1>14. CASE BeginAbort
    BY <1>14 DEF BeginAbort, ClearRules, CleanupOk, CleanupFailed, ProcessEnds
<1>15. CASE BeginNarrow
    BY <1>15 DEF BeginNarrow
<1>16. CASE BeginCommit
  <2>1. work \in Session /\ AllowanceOf(work) \in Allowance
    BY <1>a, <1>16, BuiltTypes DEF BeginCommit
  <2>2. chain' \in Allowance \cup {None}
    BY <2>1, <1>16, Zenon DEF BeginCommit, RestoreOk, RestoreFailed
  <2> QED
    BY <2>1, <2>2, <1>16 DEF BeginCommit, RestoreOk, RestoreFailed
<1>17. CASE BeginUndo
    BY <1>17 DEF BeginUndo, DropActivationBus
<1>18. ASSUME NEW c \in Callers, NEW peer \in Peers, NEW port \in Ports,
              NEW rtcp \in {port, None}, MediaAccepted(c, peer, port, rtcp)
       PROVE TypeOK'
  <2>1. rtcp \in Ports \cup {None}
    OBVIOUS
  <2>2. session \in Session
    BY <1>18 DEF MediaAccepted, SessionAlive
  <2>3. work' \in Session
    BY <1>18, <2>1, <2>2, BuiltTypes DEF MediaAccepted
  <2> QED
    BY <2>3, <1>18 DEF MediaAccepted, Receive
<1>19. CASE MediaCommit
  <2>1. work \in Session /\ AllowanceOf(work) \in Allowance
    BY <1>a, <1>19, BuiltTypes DEF MediaCommit
  <2>2. chain' \in Allowance \cup {None}
    BY <2>1, <1>19, Zenon DEF MediaCommit, RestoreOk, RestoreFailed
  <2> QED
    BY <2>1, <2>2, <1>19 DEF MediaCommit, RestoreOk, RestoreFailed
<1>20. ASSUME NEW c \in Callers, EndTaken(c) PROVE TypeOK'
    BY <1>20 DEF EndTaken, TakeSession, Receive
<1>21. CASE CloseClear
    BY <1>21 DEF CloseClear, CleanupOk, CleanupFailed
<1>22. CASE CloseDeactivate
    BY <1>22 DEF CloseDeactivate, DropActivationBus, ProcessEnds
<1>23. CASE SweepTick
    BY <1>23 DEF SweepTick
<1>24. CASE Sweep
    BY <1>24 DEF Sweep, SweepOwner, SweepActive, SweepIntact, Observe, TakeSession
<1>25. CASE Crash
  <2>1. chain' \in Allowance \cup {None} /\ iface' \in Interface \cup {None}
    BY <1>25, KilledTypes DEF Crash
  <2> QED
    BY <2>1, <1>25 DEF Crash, ProcessEnds, DropActivationBus
<1>26. CASE Systemd
    BY <1>26 DEF Systemd, StopPost, Restart, Startup, CleanupOk, CleanupFailed
<1>27. ASSUME NEW loaded \in BOOLEAN, UfwChange(loaded) PROVE TypeOK'
    BY <1>27 DEF UfwChange
<1>28. CASE LinkLost \/ NmReleases
    BY <1>28 DEF LinkLost, NmReleases
<1>29. CASE IfaceReplaced
    BY <1>29 DEF IfaceReplaced, Interface
<1>30. CASE UNCHANGED vars
    BY <1>30 DEF vars
<1>31. ASSUME NEW c \in Callers, HandleCall(c) PROVE TypeOK'
    BY <1>3, <1>4, <1>18, <1>20, <1>31 DEF HandleCall
<1>32. CASE HolderStep
  <2>1. CASE Begin
    BY <1>5, <1>6, <1>7, <1>8, <1>9, <1>10, <1>11, <1>12, <1>13, <1>14, <1>15, <1>16, <2>1
    DEF Begin
  <2> QED
    BY <1>17, <1>19, <1>21, <1>22, <1>24, <1>32, <2>1 DEF HolderStep, Close
<1>33. CASE Environment
    BY <1>1, <1>2, <1>25, <1>27, <1>28, <1>29, <1>33 DEF Environment
<1> QED
    BY <1>23, <1>26, <1>30, <1>31, <1>32, <1>33 DEF Next

\* The fields of what the actions build.
LEMMA BuiltFields ==
  ASSUME NEW s \in Session
  PROVE  /\ s # None
         /\ AllowanceOf(s) # None
         /\ AllowanceOf(s).owner = s.owner
         /\ AllowanceOf(s).rules = s.rules
  BY BuiltTypes, NoneAssumption DEF AllowanceOf

\* Setup completes the session it prepares with the local address and changes
\* nothing else of it.
LEMMA AddressFields ==
  ASSUME NEW s \in Session, NEW t, t = [s EXCEPT !.rules.local = TRUE]
  PROVE  /\ t.rules.local
         /\ t.rules.peer = s.rules.peer
         /\ t.rules.idx = s.rules.idx
         /\ t.rules.rtcp = s.rules.rtcp
         /\ t.owner = s.owner
         /\ t.pins = s.pins
  BY DEF Session, Rules

\* authorize_media changes the peer, the RTCP flow and the sockets.
LEMMA MediaFields ==
  ASSUME NEW s \in Session, NEW peer, NEW port, NEW rtcp
  PROVE  LET t == [s EXCEPT !.rules = MediaRules(s.rules, peer, rtcp), !.pins = port]
         IN  /\ t.owner = s.owner
             /\ t.rules.idx = s.rules.idx
             /\ t.rules.peer = peer
             /\ t.rules.rtcp = rtcp
             /\ t.pins = port
  BY DEF Session, Rules, MediaRules

LEMMA StepInv == IInv /\ [Next]_vars => IInv'
<1> SUFFICES ASSUME IInv, [Next]_vars PROVE IInv'
    OBVIOUS
<1>t. TypeOK'
    BY StepTypes DEF IInv
<1>a. pc \notin {"free"} \cup SweepPcs => work \in Session
    BY DEF IInv, TypeOK, MutexDiscipline
<1>b. pc \in {"media"} \cup SweepPcs => session \in Session
    BY DEF IInv, TypeOK, MutexDiscipline
<1> USE <1>t, ConstantsAssumption
    DEF IInv, MutexDiscipline, ChainEmptyHere, TaggedIsOurs,
        SocketsWithRules, ChainOwned, NoInheritance, ActivationHeld, SetupWidth,
        Matches, Pcs, SetupPcs, BeginPcs, ClosePcs, SweepPcs, HelperStates,
        service, firewall, network, Serving
<1>1. ASSUME NEW m \in Methods, NEW c \in Callers, Send(m, c)
      PROVE IInv'
    BY <1>a, <1>b, <1>1 DEF Send
<1>2. ASSUME NEW c \in Callers, Depart(c)
      PROVE IInv'
    BY <1>a, <1>b, <1>2 DEF Depart
<1>3. ASSUME NEW c \in Callers, BeginRefused(c) \/ MediaRefused(c) \/ EndIgnored(c)
      PROVE IInv'
    BY <1>a, <1>b, <1>3 DEF BeginRefused, MediaRefused, EndIgnored
<1>4. ASSUME NEW c \in Callers, BeginAdmitted(c)
      PROVE IInv'
  <2>1. work' \in Session /\ work'.rules.rtcp = None /\ work'.rules.peer = None
    BY <1>4 DEF BeginAdmitted, NoInterfaceYet, Session, Rules, TypeOK
  <2>2. work' # None
    BY <2>1, BuiltFields
  <2> QED
    BY <2>1, <2>2, <1>4 DEF BeginAdmitted
<1>5. CASE BeginHook
    BY <1>a, <1>b, <1>5 DEF BeginHook
<1>6. CASE BeginPreclear
    BY <1>a, <1>b, <1>6 DEF BeginPreclear, ClearRules, CleanupOk, CleanupFailed, ProcessEnds
<1>7. CASE BeginActivate
    BY <1>a, <1>b, <1>7 DEF BeginActivate
<1>8. ASSUME NEW go \in BOOLEAN, BeginGroupStarted(go)
      PROVE IInv'
  <2>1. work \in Session /\ lastIfindex + 1 \in 0..MaxIfindex
    BY <1>a, <1>8 DEF BeginGroupStarted, TypeOK
  <2>2. /\ work'.rules.rtcp = work.rules.rtcp /\ work'.pins = work.pins
        /\ work'.rules.peer = work.rules.peer
    <3>1. work' = [work EXCEPT !.rules.idx = lastIfindex + 1, !.rules.go = go]
      BY <1>8 DEF BeginGroupStarted
    <3> QED
      BY <2>1, <3>1 DEF Session, Rules
  <2>3. work' \in Session /\ work' # None
    BY <2>1, <1>8, BuiltTypes, BuiltFields DEF BeginGroupStarted
  <2> QED
    BY <2>1, <2>2, <2>3, <1>8 DEF BeginGroupStarted
<1>9. CASE BeginTag
    BY <1>a, <1>b, <1>9 DEF BeginTag
<1>10. CASE BeginCheck
    BY <1>a, <1>b, <1>10 DEF BeginCheck, MayApply, Exists
<1>11. CASE BeginRestore
  <2>1. work \in Session
    BY <1>a, <1>11 DEF BeginRestore
  <2> QED
    BY <2>1, <1>11, BuiltFields DEF BeginRestore, RestoreOk
<1>12. CASE BeginAddress
  <2>1. work \in Session
    BY <1>a, <1>12 DEF BeginAddress
  <2>2. /\ work'.rules.local /\ work'.rules.peer = work.rules.peer
        /\ work'.owner = work.owner
        /\ work'.rules.idx = work.rules.idx
        /\ work'.rules.rtcp = work.rules.rtcp
        /\ work'.pins = work.pins
    <3>1. work' = [work EXCEPT !.rules.local = TRUE]
      BY <1>12 DEF BeginAddress
    <3> QED
      BY <2>1, <3>1, AddressFields
  <2>3. work' # None
    BY <2>1, <1>12, BuiltTypes, BuiltFields DEF BeginAddress
  <2>4. MutexDiscipline' /\ ChainEmptyHere' /\ ActivationHeld' /\ NoInheritance'
    BY <2>1, <2>3, <1>12 DEF BeginAddress
  <2>5. ChainOwned'
    <3>1. chain # None => chain.owner = work.owner /\ chain.rules.idx = work.rules.idx
      BY <1>12 DEF BeginAddress
    <3> QED
      BY <2>2, <2>3, <3>1, <1>12 DEF BeginAddress
  <2>6. SetupWidth'
    BY <2>2, <1>12 DEF BeginAddress
  <2>7. TaggedIsOurs' /\ SocketsWithRules'
    BY <2>1, <2>2, <2>3, <1>12, BuiltFields DEF BeginAddress
  <2> QED
    BY <2>4, <2>5, <2>6, <2>7
<1>13. CASE SetupAborted
  <2>1. work \in Session
    BY <1>a, <1>13 DEF SetupAborted
  <2>2. iface' = iface \/ (pc = "tag" /\ iface # None /\ iface' = [iface EXCEPT !.tagged = TRUE])
    BY <1>13 DEF SetupAborted, CommandKilled
  <2>3. chain' = chain \/ (pc = "restore" /\ chain' = AllowanceOf(work))
    BY <1>13 DEF SetupAborted, CommandKilled
  <2>4. ChainOwned' /\ NoInheritance' /\ SetupWidth'
    BY <2>1, <2>2, <2>3, <1>13, BuiltFields DEF SetupAborted
  <2> QED
    BY <2>1, <2>4, <1>13 DEF SetupAborted, DropActivationBus
<1>14. CASE BeginAbort
    BY <1>a, <1>b, <1>14 DEF BeginAbort, ClearRules, CleanupOk, CleanupFailed, ProcessEnds
<1>15. CASE BeginNarrow
    BY <1>a, <1>b, <1>15 DEF BeginNarrow
<1>16. CASE BeginCommit
  <2>1. work \in Session
    BY <1>a, <1>16 DEF BeginCommit
  <2>2. chain' = chain \/ chain' = AllowanceOf(work)
    BY <1>16 DEF BeginCommit, RestoreOk, RestoreFailed
  <2>3. CASE session' = work /\ work' = None /\ pc' = "free"
    BY <2>1, <2>2, <2>3, <1>16, BuiltFields DEF BeginCommit
  <2>4. CASE UNCHANGED <<session, work>> /\ pc' = "undo"
    BY <2>1, <2>2, <2>4, <1>16, BuiltFields DEF BeginCommit
  <2> QED
    BY <2>3, <2>4, <1>16 DEF BeginCommit
<1>17. CASE BeginUndo
    BY <1>a, <1>b, <1>17 DEF BeginUndo, DropActivationBus
<1>18. ASSUME NEW c \in Callers, NEW peer \in Peers, NEW port \in Ports,
              NEW rtcp \in {port, None}, MediaAccepted(c, peer, port, rtcp)
      PROVE IInv'
  <2>1. session \in Session
    BY <1>18 DEF MediaAccepted, SessionAlive, TypeOK
  <2>2. /\ work'.owner = session.owner
        /\ work'.rules.idx = session.rules.idx
        /\ work'.rules.rtcp = rtcp
        /\ work'.rules.peer = peer
        /\ work'.pins = port
    BY <2>1, <1>18, MediaFields DEF MediaAccepted
  <2>3. work' # None
    BY <2>1, <1>18, BuiltTypes, BuiltFields DEF MediaAccepted
  <2>4. SocketsWithRules'
    BY <2>2, <1>18 DEF MediaAccepted
  <2>5. MutexDiscipline'
    BY <2>1, <2>2, <2>3, <1>18, BuiltFields DEF MediaAccepted
  <2>6. ChainOwned' /\ NoInheritance' /\ TaggedIsOurs'
    BY <2>1, <1>18, BuiltFields DEF MediaAccepted
  <2>7. ActivationHeld' /\ ChainEmptyHere' /\ SetupWidth'
    BY <2>1, <2>2, <1>18, BuiltFields DEF MediaAccepted
  <2> QED
    BY <2>4, <2>5, <2>6, <2>7
<1>19. CASE MediaCommit
  <2>1. work \in Session /\ session \in Session
    BY <1>a, <1>b, <1>19 DEF MediaCommit
  <2>2. chain' = chain \/ chain' = AllowanceOf(work)
    BY <1>19 DEF MediaCommit, RestoreOk, RestoreFailed
  <2>3. session' = work \/ session' = session
    BY <1>19 DEF MediaCommit
  <2> QED
    BY <2>1, <2>2, <2>3, <1>19, BuiltFields DEF MediaCommit
<1>20. ASSUME NEW c \in Callers, EndTaken(c)
      PROVE IInv'
    BY <1>a, <1>b, <1>20 DEF EndTaken, TakeSession, SessionAlive
<1>21. CASE CloseClear
    BY <1>a, <1>b, <1>21 DEF CloseClear, CleanupOk, CleanupFailed
<1>22. CASE CloseDeactivate
  <2>1. CASE pc = "deactivate"
    BY <2>1, <1>22 DEF CloseDeactivate, DropActivationBus
  <2>2. CASE pc = "deactivate_failed"
    BY <2>2, <1>22 DEF CloseDeactivate, DropActivationBus, ProcessEnds
  <2> QED
    BY <2>1, <2>2, <1>22 DEF CloseDeactivate
<1>23. CASE SweepTick
    BY <1>a, <1>b, <1>23 DEF SweepTick
<1>24. CASE Sweep
    BY <1>a, <1>b, <1>24 DEF Sweep, SweepOwner, SweepActive, SweepIntact, Observe, TakeSession
<1>25. CASE Crash
  <2>1. work \in Session \/ work = None
    BY DEF TypeOK
  <2>2. NoInheritance'
    BY <1>a, <1>25, BuiltFields DEF Crash, CommandKilled
  <2> QED
    BY <2>2, <1>25 DEF Crash, ProcessEnds, DropActivationBus
<1>26. CASE Systemd
  <2>1. CASE StopPost
    BY <1>a, <1>b, <2>1 DEF StopPost, CleanupOk, CleanupFailed
  <2>2. CASE Restart
    BY <1>a, <1>b, <2>2 DEF Restart
  <2>3. CASE Startup
    BY <1>a, <1>b, <2>3 DEF Startup, CleanupOk, CleanupFailed
  <2> QED
    BY <1>26, <2>1, <2>2, <2>3 DEF Systemd
<1>27. ASSUME NEW loaded \in BOOLEAN, UfwChange(loaded)
      PROVE IInv'
    BY <1>a, <1>b, <1>27 DEF UfwChange
<1>28. CASE LinkLost \/ NmReleases
    BY <1>a, <1>b, <1>28 DEF LinkLost, NmReleases
<1>29. CASE IfaceReplaced
    BY <1>a, <1>b, <1>29 DEF IfaceReplaced
<1>30. CASE UNCHANGED vars
    BY <1>a, <1>b, <1>30 DEF vars
<1>31. ASSUME NEW c \in Callers, HandleCall(c) PROVE IInv'
    BY <1>3, <1>4, <1>18, <1>20, <1>31 DEF HandleCall
<1>32. CASE HolderStep
  <2>1. CASE Begin
    BY <1>5, <1>6, <1>7, <1>8, <1>9, <1>10, <1>11, <1>12, <1>13, <1>14, <1>15, <1>16, <2>1
    DEF Begin
  <2> QED
    BY <1>17, <1>19, <1>21, <1>22, <1>24, <1>32, <2>1 DEF HolderStep, Close
<1>33. CASE Environment
    BY <1>1, <1>2, <1>25, <1>27, <1>28, <1>29, <1>33 DEF Environment
<1> QED
    BY <1>23, <1>26, <1>30, <1>31, <1>32, <1>33 DEF Next

\* The strengthened invariant holds in every reachable state.
THEOREM Invariance == Spec => []IInv
  BY InitInv, StepInv, PTL DEF Spec

\* Every variable keeps its type.
THEOREM TypeCorrect == Spec => []TypeOK
  BY Invariance, PTL DEF IInv

\* No path of the helper forgets what it has permitted (service.rs).
THEOREM NothingForgotten == Spec => []ChainOwned
  BY Invariance, PTL DEF IInv

\* No interface inherits the allowances of another (firewall.rs).
THEOREM NothingInherited == Spec => []NoInheritance
  BY Invariance, PTL DEF IInv

\* No error path leaks an activation (service.rs).
THEOREM NothingLeaked == Spec => []ActivationHeld
  BY Invariance, PTL DEF IInv

\* Rule sets that render to the same lines agree on their RTCP port.
LEMMA LinesFixRtcp ==
  ASSUME NEW r \in Rules, NEW q \in Rules, Lines(r) = Lines(q), r.rtcp # None
  PROVE  q.rtcp = r.rtcp
<1> DEFINE line == <<"rtcp", r.local, r.peer, r.rtcp>>
<1>1. line \in Lines(q)
    BY DEF Lines
<1>2. q.rtcp # None /\ line = <<"rtcp", q.local, q.peer, q.rtcp>>
    BY <1>1 DEF Lines
<1> QED
    BY <1>2

\* An RTCP port the chain permits is held open by the helper, or the chain is
\* not what the session records (service.rs, authorize_media).
THEOREM PortsPinned == Spec => []RecordedPortPinned
<1>1. IInv => RecordedPortPinned
  <2> SUFFICES ASSUME IInv, helper = "serving", chain # None, chain.rules.rtcp # None
               PROVE  \E s \in {session, work} \ {None} :
                        s.pins = chain.rules.rtcp \/ Lines(s.rules) # Lines(chain.rules)
      BY DEF RecordedPortPinned
  <2>1. PICK s \in {session, work} \ {None} : chain.owner = s.owner
      BY DEF IInv, ChainOwned
  <2>2. s.rules \in Rules /\ chain.rules \in Rules
      BY <2>1 DEF IInv, TypeOK, Session, Allowance
  <2>3. CASE Lines(s.rules) = Lines(chain.rules)
    <3>1. s.rules.rtcp = chain.rules.rtcp
        BY <2>2, <2>3, LinesFixRtcp
    <3>2. s.pins = chain.rules.rtcp
        BY <2>1, <3>1 DEF IInv, SocketsWithRules
    <3> QED
        BY <2>1, <3>2
  <2> QED
      BY <2>1, <2>3
<1> QED
    BY <1>1, Invariance, PTL

---------------------------------------------------------------------------
\* What OnlyOwnerOrSupervisor says of one step, clause by clause.
BeginsByOwner == pc # "media" /\ pc' = "media" => OwnersCall("media")

SessionKept ==
  session # None /\ session' # session =>
    \/ OwnersCall("end")
    \/ pc = "media" /\ session' # None /\ session'.owner = session.owner
    \/ pc \in SweepPcs
    \/ helper' # "serving"

NothingElseOpens == session # None /\ chain' \notin {chain, None} => pc = "media"

\* No step does anything to a stored session, or under it, but for its owner.
LEMMA StepOfSession ==
  IInv /\ [Next]_vars => BeginsByOwner /\ SessionKept /\ NothingElseOpens
<1> SUFFICES ASSUME IInv, [Next]_vars
             PROVE  BeginsByOwner /\ SessionKept /\ NothingElseOpens
    OBVIOUS
<1> DEFINE Good == BeginsByOwner /\ SessionKept /\ NothingElseOpens
<1> USE DEF service, firewall, Serving, BeginPcs, ClosePcs, SetupPcs, SweepPcs,
            BeginsByOwner, SessionKept, NothingElseOpens
<1>0. session # None => pc \notin BeginPcs \cup ClosePcs
    BY DEF IInv, MutexDiscipline
<1>1. ASSUME NEW c \in Callers, HandleCall(c) PROVE Good
  <2>1. CASE EndTaken(c)
    BY <2>1 DEF EndTaken, SessionAlive, Receive, OwnersCall, TakeSession
  <2>2. ASSUME NEW peer \in Peers, NEW port \in Ports, NEW rtcp \in {port, None},
               MediaAccepted(c, peer, port, rtcp)
        PROVE  Good
    BY <2>2 DEF MediaAccepted, SessionAlive, Receive, OwnersCall
  <2> QED
    BY <1>1, <2>1, <2>2 DEF HandleCall, BeginRefused, BeginAdmitted, MediaRefused,
                            EndIgnored
<1>2. CASE Begin \/ BeginUndo
  <2>1. session = None /\ pc' # "media"
    BY <1>0, <1>2 DEF Begin, BeginHook, BeginPreclear, BeginActivate, BeginGroupStarted,
                BeginTag, BeginCheck, BeginRestore, BeginAddress, SetupAborted,
                BeginAbort, BeginNarrow, BeginCommit, BeginUndo, ClearRules, ProcessEnds
  <2> QED
    BY <2>1
<1>3. CASE Close
  <2>1. session = None /\ pc' # "media"
    BY <1>0, <1>3 DEF Close, CloseClear, CloseDeactivate, ProcessEnds
  <2> QED
    BY <2>1
<1>4. CASE SweepTick
    BY <1>4 DEF SweepTick
<1>5. CASE Systemd
  <2>1. session = None /\ UNCHANGED pc
    BY <1>5 DEF Systemd, StopPost, Restart, Startup, IInv, MutexDiscipline
  <2> QED
    BY <2>1
<1>6. CASE MediaCommit
    BY <1>6 DEF MediaCommit, IInv, MutexDiscipline, TypeOK, Session, RestoreOk, RestoreFailed
<1>7. CASE Sweep
    BY <1>7 DEF Sweep, SweepOwner, SweepActive, SweepIntact, Observe, TakeSession
<1>8. CASE Crash
  <2>1. pc' = "free" /\ helper' # "serving"
    BY <1>8 DEF Crash, ProcessEnds
  <2>2. session # None => pc \notin {"restore", "commit"}
    BY <1>0
  <2>3. NothingElseOpens
    BY <1>8, <2>2 DEF Crash, CommandKilled
  <2> QED
    BY <2>1, <2>3
<1>9. CASE Environment /\ ~Crash
    BY <1>9 DEF Environment, Depart, Send, UfwChange, LinkLost, IfaceReplaced, NmReleases
<1>10. CASE UNCHANGED vars
    BY <1>10 DEF vars
<1> QED
    BY <1>1, <1>2, <1>3, <1>4, <1>5, <1>6, <1>7, <1>8, <1>9, <1>10
    DEF Next, HolderStep, Environment

\* Sessions are authorized, changed and ended only for their owner (service.rs,
\* require_owner, session_alive and supervise).
THEOREM SessionsAreOwned == Spec => OnlyOwnerOrSupervisor
<1>1. IInv /\ [Next]_vars
        => [ BeginsByOwner /\ SessionKept /\ NothingElseOpens ]_vars
    BY StepOfSession
<1>2. IInv /\ [Next]_vars
        => [ /\ pc # "media" /\ pc' = "media" => OwnersCall("media")
             /\ session # None /\ session' # session =>
                  \/ OwnersCall("end")
                  \/ pc = "media" /\ session' # None /\ session'.owner = session.owner
                  \/ pc \in SweepPcs
                  \/ helper' # "serving"
             /\ session # None /\ chain' \notin {chain, None} => pc = "media" ]_vars
    BY <1>1 DEF BeginsByOwner, SessionKept, NothingElseOpens
<1> QED
    BY <1>2, Invariance, PTL DEF Spec, OnlyOwnerOrSupervisor

---------------------------------------------------------------------------
\* The refinement of the abstract lease

\* Everything held is held for the same caller, and it has the lease.
LEMMA OneLeaseholder ==
  ASSUME IInv, helper = "serving", NEW s \in {session, work} \ {None}
  PROVE  LeaseOf = s.owner
<1>1. session # None /\ work # None => work.owner = session.owner
    BY DEF IInv, TypeOK, MutexDiscipline, Pcs
<1>2. chain # None => chain.owner = s.owner
    BY <1>1 DEF IInv, ChainOwned
<1> QED
    BY <1>1, <1>2 DEF LeaseOf

\* The same of the next state.
LEMMA OneLeaseholderNext ==
  ASSUME IInv', helper' = "serving", NEW s \in {session', work'} \ {None}
  PROVE  LeaseOf' = s.owner
<1>1. session' # None /\ work' # None => work'.owner = session'.owner
    BY DEF IInv, TypeOK, MutexDiscipline, Pcs
<1>2. chain' # None => chain'.owner = s.owner
    BY <1>1 DEF IInv, ChainOwned
<1> QED
    BY <1>1, <1>2 DEF LeaseOf

\* When nothing is stored and nobody holds the mutex the lease is the chain's.
LEMMA NothingHeld ==
  IInv /\ helper = "serving" /\ session = None /\ work = None
    => chain = None /\ LeaseOf = None /\ WidthOf = "closed"
  BY DEF IInv, ChainOwned, LeaseOf, WidthOf

\* Kinds of steps, by what they do to the chain.
LEMMA StepKeepsChain ==
  chain' = chain /\ LeaseOf' = LeaseOf => UNCHANGED Lease!leaseVars
  BY DEF Lease!leaseVars, WidthOf

LEMMA StepEmptiesChain ==
  chain' = None /\ (LeaseOf' = LeaseOf \/ LeaseOf' = None) => Lease!LeaseNext
  BY DEF Lease!LeaseNext, Lease!Shut, Lease!Release, WidthOf

LEMMA StepFillsChain ==
  ASSUME IInv, helper = "serving", pc \in {"restore", "commit", "media"},
         chain' = AllowanceOf(work)
  PROVE  Lease!LeaseNext
<1>1. work \in Session
    BY DEF IInv, TypeOK, MutexDiscipline, SweepPcs
<1>2. /\ work # None /\ chain' # None
      /\ chain'.owner = work.owner /\ chain'.rules = work.rules
    BY <1>1, BuiltFields
<1>3. LeaseOf = work.owner
    BY <1>2, OneLeaseholder
<1>4. LeaseOf' = work.owner
    BY <1>2 DEF LeaseOf
<1>5. work.owner # None
    BY <1>1, ConstantsAssumption DEF Session
<1>6. WidthOf' = IF work.rules.peer # None THEN "peer"
                 ELSE IF work.rules.local THEN "address" ELSE "group"
    BY <1>2 DEF WidthOf
<1>7. pc = "restore" => WidthOf = "closed"
    BY DEF IInv, ChainEmptyHere, WidthOf
<1>8. pc = "commit" => WidthOf # "peer" /\ work.rules.local
  <2>1. pc = "commit" => WidthOf # "peer"
    <3> SUFFICES ASSUME pc = "commit" PROVE WidthOf # "peer"
        OBVIOUS
    <3>1. pc \in BeginPcs
      BY DEF BeginPcs
    <3>2. chain # None => chain.rules.peer = None
      BY <3>1, Zenon DEF IInv, SetupWidth
    <3> QED
      BY <3>2 DEF WidthOf
  <2>2. pc = "commit" => work.rules.local
    BY Zenon DEF IInv, SetupWidth
  <2> QED
    BY <2>1, <2>2, Zenon
<1>9. pc = "media" => WidthOf' = "peer"
    BY <1>6 DEF IInv, SetupWidth
<1>10. WidthOf \in {"closed", "group", "address", "peer"}
    BY DEF WidthOf
<1>11. WidthOf' \in Lease!NoWiderThan(WidthOf)
  <2>1. CASE WidthOf = "closed"
    BY <2>1, <1>6 DEF Lease!NoWiderThan, Lease!Widths
  <2>2. CASE WidthOf = "group"
    BY <2>2, <1>6 DEF Lease!NoWiderThan
  <2>3. CASE WidthOf = "address"
    BY <2>3, <1>6, <1>7, <1>8, <1>9 DEF Lease!NoWiderThan
  <2>4. CASE WidthOf = "peer"
    BY <2>4, <1>6, <1>7, <1>8, <1>9 DEF Lease!NoWiderThan
  <2> QED
    BY <2>1, <2>2, <2>3, <2>4, <1>10
<1> QED
    BY <1>3, <1>4, <1>5, <1>11 DEF Lease!LeaseNext, Lease!Permit

\* Every step of the helper is a step of the lease or leaves it unchanged.
LEMMA StepLease ==
  IInv /\ IInv' /\ [Next]_vars => [Lease!LeaseNext]_(Lease!leaseVars)
<1> SUFFICES ASSUME IInv, IInv', [Next]_vars
             PROVE  Lease!LeaseNext \/ UNCHANGED Lease!leaseVars
    OBVIOUS
<1>a. pc \notin {"free"} \cup SweepPcs => work \in Session /\ work # None
    BY NoneAssumption DEF IInv, TypeOK, MutexDiscipline
<1>b. ProcessEnds /\ chain' \in {chain, None}
        => Lease!LeaseNext \/ UNCHANGED Lease!leaseVars
  <2> SUFFICES ASSUME ProcessEnds, chain' \in {chain, None}
               PROVE  Lease!LeaseNext \/ UNCHANGED Lease!leaseVars
      OBVIOUS
  <2>1. CASE chain' = None
    BY <2>1, StepEmptiesChain DEF ProcessEnds, LeaseOf
  <2>2. CASE chain' = chain /\ chain # None
    BY <2>2, StepKeepsChain DEF LeaseOf
  <2> QED
    BY <2>1, <2>2
<1> USE DEF service, firewall, network, Serving, SweepPcs
\* Steps that touch neither the chain nor what is held.
<1>1. CASE UNCHANGED <<chain, session, work>>
    BY <1>1, StepKeepsChain DEF LeaseOf
<1>2. ASSUME NEW c \in Callers, BeginAdmitted(c)
      PROVE  Lease!LeaseNext \/ UNCHANGED Lease!leaseVars
  <2>1. chain = None /\ LeaseOf = None /\ WidthOf = "closed"
    BY <1>2, NothingHeld DEF BeginAdmitted, IInv, MutexDiscipline
  <2>2. work' # None /\ work'.owner = c
    BY <1>2, NoneAssumption DEF BeginAdmitted, IInv, MutexDiscipline, Pcs
  <2>3. LeaseOf' = c /\ WidthOf' = WidthOf
    BY <1>2, <2>1, <2>2 DEF BeginAdmitted, LeaseOf, WidthOf
  <2> QED
    BY <2>1, <2>3 DEF Lease!LeaseNext, Lease!Grant
<1>3. CASE BeginHook
  <2>1. CASE UNCHANGED work
    BY <1>1, <1>3, <2>1 DEF BeginHook
  <2>2. CASE work' = None
    BY <1>3, <2>2, StepEmptiesChain
       DEF BeginHook, IInv, ChainEmptyHere, MutexDiscipline, BeginPcs, LeaseOf
  <2> QED
    BY <1>3, <2>1, <2>2 DEF BeginHook
<1>4. CASE BeginPreclear
  <2>1. CASE chain' = None /\ UNCHANGED <<session, work, helper>>
    BY <1>a, <1>4, <2>1, OneLeaseholder, OneLeaseholderNext, StepEmptiesChain
       DEF BeginPreclear
  <2>2. CASE ProcessEnds /\ chain' \in {chain, None}
    BY <2>2, <1>b
  <2> QED
    BY <1>4, <2>1, <2>2 DEF BeginPreclear, ClearRules, CleanupOk, CleanupFailed
<1>5. CASE BeginAbort
  <2>1. CASE chain' = None /\ work' = None /\ UNCHANGED session
    BY <1>5, <2>1, StepEmptiesChain DEF BeginAbort, LeaseOf, IInv, MutexDiscipline, BeginPcs
  <2>2. CASE ProcessEnds /\ chain' \in {chain, None}
    BY <2>2, <1>b
  <2> QED
    BY <1>5, <2>1, <2>2 DEF BeginAbort, ClearRules, CleanupOk, CleanupFailed
<1>6. CASE BeginRestore
    BY <1>6, StepFillsChain DEF BeginRestore, RestoreOk
\* Setup completes its own session.
<1>7. CASE BeginAddress \/ \E go \in BOOLEAN : BeginGroupStarted(go)
  <2>1. work # None /\ work' # None /\ work'.owner = work.owner
    BY <1>7, <1>a, NoneAssumption DEF BeginAddress, BeginGroupStarted, Session, IInv, TypeOK, MutexDiscipline
  <2>2. UNCHANGED <<chain, session>>
    BY <1>7 DEF BeginAddress, BeginGroupStarted
  <2> QED
    BY <2>1, <2>2, StepKeepsChain DEF LeaseOf
<1>8. CASE SetupAborted
  <2>1. CASE chain' = chain
    BY <1>1, <1>8, <2>1 DEF SetupAborted
  <2>2. CASE pc = "restore" /\ chain' = AllowanceOf(work)
    BY <1>8, <2>2, StepFillsChain DEF SetupAborted
  <2> QED
    BY <1>8, <2>1, <2>2 DEF SetupAborted, CommandKilled, SetupPcs
<1>9. CASE BeginCommit \/ MediaCommit
  <2>1. CASE chain' = AllowanceOf(work)
    BY <1>9, <2>1, StepFillsChain DEF BeginCommit, MediaCommit
  <2>2. CASE chain' = chain /\ BeginCommit
    BY <2>1, <2>2, <1>1, OneLeaseholder DEF BeginCommit, RestoreOk
  <2>3. CASE chain' = chain /\ MediaCommit /\ chain # AllowanceOf(work)
    <3>1. session' = session /\ session # None
      BY <2>3 DEF MediaCommit, RestoreOk, IInv, MutexDiscipline
    <3> QED
      BY <2>3, <3>1, StepKeepsChain DEF LeaseOf
  <2> QED
    BY <1>9, <2>1, <2>2, <2>3 DEF BeginCommit, MediaCommit, RestoreOk, RestoreFailed
<1>10. ASSUME NEW c \in Callers, NEW peer \in Peers, NEW port \in Ports,
              NEW rtcp \in {port, None}, MediaAccepted(c, peer, port, rtcp)
       PROVE  Lease!LeaseNext \/ UNCHANGED Lease!leaseVars
    BY <1>10, StepKeepsChain DEF MediaAccepted, SessionAlive, LeaseOf
\* The session moves from behind the mutex to the holder.
<1>11. CASE TakeSession /\ UNCHANGED chain /\ session # None /\ work = None
    BY <1>11, StepKeepsChain DEF TakeSession, LeaseOf
<1>12. ASSUME NEW c \in Callers, EndTaken(c)
       PROVE  Lease!LeaseNext \/ UNCHANGED Lease!leaseVars
    BY <1>11, <1>12 DEF EndTaken, SessionAlive, IInv, MutexDiscipline
<1>13. CASE Sweep
    BY <1>1, <1>11, <1>13
       DEF Sweep, SweepOwner, SweepActive, SweepIntact, Observe, IInv, MutexDiscipline
<1>14. CASE CloseClear
  <2>1. CASE chain' = None
    BY <1>a, <1>14, <2>1, OneLeaseholder, OneLeaseholderNext, StepEmptiesChain DEF CloseClear
  <2>2. CASE chain' = chain
    BY <1>1, <1>14, <2>2 DEF CloseClear
  <2> QED
    BY <1>14, <2>1, <2>2 DEF CloseClear, CleanupOk, CleanupFailed
<1>15. CASE CloseDeactivate
  <2>1. CASE pc = "deactivate"
    BY <1>15, <2>1, StepEmptiesChain
       DEF CloseDeactivate, IInv, ChainEmptyHere, MutexDiscipline, ClosePcs, LeaseOf
  <2>2. CASE pc = "deactivate_failed"
    BY <1>15, <2>2, <1>b DEF CloseDeactivate
  <2> QED
    BY <1>15, <2>1, <2>2 DEF CloseDeactivate
<1>16. CASE Crash
  <2>1. CASE chain' \in {chain, None}
    BY <1>16, <2>1, <1>b DEF Crash
  <2>2. CASE pc \in {"restore", "commit", "media"} /\ chain' = AllowanceOf(work)
    BY <1>16, <2>2, StepFillsChain DEF Crash
  <2> QED
    BY <1>16, <2>1, <2>2 DEF Crash, CommandKilled
<1>17. CASE Systemd
  <2>1. session = None /\ work = None
    BY <1>17 DEF Systemd, StopPost, Restart, Startup, IInv, MutexDiscipline
  <2>2. UNCHANGED <<session, work>> /\ chain' \in {chain, None}
    BY <1>17 DEF Systemd, StopPost, Restart, Startup, CleanupOk, CleanupFailed
  <2>3. CASE chain' = None
    BY <2>1, <2>2, <2>3, StepEmptiesChain DEF LeaseOf
  <2> QED
    BY <1>1, <2>2, <2>3
<1>18. ASSUME NEW loaded \in BOOLEAN, UfwChange(loaded)
       PROVE  Lease!LeaseNext \/ UNCHANGED Lease!leaseVars
  <2>1. CASE session = None /\ work = None
    BY <1>18, <2>1, StepEmptiesChain DEF UfwChange, LeaseOf
  <2>2. ASSUME NEW s \in {session, work} \ {None}
        PROVE  Lease!LeaseNext
    <3>1. helper = "serving" /\ helper' = "serving"
      BY <1>18, <2>2 DEF UfwChange, IInv, MutexDiscipline
    <3>2. LeaseOf = s.owner /\ LeaseOf' = s.owner
      BY <1>18, <2>2, <3>1, OneLeaseholder, OneLeaseholderNext DEF UfwChange
    <3> QED
      BY <1>18, <3>2, StepEmptiesChain DEF UfwChange
  <2> QED
    BY <2>1, <2>2
<1>19. ASSUME NEW c \in Callers,
              Depart(c) \/ (\E m \in Methods : Send(m, c))
                \/ BeginRefused(c) \/ MediaRefused(c) \/ EndIgnored(c)
       PROVE  UNCHANGED <<chain, session, work>>
    BY <1>19 DEF Depart, Send, BeginRefused, MediaRefused, EndIgnored
<1>20. ASSUME \/ BeginActivate \/ BeginTag \/ BeginCheck \/ BeginNarrow \/ BeginUndo
              \/ SweepTick \/ LinkLost \/ IfaceReplaced \/ NmReleases \/ UNCHANGED vars
       PROVE  UNCHANGED <<chain, session, work>>
    BY <1>20 DEF BeginActivate, BeginTag, BeginCheck, BeginNarrow, BeginUndo,
                 SweepTick, LinkLost, IfaceReplaced, NmReleases, vars
<1> QED
    BY <1>1, <1>2, <1>3, <1>4, <1>5, <1>6, <1>7, <1>8, <1>9, <1>10, <1>12, <1>13,
       <1>14, <1>15, <1>16, <1>17, <1>18, <1>19, <1>20
    DEF Next, HandleCall, HolderStep, Begin, Close, Environment

\* The helper implements the abstract lease (module NetLease).
THEOREM HelperImplementsLease == Spec => ImplementsLease
<1>1. Init => Lease!LeaseInit
    BY DEF Init, Lease!LeaseInit, LeaseOf, WidthOf
<1> QED
    BY <1>1, Invariance, StepLease, PTL DEF Spec, ImplementsLease, Lease!LeaseSpec
=============================================================================
