----------------------------- MODULE NetHelper -----------------------------
(***************************************************************************)
(* The privileged helper waycast-networkd: one validated P2P session at a  *)
(* time, the firewall allowances it installs for it, the NetworkManager    *)
(* activation it is bound to, and the systemd recovery around it.          *)
(*                                                                         *)
(* The service state is one tokio Mutex<Option<Session>>.  Every method    *)
(* and the supervisor hold that mutex across awaits, so the model has one  *)
(* program counter, pc, for whoever holds it; everything else (callers     *)
(* leaving the bus, UFW, NetworkManager, the kernel replacing the group    *)
(* interface, a crash) happens between any two steps of the holder.        *)
(***************************************************************************)
EXTENDS Naturals, FiniteSets

CONSTANTS
  Callers,     \* unique system-bus names; a name that left never returns
  Peers,       \* addresses in the P2P group that may be a control peer
  GoPeer,      \* the one that owns the group when we joined as a client
  Ports,       \* RTCP ports of media socket pairs a caller can reserve
  MaxIfindex,  \* bound: interfaces the kernel creates in a behaviour
  MaxCalls,    \* bound: method calls on the wire at the same time
  MaxFaults,   \* bound: failed commands, UFW changes, crashes, lost links
  None         \* "no value"

ASSUME ConstantsAssumption ==
  /\ GoPeer \in Peers
  /\ MaxIfindex \in Nat /\ MaxCalls \in Nat /\ MaxFaults \in Nat
  /\ None \notin Callers \cup Peers \cup Ports

VARIABLES
  present,     \* callers connected to the bus
  calls,       \* method calls sent and not yet handled
  pc,          \* where the holder of the session mutex is; "free" if none
  work,        \* the Session value local to the holder (None if none)
  session,     \* the Option<Session> behind the mutex
  chain,       \* kernel contents of waycast-input, with the caller it is for
  hook,        \* is the chain present and entered from ufw-before-input
  iface,       \* kernel interface that has the group's name (None if none)
  lastIfindex, \* last interface index the kernel handed out
  activation,  \* NetworkManager's active connection, and who keeps it alive
  helper,      \* the helper process under systemd
  faults       \* faults so far

service  == <<pc, work, session>>
firewall == <<chain, hook>>
network  == <<iface, lastIfindex, activation>>
vars == <<present, calls, service, firewall, network, helper, faults>>

---------------------------------------------------------------------------
\* Values

Methods == {"begin", "media", "end"}
Calls   == Methods \X Callers

\* struct Rules: idx is its GroupInterface's index (0 before validation), the
\* local address is known or not, the peer and the RTCP port may be absent.
Rules == [idx: 0..MaxIfindex, go: BOOLEAN, local: BOOLEAN,
          peer: Peers \cup {None}, rtcp: Ports \cup {None}]
NoInterfaceYet == [idx |-> 0, go |-> FALSE, local |-> FALSE,
                   peer |-> None, rtcp |-> None]

\* struct Session; pins names the media sockets kept open.
Session == [owner: Callers, rules: Rules, pins: Ports \cup {None}]

\* What the chain holds, and (history, not in the kernel) for which caller.
Allowance == [owner: Callers, rules: Rules]
AllowanceOf(s) == [owner |-> s.owner, rules |-> s.rules]

Interface == [idx: 1..MaxIfindex, tagged: BOOLEAN]

ASSUME NoneAssumption ==
  None \notin Session /\ None \notin Allowance /\ None \notin Interface

\* Rules::lines: the lines rendered for a rule set.  The interface appears by
\* name only, so two interfaces of the same name give the same lines.
Lines(r) ==
  {<<"dhcp reply", FALSE, None, None>>, <<"rtsp", r.local, r.peer, None>>}
    \cup (IF r.go THEN {<<"dhcp request", FALSE, None, None>>} ELSE {})
    \cup (IF r.rtcp # None THEN {<<"rtcp", r.local, r.peer, r.rtcp>>} ELSE {})

\* Mutant: lines that match the interface by name alone.
MatchesByName(i) == TRUE

\* The prefix of every line: "-i <name> -m devgroup --src-group <tag>".
Matches(i) == i.tagged

\* GroupInterface::exists: same index, and it carries our device group.
Exists(r) == iface # None /\ iface.idx = r.idx /\ iface.tagged

\* The checks of Rules::apply before it runs iptables-restore.
MayApply(r) == Exists(r) /\ hook

\* Rules::intact: exists, hook in place, and the chain lists the same lines.
Intact(r) == /\ Exists(r)
             /\ hook
             /\ chain # None
             /\ Lines(chain.rules) = Lines(r)

---------------------------------------------------------------------------
\* session_alive, as its caller sees it when the call is answered.
SessionAlive(c) == session # None /\ session.owner = c

\* Control points.  Setup is everything inside the select! of begin_session.
SetupPcs == {"activate", "group", "tag", "check", "restore", "address"}
BeginPcs == {"hook", "preclear", "narrow", "commit", "undo", "abort"} \cup SetupPcs
ClosePcs == {"clear", "deactivate", "deactivate_failed"}
SweepPcs == {"see_owner", "see_active", "see_intact"}
Pcs      == {"free", "media"} \cup BeginPcs \cup ClosePcs \cup SweepPcs

\* "serving": on the bus.  "post": process gone, ExecStopPost not done.
\* "restart": waiting for systemd.  "start": before the bus name is claimed.
HelperStates == {"serving", "post", "restart", "start"}

TypeOK ==
  /\ present \in SUBSET Callers
  /\ calls \in SUBSET Calls
  /\ pc \in Pcs
  /\ work \in Session \cup {None}
  /\ session \in Session \cup {None}
  /\ chain \in Allowance \cup {None}
  /\ hook \in BOOLEAN
  /\ iface \in Interface \cup {None}
  /\ lastIfindex \in 0..MaxIfindex
  /\ activation \in {"none", "bound", "orphan"}
  /\ helper \in HelperStates
  /\ faults \in 0..MaxFaults

\* The machine boots with UFW loaded; the unit's ExecStart is about to run.
Init ==
  /\ present = Callers
  /\ calls = {}
  /\ pc = "free" /\ work = None /\ session = None
  /\ chain = None /\ hook = TRUE
  /\ iface = None /\ lastIfindex = 0 /\ activation = "none"
  /\ helper = "start"
  /\ faults = 0

---------------------------------------------------------------------------
\* Pieces of steps

Fault == faults < MaxFaults /\ faults' = faults + 1
NoFault == UNCHANGED faults

\* The process ends: its memory is gone, its buses and sockets are closed,
\* calls in progress are answered by the bus with an error.
ProcessEnds ==
  /\ helper' = "post"
  /\ pc' = "free" /\ work' = None /\ session' = None
  /\ calls' = {}

\* Mutant: the bus of the activation is kept open on an error path.
ActivationBusKept == UNCHANGED activation

\* Dropping the dedicated bus of the activation; NetworkManager has yet to notice.
DropActivationBus ==
  activation' = IF activation = "bound" THEN "orphan" ELSE activation

\* firewall::cleanup.  It fails only by a fault (a command failed or timed
\* out), and a timed-out flush may still have reached the kernel.
CleanupOk     == chain' = None /\ UNCHANGED hook /\ NoFault
CleanupFailed == chain' \in {chain, None} /\ UNCHANGED hook /\ Fault

\* Running the iptables-restore of Rules::apply for s: it commits and says
\* so; it fails (always, if the chain is gone); it commits and times out.
RestoreOk(s)     == hook /\ chain' = AllowanceOf(s) /\ UNCHANGED hook /\ NoFault
RestoreFailed(s) ==
  /\ UNCHANGED hook
  /\ \/ ~hook /\ UNCHANGED chain /\ NoFault
     \/ hook /\ chain' \in {chain, AllowanceOf(s)} /\ Fault

\* The command the holder is running, if any, is killed (kill_on_drop, or
\* systemd after a crash) before or after it took effect in the kernel.
CommandKilled ==
  /\ chain' \in IF pc \in {"restore", "commit", "media"} /\ hook
               THEN {chain, AllowanceOf(work)}
               ELSE IF pc \in {"preclear", "abort", "clear"} THEN {chain, None}
               ELSE {chain}
  /\ iface' \in IF pc = "tag" /\ iface # None
               THEN {iface, [iface EXCEPT !.tagged = TRUE]}
               ELSE {iface}

Serving(p) == helper = "serving" /\ pc = p

---------------------------------------------------------------------------
\* Callers and their method calls

\* A caller sends a request on its own bus connection.
Send(m, c) ==
  /\ helper = "serving"
  /\ c \in present
  /\ Cardinality(calls) < MaxCalls
  /\ <<m, c>> \notin calls
  /\ calls' = calls \cup {<<m, c>>}
  /\ UNCHANGED <<present, service, firewall, network, helper, faults>>

\* A caller exits, crashes or drops its session handle: the name is gone, the
\* calls it sent are not.
Depart(c) ==
  /\ c \in present
  /\ present' = present \ {c}
  /\ UNCHANGED <<calls, service, firewall, network, helper, faults>>

Receive(m, c) ==
  /\ <<m, c>> \in calls
  /\ calls' = calls \ {<<m, c>>}

\* begin_session refuses: the name or peer is malformed, polkit denies or does
\* not answer, the mutex is taken (try_lock), or a session is active.
BeginRefused(c) ==
  /\ helper = "serving"
  /\ Receive("begin", c)
  /\ UNCHANGED <<present, service, firewall, network, helper, faults>>

\* Mutant: begin_session without its "already active" check.
BeginAdmittedAgain(c) ==
  /\ Serving("free")
  /\ Receive("begin", c)
  /\ pc' = "hook"
  /\ work' = [owner |-> c, rules |-> NoInterfaceYet, pins |-> None]
  /\ UNCHANGED <<present, session, firewall, network, helper, faults>>

\* begin_session got past polkit, try_lock and the "already active" check.
BeginAdmitted(c) ==
  /\ Serving("free")
  /\ session = None
  /\ Receive("begin", c)
  /\ pc' = "hook"
  /\ work' = [owner |-> c, rules |-> NoInterfaceYet, pins |-> None]
  /\ UNCHANGED <<present, session, firewall, network, helper, faults>>

\* firewall::ensure_hook before anything is touched.
BeginHook ==
  /\ Serving("hook")
  /\ \/ hook /\ pc' = "preclear" /\ UNCHANGED work /\ NoFault
     \/ ~hook /\ pc' = "free" /\ work' = None /\ NoFault
     \/ hook /\ pc' = "free" /\ work' = None /\ Fault
  /\ UNCHANGED <<present, calls, session, firewall, network, helper>>

\* clear_rules, called where no activation bus is held: the process exits
\* when the chain cannot be emptied, else the holder goes on to next.
ClearRules(next) ==
  /\ \/ /\ CleanupOk
        /\ pc' = next
        /\ work' = IF next = "free" THEN None ELSE work
        /\ UNCHANGED <<calls, session, helper>>
     \/ CleanupFailed /\ ProcessEnds
  /\ UNCHANGED <<present, network>>

BeginPreclear == Serving("preclear") /\ ClearRules("activate")

\* P2pManager::new, resolve_sink and AddAndActivateConnection2, bound to the
\* dedicated bus; an activation still on its way out is replaced.
BeginActivate ==
  /\ Serving("activate")
  /\ activation' = "bound"
  /\ pc' = "group"
  /\ UNCHANGED <<present, calls, work, session, firewall, iface, lastIfindex,
                 helper, faults>>

\* GroupStarted arrives for a new interface: GroupInterface::validate records
\* its index, and claim sees it still there with no custom device group.
BeginGroupStarted(go) ==
  /\ Serving("group")
  /\ activation = "bound"
  /\ lastIfindex < MaxIfindex
  /\ lastIfindex' = lastIfindex + 1
  /\ iface' = [idx |-> lastIfindex + 1, tagged |-> FALSE]
  /\ work' = [work EXCEPT !.rules.idx = lastIfindex + 1, !.rules.go = go]
  /\ pc' = "tag"
  /\ UNCHANGED <<present, calls, session, firewall, activation, helper, faults>>

\* claim: "ip link set dev NAME group TAG" addresses the interface by name, so
\* it can tag a replacement; the exists() after it then refuses.
BeginTag ==
  /\ Serving("tag")
  /\ iface # None
  /\ iface.idx = work.rules.idx
  /\ iface' = [iface EXCEPT !.tagged = TRUE]
  /\ pc' = "check"
  /\ UNCHANGED <<present, calls, work, session, firewall, lastIfindex,
                 activation, helper, faults>>

\* First Rules::apply, before the group has an address: its checks ...
BeginCheck ==
  /\ Serving("check")
  /\ MayApply(work.rules)
  /\ pc' = "restore"
  /\ UNCHANGED <<present, calls, work, session, firewall, network, helper, faults>>

\* ... and its commit.
BeginRestore ==
  /\ Serving("restore")
  /\ RestoreOk(work)
  /\ pc' = "address"
  /\ UNCHANGED <<present, calls, work, session, network, helper>>

\* connect_prepared returns: the group's own interface has an address.
BeginAddress ==
  /\ Serving("address")
  /\ activation = "bound"
  /\ iface # None
  /\ work' = [work EXCEPT !.rules.local = TRUE]
  /\ pc' = "narrow"
  /\ UNCHANGED <<present, calls, session, firewall, network, helper, faults>>

\* Any way setup can end early: an error of one of its steps, the 60 s
\* timeout, the caller seen gone.  The future is dropped: its command is
\* killed before or after it took effect, and the activation bus is released.
SetupAborted ==
  /\ helper = "serving"
  /\ pc \in SetupPcs
  /\ CommandKilled
  /\ DropActivationBus
  /\ pc' = "abort"
  /\ UNCHANGED <<present, calls, work, session, hook, lastIfindex, helper, faults>>

BeginAbort == Serving("abort") /\ ClearRules("free")

\* Second Rules::apply, now with the local address: checks ...
BeginNarrow ==
  /\ Serving("narrow")
  /\ pc' = IF MayApply(work.rules) THEN "commit" ELSE "undo"
  /\ UNCHANGED <<present, calls, work, session, firewall, network, helper, faults>>

\* ... and commit; the session is stored only after it succeeded.
BeginCommit ==
  /\ Serving("commit")
  /\ \/ RestoreOk(work) /\ session' = work /\ work' = None /\ pc' = "free"
     \/ RestoreFailed(work) /\ UNCHANGED <<session, work>> /\ pc' = "undo"
  /\ UNCHANGED <<present, calls, network, helper>>

\* finalize failed: connection.close(), then drop it, then clear_rules.
BeginUndo ==
  /\ Serving("undo")
  /\ \/ activation' = "none" /\ iface' = None
     \/ DropActivationBus /\ UNCHANGED iface
  /\ pc' = "abort"
  /\ UNCHANGED <<present, calls, work, session, firewall, lastIfindex, helper, faults>>

---------------------------------------------------------------------------
\* authorize_media

\* validate_addresses: the control peer a rule set may be narrowed to.
PeerAllowed(r, peer) == IF r.go THEN peer \in Peers ELSE peer = GoPeer

\* The candidate rules: the session's, with this peer and its RTCP flow.
MediaRules(r, peer, rtcp) == [r EXCEPT !.peer = peer, !.rtcp = rtcp]

\* No session, another caller's session, sockets that fail validation, or an
\* interface or hook that is gone: nothing changes.
MediaRefused(c) ==
  /\ Serving("free")
  /\ Receive("media", c)
  /\ UNCHANGED <<present, service, firewall, network, helper, faults>>

\* Mutant: authorize_media without require_owner: anyone's call is taken.
MediaAcceptedFromAny(c, peer, port, rtcp) ==
  /\ Serving("free")
  /\ session # None
  /\ PeerAllowed(session.rules, peer)
  /\ MayApply(session.rules)
  /\ Receive("media", c)
  /\ work' = [session EXCEPT !.rules = MediaRules(session.rules, peer, rtcp),
                             !.pins = port]
  /\ pc' = "media"
  /\ UNCHANGED <<present, session, firewall, network, helper, faults>>

\* Validated sockets (their RTCP port is port) and the checks of apply; rtcp
\* is None when the sink negotiated no RTCP.
MediaAccepted(c, peer, port, rtcp) ==
  /\ Serving("free")
  /\ SessionAlive(c)
  /\ PeerAllowed(session.rules, peer)
  /\ MayApply(session.rules)
  /\ Receive("media", c)
  /\ work' = [session EXCEPT !.rules = MediaRules(session.rules, peer, rtcp),
                             !.pins = port]
  /\ pc' = "media"
  /\ UNCHANGED <<present, session, firewall, network, helper, faults>>

\* Mutant: the sockets are closed when the method returns.
MediaCommitUnpinned ==
  /\ Serving("media")
  /\ \/ RestoreOk(work) /\ session' = [work EXCEPT !.pins = None]
     \/ RestoreFailed(work) /\ UNCHANGED session
  /\ work' = None /\ pc' = "free"
  /\ UNCHANGED <<present, calls, network, helper>>

\* The commit.  Rules and sockets are kept only when it reported success.
MediaCommit ==
  /\ Serving("media")
  /\ \/ RestoreOk(work) /\ session' = work
     \/ RestoreFailed(work) /\ UNCHANGED session
  /\ work' = None /\ pc' = "free"
  /\ UNCHANGED <<present, calls, network, helper>>

---------------------------------------------------------------------------
\* Ending a session

\* guard.take(): close_session works on the session it was given.
TakeSession ==
  /\ work' = session
  /\ session' = None
  /\ pc' = "clear"

\* end_session: only the owner's call ends a session; without one it is a no-op.
EndTaken(c) ==
  /\ Serving("free")
  /\ SessionAlive(c)
  /\ Receive("end", c)
  /\ TakeSession
  /\ UNCHANGED <<present, firewall, network, helper, faults>>

EndIgnored(c) ==
  /\ Serving("free")
  /\ ~SessionAlive(c)
  /\ Receive("end", c)
  /\ UNCHANGED <<present, service, firewall, network, helper, faults>>

\* close_session: empty the chain first, remember whether that worked ...
CloseClear ==
  /\ Serving("clear")
  /\ \/ CleanupOk /\ pc' = "deactivate"
     \/ CleanupFailed /\ pc' = "deactivate_failed"
  /\ UNCHANGED <<present, calls, work, session, network, helper>>

\* Mutant: close_session keeps serving after a failed cleanup.
CloseServesOn ==
  /\ helper = "serving"
  /\ pc \in {"deactivate", "deactivate_failed"}
  /\ \/ activation' = "none" /\ iface' = None
     \/ DropActivationBus /\ UNCHANGED iface
  /\ pc' = "free" /\ work' = None
  /\ UNCHANGED <<present, calls, session, firewall, lastIfindex, helper, faults>>

\* ... then deactivate within 5 s or merely drop the bus (and the sockets) ...
CloseDeactivate ==
  /\ helper = "serving"
  /\ pc \in {"deactivate", "deactivate_failed"}
  /\ \/ activation' = "none" /\ iface' = None
     \/ DropActivationBus /\ UNCHANGED iface
  \* ... and exit for systemd if the chain could not be emptied.
  /\ IF pc = "deactivate_failed"
     THEN ProcessEnds
     ELSE /\ pc' = "free" /\ work' = None
          /\ UNCHANGED <<calls, session, helper>>
  /\ UNCHANGED <<present, firewall, lastIfindex, faults>>

---------------------------------------------------------------------------
\* supervise: a tick every 500 ms, skipped while the mutex is held

SweepTick ==
  /\ Serving("free")
  /\ session # None
  /\ pc' = "see_owner"
  /\ UNCHANGED <<present, calls, work, session, firewall, network, helper, faults>>

\* One of the three observations, with what comes next if it is good.  A query
\* that fails or times out counts as a bad observation.
Observe(p, good, next) ==
  /\ Serving(p)
  /\ \/ good /\ pc' = next /\ UNCHANGED <<work, session>> /\ NoFault
     \/ ~good /\ TakeSession /\ NoFault
     \/ good /\ TakeSession /\ Fault
  /\ UNCHANGED <<present, calls, firewall, network, helper>>

\* Mutants: the supervisor never misses the owner, or never compares the chain.
SweepAnyOwner == Observe("see_owner", TRUE, "see_active")
SweepAnyRules == Observe("see_intact", TRUE, "free")

SweepOwner  == Observe("see_owner", session.owner \in present, "see_active")
SweepActive == Observe("see_active", activation = "bound", "see_intact")
SweepIntact == Observe("see_intact", Intact(session.rules), "free")

---------------------------------------------------------------------------
\* systemd and crashes

\* The helper dies.  A command it was running is killed by systemd before
\* ExecStopPost, with or without its effect.
Crash ==
  /\ helper = "serving"
  /\ Fault
  /\ ProcessEnds
  /\ CommandKilled
  /\ DropActivationBus
  /\ UNCHANGED <<present, hook, lastIfindex>>

\* ExecStopPost=waycast-networkd --cleanup; its failure does not stop systemd.
StopPost ==
  /\ helper = "post"
  /\ CleanupOk \/ CleanupFailed
  /\ helper' = "restart"
  /\ UNCHANGED <<present, calls, service, network>>

\* Restart=on-failure after RestartSec, or D-Bus activation by the next caller.
Restart ==
  /\ helper = "restart"
  /\ helper' = "start"
  /\ UNCHANGED <<present, calls, service, firewall, network, faults>>

\* Mutant: the bus name is claimed without the cleanup before it.
StartupUnclean ==
  /\ helper = "start"
  /\ helper' = "serving"
  /\ UNCHANGED <<present, calls, service, firewall, network, faults>>

\* main: the cleanup that precedes claiming the bus name.
Startup ==
  /\ helper = "start"
  /\ \/ CleanupOk /\ helper' = "serving"
     \/ CleanupFailed /\ helper' = "post"
  /\ UNCHANGED <<present, calls, service, network>>

---------------------------------------------------------------------------
\* The rest of the machine

\* A UFW reload leaves the chain empty (the installer's hook flushes it); a
\* disable removes chain and hook, a later enable restores them empty.
UfwChange(loaded) ==
  /\ Fault
  /\ chain' = None
  /\ hook' = loaded
  /\ UNCHANGED <<present, calls, service, network, helper>>

\* The TV leaves or NetworkManager gives up: the activation and the group
\* interface are gone.
LinkLost ==
  /\ activation # "none"
  /\ Fault
  /\ activation' = "none"
  /\ iface' = None
  /\ UNCHANGED <<present, calls, service, firewall, lastIfindex, helper>>

\* The group interface is deleted and recreated under the same name: new
\* index, device group 0.
IfaceReplaced ==
  /\ iface # None
  /\ lastIfindex < MaxIfindex
  /\ Fault
  /\ lastIfindex' = lastIfindex + 1
  /\ iface' = [idx |-> lastIfindex + 1, tagged |-> FALSE]
  /\ UNCHANGED <<present, calls, service, firewall, activation, helper>>

\* NetworkManager notices that the bus an activation was bound to is gone.
NmReleases ==
  /\ activation = "orphan"
  /\ activation' = "none"
  /\ iface' = None
  /\ UNCHANGED <<present, calls, service, firewall, lastIfindex, helper, faults>>

---------------------------------------------------------------------------
Begin ==
  \/ BeginHook \/ BeginPreclear \/ BeginActivate
  \/ \E go \in BOOLEAN : BeginGroupStarted(go)
  \/ BeginTag \/ BeginCheck \/ BeginRestore \/ BeginAddress
  \/ SetupAborted \/ BeginAbort \/ BeginNarrow \/ BeginCommit

Close == CloseClear \/ CloseDeactivate
Sweep == SweepOwner \/ SweepActive \/ SweepIntact

\* What the holder of the mutex does next.
HolderStep == Begin \/ BeginUndo \/ MediaCommit \/ Close \/ Sweep

HandleCall(c) ==
  \/ BeginRefused(c) \/ BeginAdmitted(c)
  \/ MediaRefused(c)
  \/ \E peer \in Peers, port \in Ports :
       \E rtcp \in {port, None} : MediaAccepted(c, peer, port, rtcp)
  \/ EndTaken(c) \/ EndIgnored(c)

Systemd == StopPost \/ Restart \/ Startup

Environment ==
  \/ \E c \in Callers : Depart(c) \/ \E m \in Methods : Send(m, c)
  \/ Crash
  \/ \E loaded \in BOOLEAN : UfwChange(loaded)
  \/ LinkLost \/ IfaceReplaced \/ NmReleases

Next ==
  \/ \E c \in Callers : HandleCall(c)
  \/ SweepTick
  \/ HolderStep
  \/ Systemd
  \/ Environment

Spec == Init /\ [][Next]_vars

---------------------------------------------------------------------------
\* Safety

\* While the helper is on the bus, whatever the chain permits is permitted for
\* the caller whose session is stored, or is being set up or closed by the
\* holder of the mutex (and on that session's own interface): no path of
\* begin, end, supervision or recovery forgets the chain.
ChainOwned ==
  helper = "serving" /\ chain # None =>
    \E s \in {session, work} \ {None} :
      /\ chain.owner = s.owner
      /\ chain.rules.idx = s.rules.idx

\* An interface the lines of the chain match is the interface they were
\* written for, also while the helper is down or cleanup is pending: a new
\* interface reusing the name never inherits an allowance.
NoInheritance ==
  chain # None /\ iface # None /\ Matches(iface) => iface.idx = chain.rules.idx

\* The media sockets whose RTCP port the chain permits are held open by the
\* helper until the chain is emptied, so nobody else can bind that port.  No run checks
\* this: it does not hold after a restore that commits and is reported as failed
\* (README, section 5).
PermittedPortPinned ==
  helper = "serving" /\ chain # None /\ chain.rules.rtcp # None =>
    \E s \in {session, work} \ {None} : s.pins = chain.rules.rtcp

\* The same wherever the kernel has not drifted from the rules recorded for
\* the session (a restore that committed but was reported as failed).
RecordedPortPinned ==
  helper = "serving" /\ chain # None /\ chain.rules.rtcp # None =>
    \E s \in {session, work} \ {None} :
      s.pins = chain.rules.rtcp \/ Lines(s.rules) # Lines(chain.rules)

\* An activation kept alive by a bus of the helper belongs to the stored session
\* or to the operation in progress: no error path of begin or close leaks it.
ActivationHeld ==
  activation = "bound" =>
    \/ session # None
    \/ pc \in {"undo", "narrow", "commit"} \cup ClosePcs \cup SetupPcs

\* A call that the owner of the stored session sent is taken off the bus.
OwnersCall(m) == session # None /\ <<m, session.owner>> \in calls \ calls'

\* require_owner guards both methods that work on a stored session
\* (docs/network-helper.md: only the owner may).  An authorization begins only
\* with a call the owner made, and while a session is stored nothing is newly
\* permitted but by such an authorization.  The session is changed by an
\* authorization, for the same owner, and removed only by the owner's
\* EndSession, by the supervisor or with the process: another caller's call,
\* whenever it is handled, does none of this.
OnlyOwnerOrSupervisor ==
  [][ /\ pc # "media" /\ pc' = "media" => OwnersCall("media")
      /\ session # None /\ session' # session =>
           \/ OwnersCall("end")
           \/ pc = "media" /\ session' # None /\ session'.owner = session.owner
           \/ pc \in SweepPcs
           \/ helper' # "serving"
      /\ session # None /\ chain' \notin {chain, None} => pc = "media" ]_vars

\* docs/network-helper.md: "A UFW reload or removal of the hook ends the
\* session instead of re-creating permissions from stale state": a chain
\* emptied under a stored session is not filled again for it.
ReloadNeverReopens ==
  [][session # None /\ session' # None /\ chain = None => chain' = None]_vars

---------------------------------------------------------------------------
\* The inductive invariant behind the safety properties

\* Who may hold what, by control point.
MutexDiscipline ==
  /\ helper # "serving" => pc = "free" /\ session = None
  /\ work = None <=> pc \in {"free"} \cup SweepPcs
  /\ pc \in {"media"} \cup SweepPcs => session # None
  /\ pc \in BeginPcs \cup ClosePcs => session = None
  /\ pc = "media" => /\ work.owner = session.owner
                     /\ work.rules.idx = session.rules.idx

\* begin_session starts from an empty chain and fills it only by apply;
\* close_session empties it before it lets go of anything else.
ChainEmptyHere ==
  helper = "serving"
    /\ pc \in {"hook", "preclear", "activate", "group", "tag", "check", "restore",
               "deactivate"}
  => chain = None

\* A tagged interface is the one the session, or the setup past its claim, is about.
TaggedIsOurs ==
  iface # None /\ iface.tagged =>
    /\ pc \in {"check", "restore", "address", "narrow", "commit"}
         => iface.idx = work.rules.idx
    /\ session # None => iface.idx = session.rules.idx

\* A rule set with an RTCP flow comes with the sockets of that flow.
SocketsWithRules ==
  \A s \in {session, work} \ {None} :
    s.rules.rtcp # None => s.pins = s.rules.rtcp

\* Nothing is narrowed to a peer before the session is stored, the second apply
\* of begin_session knows the local address, authorize_media knows the peer.
SetupWidth ==
  /\ pc \in BeginPcs => /\ work.rules.peer = None
                        /\ chain # None => chain.rules.peer = None
  /\ pc \in {"narrow", "commit"} => work.rules.local
  /\ pc = "media" => work.rules.peer # None

IInv == /\ TypeOK
        /\ MutexDiscipline
        /\ ChainEmptyHere
        /\ TaggedIsOurs
        /\ SocketsWithRules
        /\ ChainOwned
        /\ NoInheritance
        /\ ActivationHeld
        /\ SetupWidth

---------------------------------------------------------------------------
\* The abstract lease

LeaseOf == IF chain # None THEN chain.owner
           ELSE IF session # None THEN session.owner
           ELSE IF work # None THEN work.owner
           ELSE None

WidthOf == IF chain = None THEN "closed"
           ELSE IF chain.rules.peer # None THEN "peer"
           ELSE IF chain.rules.local THEN "address"
           ELSE "group"

Lease == INSTANCE NetLease WITH lease <- LeaseOf, width <- WidthOf

\* The helper implements the lease: see module NetLease.
ImplementsLease == Lease!LeaseSpec

---------------------------------------------------------------------------
\* Liveness

\* Every await of the holder ends (commands within 8 s, setup within 60 s,
\* closing within 5 s, D-Bus queries within 2 s); the supervisor's tick finds
\* the mutex free again and again; systemd restarts the unit.
HelperFairness ==
  /\ WF_vars(Begin \/ MediaCommit \/ Close \/ Sweep)
  /\ SF_vars(SweepTick)
  /\ WF_vars(Systemd)

\* The one await without a bound: connection.close() when finalize failed.
NmAnswers == WF_vars(BeginUndo)

FairSpec == Spec /\ HelperFairness /\ NmAnswers

\* Without it LostOwnerReleased does not hold (README, section 5); no run uses it.
FairSpecNmMayHang == Spec /\ HelperFairness

\* Something is held for caller c.
HeldFor(c) == \E s \in {session, work, chain} \ {None} : s.owner = c

\* Once a caller has left the bus, sooner or later nothing is held or
\* permitted for it ever again, even if a call it had sent is handled later.
LostOwnerReleased == \A c \in Callers : c \notin present ~> []~HeldFor(c)

\* A session whose rules are no longer what the kernel enforces, or whose
\* interface was lost or replaced, does not last: it is ended (or authorized
\* afresh by its owner).
DriftEnds ==
  (session # None /\ ~Intact(session.rules))
    ~> (session = None \/ Intact(session.rules))

\* Allowances left behind by a dead helper are removed.
CrashLeavesNothing == helper # "serving" ~> chain = None
=============================================================================
