----------------------------- MODULE AudioSink -----------------------------
(***************************************************************************)
(* The virtual audio sink: waycast processes that each run one session, a  *)
(* sound server that outlives them, and one breadcrumb file through which  *)
(* a process that died is cleaned up after by the next one that starts.    *)
(*                                                                         *)
(* Every pactl call and every access to the file is a step; a process may  *)
(* be killed between any two.  The sound server is external.               *)
(***************************************************************************)
EXTENDS Naturals

CONSTANTS
  Procs,           \* waycast processes
  UserSinks,       \* the real sinks of the machine
  MaxIndex,        \* bound on the modules loaded
  Other,           \* owner of the modules that are not waycast's
  None             \* no value: no breadcrumb, no default, no module

Indices == 1..MaxIndex

\* A sink is named after its process, so that a name is never used twice.
Sinks  == Procs \cup UserSinks
Record == [owner : Procs, index : 0..MaxIndex, prev : Sinks \cup {None}]

ASSUME ConstantsAssumption ==
  /\ MaxIndex \in Nat
  /\ None \notin Procs \cup UserSinks \cup {Other} \cup Record
  /\ Other \notin Procs
  /\ Procs \cap UserSinks = {}

VARIABLES
  pc,          \* where each process is
  job,         \* the sink each process is to undo: its own, or the one it found
  dropped,     \* processes whose cleanup is being run (again) by Drop
  modules,     \* owner of the module with each index
  last,        \* the last index handed out since the sound server started
  default,     \* the default sink
  crumb,       \* the breadcrumb file
  wanted,      \* the default the user chose (history)
  overlapped,  \* did two processes ever run at the same time (history)
  failed       \* which operations ever failed, and restarts (history)

procs   == <<pc, job, dropped>>
server  == <<modules, last, default>>
history == <<wanted, overlapped, failed>>
vars    == <<procs, server, crumb, history>>

---------------------------------------------------------------------------
\* "lost" has died between load-module and the breadcrumb.
Points == {"new", "between", "load", "note", "setdef", "live",
           "restore", "unload", "forget", "gone", "lost"}
Kinds == {"write", "restore", "unload", "reboot"}

TypeOK ==
  /\ pc \in [Procs -> Points]
  /\ job \in [Procs -> Record \cup {None}]
  /\ dropped \subseteq Procs
  /\ modules \in [Indices -> Procs \cup {Other, None}]
  /\ last \in 0..MaxIndex
  /\ default \in Sinks
  /\ crumb \in Record \cup {None}
  /\ wanted \in UserSinks /\ overlapped \in BOOLEAN /\ failed \subseteq Kinds

Init ==
  /\ pc = [p \in Procs |-> "new"]
  /\ job = [p \in Procs |-> None]
  /\ dropped = {}
  /\ modules = [i \in Indices |-> None]
  /\ last = 0
  /\ wanted \in UserSinks /\ default = wanted
  /\ crumb = None
  /\ overlapped = FALSE /\ failed = {}

Alive(p)  == pc[p] \notin {"new", "gone", "lost"}
Loaded(p) == \E i \in Indices : modules[i] = p
Exists(s) == s \in UserSinks \/ Loaded(s)

Goto(p, point) == pc' = [pc EXCEPT ![p] = point]
Fails(kind)    == failed' = failed \cup {kind}

\* Its memory goes with it.
Exits(p, point) ==
  /\ Goto(p, point)
  /\ job' = [job EXCEPT ![p] = None]
  /\ dropped' = dropped \ {p}

---------------------------------------------------------------------------
\* Starting a session

\* Mutant: a breadcrumb is taken to be left over, whoever wrote it.
AnyCrumb(record) == record # None

\* read_breadcrumb: a sink to recover, unless its owner is still running.
Stale(record) == record # None /\ ~Alive(record.owner)

\* Mutant: the breadcrumb is removed first and its sink then.
StartForgetting(p) ==
  /\ pc[p] = "new"
  /\ IF Stale(crumb)
     THEN /\ job' = [job EXCEPT ![p] = crumb] /\ crumb' = None
          /\ Goto(p, "restore")
     ELSE /\ Goto(p, "between")
          /\ UNCHANGED <<job, crumb>>
  /\ overlapped' = (overlapped \/ \E q \in Procs : Alive(q))
  /\ UNCHANGED <<dropped, server, wanted, failed>>

\* cleanup_stale, up to the decision.
Start(p) ==
  /\ pc[p] = "new"
  /\ IF Stale(crumb)
     THEN /\ job' = [job EXCEPT ![p] = crumb]
          /\ Goto(p, "restore")
     ELSE /\ Goto(p, "between")
          /\ UNCHANGED job
  /\ overlapped' = (overlapped \/ \E q \in Procs : Alive(q))
  /\ UNCHANGED <<dropped, server, crumb, wanted, failed>>

\* Discovery and connecting lie between; then get-default-sink, whose failure
\* only means that there is nothing to go back to.
ReadDefault(p) ==
  /\ pc[p] = "between"
  /\ \E prev \in {default, None} :
       /\ job' = [job EXCEPT ![p] = [owner |-> p, index |-> 0, prev |-> prev]]
       /\ IF prev = None THEN Fails("restore") ELSE UNCHANGED failed
  /\ Goto(p, "load")
  /\ UNCHANGED <<dropped, server, crumb, wanted, overlapped>>

\* load-module: the sound server counts its modules.
LoadModule(p) ==
  /\ pc[p] = "load"
  /\ last < MaxIndex
  /\ last' = last + 1
  /\ modules' = [modules EXCEPT ![last'] = p]
  /\ job' = [job EXCEPT ![p].index = last']
  /\ Goto(p, "note")
  /\ UNCHANGED <<dropped, default, crumb, history>>

\* A session that fails before it has a sink, or needs none.
NoSink(p) ==
  /\ pc[p] \in {"between", "load"}
  /\ Exits(p, "gone")
  /\ UNCHANGED <<server, crumb, history>>

\* Mutant: the previous default is left out of the breadcrumb.
WriteBrief(p) ==
  /\ pc[p] = "note"
  /\ \/ crumb' = [job[p] EXCEPT !.prev = None] /\ UNCHANGED failed
     \/ UNCHANGED crumb /\ Fails("write")
  /\ Goto(p, "setdef")
  /\ UNCHANGED <<job, dropped, server, wanted, overlapped>>

\* write_breadcrumb, best-effort.
WriteCrumb(p) ==
  /\ pc[p] = "note"
  /\ \/ crumb' = job[p] /\ UNCHANGED failed
     \/ UNCHANGED crumb /\ Fails("write")
  /\ Goto(p, "setdef")
  /\ UNCHANGED <<job, dropped, server, wanted, overlapped>>

SetAsDefault(p) ==
  /\ pc[p] = "setdef"
  /\ default' = p
  /\ Goto(p, "live")
  /\ UNCHANGED <<job, dropped, modules, last, crumb, history>>

\* create() returns an error and the new sink is dropped.
SetAsDefaultFails(p) ==
  /\ pc[p] = "setdef"
  /\ dropped' = dropped \cup {p}
  /\ Goto(p, "restore")
  /\ UNCHANGED <<job, server, crumb, history>>

---------------------------------------------------------------------------
\* Undoing a sink: cleanup() of a process's own, cleanup_stale() of the one it
\* found

EndSession(p) ==
  /\ pc[p] = "live"
  /\ Goto(p, "restore")
  /\ UNCHANGED <<job, dropped, server, crumb, history>>

\* A process that is done with its own sink exits; one that recovered another's
\* goes on with its session.
Done(p) ==
  IF job[p].owner = p THEN Exits(p, "gone")
  ELSE Goto(p, "between") /\ UNCHANGED <<job, dropped>>

\* set-default-sink, when there is a default to go back to; its failure is only
\* logged.
Restore(p) ==
  /\ pc[p] = "restore"
  /\ \/ job[p].prev # None /\ Exists(job[p].prev) /\ default' = job[p].prev /\ UNCHANGED failed
     \/ job[p].prev = None /\ UNCHANGED <<default, failed>>
     \/ job[p].prev # None /\ UNCHANGED default /\ Fails("restore")
  /\ Goto(p, "unload")
  /\ UNCHANGED <<job, dropped, modules, last, crumb, wanted, overlapped>>

\* What the sound server makes the default when the default goes.
Fallback(p) ==
  IF modules[job[p].index] = default THEN default' \in UserSinks ELSE UNCHANGED default

Unload(p) ==
  /\ pc[p] = "unload"
  /\ modules[job[p].index] # None
  /\ modules' = [modules EXCEPT ![job[p].index] = None]
  /\ Fallback(p)
  /\ Goto(p, "forget")
  /\ UNCHANGED <<job, dropped, last, crumb, history>>

\* unload-module fails, and the list of sinks shows whether the sink is still
\* there; when the list fails too it is taken to be.
UnloadFails(p) ==
  /\ pc[p] = "unload"
  /\ \/ ~Loaded(job[p].owner) /\ Goto(p, "forget") /\ UNCHANGED <<job, dropped, failed>>
     \/ Done(p) /\ Fails("unload")
  /\ UNCHANGED <<server, crumb, wanted, overlapped>>

\* remove_breadcrumb removes the file, whatever is in it.
Forget(p) ==
  /\ pc[p] = "forget"
  /\ crumb' = None
  /\ Done(p)
  /\ UNCHANGED <<server, history>>

\* pactl cannot be run at all.  cleanup() returns early and is tried once more
\* by Drop; cleanup_stale() gives up.
NoPactl(p) ==
  /\ pc[p] \in {"restore", "unload"}
  /\ Fails("unload")
  /\ IF job[p].owner = p /\ p \notin dropped
     THEN dropped' = dropped \cup {p} /\ Goto(p, "restore") /\ UNCHANGED job
     ELSE Done(p)
  /\ UNCHANGED <<server, crumb, wanted, overlapped>>

---------------------------------------------------------------------------
\* Around the processes

\* SIGKILL, a crash, the power switch: no destructor runs.  A file that is being
\* written may be left empty, which reads like none.
Crash(p) ==
  /\ Alive(p)
  /\ Exits(p, IF pc[p] = "note" THEN "lost" ELSE "gone")
  /\ crumb' \in IF pc[p] = "note" THEN {crumb, None} ELSE {crumb}
  /\ UNCHANGED <<server, history>>

\* Another program loads a module.
OtherLoads ==
  /\ last < MaxIndex
  /\ last' = last + 1
  /\ modules' = [modules EXCEPT ![last'] = Other]
  /\ UNCHANGED <<procs, default, crumb, history>>

\* The machine is restarted; breadcrumbs are kept under $XDG_STATE_HOME, and
\* indices are counted from the beginning.
Restart ==
  /\ \A p \in Procs : ~Alive(p)
  /\ modules' = [i \in Indices |-> None]
  /\ last' = 0
  /\ default' = wanted
  /\ Fails("reboot")
  /\ UNCHANGED <<procs, crumb, wanted, overlapped>>

\* With no waycast around, the user picks another default.
UserChooses(s) ==
  /\ crumb = None
  /\ \A p \in Procs : ~Alive(p) /\ ~Loaded(p)
  /\ wanted' = s /\ default' = s
  /\ UNCHANGED <<procs, modules, last, crumb, overlapped, failed>>

---------------------------------------------------------------------------
Step(p) ==
  \/ Start(p) \/ ReadDefault(p) \/ LoadModule(p) \/ NoSink(p)
  \/ WriteCrumb(p) \/ SetAsDefault(p) \/ SetAsDefaultFails(p) \/ EndSession(p)
  \/ Restore(p) \/ Unload(p) \/ UnloadFails(p) \/ Forget(p) \/ NoPactl(p)
  \/ Crash(p)

Next ==
  \/ \E p \in Procs : Step(p)
  \/ \E s \in UserSinks : UserChooses(s)
  \/ OtherLoads \/ Restart

Spec == Init /\ [][Next]_vars

---------------------------------------------------------------------------
\* Properties

\* No other process, neither one that recovers a breadcrumb nor one that cleans
\* up after itself, takes the sink of a session that is running, unless the index in
\* the breadcrumb is from before a restart.
LiveSinkKept ==
  [][ "reboot" \notin failed =>
        \A p \in Procs : Alive(p) /\ Loaded(p) /\ ~Loaded(p)' => pc'[p] # pc[p] ]_vars

Unrecorded(p) == pc[p] = "gone" /\ Loaded(p) /\ (crumb = None \/ crumb.owner # p)

\* However often recovery itself is interrupted: with one process at a time, and
\* operations that work, a sink that outlived its process is in the breadcrumb,
\* unless the process died before it could write one.
Recorded ==
  ~overlapped /\ failed \cap {"write", "unload"} = {} => \A p \in Procs : ~Unrecorded(p)

\* When all is over, after crashes too, the sound comes out where the user had it
\* before the first session: for processes one at a time, when no operation failed.
DefaultRestored ==
  (\A p \in Procs : ~Alive(p)) /\ crumb = None /\ ~overlapped /\ failed = {}
    => default = wanted

\* audio/lib.rs:323-325: the breadcrumb is kept "so a transient failure stays
\* retryable next run rather than becoming a silent permanent leak".  No run checks
\* this: it does not hold (README, section 5).
StaysRetryable ==
  ~overlapped /\ "write" \notin failed => \A p \in Procs : ~Unrecorded(p)

---------------------------------------------------------------------------
\* The inductive invariant of the proofs

\* A record of a sink that is, or was, at its index: the owner has started, and while
\* the machine runs no other module comes to have that index.
Known(record) ==
  /\ record \in Record /\ record.index \in Indices
  /\ pc[record.owner] # "new"
  /\ "reboot" \notin failed =>
       record.index <= last /\ modules[record.index] \in {record.owner, None}

Undoing == {"restore", "unload", "forget"}

\* What a process has in hand: its own sink, or one of a process that has died.
InHand(p) ==
  /\ pc[p] \in {"load", "note", "setdef", "live"} => job[p] # None /\ job[p].owner = p
  /\ pc[p] \in {"note", "setdef", "live"} \cup Undoing => job[p] # None /\ Known(job[p])
  /\ pc[p] \in Undoing => job[p].owner = p \/ ~Alive(job[p].owner)

JobsInHand == \A p \in Procs : InHand(p)

\* What a new process can read is good enough to be undone.
CrumbKnown == crumb # None => Known(crumb)

\* Indices are handed out in order.
FreshIndices == \A i \in Indices : i > last => modules[i] = None

IInv == TypeOK /\ JobsInHand /\ CrumbKnown /\ FreshIndices

\* With one process at a time whose operations work, the breadcrumb is that of the sink
\* there is, from when it was written to when the sink is gone.
Calm == ~overlapped /\ failed \cap {"write", "unload"} = {}

OneAtATime == \A p, q \in Procs : Alive(p) /\ Alive(q) => p = q

Noted(p) ==
  /\ pc[p] \in {"between", "load", "note"} => crumb = None
  /\ pc[p] \in {"setdef", "live"} \cup Undoing => crumb = job[p]
  /\ pc[p] = "forget" => ~Loaded(job[p].owner)

LoadsOnce(p) ==
  /\ pc[p] \in {"new", "between", "load"} => ~Loaded(p)
  /\ pc[p] \in Undoing /\ job[p].owner # p => ~Loaded(p)
  /\ pc[p] = "note" => \A i \in Indices : modules[i] = p => i = job[p].index
  /\ Loaded(p) /\ pc[p] \notin {"note", "lost"} => crumb # None /\ crumb.owner = p
  /\ crumb # None /\ crumb.owner = p => \A i \in Indices : modules[i] = p => i = crumb.index

Followed == Calm => OneAtATime /\ \A p \in Procs : Noted(p) /\ LoadsOnce(p)

\* And the user's default is noted with it.
Remembered ==
  ~overlapped /\ failed = {} =>
    /\ crumb # None => crumb.prev = wanted
    /\ \A p \in Procs : Alive(p) /\ pc[p] # "between" => job[p].prev = wanted
    /\ \A p \in Procs : Alive(p) /\ pc[p] \notin {"live", "restore"} => default = wanted
    /\ crumb = None => default = wanted

IInvCalm == IInv /\ Followed /\ Remembered
=============================================================================
