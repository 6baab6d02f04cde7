--------------------------- MODULE VirtualOutput ---------------------------
(***************************************************************************)
(* The virtual output: waycast processes that each create one headless     *)
(* output, point the screen-share portal at it and undo both, on a machine *)
(* whose compositor, portal configuration and breadcrumb file outlive      *)
(* them.  A process may be killed between any two steps.                   *)
(*                                                                         *)
(* The compositor decides which of two backends runs: Hyprland (a guard, a *)
(* breadcrumb, a managed block and a one-shot marker) or Sway (outputs are *)
(* parked, the configuration is put back from a snapshot).                 *)
(***************************************************************************)
EXTENDS Naturals, FiniteSets

CONSTANTS
  Procs,        \* waycast processes
  MaxOutputs,   \* bound on the headless outputs created
  MaxBlocks,    \* bound on the managed blocks in the portal configuration
  MaxAlive,     \* bound on the processes that run at a time
  MaxFailures,  \* bound on the kinds of operation that fail in a behaviour
  Other,        \* creator of the outputs that are not waycast's
  None

Names == 1..MaxOutputs

ASSUME ConstantsAssumption ==
  /\ MaxOutputs \in Nat /\ MaxBlocks \in Nat \ {0} /\ MaxFailures \in Nat /\ MaxAlive \in Nat
  /\ Other \notin Procs /\ None \notin Procs \cup {Other}

VARIABLES
  backend,     \* detect_compositor
  pc, mode,    \* where each process is, and what it undoes things for
  out,         \* the output each process holds, or is to remove; 0 for none
  before,      \* outputs there were when it created its own
  snap,        \* the portal configuration it read
  made,        \* how many headless outputs the compositor has named
  creator,     \* who created the output of each name, None when there is none
  on,          \* outputs that are enabled
  conf,        \* the portal configuration: what the user wrote, and our blocks
  script,      \* the picker our wrapper script falls through to
  marker,      \* the output the next portal request is answered with, or 0
  crumb,       \* the breadcrumb file
  wanted,      \* what the user last wrote (history)
  disturbed,   \* what happened that one session alone would not see (history)
  failed       \* which operations failed and were only logged (history)

procs   == <<pc, mode, out, before, snap>>
machine == <<made, creator, on, conf, script, marker, crumb>>
history == <<wanted, disturbed, failed>>
vars    == <<backend, procs, machine, history>>

---------------------------------------------------------------------------
\* What the user may have written: no file, or one that names a picker (or, for
\* portal-wlr, an output).
Contents == {"absent", "custom"}
Conf == [user : Contents, blocks : 0..MaxBlocks]
Clean(user) == [user |-> user, blocks |-> 0]

\* The picker the user gets who wants what: one of theirs, or the portal's stock
\* one.  "own" is the wrapper script itself, "none" that there is none yet.
PickerOf(user) == IF user = "custom" THEN "custom" ELSE "stock"
Pickers == {"custom", "stock", "own", "none"}
Record == [owner : Procs, name : Names]

ASSUME NoRecord == None \notin Record

Creating == {"create", "find", "note", "mode", "snap", "conf"}
Holding  == {"ready", "armed", "live"}
Undoing  == {"unmark", "rm", "forget", "strip"}
Points   == {"new", "between", "gone", "killed", "lost"} \cup Creating \cup Holding \cup Undoing
Modes    == {"recover", "session", "drop", "unwind", "unnamed"}

TypeOK ==
  /\ backend \in {"hyprland", "sway"}
  /\ pc \in [Procs -> Points] /\ mode \in [Procs -> Modes]
  /\ out \in [Procs -> 0..MaxOutputs] /\ before \in [Procs -> SUBSET Names]
  /\ snap \in [Procs -> Conf]
  /\ made \in 0..MaxOutputs
  /\ creator \in [Names -> Procs \cup {Other, None}]
  /\ on \subseteq {n \in Names : creator[n] # None}
  /\ conf \in Conf /\ script \in Pickers
  /\ marker \in 0..MaxOutputs /\ crumb \in Record \cup {None}
  /\ wanted \in Contents
  /\ disturbed \subseteq {"overlap", "newcomer", "edit", "race"}
  /\ failed \subseteq {"note", "remove", "strip", "recover", "find", "arm"}

Init ==
  /\ backend \in {"hyprland", "sway"}
  /\ pc = [p \in Procs |-> "new"] /\ mode = [p \in Procs |-> "session"]
  /\ out = [p \in Procs |-> 0] /\ before = [p \in Procs |-> {}]
  /\ snap = [p \in Procs |-> Clean("absent")]
  /\ made = 0 /\ creator = [n \in Names |-> None] /\ on = {}
  /\ wanted \in Contents /\ conf = Clean(wanted)
  /\ script = "none" /\ marker = 0 /\ crumb = None
  /\ disturbed = {} /\ failed = {}

Alive(p) == pc[p] \notin {"new", "gone", "killed", "lost"}
Outputs  == {n \in Names : creator[n] # None}
Sway     == backend = "sway"
Hyprland == backend = "hyprland"

Goto(p, point) == pc' = [pc EXCEPT ![p] = point]
Fails(kind)    == failed' = failed \cup {kind} /\ Cardinality(failed') <= MaxFailures
Stays          == UNCHANGED <<backend, wanted, disturbed>>

\* Its memory goes with it.
Exits(p, point) ==
  /\ Goto(p, point)
  /\ mode' = [mode EXCEPT ![p] = "session"]
  /\ out' = [out EXCEPT ![p] = 0] /\ before' = [before EXCEPT ![p] = {}]
  /\ snap' = [snap EXCEPT ![p] = Clean("absent")]

\* On to the undoing of what was set up, from point.
Undo(p, point, why) ==
  /\ Goto(p, point)
  /\ mode' = [mode EXCEPT ![p] = why]

\* The compositor numbers the headless outputs; a newcomer between another
\* process's look and its second look can be taken for that one's own.
NewOutput(who) ==
  /\ made < MaxOutputs
  /\ made' = made + 1
  /\ creator' = [creator EXCEPT ![made'] = who]
  /\ on' = on \cup {made'}

Looking(p)   == pc[p] \in {"create", "find"} \/ (pc[p] = "rm" /\ mode[p] = "unnamed")
Newcomer(who) ==
  IF \E p \in Procs \ {who} : Looking(p) THEN {"newcomer"} ELSE {}

---------------------------------------------------------------------------
\* Starting a session

\* Mutant: a breadcrumb is left over whoever wrote it.
AnyCrumb(record) == record # None

\* read_output_breadcrumb and owner_is_alive.
Stale(record) == record # None /\ ~Alive(record.owner)

\* Mutant: without a breadcrumb cleanup_stale has nothing to do.
StartByCrumb(p) ==
  /\ pc[p] = "new"
  /\ Cardinality({q \in Procs : Alive(q)}) < MaxAlive
  /\ IF ~Stale(crumb) THEN Goto(p, "between") /\ UNCHANGED <<mode, out>>
     ELSE Undo(p, "rm", "recover") /\ out' = [out EXCEPT ![p] = crumb.name]
  /\ disturbed' = disturbed \cup (IF \E q \in Procs : Alive(q) THEN {"overlap"} ELSE {})
  /\ UNCHANGED <<backend, before, snap, machine, wanted, failed>>

\* cleanup_stale, up to the decision: nothing on Sway, nothing while the owner of
\* the breadcrumb runs, else the output it names, the block and the marker.
Start(p) ==
  /\ pc[p] = "new"
  /\ Cardinality({q \in Procs : Alive(q)}) < MaxAlive
  /\ IF Sway \/ (crumb # None /\ ~Stale(crumb))
     THEN Goto(p, "between") /\ UNCHANGED <<mode, out>>
     ELSE /\ Undo(p, IF crumb = None THEN "strip" ELSE "rm", "recover")
          /\ out' = [out EXCEPT ![p] = IF crumb = None THEN 0 ELSE crumb.name]
  /\ disturbed' = disturbed \cup (IF \E q \in Procs : Alive(q) THEN {"overlap"} ELSE {})
  /\ UNCHANGED <<backend, before, snap, machine, wanted, failed>>

\* A session that fails before it needs an output.
NoOutput(p) ==
  /\ pc[p] = "between"
  /\ Exits(p, "gone")
  /\ UNCHANGED <<backend, machine, history>>

---------------------------------------------------------------------------
\* Creating the output: Hyprland, under a guard

Look(p) ==
  /\ Hyprland /\ pc[p] = "between"
  /\ before' = [before EXCEPT ![p] = Outputs]
  /\ Goto(p, "create")
  /\ UNCHANGED <<backend, mode, out, snap, machine, history>>

CreateOutput(p) ==
  /\ Hyprland /\ pc[p] = "create"
  /\ NewOutput(p)
  /\ disturbed' = disturbed \cup Newcomer(p)
  /\ Goto(p, "find")
  /\ UNCHANGED <<backend, mode, out, before, snap, conf, script, marker, crumb, wanted, failed>>

CreateFails(p) ==
  /\ Hyprland /\ pc[p] = "create"
  /\ Exits(p, "gone")
  /\ UNCHANGED <<backend, machine, history>>

\* The names that were not there before, in the order of a hash set.  Without a
\* name the guard looks again, and without one still gives up.
FindName(p) ==
  /\ Hyprland /\ pc[p] = "find"
  /\ \/ \E n \in Outputs \ before[p] :
          /\ out' = [out EXCEPT ![p] = n]
          /\ Goto(p, "note") \/ Goto(p, "rm")
          /\ mode' = [mode EXCEPT ![p] = IF pc'[p] = "rm" THEN "unnamed" ELSE @]
          /\ before' = [before EXCEPT ![p] = {}]
          /\ UNCHANGED <<snap, failed>>
     \/ Exits(p, "gone") /\ Fails("find")
  /\ Stays /\ UNCHANGED machine

\* write_output_breadcrumb, best-effort.
Note(p) ==
  /\ Hyprland /\ pc[p] = "note"
  /\ \/ crumb' = [owner |-> p, name |-> out[p]] /\ UNCHANGED failed
     \/ UNCHANGED crumb /\ Fails("note")
  /\ Goto(p, "mode")
  /\ Stays /\ UNCHANGED <<mode, out, before, snap, made, creator, on, conf, script, marker>>

\* The mode is set and read back.
SetMode(p) ==
  /\ Hyprland /\ pc[p] = "mode"
  /\ creator[out[p]] # None
  /\ Goto(p, "snap")
  /\ UNCHANGED <<backend, mode, out, before, snap, machine, history>>

\* The pickers the lines of the file name: the user's, and ours in every block.
Named(config) ==
  ({config.user} \ {"absent"}) \cup (IF config.blocks > 0 THEN {"own"} ELSE {})

\* Mutant: the wrapper falls through to a picker the file names, whoever wrote it.
AnyPicker(config) == IF Named(config) = {} THEN "stock" ELSE CHOOSE picker \in Named(config) : TRUE

\* original_picker_binary: a picker the file names that is not ourselves, or the
\* stock one.
OriginalPicker(config) ==
  LET others == Named(config) \ {"own"}
  IN IF others = {} THEN "stock" ELSE CHOOSE picker \in others : TRUE

\* read_xdph_config and install_picker_script.
Snapshot(p) ==
  /\ Hyprland /\ pc[p] = "snap"
  /\ snap' = [snap EXCEPT ![p] = conf]
  /\ script' = OriginalPicker(conf)
  /\ Goto(p, "conf")
  /\ Stays /\ UNCHANGED <<mode, out, before, made, creator, on, conf, marker, crumb, failed>>

\* write_xdph_config appends the block to what was read.
WriteConf(p) ==
  /\ Hyprland /\ pc[p] = "conf"
  /\ snap[p].blocks < MaxBlocks
  /\ conf' = [snap[p] EXCEPT !.blocks = @ + 1]
  /\ snap' = [snap EXCEPT ![p] = Clean("absent")]
  /\ Goto(p, "ready")
  /\ Stays /\ UNCHANGED <<mode, out, before, made, creator, on, script, marker, crumb, failed>>

\* A step that fails unwinds the guard, and the cast.
CreationFails(p) ==
  /\ Hyprland /\ pc[p] \in {"mode", "snap", "conf"}
  /\ Undo(p, "rm", "unwind")
  /\ UNCHANGED <<backend, out, before, snap, machine, history>>

---------------------------------------------------------------------------
\* Creating the output: Sway, without one.  A step that fails leaves what the
\* steps before it did.

\* find_disabled_headless_output, else create_output and whichever headless
\* output the list is read to name; then enable.
SwayOutput(p) ==
  /\ Sway /\ pc[p] = "between"
  /\ \/ \E n \in Outputs \ on :
          /\ out' = [out EXCEPT ![p] = n] /\ on' = on \cup {n}
          /\ UNCHANGED <<made, creator>>
     \/ NewOutput(p) /\ \E n \in {k \in Names : creator'[k] # None} : out' = [out EXCEPT ![p] = n]
  /\ Goto(p, "snap")
  /\ Stays /\ UNCHANGED <<mode, before, snap, conf, script, marker, crumb, failed>>

SwaySnapshot(p) ==
  /\ Sway /\ pc[p] = "snap"
  /\ on' = on \cup {out[p]}
  /\ snap' = [snap EXCEPT ![p] = conf]
  /\ Goto(p, "conf")
  /\ Stays /\ UNCHANGED <<mode, out, before, made, creator, conf, script, marker, crumb, failed>>

\* update_portal_config puts output_name= into what was read.
SwayConf(p) ==
  /\ Sway /\ pc[p] = "conf"
  /\ conf' = [snap[p] EXCEPT !.blocks = 1]
  /\ Goto(p, "ready")
  /\ Stays /\ UNCHANGED <<mode, out, before, snap, made, creator, on, script, marker, crumb, failed>>

SwayFails(p) ==
  /\ Sway /\ pc[p] \in {"snap", "conf"}
  /\ Exits(p, "gone") /\ Fails("find")
  /\ Stays /\ UNCHANGED machine

---------------------------------------------------------------------------
\* The portal request

\* arm_portal_target; its failure is only logged.  A no-op on Sway.
Arm(p) ==
  /\ pc[p] = "ready"
  /\ \/ marker' = (IF Sway THEN marker ELSE out[p]) /\ UNCHANGED failed
     \/ Hyprland /\ UNCHANGED marker /\ Fails("arm")
  /\ Goto(p, "armed")
  /\ Stays /\ UNCHANGED <<mode, out, before, snap, made, creator, on, conf, script, crumb>>

\* The wrapper script, if it is configured, answers one request from the marker.
Answered == IF conf.blocks > 0 THEN marker' = 0 ELSE UNCHANGED marker

Request(p) ==
  /\ pc[p] = "armed"
  /\ Answered
  /\ Goto(p, "live")
  /\ Stays /\ UNCHANGED <<mode, out, before, snap, made, creator, on, conf, script, crumb, failed>>

\* Another application asks in between.
OtherRequest ==
  /\ marker # 0 /\ Answered
  /\ UNCHANGED <<backend, procs, made, creator, on, conf, script, crumb, history>>

---------------------------------------------------------------------------
\* Undoing: cleanup() and Drop of a session, the guard, and cleanup_stale()

\* Mutant: the output goes first, and with it the thought of the marker.
EndSessionOutputFirst(p) ==
  /\ pc[p] \in Holding
  /\ Undo(p, "rm", "session")
  /\ UNCHANGED <<backend, out, before, snap, machine, history>>

EndSession(p) ==
  /\ pc[p] \in Holding
  /\ Undo(p, IF Sway THEN "rm" ELSE "unmark", "session")
  /\ UNCHANGED <<backend, out, before, snap, machine, history>>

\* remove_marker removes the file, whatever is in it.
Unmark(p) ==
  /\ pc[p] = "unmark"
  /\ marker' = 0
  /\ Goto(p, IF mode[p] = "recover" THEN "between" ELSE "rm")
  /\ Stays /\ UNCHANGED <<mode, out, before, snap, made, creator, on, conf, script, crumb, failed>>

\* Mutant: cleanup() ends with the output.
AfterRemovalDone(p) == Exits(p, "gone")

\* Where remove_output goes on to.
AfterRemoval(p) ==
  IF mode[p] \in {"unwind", "unnamed"} THEN Exits(p, "gone")
  ELSE Goto(p, "strip") /\ UNCHANGED <<mode, out, before, snap>>

\* hyprctl removes the output, or it is seen to be gone already.
RemoveOutput(p) ==
  /\ Hyprland /\ pc[p] = "rm"
  /\ creator' = [creator EXCEPT ![out[p]] = None]
  /\ on' = on \ {out[p]}
  /\ Goto(p, "forget")
  /\ Stays /\ UNCHANGED <<mode, out, before, snap, made, conf, script, marker, crumb, failed>>

\* Mutant: the breadcrumb is removed although the output may still be there.
RemoveFailsForgetting(p) ==
  /\ Hyprland /\ pc[p] = "rm"
  /\ Goto(p, "forget")
  /\ Stays /\ UNCHANGED <<mode, out, before, snap, machine, failed>>

\* The output is still there, or it cannot be told: the breadcrumb is kept.
RemoveFails(p) ==
  /\ Hyprland /\ pc[p] = "rm"
  /\ AfterRemoval(p)
  /\ Fails("remove")
  /\ Stays /\ UNCHANGED machine

\* remove_output_breadcrumb removes the file, whatever is in it.
Forget(p) ==
  /\ pc[p] = "forget"
  /\ crumb' = None
  /\ AfterRemoval(p)
  /\ Stays /\ UNCHANGED <<made, creator, on, conf, script, marker, failed>>

\* Mutant: the file is written back as it was when the session started.
FromSnapshot(p) == Clean(snap[p].user)

\* strip_managed_block takes one block from the file as it is now.
Stripped(p) == [conf EXCEPT !.blocks = IF @ = 0 THEN 0 ELSE @ - 1]

\* A process that recovers goes on to the marker, one that ends its session is
\* done.
Strip(p) ==
  /\ Hyprland /\ pc[p] = "strip"
  /\ conf' = Stripped(p)
  /\ IF mode[p] = "recover" THEN Goto(p, "unmark") /\ UNCHANGED <<mode, out, before, snap>>
     ELSE Exits(p, "gone")
  /\ Stays /\ UNCHANGED <<made, creator, on, script, marker, crumb, failed>>

\* The file cannot be written.  cleanup() returns early, and Drop does all of it
\* once more; cleanup_stale() gives up.
Again(p) ==
  CASE mode[p] = "recover" -> Goto(p, "between") /\ UNCHANGED <<mode, out, before, snap>>
    [] mode[p] = "session" -> Undo(p, IF Sway THEN "rm" ELSE "unmark", "drop")
                              /\ UNCHANGED <<out, before, snap>>
    [] OTHER               -> Exits(p, "gone")

StripFails(p) ==
  /\ pc[p] = "strip" /\ conf.blocks > 0
  /\ Again(p)
  /\ Fails(IF mode[p] = "recover" THEN "recover" ELSE "strip")
  /\ Stays /\ UNCHANGED machine

\* Sway: disable_output, whose failure is only logged.
SwayDisable(p) ==
  /\ Sway /\ pc[p] = "rm"
  /\ \/ on' = on \ {out[p]} /\ UNCHANGED failed
     \/ UNCHANGED on /\ Fails("remove")
  /\ Goto(p, "strip")
  /\ Stays /\ UNCHANGED <<mode, out, before, snap, made, creator, conf, script, marker, crumb>>

\* swaymsg cannot be run at all.
SwayGone(p) ==
  /\ Sway /\ pc[p] = "rm"
  /\ Again(p)
  /\ Fails("remove")
  /\ Stays /\ UNCHANGED machine

\* restore_portal_config, if there was a file to go back to.
SwayRestore(p) ==
  /\ Sway /\ pc[p] = "strip"
  /\ conf' = (IF snap[p].user = "absent" THEN conf ELSE snap[p])
  /\ Exits(p, "gone")
  /\ Stays /\ UNCHANGED <<made, creator, on, script, marker, crumb, failed>>

---------------------------------------------------------------------------
\* Around the processes

\* SIGKILL, a crash: no destructor runs.  "lost" is one that died between
\* creating an output and recording it; a breadcrumb that is being written may
\* be left empty, which reads like none.
Crash(p) ==
  /\ Alive(p)
  /\ Exits(p, IF pc[p] \in {"find", "note"} \/ mode[p] = "unnamed" THEN "lost" ELSE "killed")
  /\ crumb' \in IF pc[p] = "note" THEN {crumb, None} ELSE {crumb}
  /\ Stays /\ UNCHANGED <<made, creator, on, conf, script, marker, failed>>

\* A monitor is plugged in, or another program asks for a headless output.
OtherOutput ==
  /\ NewOutput(Other)
  /\ disturbed' = disturbed \cup Newcomer(Other)
  /\ UNCHANGED <<backend, procs, conf, script, marker, crumb, wanted, failed>>

\* The user, or a package update, writes the configuration, keeping what waycast
\* put there: once, while waycast has a hand in it.
UserEdits ==
  /\ disturbed \cap {"edit", "race"} = {}
  /\ conf.blocks > 0 \/ \E p \in Procs : pc[p] = "conf"
  /\ wanted' \in Contents \ {wanted}
  /\ conf' = [conf EXCEPT !.user = wanted']
  /\ disturbed' = disturbed \cup (IF conf.blocks > 0 THEN {"edit"} ELSE {})
                            \cup (IF \E p \in Procs : pc[p] = "conf" THEN {"race"} ELSE {})
  /\ UNCHANGED <<backend, procs, made, creator, on, script, marker, crumb, failed>>

---------------------------------------------------------------------------
Create(p) ==
  \/ Look(p) \/ CreateOutput(p) \/ CreateFails(p) \/ FindName(p) \/ Note(p) \/ SetMode(p)
  \/ Snapshot(p) \/ WriteConf(p) \/ CreationFails(p)
  \/ SwayOutput(p) \/ SwaySnapshot(p) \/ SwayConf(p) \/ SwayFails(p)

CleanUp(p) ==
  \/ Unmark(p) \/ RemoveOutput(p) \/ RemoveFails(p) \/ Forget(p) \/ Strip(p) \/ StripFails(p)
  \/ SwayDisable(p) \/ SwayGone(p) \/ SwayRestore(p)

Next ==
  \/ \E p \in Procs :
       \/ Start(p) \/ NoOutput(p) \/ Create(p) \/ Arm(p) \/ Request(p)
       \/ EndSession(p) \/ CleanUp(p) \/ Crash(p)
  \/ OtherRequest \/ OtherOutput \/ UserEdits

Spec == Init /\ [][Next]_vars

---------------------------------------------------------------------------
\* Properties

Unrecorded(p) ==
  \E n \in Outputs : creator[n] = p /\ crumb # [owner |-> p, name |-> n]

\* Hyprland: an output that outlived its process is in the breadcrumb, however
\* often recovery itself was interrupted, unless its process died before it could
\* write one or an operation failed.
Recorded ==
  Hyprland /\ disturbed \cap {"overlap", "newcomer"} = {} /\ failed \cap {"note", "remove", "find"} = {}
    => \A p \in Procs : pc[p] \in {"gone", "killed"} => ~Unrecorded(p)

\* No process has died at work, and nothing but the marker's writing has failed.
Untroubled == failed \subseteq {"arm"} /\ \A p \in Procs : pc[p] \notin {"killed", "lost"}

\* A process that ends in its own way, with a session or without, leaves the portal
\* as the user wants it and no marker behind: on Hyprland with the user's edits, after
\* earlier processes were killed at any point (cleanup_stale), and although its own
\* first attempt at the file failed (Drop), as long as its last did not, nor any
\* recovery's.  On Sway, where nothing recovers a killed session's output_name, only if
\* no process died and nothing failed, there was no edit and a file to begin with.
\* For sessions one at a time.
ConfigRestored ==
  [][ \A p \in Procs :
        /\ Alive(p) /\ pc'[p] = "gone"
        /\ disturbed \cap {"overlap", "race"} = {}
        /\ Hyprland => "recover" \notin failed /\ ~StripFails(p)
        /\ Sway => Untroubled' /\ "edit" \notin disturbed /\ wanted = "custom"
        => conf' = Clean(wanted) /\ marker' = 0 ]_vars

\* What the user writes into the file while a session runs is there afterwards, and
\* after crashes and several sessions at a time too, unless it was written between
\* a session's reading the file and writing it.
EditsKept ==
  Hyprland /\ "race" \notin disturbed => conf.user = wanted

\* No process takes the output of a session that is running.
LiveOutputKept ==
  [][ Hyprland /\ "newcomer" \notin disturbed =>
        \A p \in Procs : pc[p] \in Holding /\ creator[out[p]] = p
                         /\ creator'[out[p]] # p => pc'[p] # pc[p] ]_vars

\* A request is answered with an output that exists, unless the session that armed
\* the marker was killed or an operation failed.
AnswerExists ==
  [][ Hyprland /\ failed \subseteq {"arm"} /\ "newcomer" \notin disturbed
      /\ (\A p \in Procs : pc[p] \notin {"killed", "lost"})
      /\ marker # 0 /\ marker' = 0 /\ (\A p \in Procs : pc[p] = "unmark" => pc'[p] = pc[p])
        => creator[marker] # None ]_vars

\* A request that is not ours never falls through to the wrapper script itself, which
\* would run itself for ever, however many sessions left their block in the file; and
\* a session that puts its block there has the wrapper fall through to the picker the
\* user has configured by then, be it during another session.
FallsThrough ==
  [][ /\ script' # "own"
      /\ Hyprland /\ "race" \notin disturbed =>
           \A p \in Procs : pc[p] = "conf" /\ pc'[p] = "ready" => script = PickerOf(wanted) ]_vars

---------------------------------------------------------------------------
\* The inductive invariant of the proofs

\* Names are handed out in order, and none twice; Sway's outputs are only parked.
FreshNames ==
  /\ \A n \in Names : n > made => creator[n] = None
  /\ Sway => \A n \in 1..made : creator[n] # None

\* The process has an output to configure, hand out or remove.
HasOutput(p) ==
  \/ pc[p] \in {"note", "mode", "snap", "conf", "rm", "forget"} \cup Holding
  \/ pc[p] \in {"unmark", "strip"} /\ mode[p] # "recover"
HaveNames == \A p \in Procs : HasOutput(p) => out[p] \in 1..made

Dead(p) == pc[p] # "new" /\ ~Alive(p)

\* It is one of its own, or, when it recovers, one of a process that has died.
Recovers(p) == mode[p] = "recover" /\ pc[p] \in Undoing
Rightful(p) ==
  /\ HasOutput(p) /\ ~Recovers(p) => creator[out[p]] \in {p, None}
  /\ HasOutput(p) /\ Recovers(p) =>
       creator[out[p]] = None \/ (creator[out[p]] \in Procs /\ Dead(creator[out[p]]))
  /\ pc[p] = "create" => Outputs \subseteq before[p]
  /\ pc[p] = "find" => \A n \in Outputs \ before[p] : creator[n] = p

\* The breadcrumb names an output of its owner's.
CrumbKnown ==
  crumb # None => crumb.name <= made /\ pc[crumb.owner] # "new"

CrumbRightful ==
  crumb # None => creator[crumb.name] \in {crumb.owner, None}

OwnersKnown ==
  Hyprland /\ "newcomer" \notin disturbed =>
    (\A p \in Procs : Rightful(p)) /\ CrumbRightful

\* What a process read of the configuration, and what the wrapper falls through to,
\* is what the user wrote, as long as nobody wrote in between.
ReadIsCurrent ==
  Hyprland /\ "race" \notin disturbed => \A p \in Procs : pc[p] = "conf" => snap[p].user = wanted

PickerIsCurrent ==
  /\ script # "own"
  /\ Hyprland /\ "race" \notin disturbed =>
       \A p \in Procs : pc[p] = "conf" => script = PickerOf(wanted)

IInv ==
  /\ TypeOK /\ FreshNames /\ HaveNames /\ CrumbKnown /\ OwnersKnown
  /\ EditsKept /\ ReadIsCurrent /\ PickerIsCurrent

---------------------------------------------------------------------------
\* One session at a time, for what is promised only then

Alone == "overlap" \notin disturbed => \A p, q \in Procs : Alive(p) /\ Alive(q) => p = q

\* A session that has its own output, and has not begun to remove it.
Keeps(p) ==
  \/ pc[p] \in {"note", "mode", "snap", "conf"} \cup Holding
  \/ pc[p] = "unmark" /\ mode[p] = "session"

OutputsExist ==
  Hyprland /\ "newcomer" \notin disturbed => \A p \in Procs : Keeps(p) => creator[out[p]] = p

\* The marker is a running session's.
Marks(p) == pc[p] \in {"armed", "live"} \/ (pc[p] = "unmark" /\ mode[p] = "session")
MarkerHeld ==
  /\ Sway => marker = 0
  /\ Untroubled /\ marker # 0 => \E p \in Procs : Marks(p) /\ out[p] = marker

\* Hyprland: who may have a block in the file, and a marker, of its own or of a process
\* that died before it.
Undoes(p)  == pc[p] \in Undoing /\ mode[p] \in {"session", "drop"}
Blocks(p)  == pc[p] \in Holding \/ Undoes(p) \/ (Recovers(p) /\ pc[p] # "unmark")
Marked(p)  == pc[p] \in {"armed", "live", "unmark"} \/ Recovers(p)
OneBlock ==
  Hyprland /\ "overlap" \notin disturbed /\ "recover" \notin failed =>
    /\ conf.blocks <= 1
    /\ \A p \in Procs :
         /\ Alive(p) /\ ~Blocks(p) => conf.blocks = 0
         /\ Alive(p) /\ ~Marked(p) => marker = 0
         /\ pc[p] = "conf" => snap[p].blocks = 0

\* What is stripped is a recovery's or a session's.
UndoesFor ==
  Hyprland =>
    \A p \in Procs : pc[p] \in {"unmark", "strip"} => mode[p] \in {"recover", "session", "drop"}

\* Sway: the snapshot is what the user wrote, and so is the file before it is changed
\* and after it is put back.
Changed(p) == pc[p] \in Holding \cup {"rm", "strip"}
SwayPoints  == Sway => \A p \in Procs : pc[p] \notin {"unmark", "forget"}
Snapshotted ==
  Sway /\ Untroubled /\ disturbed \cap {"overlap", "race", "edit"} = {} /\ wanted = "custom" =>
    /\ \A p \in Procs : pc[p] = "conf" \/ Changed(p) => snap[p] = Clean(wanted)
    /\ (\A p \in Procs : ~Changed(p)) => conf = Clean(wanted)

\* Hyprland: where a process's own outputs are written down.  It has none before it
\* has created one, and none after it has removed it.
Faultless ==
  /\ Hyprland /\ disturbed \cap {"overlap", "newcomer"} = {}
  /\ failed \cap {"note", "remove", "find"} = {}

Unnamed(p) == mode[p] = "unnamed" /\ pc[p] \in {"rm", "forget"}
NoneYet(p) == pc[p] \in {"new", "between", "create"} \/ Recovers(p)
NoneLeft(p) == pc[p] \in {"forget", "strip"} \/ (mode[p] = "drop" /\ pc[p] \in Undoing)

Accounted(p, n) ==
  /\ ~NoneYet(p) /\ ~NoneLeft(p)
  /\ pc[p] = "find" => \A m \in Names : creator[m] = p => m = n
  /\ HasOutput(p) => out[p] = n
  /\ pc[p] \notin {"find", "note", "lost"} /\ ~Unnamed(p) => crumb = [owner |-> p, name |-> n]

\* The breadcrumb of a process that died is dealt with before there is another output.
CrumbDealtWith(p) ==
  /\ pc[p] \in {"between", "create", "find", "note"} \/ Unnamed(p)
     \/ (Recovers(p) /\ pc[p] \in {"strip", "unmark"}) => crumb = None
  /\ Recovers(p) /\ pc[p] \in {"rm", "forget"} => crumb # None /\ crumb.name = out[p]
  /\ pc[p] = "forget" => creator[out[p]] = None
  /\ Alive(p) /\ ~Recovers(p) => crumb = None \/ crumb.owner = p
  /\ pc[p] \in {"unmark", "strip"} => mode[p] \in {"recover", "session", "drop"}

WrittenDown ==
  Faultless => \A p \in Procs :
    /\ CrumbDealtWith(p)
    /\ \A n \in Names : creator[n] = p => Accounted(p, n)

\* What is promised of one session at a time rests on this.
AloneInv ==
  /\ IInv
  /\ Alone /\ OutputsExist /\ MarkerHeld /\ OneBlock /\ UndoesFor /\ SwayPoints /\ Snapshotted /\ WrittenDown
=============================================================================
