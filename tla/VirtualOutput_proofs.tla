------------------------ MODULE VirtualOutput_proofs ------------------------
(***************************************************************************)
(* Proofs about VirtualOutput, for any number of processes, outputs and    *)
(* failures.                                                               *)
(***************************************************************************)
EXTENDS VirtualOutput, TLAPS

USE ConstantsAssumption, NoRecord

\* The invariant holds initially: there is no output and nobody has read anything.
LEMMA InitInv == Init => IInv
<1> SUFFICES ASSUME Init PROVE IInv
  OBVIOUS
<1>1. TypeOK
  BY DEF Init, TypeOK, Points, Modes, Conf, Clean, Contents, Pickers
<1>2. FreshNames /\ HaveNames /\ CrumbKnown /\ OwnersKnown
  BY DEF Init, FreshNames, HaveNames, HasOutput, Holding, CrumbKnown, OwnersKnown, CrumbRightful,
     Rightful, Names
<1>3. EditsKept /\ ReadIsCurrent /\ PickerIsCurrent
  BY DEF Init, EditsKept, ReadIsCurrent, PickerIsCurrent, Clean, Contents
<1> QED BY <1>1, <1>2, <1>3 DEF IInv

\* What original_picker_binary finds is the user's picker, whether or not the file has
\* blocks of ours in it.
LEMMA PicksTheUsers ==
  ASSUME NEW config \in Conf
  PROVE  OriginalPicker(config) = PickerOf(config.user)
<1>1. Named(config) \ {"own"} = IF config.user = "custom" THEN {"custom"} ELSE {}
  BY DEF Named, Conf, Contents
<1> QED BY <1>1 DEF OriginalPicker, PickerOf

---------------------------------------------------------------------------
\* Types, one lemma per group of actions

\* What Exits, Undo and Goto leave of the processes' own variables.
ProcsTyped ==
  /\ pc \in [Procs -> Points] /\ mode \in [Procs -> Modes]
  /\ out \in [Procs -> 0..MaxOutputs] /\ before \in [Procs -> SUBSET Names]
  /\ snap \in [Procs -> Conf]

\* The output that the compositor adds has the next name.
LEMMA NewOutputType ==
  ASSUME TypeOK, NEW who \in Procs \cup {Other}, NewOutput(who)
  PROVE  /\ made' \in 0..MaxOutputs /\ made' \in Names /\ made' = made + 1
         /\ creator' \in [Names -> Procs \cup {Other, None}]
         /\ on' \subseteq {n \in Names : creator'[n] # None}
         /\ creator'[made'] = who /\ \A n \in Names : n # made' => creator'[n] = creator[n]
<1>1. made' \in 0..MaxOutputs /\ made' \in Names /\ made' = made + 1
  BY DEF TypeOK, NewOutput, Names
<1>2. creator' \in [Names -> Procs \cup {Other, None}]
  BY DEF TypeOK, NewOutput
<1>3. creator'[made'] = who /\ \A n \in Names : n # made' => creator'[n] = creator[n]
  BY <1>1 DEF TypeOK, NewOutput
<1>4. on' = on \cup {made'} /\ on \subseteq {n \in Names : creator[n] # None}
  BY DEF TypeOK, NewOutput
<1>5. who # None
  OBVIOUS
<1> QED BY <1>1, <1>2, <1>3, <1>4, <1>5

LEMMA StartType ==
  ASSUME TypeOK, NEW p \in Procs,
         Start(p) \/ NoOutput(p) \/ Look(p) \/ CreateOutput(p) \/ CreateFails(p) \/ FindName(p)
  PROVE  TypeOK'
<1> USE DEF Start, NoOutput, Look, CreateOutput, CreateFails, FindName, Goto, Exits, Undo, Stays,
        machine, history
<1>1. ProcsTyped'
  <2> USE DEF TypeOK, ProcsTyped, Points, Creating, Holding, Undoing, Modes
  <2>1. Clean("absent") \in Conf
    BY DEF Clean, Conf, Contents
  <2>2. CASE Start(p)
    <3>1. \E point \in {"between", "strip", "rm"}, why \in {mode[p], "recover"}, n \in 0..MaxOutputs :
            /\ pc' = [pc EXCEPT ![p] = point] /\ mode' = [mode EXCEPT ![p] = why]
            /\ out' = [out EXCEPT ![p] = n]
      <4>1. CASE Sway \/ (crumb # None /\ ~Stale(crumb))
        <5>1. mode' = [mode EXCEPT ![p] = mode[p]] /\ out' = [out EXCEPT ![p] = out[p]]
          BY <2>2, <4>1
        <5> QED BY <2>2, <4>1, <5>1
      <4>2. CASE ~(Sway \/ (crumb # None /\ ~Stale(crumb)))
        <5>1. (IF crumb = None THEN 0 ELSE crumb.name) \in 0..MaxOutputs
          BY DEF Record, Names
        <5> QED BY <2>2, <4>2, <5>1
      <4> QED BY <4>1, <4>2
    <3>2. before' = before /\ snap' = snap
      BY <2>2
    <3> QED BY <3>1, <3>2
  <2>3. CASE NoOutput(p) \/ CreateFails(p)
    BY <2>1, <2>3
  <2>4. CASE Look(p) \/ CreateOutput(p)
    BY <2>4 DEF Outputs
  <2>5. CASE FindName(p)
    <3>1. CASE ~Exits(p, "gone")
      <4>1. PICK n \in Names : out' = [out EXCEPT ![p] = n]
        BY <2>5, <3>1 DEF Outputs
      <4>2. \E point \in {"note", "rm"}, why \in {mode[p], "unnamed"} :
              pc' = [pc EXCEPT ![p] = point] /\ mode' = [mode EXCEPT ![p] = why]
        <5>1. \/ pc' = [pc EXCEPT ![p] = "note"]
              \/ pc' = [pc EXCEPT ![p] = "rm"]
          BY <2>5, <3>1
        <5>2. mode' = [mode EXCEPT ![p] = IF pc'[p] = "rm" THEN "unnamed" ELSE mode[p]]
          BY <2>5, <3>1
        <5> QED BY <5>1, <5>2
      <4>3. before' = [before EXCEPT ![p] = {}] /\ snap' = snap
        BY <2>5, <3>1
      <4>4. n \in 0..MaxOutputs
        BY DEF Names
      <4> QED BY <4>1, <4>2, <4>3, <4>4
    <3>2. CASE Exits(p, "gone")
      BY <2>1, <3>2
    <3> QED BY <2>5, <3>1, <3>2
  <2> QED BY <2>2, <2>3, <2>4, <2>5
<1>2. made' \in 0..MaxOutputs /\ creator' \in [Names -> Procs \cup {Other, None}]
  BY NewOutputType DEF TypeOK
<1>3. on' \subseteq {n \in Names : creator'[n] # None}
  BY NewOutputType DEF TypeOK
<1>4. /\ conf' \in Conf /\ script' \in Pickers /\ marker' \in 0..MaxOutputs
      /\ crumb' \in Record \cup {None} /\ wanted' \in Contents /\ backend' \in {"hyprland", "sway"}
  BY DEF TypeOK
<1>5. disturbed' \subseteq {"overlap", "newcomer", "edit", "race"}
  BY DEF TypeOK, Newcomer
<1>6. failed' \subseteq {"note", "remove", "strip", "recover", "find", "arm"}
  BY DEF TypeOK, Fails
<1> QED BY <1>1, <1>2, <1>3, <1>4, <1>5, <1>6 DEF TypeOK, ProcsTyped

LEMMA HyprlandType ==
  ASSUME TypeOK, HaveNames, NEW p \in Procs,
         Note(p) \/ SetMode(p) \/ Snapshot(p) \/ WriteConf(p) \/ CreationFails(p)
  PROVE  TypeOK'
<1> USE DEF Note, SetMode, Snapshot, WriteConf, CreationFails, Goto, Undo, Stays, machine, history
<1>0. Clean("absent") \in Conf
  BY DEF Clean, Conf, Contents
<1>1. ProcsTyped'
  BY <1>0 DEF TypeOK, ProcsTyped, Points, Creating, Holding, Undoing, Modes
<1>2. conf' \in Conf
  <2>1. CASE WriteConf(p)
    BY <2>1 DEF TypeOK, Conf
  <2> QED BY <2>1 DEF TypeOK
<1>3. script' \in Pickers
  BY PicksTheUsers DEF TypeOK, PickerOf, Pickers
<1>4. crumb' \in Record \cup {None}
  <2>1. CASE Note(p)
    <3>1. out[p] \in Names
      BY <2>1 DEF TypeOK, HaveNames, HasOutput, Names
    <3> QED BY <2>1, <3>1 DEF TypeOK, Record
  <2> QED BY <2>1 DEF TypeOK
<1>5. failed' \subseteq {"note", "remove", "strip", "recover", "find", "arm"}
  BY DEF TypeOK, Fails
<1> QED BY <1>1, <1>2, <1>3, <1>4, <1>5 DEF TypeOK, ProcsTyped

LEMMA SwayType ==
  ASSUME TypeOK, FreshNames, HaveNames, NEW p \in Procs,
         SwayOutput(p) \/ SwaySnapshot(p) \/ SwayConf(p) \/ SwayFails(p)
  PROVE  TypeOK'
<1> USE DEF SwayOutput, SwaySnapshot, SwayConf, SwayFails, Goto, Exits, Stays, machine
<1>0. Clean("absent") \in Conf
  BY DEF Clean, Conf, Contents
<1>1. ProcsTyped'
  <2> USE DEF TypeOK, ProcsTyped, Points, Creating, Holding, Undoing
  <2>1. CASE SwayOutput(p)
    <3>1. PICK n \in Names : out' = [out EXCEPT ![p] = n]
      BY <2>1 DEF Outputs
    <3>2. n \in 0..MaxOutputs
      BY DEF Names
    <3> QED BY <2>1, <3>1, <3>2
  <2>2. CASE SwaySnapshot(p) \/ SwayConf(p)
    BY <2>2
  <2>3. CASE SwayFails(p)
    BY <1>0, <2>3 DEF Modes
  <2> QED BY <2>1, <2>2, <2>3
<1>2. made' \in 0..MaxOutputs /\ creator' \in [Names -> Procs \cup {Other, None}]
  BY NewOutputType DEF TypeOK
<1>3. on' \subseteq {n \in Names : creator'[n] # None}
  <2>1. CASE SwayOutput(p)
    BY <2>1, NewOutputType DEF TypeOK, Outputs
  <2>2. CASE SwaySnapshot(p)
    <3>1. out[p] \in 1..made
      BY <2>2 DEF HaveNames, HasOutput
    <3> QED BY <2>2, <3>1 DEF TypeOK, FreshNames, Names
  <2> QED BY <2>1, <2>2 DEF TypeOK
<1>4. conf' \in Conf
  <2>1. CASE SwayConf(p)
    BY <2>1 DEF TypeOK, Conf
  <2> QED BY <2>1 DEF TypeOK
<1>5. failed' \subseteq {"note", "remove", "strip", "recover", "find", "arm"}
  BY DEF TypeOK, Fails
<1> QED BY <1>1, <1>2, <1>3, <1>4, <1>5 DEF TypeOK, ProcsTyped

LEMMA UseType ==
  ASSUME TypeOK, NEW p \in Procs,
         Arm(p) \/ Request(p) \/ EndSession(p) \/ Unmark(p) \/ RemoveOutput(p) \/ RemoveFails(p)
           \/ Forget(p)
  PROVE  TypeOK'
<1> USE DEF Arm, Request, EndSession, Unmark, RemoveOutput, RemoveFails, Forget, AfterRemoval,
        Goto, Exits, Undo, Stays, machine, history
<1>0. Clean("absent") \in Conf
  BY DEF Clean, Conf, Contents
<1>1. ProcsTyped'
  BY <1>0 DEF TypeOK, ProcsTyped, Points, Creating, Holding, Undoing, Modes
<1>2. marker' \in 0..MaxOutputs
  BY DEF TypeOK, Answered
<1>3. creator' \in [Names -> Procs \cup {Other, None}]
  BY DEF TypeOK
<1>4. on' \subseteq {n \in Names : creator'[n] # None}
  BY DEF TypeOK
<1>5. crumb' \in Record \cup {None}
  BY DEF TypeOK
<1>6. failed' \subseteq {"note", "remove", "strip", "recover", "find", "arm"}
  BY DEF TypeOK, Fails
<1> QED BY <1>1, <1>2, <1>3, <1>4, <1>5, <1>6 DEF TypeOK, ProcsTyped

LEMMA EndType ==
  ASSUME TypeOK, NEW p \in Procs,
         Strip(p) \/ StripFails(p) \/ SwayDisable(p) \/ SwayGone(p) \/ SwayRestore(p) \/ Crash(p)
  PROVE  TypeOK'
<1> USE DEF Strip, StripFails, SwayDisable, SwayGone, SwayRestore, Crash, Again, Goto, Exits, Undo,
        Stays, machine
<1>0. Clean("absent") \in Conf
  BY DEF Clean, Conf, Contents
<1>1. ProcsTyped'
  BY <1>0 DEF TypeOK, ProcsTyped, Points, Creating, Holding, Undoing, Modes
<1>2. conf' \in Conf
  <2>1. CASE Strip(p)
    BY <2>1 DEF TypeOK, Conf, Stripped
  <2>2. CASE SwayRestore(p)
    BY <2>2 DEF TypeOK
  <2> QED BY <2>1, <2>2 DEF TypeOK
<1>3. crumb' \in Record \cup {None}
  BY DEF TypeOK
<1>4. failed' \subseteq {"note", "remove", "strip", "recover", "find", "arm"}
  BY DEF TypeOK, Fails
<1>5. on' \subseteq {n \in Names : creator'[n] # None} /\ creator' = creator
  BY DEF TypeOK
<1> QED BY <1>1, <1>2, <1>3, <1>4, <1>5 DEF TypeOK, ProcsTyped

LEMMA AroundType ==
  ASSUME TypeOK, OtherRequest \/ OtherOutput \/ UserEdits
  PROVE  TypeOK'
<1> USE DEF OtherRequest, OtherOutput, UserEdits, procs, history
<1>1. made' \in 0..MaxOutputs /\ creator' \in [Names -> Procs \cup {Other, None}]
  BY NewOutputType DEF TypeOK
<1>2. on' \subseteq {n \in Names : creator'[n] # None}
  BY NewOutputType DEF TypeOK
<1>3. marker' \in 0..MaxOutputs
  BY DEF TypeOK, Answered
<1>4. conf' \in Conf /\ wanted' \in Contents
  BY DEF TypeOK, Conf
<1>5. disturbed' \subseteq {"overlap", "newcomer", "edit", "race"}
  BY DEF TypeOK, Newcomer
<1> QED BY <1>1, <1>2, <1>3, <1>4, <1>5 DEF TypeOK
---------------------------------------------------------------------------
\* Names and processes

\* A process that has died stays dead, and none goes back to where it had not started.
LEMMA DeadStaysDead ==
  ASSUME TypeOK, Next
  PROVE  \A q \in Procs : /\ pc[q] # "new" => pc'[q] # "new"
                          /\ Dead(q) => Dead(q)' /\ pc'[q] = pc[q]
<1> USE DEF TypeOK, Dead, Alive, Goto
<1>1. ASSUME NEW p \in Procs, Start(p) \/ NoOutput(p) \/ Arm(p) \/ Request(p) \/ EndSession(p)
      PROVE  \E point \in Points \ {"new"} : pc' = [pc EXCEPT ![p] = point] /\ pc[p] \notin {"gone", "killed", "lost"}
  BY <1>1 DEF Start, NoOutput, Arm, Request, EndSession, Exits, Undo, Points, Undoing, Holding
<1>2. ASSUME NEW p \in Procs, Create(p)
      PROVE  \E point \in Points \ {"new"} : pc' = [pc EXCEPT ![p] = point] /\ pc[p] \notin {"gone", "killed", "lost"}
  BY <1>2 DEF Create, Look, CreateOutput, CreateFails, FindName, Note, SetMode, Snapshot, WriteConf,
     CreationFails, SwayOutput, SwaySnapshot, SwayConf, SwayFails, Exits, Undo, Points, Creating,
     Undoing, Holding
<1>3. ASSUME NEW p \in Procs, CleanUp(p) \/ Crash(p)
      PROVE  \E point \in Points \ {"new"} : pc' = [pc EXCEPT ![p] = point] /\ pc[p] \notin {"gone", "killed", "lost"}
  BY <1>3 DEF CleanUp, Unmark, RemoveOutput, RemoveFails, Forget, Strip, StripFails, SwayDisable,
     SwayGone, SwayRestore, AfterRemoval, Again, Crash, Exits, Undo, Points, Undoing
<1>4. CASE OtherRequest \/ OtherOutput \/ UserEdits
  BY <1>4 DEF OtherRequest, OtherOutput, UserEdits, procs
<1>5. ASSUME NEW p \in Procs, NEW point \in Points \ {"new"}, pc' = [pc EXCEPT ![p] = point],
             pc[p] \notin {"gone", "killed", "lost"}
      PROVE  \A q \in Procs : /\ pc[q] # "new" => pc'[q] # "new"
                              /\ Dead(q) => Dead(q)' /\ pc'[q] = pc[q]
  BY <1>5
<1> QED BY <1>1, <1>2, <1>3, <1>4, <1>5 DEF Next

\* The compositor goes on counting; what has a name keeps its creator or goes.
LEMMA NamesStep ==
  ASSUME TypeOK, FreshNames, Next
  PROVE  /\ made \in Nat /\ made' \in Nat /\ made <= made'
         /\ FreshNames'
         /\ \A n \in 1..made : creator'[n] \in {creator[n], None}
<1>0. made \in Nat /\ 1..made \subseteq Names
  BY DEF TypeOK, Names
<1>1. ASSUME NEW who \in Procs \cup {Other}, NewOutput(who), backend' = backend
      PROVE  /\ made' \in Nat /\ made <= made' /\ FreshNames'
             /\ \A n \in 1..made : creator'[n] \in {creator[n], None}
  <2>1. /\ made' \in Names /\ made' = made + 1 /\ creator'[made'] = who /\ who # None
        /\ \A n \in Names : n # made' => creator'[n] = creator[n]
    BY <1>1, NewOutputType
  <2> QED BY <1>0, <1>1, <2>1 DEF FreshNames, Names, Sway
<1>2. ASSUME made' = made, creator' = creator, backend' = backend
      PROVE  /\ made' \in Nat /\ made <= made' /\ FreshNames'
             /\ \A n \in 1..made : creator'[n] \in {creator[n], None}
  BY <1>0, <1>2 DEF FreshNames, Sway
<1>3. ASSUME NEW p \in Procs, RemoveOutput(p)
      PROVE  /\ made' \in Nat /\ made <= made' /\ FreshNames'
             /\ \A n \in 1..made : creator'[n] \in {creator[n], None}
  BY <1>0, <1>3 DEF RemoveOutput, Stays, FreshNames, Sway, Hyprland, TypeOK
<1>4. ASSUME NEW p \in Procs, CreateOutput(p) \/ (SwayOutput(p) /\ \E who \in Procs : NewOutput(who))
      PROVE  backend' = backend /\ \E who \in Procs \cup {Other} : NewOutput(who)
  BY <1>4 DEF CreateOutput, SwayOutput, Stays
<1>5. ASSUME NEW p \in Procs,
             \/ Start(p) \/ NoOutput(p) \/ Arm(p) \/ Request(p) \/ EndSession(p) \/ Crash(p)
             \/ Create(p) /\ ~CreateOutput(p) /\ ~(SwayOutput(p) /\ \E who \in Procs : NewOutput(who))
             \/ CleanUp(p) /\ ~RemoveOutput(p)
      PROVE  made' = made /\ creator' = creator /\ backend' = backend
  BY <1>5 DEF Start, NoOutput, Arm, Request, EndSession, Crash, Stays, machine,
     Create, Look, CreateFails, FindName, Note, SetMode, Snapshot, WriteConf, CreationFails,
     SwayOutput, SwaySnapshot, SwayConf, SwayFails,
     CleanUp, Unmark, RemoveFails, Forget, Strip, StripFails, SwayDisable, SwayGone, SwayRestore
<1>6. CASE OtherOutput
  BY <1>0, <1>1, <1>6 DEF OtherOutput
<1>7. CASE OtherRequest \/ UserEdits
  BY <1>0, <1>2, <1>7 DEF OtherRequest, UserEdits
<1>8. ASSUME NEW p \in Procs,
             \/ Start(p) \/ NoOutput(p) \/ Create(p) \/ Arm(p) \/ Request(p)
             \/ EndSession(p) \/ CleanUp(p) \/ Crash(p)
      PROVE  /\ made' \in Nat /\ made <= made' /\ FreshNames'
             /\ \A n \in 1..made : creator'[n] \in {creator[n], None}
  BY <1>1, <1>2, <1>3, <1>4, <1>5, <1>8
<1> QED BY <1>0, <1>6, <1>7, <1>8 DEF Next

\* A step of one process touches nobody else's place, mode, output and list.
Moves(p) ==
  \A q \in Procs \ {p} :
    pc'[q] = pc[q] /\ mode'[q] = mode[q] /\ out'[q] = out[q] /\ before'[q] = before[q]

Acts(p) ==
  \/ Start(p) \/ NoOutput(p) \/ Create(p) \/ Arm(p) \/ Request(p)
  \/ EndSession(p) \/ CleanUp(p) \/ Crash(p)

LEMMA ActsMove ==
  ASSUME TypeOK, NEW p \in Procs, Acts(p)
  PROVE  Moves(p)
<1> USE DEF TypeOK, Moves, Goto, Exits, Undo
<1>1. CASE Start(p) \/ NoOutput(p) \/ Arm(p) \/ Request(p) \/ EndSession(p)
  BY <1>1 DEF Start, NoOutput, Arm, Request, EndSession, Stays
<1>2. CASE Create(p)
  BY <1>2 DEF Create, Look, CreateOutput, CreateFails, FindName, Note, SetMode, Snapshot, WriteConf,
     CreationFails, SwayOutput, SwaySnapshot, SwayConf, SwayFails, Stays
<1>3. CASE CleanUp(p) \/ Crash(p)
  BY <1>3 DEF CleanUp, Unmark, RemoveOutput, RemoveFails, Forget, Strip, StripFails, SwayDisable,
     SwayGone, SwayRestore, AfterRemoval, Again, Crash, Stays
<1> QED BY <1>1, <1>2, <1>3 DEF Acts

\* Whoever configures, hands out or removes an output has a name that was given, and so
\* does the breadcrumb.
LEMMA HaveNamesStep ==
  ASSUME TypeOK, TypeOK', FreshNames, HaveNames, CrumbKnown, Next
  PROVE  HaveNames' /\ CrumbKnown'
<1>0. made \in Nat /\ made' \in Nat /\ made <= made' /\ Outputs \subseteq 1..made
  BY NamesStep DEF TypeOK, FreshNames, Outputs, Names
<1>1. ASSUME NEW p \in Procs, Acts(p)
      PROVE  (HasOutput(p) => out[p] \in 1..made)' /\ CrumbKnown'
  <2> USE DEF TypeOK, HasOutput, Holding, Goto, Exits, Undo
  <2>1. CrumbKnown'
    <3>1. CASE Note(p)
      <4>1. out[p] \in 1..made /\ made' = made /\ pc'[p] = "mode"
        BY <3>1 DEF Note, HaveNames, Stays
      <4>2. crumb' = crumb \/ crumb' = [owner |-> p, name |-> out[p]]
        BY <3>1 DEF Note
      <4>3. CASE crumb' = [owner |-> p, name |-> out[p]]
        BY <4>1, <4>3, <1>0 DEF CrumbKnown
      <4>4. CASE crumb' = crumb
        BY <4>4, <1>0, DeadStaysDead DEF CrumbKnown, Record, Names
      <4> QED BY <4>2, <4>3, <4>4
    <3>2. CASE ~Note(p)
      <4>1. crumb' \in {crumb, None}
        <5>1. CASE Start(p) \/ NoOutput(p) \/ Arm(p) \/ Request(p) \/ EndSession(p) \/ Crash(p)
          BY <5>1 DEF Start, NoOutput, Arm, Request, EndSession, Crash, machine
        <5>2. CASE Create(p)
          BY <3>2, <5>2 DEF Create, Look, CreateOutput, CreateFails, FindName, SetMode, Snapshot, WriteConf,
             CreationFails, SwayOutput, SwaySnapshot, SwayConf, SwayFails, machine
        <5>3. CASE CleanUp(p)
          BY <5>3 DEF CleanUp, Unmark, RemoveOutput, RemoveFails, Forget, Strip, StripFails,
             SwayDisable, SwayGone, SwayRestore, machine
        <5> QED BY <1>1, <5>1, <5>2, <5>3 DEF Acts
      <4> QED BY <4>1, <1>0, DeadStaysDead DEF CrumbKnown, Record, Names
    <3> QED BY <3>1, <3>2
  <2>2. CASE Start(p)
    <3>1. crumb # None => crumb.name \in 1..made
      BY DEF CrumbKnown, Record, Names
    <3>2. pc'[p] = "rm" => crumb # None /\ out'[p] = crumb.name
      BY <2>2 DEF Start
    <3>3. pc'[p] \in {"between", "strip", "rm"} /\ (pc'[p] = "strip" => mode'[p] = "recover")
      BY <2>2 DEF Start
    <3> QED BY <1>0, <2>1, <3>1, <3>2, <3>3
  <2>3. CASE NoOutput(p) \/ Arm(p) \/ Request(p) \/ EndSession(p) \/ Crash(p)
    BY <1>0, <2>1, <2>3 DEF NoOutput, Arm, Request, EndSession, Crash, HaveNames, Stays
  <2>4. CASE Look(p) \/ CreateOutput(p) \/ CreateFails(p)
    BY <2>1, <2>4 DEF Look, CreateOutput, CreateFails
  <2>5. CASE FindName(p)
    <3>1. CASE Exits(p, "gone")
      BY <2>1, <3>1
    <3>2. CASE ~Exits(p, "gone")
      <4>1. PICK n \in Outputs : out' = [out EXCEPT ![p] = n]
        BY <2>5, <3>2 DEF FindName
      <4> QED BY <1>0, <2>1, <4>1
    <3> QED BY <3>1, <3>2
  <2>6. CASE Note(p) \/ SetMode(p) \/ Snapshot(p) \/ WriteConf(p) \/ CreationFails(p)
    BY <1>0, <2>1, <2>6 DEF Note, SetMode, Snapshot, WriteConf, CreationFails, HaveNames, Stays
  <2>7. CASE SwayOutput(p)
    <3>1. PICK n \in Names : out' = [out EXCEPT ![p] = n] /\ creator'[n] # None
      BY <2>7 DEF SwayOutput, Outputs
    <3>2. n \in 1..made'
      BY <1>0, <3>1, NamesStep DEF FreshNames, Names
    <3> QED BY <2>1, <3>1, <3>2
  <2>8. CASE SwaySnapshot(p) \/ SwayConf(p) \/ SwayFails(p)
    BY <1>0, <2>1, <2>8 DEF SwaySnapshot, SwayConf, SwayFails, HaveNames, Stays
  <2>9. CASE CleanUp(p)
    BY <1>0, <2>1, <2>9 DEF CleanUp, Unmark, RemoveOutput, RemoveFails, Forget, Strip, StripFails,
       SwayDisable, SwayGone, SwayRestore, AfterRemoval, Again, HaveNames, Stays
  <2> QED BY <1>1, <2>2, <2>3, <2>4, <2>5, <2>6, <2>7, <2>8, <2>9 DEF Acts, Create
<1>2. ASSUME NEW p \in Procs, Acts(p) PROVE HaveNames' /\ CrumbKnown'
  BY <1>0, <1>1, <1>2, ActsMove DEF HaveNames, HasOutput, Moves
<1>3. CASE OtherRequest \/ OtherOutput \/ UserEdits
  BY <1>0, <1>3 DEF OtherRequest, OtherOutput, UserEdits, procs, HaveNames, HasOutput, CrumbKnown,
     TypeOK, Record, Names
<1> QED BY <1>2, <1>3 DEF Next, Acts

---------------------------------------------------------------------------
\* Whose outputs these are

\* What is right for a process stays right when others move, unless an output appears
\* while it looks for its own.
LEMMA OthersRightful ==
  ASSUME TypeOK, FreshNames, HaveNames, Next, NEW q \in Procs, Rightful(q),
         pc'[q] = pc[q], mode'[q] = mode[q], out'[q] = out[q], before'[q] = before[q],
         pc[q] \in {"create", "find"} => Outputs' \subseteq Outputs
  PROVE  Rightful(q)'
<1>0. 1..made \subseteq Names
  BY DEF TypeOK, Names
<1>1. HasOutput(q)' = HasOutput(q) /\ Recovers(q)' = Recovers(q)
  BY DEF HasOutput, Recovers
<1>2. HasOutput(q) => out[q] \in 1..made /\ creator'[out[q]] \in {creator[out[q]], None}
  BY NamesStep DEF HaveNames
<1>3. \A r \in Procs : Dead(r) => Dead(r)'
  BY DeadStaysDead
<1>4. \A n \in Outputs : creator'[n] \in {creator[n], None}
  <2>1. Outputs \subseteq 1..made
    BY DEF TypeOK, FreshNames, Outputs, Names
  <2> QED BY <2>1, NamesStep
<1>5. (HasOutput(q) /\ ~Recovers(q) => creator[out[q]] \in {q, None})'
  BY <1>1, <1>2 DEF Rightful
<1>6. (HasOutput(q) /\ Recovers(q) =>
         creator[out[q]] = None \/ (creator[out[q]] \in Procs /\ Dead(creator[out[q]])))'
  BY <1>1, <1>2, <1>3 DEF Rightful
<1>7. (pc[q] = "create" => Outputs \subseteq before[q])'
  BY DEF Rightful
<1>8. (pc[q] = "find" => \A n \in Outputs \ before[q] : creator[n] = q)'
  BY <1>4 DEF Rightful, Outputs
<1> QED BY <1>5, <1>6, <1>7, <1>8 DEF Rightful

\* The process that moves.
LEMMA ActorRightful ==
  ASSUME TypeOK, FreshNames, HaveNames, CrumbKnown, CrumbRightful, Next, Hyprland,
         NEW p \in Procs, Acts(p), Rightful(p)
  PROVE  Rightful(p)'
<1> USE DEF TypeOK, Goto, Exits, Undo, HasOutput, Recovers, Holding, Undoing
<1>0. /\ \A n \in 1..made : creator'[n] \in {creator[n], None}
      /\ Outputs \subseteq 1..made
      /\ HasOutput(p) => out[p] \in 1..made
  BY NamesStep DEF FreshNames, HaveNames, Outputs, Names
<1>1. CASE Start(p)
  <2>1. /\ pc'[p] \in {"between", "strip", "rm"} /\ mode'[p] \in {mode[p], "recover"}
        /\ pc'[p] \in {"strip", "rm"} => mode'[p] = "recover"
        /\ pc'[p] = "rm" => crumb # None /\ Stale(crumb) /\ out'[p] = crumb.name
    BY <1>1 DEF Start, Hyprland, Sway
  <2>2. creator' = creator /\ crumb' = crumb
    BY <1>1 DEF Start, machine
  <2>3. CASE pc'[p] = "rm"
    <3>1. crumb.owner \in Procs /\ Dead(crumb.owner)
      <4>1. crumb \in Record /\ crumb # None /\ Stale(crumb)
        BY <2>1, <2>3
      <4>2. crumb.owner \in Procs /\ pc[crumb.owner] # "new"
        BY <4>1 DEF CrumbKnown, Record
      <4> QED BY <4>1, <4>2 DEF Stale, Dead
    <3>2. Dead(crumb.owner)'
      BY <2>2, <3>1, DeadStaysDead
    <3>3. creator[crumb.name] \in {crumb.owner, None}
      BY <2>1, <2>3 DEF CrumbRightful
    <3> QED BY <2>1, <2>2, <2>3, <3>1, <3>2, <3>3 DEF Rightful
  <2>4. CASE pc'[p] # "rm"
    BY <2>1, <2>4 DEF Rightful
  <2> QED BY <2>3, <2>4
<1>2. CASE pc'[p] \in {"between", "gone", "killed", "lost"}
  BY <1>2 DEF Rightful
<1>3. CASE NoOutput(p) \/ CreateFails(p) \/ Crash(p)
  BY <1>3 DEF NoOutput, CreateFails, Crash, Rightful
<1>4. CASE Arm(p) \/ Request(p) \/ EndSession(p)
  <2>1. creator' = creator /\ out'[p] = out[p]
    BY <1>4 DEF Arm, Request, EndSession, machine, Stays
  <2>2. pc[p] \in Holding /\ pc'[p] \in Holding \cup {"unmark"}
    BY <1>4 DEF Arm, Request, EndSession, Hyprland, Sway
  <2>3. pc'[p] = "unmark" => mode'[p] = "session"
    BY <1>4, <2>2 DEF Arm, Request, EndSession
  <2> QED BY <2>1, <2>2, <2>3 DEF Rightful
<1>5. CASE Look(p)
  BY <1>5 DEF Look, machine, Rightful, Outputs
<1>6. CASE CreateOutput(p)
  <2>1. /\ creator'[made'] = p /\ \A n \in Names : n # made' => creator'[n] = creator[n]
        /\ pc[p] = "create" /\ pc'[p] = "find" /\ before'[p] = before[p]
    BY <1>6, NewOutputType DEF CreateOutput
  <2>2. Outputs \subseteq before[p]
    BY <2>1 DEF Rightful
  <2>3. \A n \in Outputs' \ before'[p] : creator'[n] = p
    BY <2>1, <2>2 DEF Outputs
  <2> QED BY <2>1, <2>3 DEF Rightful
<1>7. CASE FindName(p) /\ ~Exits(p, "gone")
  <2>1. PICK n \in Outputs \ before[p] :
               /\ out' = [out EXCEPT ![p] = n]
               /\ Goto(p, "note") \/ Goto(p, "rm")
               /\ mode' = [mode EXCEPT ![p] = IF pc'[p] = "rm" THEN "unnamed" ELSE @]
    BY <1>7 DEF FindName
  <2>2. pc[p] = "find" /\ creator' = creator
    BY <1>7 DEF FindName, machine
  <2>3. creator[n] = p /\ out'[p] = n
    BY <2>1, <2>2 DEF Rightful
  <2>4. pc'[p] \in {"note", "rm"}
    BY <2>1
  <2>5. pc'[p] = "rm" => mode'[p] = "unnamed"
    BY <2>1
  <2> QED BY <2>2, <2>3, <2>4, <2>5 DEF Rightful
<1>8. CASE Note(p) \/ SetMode(p) \/ Snapshot(p) \/ WriteConf(p) \/ CreationFails(p)
  <2>1. creator' = creator /\ out'[p] = out[p]
    BY <1>8 DEF Note, SetMode, Snapshot, WriteConf, CreationFails, machine, Stays
  <2>2. /\ pc[p] \in {"note", "mode", "snap", "conf"}
        /\ pc'[p] \in {"mode", "snap", "conf", "ready", "rm"}
        /\ pc'[p] = "rm" => mode'[p] = "unwind"
    BY <1>8 DEF Note, SetMode, Snapshot, WriteConf, CreationFails
  <2> QED BY <2>1, <2>2 DEF Rightful
<1>9. CASE CleanUp(p) /\ pc'[p] \notin {"between", "gone"}
  <2>1. /\ out'[p] = out[p]
        /\ pc[p] \in {"unmark", "rm", "forget", "strip"} /\ pc'[p] \in {"unmark", "rm", "forget", "strip"}
        /\ (mode[p] = "recover") = (mode'[p] = "recover")
    BY <1>9 DEF CleanUp, Unmark, RemoveOutput, RemoveFails, Forget, Strip, StripFails, SwayDisable,
       SwayGone, SwayRestore, AfterRemoval, Again, Stays, Hyprland, Sway
  <2>2. HasOutput(p)' => HasOutput(p)
    BY <1>9, <2>1 DEF CleanUp, Unmark, RemoveOutput, RemoveFails, Forget, Strip, StripFails,
       SwayDisable, SwayGone, SwayRestore, AfterRemoval, Again, Hyprland, Sway
  <2>3. HasOutput(p) => out[p] \in 1..made /\ creator'[out[p]] \in {creator[out[p]], None}
    BY <1>0
  <2>4. \A r \in Procs : Dead(r) => Dead(r)'
    BY DeadStaysDead
  <2>5. Recovers(p)' = Recovers(p)
    BY <2>1
  <2>6. (HasOutput(p) /\ ~Recovers(p) => creator[out[p]] \in {p, None})'
    BY <2>1, <2>2, <2>3, <2>5 DEF Rightful
  <2>7. (HasOutput(p) /\ Recovers(p) =>
           creator[out[p]] = None \/ (creator[out[p]] \in Procs /\ Dead(creator[out[p]])))'
    BY <2>1, <2>2, <2>3, <2>4, <2>5 DEF Rightful
  <2> QED BY <2>1, <2>6, <2>7 DEF Rightful
<1>10. ~(SwayOutput(p) \/ SwaySnapshot(p) \/ SwayConf(p) \/ SwayFails(p))
  BY DEF SwayOutput, SwaySnapshot, SwayConf, SwayFails, Hyprland, Sway
<1>11. FindName(p) /\ Exits(p, "gone") => pc'[p] = "gone"
  OBVIOUS
<1> QED
  BY <1>1, <1>2, <1>3, <1>4, <1>5, <1>6, <1>7, <1>8, <1>9, <1>10, <1>11 DEF Acts, Create

\* Outputs stay with those who made them, unless one was taken for another's.
LEMMA OwnersStep ==
  ASSUME TypeOK, TypeOK', FreshNames, HaveNames, CrumbKnown, OwnersKnown, Next
  PROVE  OwnersKnown'
<1> SUFFICES ASSUME Hyprland', "newcomer" \notin disturbed'
             PROVE  (\A p \in Procs : Rightful(p)') /\ CrumbRightful'
  BY DEF OwnersKnown
<1>1. ASSUME NEW p \in Procs, Acts(p)
      PROVE  backend' = backend /\ (disturbed' = disturbed \/ Start(p) \/ CreateOutput(p))
  BY <1>1 DEF Acts, Start, NoOutput, Arm, Request, EndSession, Crash, history, Stays, Create, Look,
     CreateOutput, CreateFails, FindName, Note, SetMode, Snapshot, WriteConf, CreationFails,
     SwayOutput, SwaySnapshot, SwayConf, SwayFails, CleanUp, Unmark, RemoveOutput, RemoveFails, Forget,
     Strip, StripFails, SwayDisable, SwayGone, SwayRestore
<1>2. ASSUME NEW p \in Procs, Acts(p)
      PROVE  (\A q \in Procs : Rightful(q)') /\ CrumbRightful'
  <2>1. Hyprland /\ "newcomer" \notin disturbed
    BY <1>1, <1>2 DEF Hyprland, Start, CreateOutput
  <2>2. (\A q \in Procs : Rightful(q)) /\ CrumbRightful
    BY <2>1 DEF OwnersKnown
  <2>3. Rightful(p)'
    BY <1>2, <2>1, <2>2, ActorRightful
  <2>4. ASSUME NEW q \in Procs, q # p PROVE Rightful(q)'
    <3>1. pc'[q] = pc[q] /\ mode'[q] = mode[q] /\ out'[q] = out[q] /\ before'[q] = before[q]
      BY <1>2, <2>4, ActsMove DEF Moves
    <3>2. pc[q] \in {"create", "find"} => Outputs' \subseteq Outputs
      <4>1. CASE CreateOutput(p)
        BY <2>4, <4>1 DEF CreateOutput, Newcomer, Looking
      <4>2. CASE ~CreateOutput(p)
        <5>1. \/ creator' = creator
              \/ creator' = [creator EXCEPT ![out[p]] = None]
          BY <1>2, <2>1, <4>2 DEF Acts, Start, NoOutput, Arm, Request, EndSession, Crash, machine, Stays,
             Create, Look, CreateFails, FindName, Note, SetMode, Snapshot, WriteConf, CreationFails,
             SwayOutput, SwaySnapshot, SwayConf, SwayFails, Sway, Hyprland, CleanUp, Unmark,
             RemoveOutput, RemoveFails, Forget, Strip, StripFails, SwayDisable, SwayGone, SwayRestore
        <5> QED BY <5>1 DEF Outputs, TypeOK
      <4> QED BY <4>1, <4>2
    <3> QED BY <1>2, <2>2, <3>1, <3>2, OthersRightful
  <2>5. CrumbRightful'
    <3>1. ASSUME crumb' = crumb PROVE CrumbRightful'
      <4>1. crumb # None => crumb.name \in 1..made
        BY DEF CrumbKnown, TypeOK, Record, Names
      <4> QED BY <2>2, <3>1, <4>1, NamesStep DEF CrumbRightful
    <3>2. CASE Note(p) /\ crumb' # crumb
      <4>1. crumb' = [owner |-> p, name |-> out[p]] /\ creator' = creator /\ pc[p] = "note"
        BY <3>2 DEF Note
      <4>2. HasOutput(p) /\ ~Recovers(p)
        BY <4>1 DEF HasOutput, Recovers, Undoing
      <4>3. creator[out[p]] \in {p, None}
        BY <2>2, <4>2 DEF Rightful
      <4> QED BY <4>1, <4>3 DEF CrumbRightful
    <3>3. CASE ~Note(p)
      <4>1. crumb' \in {crumb, None}
        BY <1>2, <3>3 DEF Acts, Start, NoOutput, Arm, Request, EndSession, Crash, machine, Create, Look,
           CreateOutput, CreateFails, FindName, SetMode, Snapshot, WriteConf, CreationFails, SwayOutput,
           SwaySnapshot, SwayConf, SwayFails, CleanUp, Unmark, RemoveOutput, RemoveFails, Forget, Strip,
           StripFails, SwayDisable, SwayGone, SwayRestore
      <4> QED BY <3>1, <4>1 DEF CrumbRightful
    <3> QED BY <3>1, <3>2, <3>3
  <2> QED BY <2>3, <2>4, <2>5
<1>3. ASSUME OtherRequest \/ OtherOutput \/ UserEdits
      PROVE  (\A q \in Procs : Rightful(q)') /\ CrumbRightful'
  <2>1. /\ pc' = pc /\ mode' = mode /\ out' = out /\ before' = before /\ crumb' = crumb
        /\ backend' = backend /\ disturbed \subseteq disturbed'
    BY <1>3 DEF OtherRequest, OtherOutput, UserEdits, procs, history
  <2>2. (\A q \in Procs : Rightful(q)) /\ CrumbRightful
    BY <2>1 DEF OwnersKnown, Hyprland
  <2>3. ASSUME NEW q \in Procs, pc[q] \in {"create", "find"} PROVE Outputs' \subseteq Outputs
    <3>1. CASE OtherOutput
      <4>1. q \in Procs \ {Other} /\ Looking(q)
        BY <2>3 DEF Looking
      <4> QED BY <3>1, <4>1 DEF OtherOutput, Newcomer
    <3>2. CASE OtherRequest \/ UserEdits
      BY <3>2 DEF OtherRequest, UserEdits, Outputs
    <3> QED BY <1>3, <3>1, <3>2
  <2>4. ASSUME NEW q \in Procs PROVE Rightful(q)'
    BY <2>1, <2>2, <2>3, OthersRightful
  <2>5. crumb # None => crumb.name \in 1..made
    BY DEF CrumbKnown, TypeOK, Record, Names
  <2> QED BY <2>1, <2>2, <2>4, <2>5, NamesStep DEF CrumbRightful
<1> QED BY <1>2, <1>3 DEF Next, Acts

---------------------------------------------------------------------------
\* What is in the configuration

\* What the user wrote is kept, what a process read of it is current, and so is the
\* picker in the wrapper script.
LEMMA ConfStep ==
  ASSUME TypeOK, TypeOK', EditsKept, ReadIsCurrent, PickerIsCurrent, Next
  PROVE  EditsKept' /\ ReadIsCurrent' /\ PickerIsCurrent'
<1> USE DEF EditsKept, ReadIsCurrent, PickerIsCurrent
<1>1. ASSUME NEW p \in Procs, Snapshot(p)
      PROVE  EditsKept' /\ ReadIsCurrent' /\ PickerIsCurrent'
  <2>1. /\ conf' = conf /\ wanted' = wanted /\ disturbed' = disturbed /\ backend' = backend
        /\ script' = PickerOf(conf.user) /\ snap'[p] = conf
        /\ \A q \in Procs \ {p} : pc'[q] = pc[q] /\ snap'[q] = snap[q]
    BY <1>1, PicksTheUsers DEF Snapshot, Stays, Goto, TypeOK
  <2> QED BY <2>1 DEF Hyprland, PickerOf
<1>2. ASSUME NEW p \in Procs, WriteConf(p)
      PROVE  EditsKept' /\ ReadIsCurrent' /\ PickerIsCurrent'
  <2>1. /\ conf'.user = snap[p].user /\ pc[p] = "conf" /\ script' = script
        /\ wanted' = wanted /\ disturbed' = disturbed /\ backend' = backend
    BY <1>2 DEF WriteConf, Stays, TypeOK, Conf
  <2>2. \A q \in Procs : pc'[q] = "conf" => q # p /\ pc[q] = "conf" /\ snap'[q] = snap[q]
    BY <1>2 DEF WriteConf, Goto, TypeOK
  <2> QED BY <2>1, <2>2 DEF Hyprland
<1>3. ASSUME NEW p \in Procs, Strip(p)
      PROVE  EditsKept' /\ ReadIsCurrent' /\ PickerIsCurrent'
  <2>1. /\ conf'.user = conf.user /\ (conf'.blocks > 0 => conf.blocks > 0) /\ script' = script
        /\ wanted' = wanted /\ disturbed' = disturbed /\ backend' = backend
    BY <1>3 DEF Strip, Stripped, Stays, TypeOK, Conf
  <2>2. \A q \in Procs : pc'[q] = "conf" => pc[q] = "conf" /\ snap'[q] = snap[q]
    BY <1>3 DEF Strip, Goto, Exits, TypeOK
  <2> QED BY <2>1, <2>2 DEF Hyprland
<1>4. ASSUME NEW p \in Procs, SwayOutput(p) \/ SwaySnapshot(p) \/ SwayConf(p) \/ SwayFails(p)
                              \/ SwayDisable(p) \/ SwayGone(p) \/ SwayRestore(p)
      PROVE  EditsKept' /\ ReadIsCurrent' /\ PickerIsCurrent'
  <2>1. ~Hyprland' /\ script' = script
    BY <1>4 DEF SwayOutput, SwaySnapshot, SwayConf, SwayFails, SwayDisable, SwayGone, SwayRestore,
       Stays, machine, Sway, Hyprland
  <2> QED BY <2>1
<1>5. ASSUME NEW p \in Procs,
             \/ Start(p) \/ NoOutput(p) \/ Arm(p) \/ Request(p) \/ EndSession(p) \/ Crash(p)
             \/ Look(p) \/ CreateOutput(p) \/ CreateFails(p) \/ FindName(p) \/ Note(p) \/ SetMode(p)
             \/ CreationFails(p)
             \/ Unmark(p) \/ RemoveOutput(p) \/ RemoveFails(p) \/ Forget(p) \/ StripFails(p)
      PROVE  EditsKept' /\ ReadIsCurrent' /\ PickerIsCurrent'
  <2>1. /\ conf' = conf /\ script' = script /\ wanted' = wanted /\ backend' = backend
        /\ disturbed \subseteq disturbed'
    BY <1>5 DEF Start, NoOutput, Arm, Request, EndSession, Crash, Look, CreateOutput, CreateFails,
       FindName, Note, SetMode, CreationFails, Unmark, RemoveOutput, RemoveFails, Forget, StripFails,
       Stays, machine, history
  <2>2. \A q \in Procs : pc'[q] = "conf" => pc[q] = "conf" /\ snap'[q] = snap[q]
    BY <1>5 DEF Start, NoOutput, Arm, Request, EndSession, Crash, Look, CreateOutput, CreateFails,
       FindName, Note, SetMode, CreationFails, Unmark, RemoveOutput, RemoveFails, Forget, StripFails,
       AfterRemoval, Again, Goto, Exits, Undo, Stays, TypeOK
  <2> QED BY <2>1, <2>2 DEF Hyprland
<1>6. CASE OtherRequest \/ OtherOutput
  <2>1. /\ conf' = conf /\ script' = script /\ wanted' = wanted /\ backend' = backend
        /\ disturbed \subseteq disturbed' /\ pc' = pc /\ snap' = snap
    BY <1>6 DEF OtherRequest, OtherOutput, procs, history
  <2> QED BY <2>1 DEF Hyprland
<1>7. CASE UserEdits
  <2>1. /\ conf'.user = wanted' /\ script' = script /\ backend' = backend /\ pc' = pc /\ snap' = snap
        /\ disturbed' \cap {"edit", "race"} # {}
    BY <1>7 DEF UserEdits, procs, TypeOK, Conf
  <2>2. "race" \notin disturbed' => \A p \in Procs : pc'[p] # "conf"
    BY <1>7, <2>1 DEF UserEdits
  <2> QED BY <2>1, <2>2
<1> QED BY <1>1, <1>2, <1>3, <1>4, <1>5, <1>6, <1>7 DEF Next, Create, CleanUp

---------------------------------------------------------------------------
\* Every step keeps the invariant.
LEMMA NextInv == IInv /\ [Next]_vars => IInv'
<1> SUFFICES ASSUME IInv, [Next]_vars PROVE IInv'
  OBVIOUS
<1>1. CASE UNCHANGED vars
  BY <1>1 DEF vars, procs, machine, history, IInv, TypeOK, FreshNames, HaveNames, HasOutput, CrumbKnown,
     OwnersKnown, Rightful, CrumbRightful, Recovers, Dead, Alive, Outputs, EditsKept, ReadIsCurrent,
     PickerIsCurrent, Sway, Hyprland
<1>2. CASE Next
  <2>1. TypeOK'
    BY <1>2, StartType, HyprlandType, SwayType, UseType, EndType, AroundType
       DEF IInv, Next, Create, CleanUp
  <2>2. FreshNames' /\ HaveNames' /\ CrumbKnown' /\ OwnersKnown'
    BY <1>2, <2>1, NamesStep, HaveNamesStep, OwnersStep DEF IInv
  <2>3. EditsKept' /\ ReadIsCurrent' /\ PickerIsCurrent'
    BY <1>2, <2>1, ConfStep DEF IInv
  <2> QED BY <2>1, <2>2, <2>3 DEF IInv
<1> QED BY <1>1, <1>2

\* The inductive invariant of VirtualOutput holds always.
THEOREM Invariance == Spec => []IInv
BY InitInv, NextInv, PTL DEF Spec

\* The variables of VirtualOutput keep their types, on both backends.
THEOREM TypeCorrect == Spec => []TypeOK
<1>1. IInv => TypeOK
  BY DEF IInv
<1> QED BY <1>1, Invariance, PTL

\* On Hyprland the user's edits of the portal configuration survive any number of
\* sessions, crashes and recoveries, unless one fell between a reading and a writing.
THEOREM EditsSurvive == Spec => []EditsKept
<1>1. IInv => EditsKept
  BY DEF IInv
<1> QED BY <1>1, Invariance, PTL

\* The wrapper script never falls through to itself, and a session that puts its
\* block into the file has it fall through to the picker configured by then, whoever
\* runs or was killed meanwhile (original_picker_binary, write_xdph_config).
THEOREM PickerIsTheUsers == Spec => FallsThrough
<1>1. IInv /\ IInv' /\ [Next]_vars =>
        [ /\ script' # "own"
          /\ Hyprland /\ "race" \notin disturbed =>
               \A p \in Procs : pc[p] = "conf" /\ pc'[p] = "ready" => script = PickerOf(wanted) ]_vars
  BY DEF IInv, PickerIsCurrent
<1> QED BY <1>1, Invariance, PTL DEF Spec, FallsThrough

\* A process's output is taken away by its own removing it, or by one that recovers
\* when it has died.
LEMMA Taken ==
  ASSUME IInv, Next, Hyprland, "newcomer" \notin disturbed,
         NEW n \in 1..made, NEW q \in Procs, creator[n] = q, creator'[n] # q
  PROVE  \E r \in Procs : RemoveOutput(r) /\ out[r] = n /\ (r = q \/ Dead(q))
<1>0. n \in Names /\ n <= made
  BY DEF IInv, TypeOK, Names
<1>1. PICK r \in Procs : RemoveOutput(r)
  <2>1. ASSUME NEW who \in Procs \cup {Other}, NewOutput(who) PROVE creator'[n] = creator[n]
    BY <1>0, <2>1, NewOutputType DEF IInv, TypeOK
  <2>2. creator' # creator
    OBVIOUS
  <2>3. OtherOutput => NewOutput(Other)
    BY DEF OtherOutput
  <2>4. \A p \in Procs : CreateOutput(p) => NewOutput(p)
    BY DEF CreateOutput
  <2> QED
    BY <2>1, <2>2, <2>3, <2>4 DEF Next, Start, NoOutput, Arm, Request, EndSession, Crash, machine,
       Stays, Create, Look, CreateFails, FindName, Note, SetMode, Snapshot, WriteConf, CreationFails,
       SwayOutput, SwaySnapshot, SwayConf, SwayFails, Sway, Hyprland, CleanUp, Unmark, RemoveFails,
       Forget, Strip, StripFails, SwayDisable, SwayGone, SwayRestore, OtherRequest, UserEdits
<1>2. out[r] = n /\ pc[r] = "rm"
  BY <1>1, <1>0 DEF RemoveOutput, IInv, TypeOK
<1>3. Rightful(r) /\ HasOutput(r)
  BY <1>2 DEF IInv, OwnersKnown, HasOutput
<1>4. r # q => Dead(q)
  BY <1>2, <1>3 DEF Rightful
<1> QED BY <1>1, <1>2, <1>4

\* So a session that runs keeps its own.
LEMMA LiveOutputStep ==
  IInv /\ [Next]_vars =>
    (Hyprland /\ "newcomer" \notin disturbed =>
       \A p \in Procs : pc[p] \in Holding /\ creator[out[p]] = p
                        /\ creator'[out[p]] # p => pc'[p] # pc[p])
<1> SUFFICES ASSUME IInv, [Next]_vars, Hyprland, "newcomer" \notin disturbed, NEW p \in Procs,
                    pc[p] \in Holding, creator[out[p]] = p, creator'[out[p]] # p
             PROVE  FALSE
  OBVIOUS
<1>1. out[p] \in 1..made
  BY DEF IInv, HaveNames, HasOutput
<1>2. Next
  BY DEF vars, machine
<1>3. PICK r \in Procs : RemoveOutput(r) /\ (r = p \/ Dead(p))
  BY <1>1, <1>2, Taken
<1> QED BY <1>3 DEF RemoveOutput, Dead, Alive, Holding

\* Nobody takes the output of a session that is running, for any number of processes
\* that are killed anywhere and recover each other.
THEOREM OutputsAreKept == Spec => LiveOutputKept
<1>1. IInv /\ [Next]_vars =>
        [Hyprland /\ "newcomer" \notin disturbed =>
           \A p \in Procs : pc[p] \in Holding /\ creator[out[p]] = p
                            /\ creator'[out[p]] # p => pc'[p] # pc[p]]_vars
  BY LiveOutputStep
<1> QED BY <1>1, Invariance, PTL DEF Spec, LiveOutputKept

---------------------------------------------------------------------------
\* One session at a time

\* What has been disturbed or has failed stays so.
LEMMA TroubleStays ==
  ASSUME Next
  PROVE  disturbed \subseteq disturbed' /\ failed \subseteq failed' /\ backend' = backend
<1>1. ASSUME NEW p \in Procs, Start(p) \/ NoOutput(p) \/ Arm(p) \/ Request(p) \/ EndSession(p) \/ Crash(p)
      PROVE  disturbed \subseteq disturbed' /\ failed \subseteq failed' /\ backend' = backend
  BY <1>1 DEF Start, NoOutput, Arm, Request, EndSession, Crash, Fails, Stays, history
<1>2. ASSUME NEW p \in Procs, Create(p)
      PROVE  disturbed \subseteq disturbed' /\ failed \subseteq failed' /\ backend' = backend
  BY <1>2 DEF Create, Look, CreateOutput, CreateFails, FindName, Note, SetMode, Snapshot, WriteConf,
     CreationFails, SwayOutput, SwaySnapshot, SwayConf, SwayFails, Fails, Stays, history
<1>3. ASSUME NEW p \in Procs, CleanUp(p)
      PROVE  disturbed \subseteq disturbed' /\ failed \subseteq failed' /\ backend' = backend
  BY <1>3 DEF CleanUp, Unmark, RemoveOutput, RemoveFails, Forget, Strip, StripFails, SwayDisable,
     SwayGone, SwayRestore, Fails, Stays, history
<1>4. CASE OtherRequest \/ OtherOutput \/ UserEdits
  BY <1>4 DEF OtherRequest, OtherOutput, UserEdits, history
<1> QED BY <1>1, <1>2, <1>3, <1>4 DEF Next

\* Only Start brings a process to life, and the others act while they are alive.
LEMMA ActsAlive ==
  ASSUME TypeOK, NEW p \in Procs, Acts(p)
  PROVE  Start(p) \/ Alive(p)
<1> USE DEF Alive
<1>1. CASE NoOutput(p) \/ Arm(p) \/ Request(p) \/ EndSession(p) \/ Crash(p)
  BY <1>1 DEF NoOutput, Arm, Request, EndSession, Crash, Holding
<1>2. CASE Create(p)
  BY <1>2 DEF Create, Look, CreateOutput, CreateFails, FindName, Note, SetMode, Snapshot, WriteConf,
     CreationFails, SwayOutput, SwaySnapshot, SwayConf, SwayFails
<1>3. CASE CleanUp(p)
  BY <1>3 DEF CleanUp, Unmark, RemoveOutput, RemoveFails, Forget, Strip, StripFails, SwayDisable,
     SwayGone, SwayRestore
<1> QED BY <1>1, <1>2, <1>3 DEF Acts

\* As long as sessions did not overlap, nobody else runs when one acts.
LEMMA OthersRest ==
  ASSUME TypeOK, Alone, Next, "overlap" \notin disturbed', NEW p \in Procs, Acts(p)
  PROVE  \A q \in Procs \ {p} : ~Alive(q) /\ ~Alive(q)'
<1>1. "overlap" \notin disturbed
  BY TroubleStays
<1>2. \A q \in Procs \ {p} : ~Alive(q)
  <2>1. CASE Start(p)
    BY <2>1 DEF Start
  <2>2. CASE Alive(p)
    BY <1>1, <2>2 DEF Alone
  <2> QED BY <2>1, <2>2, ActsAlive
<1> QED BY <1>2, ActsMove DEF Moves, Alive

LEMMA AloneStep ==
  ASSUME TypeOK, Alone, Next
  PROVE  Alone'
<1> SUFFICES ASSUME "overlap" \notin disturbed' PROVE \A p, q \in Procs : Alive(p)' /\ Alive(q)' => p = q
  BY DEF Alone
<1>1. ASSUME NEW p \in Procs, Acts(p) PROVE \A r, q \in Procs : Alive(r)' /\ Alive(q)' => r = q
  BY <1>1, OthersRest
<1>2. CASE OtherRequest \/ OtherOutput \/ UserEdits
  <2>1. pc' = pc
    BY <1>2 DEF OtherRequest, OtherOutput, UserEdits, procs
  <2> QED BY <2>1, TroubleStays DEF Alone, Alive
<1> QED BY <1>1, <1>2 DEF Next, Acts

---------------------------------------------------------------------------
\* Outputs and the marker

\* A session's output is there until the session removes it.
LEMMA OutputsExistStep ==
  ASSUME IInv, OutputsExist, Next
  PROVE  OutputsExist'
<1> SUFFICES ASSUME Hyprland', "newcomer" \notin disturbed', NEW q \in Procs, Keeps(q)'
             PROVE  creator'[out'[q]] = q
  BY DEF OutputsExist
<1>1. Hyprland /\ "newcomer" \notin disturbed
  BY TroubleStays DEF Hyprland
<1>2. \/ Keeps(q) /\ out'[q] = out[q] /\ ~RemoveOutput(q)
      \/ FindName(q) /\ pc'[q] = "note"
  <2> USE DEF IInv, TypeOK, Keeps, Holding, Goto, Exits, Undo
  <2>1. ASSUME NEW p \in Procs, Acts(p), p # q
        PROVE  pc'[q] = pc[q] /\ mode'[q] = mode[q] /\ out'[q] = out[q]
    BY <2>1, ActsMove DEF Moves
  <2>2. CASE Start(q) \/ NoOutput(q) \/ Arm(q) \/ Request(q) \/ EndSession(q) \/ Crash(q)
    BY <2>2 DEF Start, NoOutput, Arm, Request, EndSession, Crash, Stays, RemoveOutput
  <2>3. CASE Create(q)
    BY <1>1, <2>3 DEF Create, Look, CreateOutput, CreateFails, FindName, Note, SetMode, Snapshot,
       WriteConf, CreationFails, SwayOutput, SwaySnapshot, SwayConf, SwayFails, Sway, Hyprland, Stays,
       RemoveOutput
  <2>4. CASE CleanUp(q)
    BY <2>4 DEF CleanUp, Unmark, RemoveOutput, RemoveFails, Forget, Strip, StripFails, SwayDisable,
       SwayGone, SwayRestore, AfterRemoval, Again, Stays
  <2>5. CASE OtherRequest \/ OtherOutput \/ UserEdits
    BY <2>5 DEF OtherRequest, OtherOutput, UserEdits, procs, RemoveOutput
  <2>6. RemoveOutput(q) => pc'[q] = "forget" /\ Acts(q)
    BY DEF RemoveOutput, Acts, CleanUp
  <2> QED BY <2>1, <2>2, <2>3, <2>4, <2>5, <2>6 DEF Next, Acts
<1>3. CASE Keeps(q) /\ out'[q] = out[q] /\ ~RemoveOutput(q)
  <2>1. out[q] \in 1..made
    BY <1>3 DEF IInv, HaveNames, HasOutput, Keeps
  <2>2. creator[out[q]] = q
    BY <1>1, <1>3 DEF OutputsExist
  <2>3. ~Dead(q)
    BY <1>3 DEF Keeps, Dead, Alive, Holding
  <2> QED BY <1>1, <1>3, <2>1, <2>2, <2>3, Taken
<1>4. CASE FindName(q) /\ pc'[q] = "note"
  <2>1. PICK n \in Outputs \ before[q] : out' = [out EXCEPT ![q] = n]
    BY <1>4 DEF FindName, Exits, Goto, IInv, TypeOK
  <2>2. pc[q] = "find" /\ creator' = creator /\ Rightful(q)
    BY <1>1, <1>4 DEF FindName, machine, IInv, OwnersKnown
  <2> QED BY <2>1, <2>2 DEF Rightful, IInv, TypeOK
<1> QED BY <1>2, <1>3, <1>4

\* Trouble does not go away.
LEMMA UntroubledBefore ==
  ASSUME TypeOK, Next, Untroubled'
  PROVE  Untroubled
BY TroubleStays, DeadStaysDead DEF Untroubled, Dead, Alive

LEMMA MarkerStep ==
  ASSUME TypeOK, MarkerHeld, Next
  PROVE  MarkerHeld'
<1>1. ASSUME NEW p \in Procs, Acts(p)
      PROVE  \/ marker' = 0
             \/ /\ marker' = marker
                /\ Marks(p) /\ pc'[p] \notin {"killed", "lost"} => Sway \/ (Marks(p)' /\ out'[p] = out[p])
             \/ Arm(p) /\ marker' = out[p] /\ Hyprland
  <2> USE DEF TypeOK, Marks, Goto, Exits, Undo
  <2>1. CASE Start(p) \/ NoOutput(p) \/ Request(p) \/ EndSession(p) \/ Crash(p)
    BY <2>1 DEF Start, NoOutput, Request, EndSession, Crash, Answered, Holding, machine, Stays
  <2>2. CASE Create(p)
    BY <2>2 DEF Create, Look, CreateOutput, CreateFails, FindName, Note, SetMode, Snapshot,
       WriteConf, CreationFails, SwayOutput, SwaySnapshot, SwayConf, SwayFails, machine
  <2>3. CASE CleanUp(p)
    BY <2>3 DEF CleanUp, Unmark, RemoveOutput, RemoveFails, Forget, Strip, StripFails, SwayDisable,
       SwayGone, SwayRestore, machine
  <2>4. CASE Arm(p)
    BY <2>4 DEF Arm, Sway, Hyprland
  <2> QED BY <1>1, <2>1, <2>2, <2>3, <2>4 DEF Acts
<1>2. ASSUME NEW p \in Procs, Acts(p) PROVE MarkerHeld'
  <2>1. CASE marker' = 0
    BY <2>1 DEF MarkerHeld
  <2>2. CASE Arm(p) /\ marker' = out[p] /\ Hyprland
    <3>1. Marks(p)' /\ out'[p] = out[p] /\ ~Sway'
      BY <2>2, TroubleStays DEF Arm, Goto, Marks, Sway, Hyprland, TypeOK
    <3> QED BY <2>2, <3>1 DEF MarkerHeld
  <2>3. CASE /\ marker' = marker
             /\ (Marks(p) /\ pc'[p] \notin {"killed", "lost"} => Sway \/ (Marks(p)' /\ out'[p] = out[p]))
    <3>1. Sway' = Sway
      BY TroubleStays DEF Sway
    <3>2. SUFFICES ASSUME Untroubled', marker # 0 PROVE \E q \in Procs : Marks(q)' /\ out'[q] = marker
      BY <2>3, <3>1 DEF MarkerHeld
    <3>3. PICK q \in Procs : Marks(q) /\ out[q] = marker
      BY <3>2, UntroubledBefore DEF MarkerHeld
    <3>4. CASE q = p
      BY <2>3, <3>2, <3>3, <3>4 DEF MarkerHeld, Untroubled
    <3>5. CASE q # p
      BY <1>2, <3>3, <3>5, ActsMove DEF Moves, Marks
    <3> QED BY <3>4, <3>5
  <2> QED BY <1>1, <1>2, <2>1, <2>2, <2>3
<1>3. CASE OtherRequest \/ OtherOutput \/ UserEdits
  <2>1. pc' = pc /\ mode' = mode /\ out' = out /\ backend' = backend /\ marker' \in {marker, 0}
    BY <1>3 DEF OtherRequest, OtherOutput, UserEdits, procs, Answered
  <2>2. failed \subseteq failed'
    BY TroubleStays
  <2> QED BY <2>1, <2>2 DEF MarkerHeld, Untroubled, Marks, Sway
<1> QED BY <1>2, <1>3 DEF Next, Acts

---------------------------------------------------------------------------
\* The configuration

\* What is at a process's point of the block and the marker.
BlockOf(p) ==
  /\ Alive(p) /\ ~Blocks(p) => conf.blocks = 0
  /\ Alive(p) /\ ~Marked(p) => marker = 0
  /\ pc[p] = "conf" => snap[p].blocks = 0

\* What a process on its own does to them.
LEMMA BlockStep ==
  ASSUME TypeOK, NEW p \in Procs, Acts(p), Hyprland, "recover" \notin failed',
         Start(p) => crumb = None \/ Stale(crumb),
         pc[p] \in {"unmark", "strip"} => mode[p] \in {"recover", "session", "drop"},
         conf.blocks <= 1, BlockOf(p)
  PROVE  conf'.blocks <= 1 /\ BlockOf(p)'
<1> USE DEF TypeOK, BlockOf, Blocks, Marked, Undoes, Recovers, Alive, Holding, Undoing, Goto, Exits, Undo
<1>0. conf \in [user : Contents, blocks : 0..MaxBlocks]
  BY DEF Conf
<1>1. CASE Start(p)
  BY <1>1 DEF Start, machine, Sway, Hyprland
<1>2. CASE NoOutput(p) \/ Crash(p)
  BY <1>2 DEF NoOutput, Crash, machine, Stays
<1>3. CASE Arm(p) \/ Request(p) \/ EndSession(p)
  BY <1>3 DEF Arm, Request, EndSession, machine, Stays, Sway, Hyprland
<1>4. CASE Look(p) \/ CreateOutput(p) \/ CreateFails(p) \/ FindName(p) \/ Note(p) \/ SetMode(p)
           \/ CreationFails(p)
  BY <1>4 DEF Look, CreateOutput, CreateFails, FindName, Note, SetMode, CreationFails, machine, Stays
<1>5. CASE Snapshot(p)
  BY <1>5 DEF Snapshot, Stays
<1>6. CASE WriteConf(p)
  <2>1. conf'.blocks = 1
    BY <1>6 DEF WriteConf, Conf
  <2> QED BY <1>6, <2>1 DEF WriteConf, Stays
<1>7. CASE Unmark(p)
  BY <1>7 DEF Unmark, Stays
<1>8. CASE RemoveOutput(p) \/ RemoveFails(p) \/ Forget(p)
  BY <1>8 DEF RemoveOutput, RemoveFails, Forget, AfterRemoval, Stays, machine, Modes
<1>9. CASE Strip(p)
  <2>1. conf'.blocks = IF conf.blocks = 0 THEN 0 ELSE conf.blocks - 1
    BY <1>0, <1>9 DEF Strip, Stripped
  <2>2. conf'.blocks = 0
    BY <1>0, <2>1
  <2> QED BY <1>9, <2>2 DEF Strip, Stays
<1>10. CASE StripFails(p)
  <2>1. mode[p] # "recover"
    BY <1>10 DEF StripFails, Fails
  <2> QED BY <1>10, <2>1 DEF StripFails, Again, Stays, machine, Sway, Hyprland
<1>11. ~Sway
  BY DEF Sway, Hyprland
<1> QED BY <1>1, <1>2, <1>3, <1>4, <1>5, <1>6, <1>7, <1>8, <1>9, <1>10, <1>11
        DEF Acts, Create, CleanUp, SwayOutput, SwaySnapshot, SwayConf, SwayFails, SwayDisable, SwayGone,
            SwayRestore

LEMMA OneBlockStep ==
  ASSUME TypeOK, Alone, OneBlock, UndoesFor, Next
  PROVE  OneBlock'
<1> SUFFICES ASSUME Hyprland', "overlap" \notin disturbed', "recover" \notin failed'
             PROVE  conf'.blocks <= 1 /\ \A q \in Procs : BlockOf(q)'
  BY DEF OneBlock, BlockOf
<1>1. Hyprland /\ "overlap" \notin disturbed /\ "recover" \notin failed
  BY TroubleStays DEF Hyprland
<1>2. conf.blocks <= 1 /\ \A q \in Procs : BlockOf(q)
  BY <1>1 DEF OneBlock, BlockOf
<1>3. ASSUME NEW p \in Procs, Acts(p)
      PROVE  conf'.blocks <= 1 /\ \A q \in Procs : BlockOf(q)'
  <2>1. \A q \in Procs \ {p} : ~Alive(q) /\ ~Alive(q)'
    BY <1>3, OthersRest
  <2>2. \A q \in Procs \ {p} : BlockOf(q)'
    BY <2>1 DEF BlockOf, Alive
  <2>3. Start(p) => crumb = None \/ Stale(crumb)
    BY <2>1 DEF Start, Stale, Alive, TypeOK, Record
  <2>4. conf'.blocks <= 1 /\ BlockOf(p)'
    BY <1>1, <1>2, <1>3, <2>3, BlockStep DEF UndoesFor
  <2> QED BY <2>2, <2>4
<1>4. CASE OtherRequest \/ OtherOutput \/ UserEdits
  <2>1. /\ pc' = pc /\ mode' = mode /\ snap' = snap /\ conf'.blocks = conf.blocks
        /\ marker' \in {marker, 0}
    BY <1>4 DEF OtherRequest, OtherOutput, UserEdits, Answered, procs, TypeOK, Conf
  <2> QED BY <1>2, <2>1 DEF BlockOf, Blocks, Marked, Undoes, Recovers, Alive
<1> QED BY <1>3, <1>4 DEF Next, Acts

LEMMA UndoesForStep ==
  ASSUME TypeOK, UndoesFor, Next
  PROVE  UndoesFor'
<1> SUFFICES ASSUME Hyprland', NEW q \in Procs, pc'[q] \in {"unmark", "strip"}
             PROVE  mode'[q] \in {"recover", "session", "drop"}
  BY DEF UndoesFor
<1>1. /\ Hyprland /\ ~Sway
      /\ pc[q] \in {"unmark", "strip"} => mode[q] \in {"recover", "session", "drop"}
  BY TroubleStays DEF Sway, Hyprland, UndoesFor
<1> USE DEF TypeOK, Goto, Exits, Undo
<1>2. CASE Start(q) \/ NoOutput(q) \/ Arm(q) \/ Request(q) \/ EndSession(q) \/ Crash(q)
  BY <1>1, <1>2 DEF Start, NoOutput, Arm, Request, EndSession, Crash
<1>3. CASE Create(q)
  BY <1>1, <1>3 DEF Create, Look, CreateOutput, CreateFails, FindName, Note, SetMode, Snapshot,
     WriteConf, CreationFails, SwayOutput, SwaySnapshot, SwayConf, SwayFails
<1>4. CASE Unmark(q) \/ RemoveOutput(q) \/ Strip(q) \/ StripFails(q)
  BY <1>1, <1>4 DEF Unmark, RemoveOutput, Strip, StripFails, Again, Stays
<1>5. CASE RemoveFails(q) \/ Forget(q)
  BY <1>1, <1>5 DEF RemoveFails, Forget, AfterRemoval, Modes
<1>6. ASSUME NEW p \in Procs, Acts(p), p # q PROVE pc'[q] = pc[q] /\ mode'[q] = mode[q]
  BY <1>6, ActsMove DEF Moves
<1>7. CASE OtherRequest \/ OtherOutput \/ UserEdits
  BY <1>1, <1>7 DEF OtherRequest, OtherOutput, UserEdits, procs
<1> QED BY <1>1, <1>2, <1>3, <1>4, <1>5, <1>6, <1>7
        DEF Next, Acts, CleanUp, SwayDisable, SwayGone, SwayRestore

LEMMA SwayPointsStep ==
  ASSUME TypeOK, SwayPoints, Next
  PROVE  SwayPoints'
<1> SUFFICES ASSUME Sway', NEW q \in Procs PROVE pc'[q] \notin {"unmark", "forget"}
  BY DEF SwayPoints
<1>1. Sway /\ ~Hyprland /\ pc[q] \notin {"unmark", "forget"}
  BY TroubleStays DEF Sway, Hyprland, SwayPoints
<1> USE DEF TypeOK, Goto, Exits, Undo
<1>2. CASE Start(q) \/ NoOutput(q) \/ Arm(q) \/ Request(q) \/ EndSession(q) \/ Crash(q)
  BY <1>1, <1>2 DEF Start, NoOutput, Arm, Request, EndSession, Crash
<1>3. CASE Create(q)
  BY <1>1, <1>3 DEF Create, Look, CreateOutput, CreateFails, FindName, Note, SetMode, Snapshot,
     WriteConf, CreationFails, SwayOutput, SwaySnapshot, SwayConf, SwayFails
<1>4. CASE CleanUp(q)
  BY <1>1, <1>4 DEF CleanUp, Unmark, RemoveOutput, RemoveFails, Forget, Strip, StripFails, SwayDisable,
     SwayGone, SwayRestore, AfterRemoval, Again
<1>5. ASSUME NEW p \in Procs, Acts(p), p # q PROVE pc'[q] = pc[q]
  BY <1>5, ActsMove DEF Moves
<1>6. CASE OtherRequest \/ OtherOutput \/ UserEdits
  BY <1>1, <1>6 DEF OtherRequest, OtherOutput, UserEdits, procs
<1> QED BY <1>1, <1>2, <1>3, <1>4, <1>5, <1>6 DEF Next, Acts

LEMMA SnapshottedStep ==
  ASSUME TypeOK, Alone, SwayPoints, Snapshotted, Next
  PROVE  Snapshotted'
<1> SUFFICES ASSUME Sway', Untroubled', disturbed' \cap {"overlap", "race", "edit"} = {},
                    wanted' = "custom"
             PROVE  /\ \A q \in Procs : pc'[q] = "conf" \/ Changed(q)' => snap'[q] = Clean("custom")
                    /\ (\A q \in Procs : ~Changed(q)') => conf' = Clean("custom")
  BY DEF Snapshotted
<1>1. /\ Sway /\ ~Hyprland /\ Untroubled /\ disturbed \cap {"overlap", "race", "edit"} = {}
      /\ ~UserEdits
  BY TroubleStays, UntroubledBefore DEF Sway, Hyprland, UserEdits
<1>2. wanted = "custom"
  BY <1>1 DEF Next, Start, NoOutput, Arm, Request, EndSession, Crash, history, Stays, Create, Look,
     CreateOutput, CreateFails, FindName, Note, SetMode, Snapshot, WriteConf, CreationFails,
     SwayOutput, SwaySnapshot, SwayConf, SwayFails, CleanUp, Unmark, RemoveOutput, RemoveFails, Forget,
     Strip, StripFails, SwayDisable, SwayGone, SwayRestore, OtherRequest, OtherOutput
<1>3. /\ \A q \in Procs : pc[q] = "conf" \/ Changed(q) => snap[q] = Clean("custom")
      /\ (\A q \in Procs : ~Changed(q)) => conf = Clean("custom")
  BY <1>1, <1>2 DEF Snapshotted
<1>4. ASSUME NEW p \in Procs, Acts(p)
      PROVE  /\ \A q \in Procs : pc'[q] = "conf" \/ Changed(q)' => snap'[q] = Clean("custom")
             /\ (\A q \in Procs : ~Changed(q)') => conf' = Clean("custom")
  <2>1. \A q \in Procs \ {p} : ~Alive(q) /\ ~Alive(q)'
    BY <1>4, OthersRest
  <2>2. \A q \in Procs : ~Alive(q) => ~Changed(q)
    BY DEF Alive, Changed, Holding
  <2>3. \A q \in Procs : ~Alive(q)' => ~Changed(q)' /\ pc'[q] # "conf"
    BY DEF Alive, Changed, Holding
  <2>4. /\ (\A q \in Procs : ~Changed(q)) <=> ~Changed(p)
        /\ (\A q \in Procs : ~Changed(q)') <=> ~Changed(p)'
    BY <2>1, <2>2, <2>3
  <2>5. /\ pc'[p] = "conf" \/ Changed(p)' => snap'[p] = Clean("custom")
        /\ ~Changed(p)' => conf' = Clean("custom")
    <3>1. /\ failed' \subseteq {"arm"} /\ pc'[p] \notin {"killed", "lost"}
          /\ pc[p] \notin {"unmark", "forget"}
      BY <1>1 DEF Untroubled, SwayPoints
    <3> USE DEF TypeOK, Changed, Holding, Goto, Exits, Undo
    <3>2. CASE Start(p)
      BY <1>1, <1>3, <2>4, <3>2 DEF Start, machine
    <3>3. CASE NoOutput(p) \/ Arm(p) \/ Request(p) \/ EndSession(p) \/ Crash(p)
      BY <1>1, <1>3, <2>4, <3>1, <3>3 DEF NoOutput, Arm, Request, EndSession, Crash, machine, Stays
    <3>4. CASE SwayOutput(p) \/ SwaySnapshot(p)
      BY <1>3, <2>4, <3>4 DEF SwayOutput, SwaySnapshot, Stays
    <3>5. CASE SwayConf(p)
      BY <1>3, <3>5 DEF SwayConf, Stays
    <3>6. CASE SwayDisable(p)
      BY <1>3, <3>6 DEF SwayDisable, Stays
    <3>7. CASE SwayRestore(p)
      BY <1>3, <3>7 DEF SwayRestore, Clean
    <3>8. ~(SwayFails(p) \/ SwayGone(p) \/ StripFails(p) \/ RemoveFails(p) \/ Unmark(p) \/ Forget(p))
      BY <3>1 DEF SwayFails, SwayGone, StripFails, RemoveFails, Unmark, Forget, Fails
    <3>9. CASE Look(p) \/ CreateOutput(p) \/ CreateFails(p) \/ FindName(p) \/ Note(p) \/ SetMode(p)
               \/ Snapshot(p) \/ WriteConf(p) \/ CreationFails(p) \/ RemoveOutput(p) \/ Strip(p)
      BY <1>1, <3>9 DEF Look, CreateOutput, CreateFails, FindName, Note, SetMode, Snapshot, WriteConf,
         CreationFails, RemoveOutput, Strip
    <3> QED BY <1>4, <3>2, <3>3, <3>4, <3>5, <3>6, <3>7, <3>8, <3>9 DEF Acts, Create, CleanUp
  <2> QED BY <2>1, <2>3, <2>4, <2>5
<1>5. CASE OtherRequest \/ OtherOutput
  <2>1. pc' = pc /\ snap' = snap /\ conf' = conf
    BY <1>5 DEF OtherRequest, OtherOutput, procs
  <2> QED BY <1>3, <2>1 DEF Changed
<1> QED BY <1>1, <1>4, <1>5 DEF Next, Acts

---------------------------------------------------------------------------
\* The breadcrumb

Written(p) ==
  /\ CrumbDealtWith(p)
  /\ \A n \in Names : creator[n] = p => Accounted(p, n)

\* A process that does not run has nothing to be dealt with; what it left stays
\* written down while another one acts.
LEMMA WrittenOfOthers ==
  ASSUME IInv, Next, NEW a \in Procs, Acts(a), NEW p \in Procs, p # a, ~Alive(p), ~Alive(p)',
         Hyprland, failed' \cap {"note", "remove", "find"} = {}, Written(a), Written(p)
  PROVE  Written(p)'
<1> USE DEF Written
<1>1. pc'[p] = pc[p] /\ mode'[p] = mode[p] /\ out'[p] = out[p]
  BY ActsMove DEF Moves, IInv
<1>2. pc[p] \in {"new", "gone", "killed", "lost"}
  BY DEF Alive
<1>3. CrumbDealtWith(p)'
  BY <1>1, <1>2 DEF CrumbDealtWith, Unnamed, Recovers, Undoing, Alive
<1>4. ASSUME NEW n \in Names, creator'[n] = p PROVE creator[n] = p
  <2>1. ASSUME NEW who \in Procs \cup {Other}, who # p, NewOutput(who) PROVE creator[n] = p
    BY <1>4, <2>1, NewOutputType DEF IInv
  <2>2. ASSUME RemoveOutput(a) PROVE creator[n] = p
    BY <1>4, <2>2 DEF RemoveOutput, IInv, TypeOK
  <2>3. CreateOutput(a) => NewOutput(a)
    BY DEF CreateOutput
  <2> QED
    BY <1>4, <2>1, <2>2, <2>3 DEF Acts, Start, NoOutput, Arm, Request, EndSession, Crash, machine,
       Stays, Create, Look, CreateFails, FindName, Note, SetMode, Snapshot, WriteConf, CreationFails,
       SwayOutput, SwaySnapshot, SwayConf, SwayFails, Sway, Hyprland, CleanUp, Unmark, RemoveFails,
       Forget, Strip, StripFails, SwayDisable, SwayGone, SwayRestore
<1>5. ASSUME NEW n \in Names, creator'[n] = p, crumb = [owner |-> p, name |-> n] PROVE crumb' = crumb
  <2>1. crumb # None
    BY <1>5 DEF IInv, CrumbKnown, Record
  <2>2. Note(a) \/ Forget(a) \/ (Crash(a) /\ pc[a] = "note") \/ crumb' = crumb
    BY DEF Acts, Start, NoOutput, Arm, Request, EndSession, Crash, machine,
       Stays, Create, Look, CreateOutput, CreateFails, FindName, Note, SetMode, Snapshot, WriteConf,
       CreationFails, SwayOutput, SwaySnapshot, SwayConf, SwayFails, Sway, Hyprland, CleanUp, Unmark, RemoveFails,
       RemoveOutput, Forget, Strip, StripFails, SwayDisable, SwayGone, SwayRestore
  <2>3. pc[a] # "note"
    BY <2>1 DEF CrumbDealtWith
  <2>4. ~Note(a)
    BY <2>3 DEF Note
  <2>5. ASSUME Forget(a) PROVE FALSE
    <3>1. pc[a] = "forget" /\ creator' = creator /\ Alive(a)
      BY <2>5 DEF Forget, Alive
    <3>2. creator[out[a]] = None
      BY <3>1 DEF CrumbDealtWith
    <3>3. crumb.owner = p /\ crumb.name = n
      BY <1>5
    <3>4. Recovers(a) /\ n = out[a]
      BY <2>1, <3>1, <3>3 DEF CrumbDealtWith
    <3> QED BY <1>5, <3>1, <3>2, <3>4
  <2> QED BY <2>2, <2>3, <2>4, <2>5
<1>6. ASSUME NEW n \in Names, creator'[n] = p PROVE Accounted(p, n)'
  <2>1. Accounted(p, n)
    BY <1>4, <1>6
  <2> QED
    BY <1>1, <1>2, <1>5, <1>6, <2>1 DEF Accounted, NoneYet, NoneLeft, Recovers, Undoing, Unnamed,
       HasOutput, Holding
<1> QED BY <1>3, <1>6

\* The process that acts, until it has its output.
LEMMA WrittenAtFirst ==
  ASSUME IInv, Next, NEW p \in Procs, Hyprland, "newcomer" \notin disturbed,
         failed' \cap {"note", "remove", "find"} = {}, Written(p),
         (Start(p) /\ (\A q \in Procs : ~Alive(q))) \/ NoOutput(p) \/ Look(p) \/ CreateOutput(p)
           \/ CreateFails(p) \/ FindName(p) \/ Note(p)
  PROVE  Written(p)'
<1> USE DEF Written, IInv, TypeOK, Goto, Exits, Undo, Stays
<1>1. CASE Start(p) /\ (\A q \in Procs : ~Alive(q))
  <2>1. crumb = None \/ Stale(crumb)
    BY <1>1 DEF Stale, Record
  <2>2. creator' = creator /\ crumb' = crumb /\ pc[p] = "new"
    BY <1>1 DEF Start, machine
  <2>3. \/ crumb = None /\ pc'[p] = "strip" /\ mode'[p] = "recover"
        \/ crumb # None /\ pc'[p] = "rm" /\ mode'[p] = "recover" /\ out'[p] = crumb.name
    BY <1>1, <2>1 DEF Start, Hyprland, Sway
  <2>4. \A n \in Names : creator[n] # p
    BY <2>2 DEF Accounted, NoneYet
  <2>5. CrumbDealtWith(p)'
    BY <2>2, <2>3 DEF CrumbDealtWith, Unnamed, Recovers, Undoing
  <2> QED BY <2>2, <2>4, <2>5
<1>2. CASE NoOutput(p) \/ Look(p) \/ CreateFails(p)
  <2>1. creator' = creator /\ crumb' = crumb /\ pc[p] \in {"between", "create"}
    BY <1>2 DEF NoOutput, Look, CreateFails, machine
  <2>2. pc'[p] \in {"gone", "create"}
    BY <1>2 DEF NoOutput, Look, CreateFails
  <2>3. \A n \in Names : creator[n] # p
    BY <2>1 DEF Accounted, NoneYet
  <2>4. CrumbDealtWith(p)'
    BY <2>1, <2>2 DEF CrumbDealtWith, Unnamed, Recovers, Undoing, Alive
  <2> QED BY <2>1, <2>3, <2>4
<1>3. CASE CreateOutput(p)
  <2>1. /\ crumb' = crumb /\ pc[p] = "create" /\ pc'[p] = "find"
        /\ made' \in Names /\ \A n \in Names : n # made' => creator'[n] = creator[n]
    BY <1>3, NewOutputType DEF CreateOutput
  <2>2. \A n \in Names : creator[n] # p
    BY <2>1 DEF Accounted, NoneYet
  <2>3. CrumbDealtWith(p)'
    BY <2>1 DEF CrumbDealtWith, Unnamed, Recovers, Undoing, Alive
  <2>4. \A n \in Names : creator'[n] = p => n = made'
    BY <2>1, <2>2
  <2> QED BY <2>1, <2>3, <2>4 DEF Accounted, NoneYet, NoneLeft, Recovers, Undoing, HasOutput, Holding
<1>4. CASE FindName(p)
  <2>1. pc[p] = "find" /\ creator' = creator /\ crumb' = crumb
    BY <1>4 DEF FindName, machine
  <2>2. ~Fails("find")
    BY DEF Fails
  <2>3. PICK k \in Outputs \ before[p] :
               /\ out' = [out EXCEPT ![p] = k]
               /\ Goto(p, "note") \/ Goto(p, "rm")
               /\ mode' = [mode EXCEPT ![p] = IF pc'[p] = "rm" THEN "unnamed" ELSE @]
    BY <1>4, <2>2 DEF FindName
  <2>4. k \in Names /\ creator[k] = p
    BY <2>1 DEF OwnersKnown, Rightful, Outputs
  <2>5. out'[p] = k /\ pc'[p] \in {"note", "rm"} /\ (pc'[p] = "rm" => mode'[p] = "unnamed")
    BY <2>3
  <2>6. \A n \in Names : creator[n] = p => n = k
    BY <2>1, <2>4 DEF Accounted
  <2>7. CrumbDealtWith(p)'
    BY <2>1, <2>5 DEF CrumbDealtWith, Unnamed, Recovers, Undoing, Alive
  <2> QED BY <2>1, <2>5, <2>6, <2>7 DEF Accounted, NoneYet, NoneLeft, Recovers, Undoing, HasOutput,
             Holding, Unnamed
<1>5. CASE Note(p)
  <2>1. pc[p] = "note" /\ pc'[p] = "mode" /\ creator' = creator /\ out' = out
    BY <1>5 DEF Note
  <2>2. ~Fails("note")
    BY DEF Fails
  <2>3. crumb' = [owner |-> p, name |-> out[p]]
    BY <1>5, <2>2 DEF Note
  <2>4. \A n \in Names : creator[n] = p => out[p] = n
    BY <2>1 DEF Accounted, HasOutput
  <2>5. CrumbDealtWith(p)'
    BY <2>1, <2>3 DEF CrumbDealtWith, Unnamed, Recovers, Undoing, Alive
  <2> QED BY <2>1, <2>3, <2>4, <2>5 DEF Accounted, NoneYet, NoneLeft, Recovers, Undoing, Unnamed
<1> QED BY <1>1, <1>2, <1>3, <1>4, <1>5

\* From there until it begins to undo it.
LEMMA WrittenMeanwhile ==
  ASSUME IInv, Next, NEW p \in Procs, Hyprland, Written(p),
         SetMode(p) \/ Snapshot(p) \/ WriteConf(p) \/ CreationFails(p) \/ Arm(p) \/ Request(p)
           \/ EndSession(p)
  PROVE  Written(p)'
<1> USE DEF Written, IInv, TypeOK, Goto, Undo, Stays
<1>1. creator' = creator /\ crumb' = crumb /\ out' = out
  BY DEF SetMode, Snapshot, WriteConf, CreationFails, Arm, Request, EndSession, machine
<1>2. /\ pc[p] \in {"mode", "snap", "conf"} \cup Holding
      /\ \/ pc'[p] \in {"snap", "conf"} \cup Holding
         \/ pc'[p] = "rm" /\ mode'[p] = "unwind"
         \/ pc'[p] = "unmark" /\ mode'[p] = "session"
  BY DEF SetMode, Snapshot, WriteConf, CreationFails, Arm, Request, EndSession, Holding, Hyprland, Sway
<1>3. CrumbDealtWith(p)'
  BY <1>1, <1>2 DEF CrumbDealtWith, Unnamed, Recovers, Undoing, Alive, Holding
<1>4. ASSUME NEW n \in Names, creator[n] = p PROVE Accounted(p, n)'
  BY <1>1, <1>2, <1>4 DEF Accounted, NoneYet, NoneLeft, Recovers, Undoing, HasOutput, Holding, Unnamed
<1> QED BY <1>1, <1>3, <1>4

\* While it undoes, for itself or for one that died.
LEMMA WrittenAtLast ==
  ASSUME IInv, Next, NEW p \in Procs, Hyprland, failed' \cap {"note", "remove", "find"} = {},
         Written(p), CleanUp(p) \/ Crash(p)
  PROVE  Written(p)'
<1> USE DEF Written, IInv, TypeOK, Goto, Exits, Undo, Stays
<1>1. CASE Unmark(p)
  <2>1. /\ creator' = creator /\ crumb' = crumb /\ out' = out /\ mode' = mode
        /\ pc[p] = "unmark" /\ pc'[p] = IF mode[p] = "recover" THEN "between" ELSE "rm"
    BY <1>1 DEF Unmark
  <2>2. CrumbDealtWith(p)'
    BY <2>1 DEF CrumbDealtWith, Unnamed, Recovers, Undoing, Alive
  <2>3. ASSUME NEW n \in Names, creator[n] = p PROVE Accounted(p, n)'
    <3>1. Accounted(p, n) /\ CrumbDealtWith(p)
      BY <2>3
    <3> QED
      BY <2>1, <3>1 DEF Accounted, CrumbDealtWith, NoneYet, NoneLeft, Recovers, Undoing, HasOutput, Unnamed
  <2> QED BY <2>1, <2>2, <2>3
<1>2. CASE RemoveOutput(p)
  <2>1. /\ creator' = [creator EXCEPT ![out[p]] = None] /\ crumb' = crumb /\ out' = out /\ mode' = mode
        /\ pc[p] = "rm" /\ pc'[p] = "forget"
    BY <1>2 DEF RemoveOutput
  <2>2. out[p] \in Names
    BY <2>1 DEF HaveNames, HasOutput, Names
  <2>3. CrumbDealtWith(p)'
    BY <2>1, <2>2 DEF CrumbDealtWith, Unnamed, Recovers, Undoing, Alive
  <2>4. ASSUME NEW n \in Names, creator'[n] = p PROVE Accounted(p, n)'
    <3>1. n # out[p] /\ creator[n] = p
      BY <2>1, <2>2, <2>4
    <3>2. Accounted(p, n)
      BY <3>1
    <3> QED BY <2>1, <3>1, <3>2 DEF Accounted, HasOutput
  <2> QED BY <2>3, <2>4
<1>3. CASE Forget(p)
  <2>1. /\ creator' = creator /\ crumb' = None
        /\ pc[p] = "forget"
        /\ \/ pc'[p] = "gone"
           \/ pc'[p] = "strip" /\ mode'[p] = mode[p] /\ mode[p] \notin {"unwind", "unnamed"}
    BY <1>3 DEF Forget, AfterRemoval
  <2>2. \A n \in Names : creator[n] # p
    BY <2>1 DEF Accounted, NoneLeft
  <2>3. mode[p] \in Modes
    OBVIOUS
  <2>4. CrumbDealtWith(p)'
    BY <2>1, <2>3 DEF CrumbDealtWith, Unnamed, Recovers, Undoing, Alive, Modes
  <2> QED BY <2>1, <2>2, <2>4
<1>4. CASE Strip(p) \/ StripFails(p)
  <2>1. /\ creator' = creator /\ crumb' = crumb /\ pc[p] = "strip"
        /\ \/ pc'[p] = "gone"
           \/ mode[p] = "recover" /\ pc'[p] \in {"between", "unmark"} /\ mode'[p] = "recover"
           \/ mode[p] = "session" /\ pc'[p] = "unmark" /\ mode'[p] = "drop"
    BY <1>4 DEF Strip, StripFails, Again, machine, Hyprland, Sway
  <2>2. \A n \in Names : creator[n] # p
    BY <2>1 DEF Accounted, NoneLeft
  <2>3. CrumbDealtWith(p)'
    BY <2>1 DEF CrumbDealtWith, Unnamed, Recovers, Undoing, Alive
  <2> QED BY <2>1, <2>2, <2>3
<1>5. CASE Crash(p)
  <2>1. /\ creator' = creator /\ Alive(p) /\ (crumb' = crumb \/ pc[p] = "note")
        /\ pc'[p] = IF pc[p] \in {"find", "note"} \/ mode[p] = "unnamed" THEN "lost" ELSE "killed"
    BY <1>5 DEF Crash
  <2>2. CrumbDealtWith(p)'
    BY <2>1 DEF CrumbDealtWith, Unnamed, Recovers, Undoing, Alive
  <2>3. ASSUME NEW n \in Names, creator[n] = p PROVE Accounted(p, n)'
    <3>1. Accounted(p, n)
      BY <2>3
    <3> QED
      BY <2>1, <3>1 DEF Accounted, NoneYet, NoneLeft, Recovers, Undoing, HasOutput, Holding, Unnamed, Alive
  <2> QED BY <2>1, <2>2, <2>3
<1>6. ~(RemoveFails(p) \/ SwayDisable(p) \/ SwayGone(p) \/ SwayRestore(p))
  BY DEF RemoveFails, SwayDisable, SwayGone, SwayRestore, Fails, Sway, Hyprland
<1> QED BY <1>1, <1>2, <1>3, <1>4, <1>5, <1>6 DEF CleanUp

LEMMA WrittenDownStep ==
  ASSUME IInv, Alone, WrittenDown, Next
  PROVE  WrittenDown'
<1> SUFFICES ASSUME Faultless' PROVE \A p \in Procs : Written(p)'
  BY DEF WrittenDown, Written
<1>1. Faultless
  BY TroubleStays DEF Faultless, Hyprland
<1>2. \A p \in Procs : Written(p)
  BY <1>1 DEF WrittenDown, Written
<1>3. Hyprland /\ "newcomer" \notin disturbed /\ failed' \cap {"note", "remove", "find"} = {}
  BY <1>1 DEF Faultless
<1>4. ASSUME NEW a \in Procs, Acts(a) PROVE \A p \in Procs : Written(p)'
  <2>1. \A q \in Procs \ {a} : ~Alive(q) /\ ~Alive(q)'
    BY <1>4, OthersRest DEF Faultless, IInv
  <2>2. \A p \in Procs \ {a} : Written(p)'
    BY <1>2, <1>3, <1>4, <2>1, WrittenOfOthers
  <2>3. Written(a)'
    <3>1. Start(a) => \A q \in Procs : ~Alive(q)
      BY <2>1 DEF Start, Alive
    <3>2. ~(SwayOutput(a) \/ SwaySnapshot(a) \/ SwayConf(a) \/ SwayFails(a))
      BY <1>3 DEF SwayOutput, SwaySnapshot, SwayConf, SwayFails, Hyprland, Sway
    <3> QED BY <1>2, <1>3, <1>4, <3>1, <3>2, WrittenAtFirst, WrittenMeanwhile, WrittenAtLast
            DEF Acts, Create
  <2> QED BY <2>2, <2>3
<1>5. CASE OtherRequest \/ OtherOutput \/ UserEdits
  <2>1. pc' = pc /\ mode' = mode /\ out' = out /\ crumb' = crumb
    BY <1>5 DEF OtherRequest, OtherOutput, UserEdits, procs
  <2>2. \A n \in Names : \/ creator'[n] = creator[n]
                         \/ n = made' /\ made' = made + 1 /\ creator'[n] = Other
    BY <1>5, NewOutputType DEF OtherRequest, OtherOutput, UserEdits, IInv
  <2>3. ASSUME NEW p \in Procs PROVE Written(p)'
    <3>1. \A n \in Names : creator'[n] = p => creator[n] = p
      BY <2>2
    <3>2. pc[p] = "forget" => out[p] \in Names /\ out[p] <= made /\ made \in Nat
      BY DEF IInv, TypeOK, HaveNames, HasOutput, Names
    <3>3. pc[p] = "forget" => creator'[out[p]] = creator[out[p]]
      BY <2>2, <3>2
    <3>4. CrumbDealtWith(p)'
      BY <1>2, <2>1, <3>3 DEF Written, CrumbDealtWith, Unnamed, Recovers, Alive
    <3> QED BY <1>2, <2>1, <3>1, <3>4 DEF Written, Accounted, NoneYet, NoneLeft, Recovers, HasOutput,
               Unnamed
  <2> QED BY <2>3
<1> QED BY <1>4, <1>5 DEF Next, Acts

---------------------------------------------------------------------------
LEMMA InitAlone == Init => AloneInv
<1> SUFFICES ASSUME Init PROVE AloneInv
  OBVIOUS
<1>1. IInv
  BY InitInv
<1>2. \A p \in Procs : pc[p] = "new" /\ mode[p] = "session"
  BY DEF Init
<1>3. Alone /\ OutputsExist /\ MarkerHeld /\ SwayPoints
  BY <1>2 DEF Init, Alone, Alive, OutputsExist, Keeps, Holding, MarkerHeld, SwayPoints
<1>4. OneBlock /\ UndoesFor /\ Snapshotted
  BY <1>2 DEF Init, OneBlock, UndoesFor, Alive, Snapshotted, Changed, Holding, Clean
<1>5. WrittenDown
  BY <1>2 DEF Init, WrittenDown, CrumbDealtWith, Unnamed, Recovers, Undoing, Alive
<1> QED BY <1>1, <1>3, <1>4, <1>5 DEF AloneInv

LEMMA NextAlone == AloneInv /\ [Next]_vars => AloneInv'
<1> SUFFICES ASSUME AloneInv, [Next]_vars PROVE AloneInv'
  OBVIOUS
<1>0. IInv'
  BY NextInv DEF AloneInv
<1>1. CASE UNCHANGED vars
  <2> USE <1>1 DEF vars, procs, machine, history, AloneInv
  <2>1. Alone' /\ OutputsExist'
    BY DEF Alone, Alive, OutputsExist, Keeps, Hyprland
  <2>4. MarkerHeld' /\ SwayPoints'
    BY DEF MarkerHeld, Untroubled, Marks, SwayPoints, Sway
  <2>2. OneBlock' /\ UndoesFor' /\ Snapshotted'
    BY DEF OneBlock, UndoesFor, Alive, Blocks, Marked, Undoes, Recovers, Snapshotted, Changed, Untroubled,
       Sway, Hyprland
  <2>3. WrittenDown'
    BY DEF WrittenDown, Faultless, CrumbDealtWith, Accounted, NoneYet, NoneLeft, Unnamed, Recovers, Alive,
       HasOutput, Hyprland
  <2> QED BY <1>0, <2>1, <2>2, <2>3, <2>4
<1>2. CASE Next
  BY <1>0, <1>2, AloneStep, OutputsExistStep, MarkerStep, OneBlockStep, UndoesForStep, SwayPointsStep,
     SnapshottedStep, WrittenDownStep DEF AloneInv, IInv
<1> QED BY <1>1, <1>2

\* What one session at a time may rely on holds always.
THEOREM AloneInvariance == Spec => []AloneInv
BY InitAlone, NextAlone, PTL DEF Spec

\* An output that outlived its process is in the breadcrumb, however often recovery
\* itself was interrupted.
THEOREM OutputsAreRecorded == Spec => []Recorded
<1>1. AloneInv => Recorded
  <2> SUFFICES ASSUME AloneInv, Faultless, NEW p \in Procs, pc[p] \in {"gone", "killed"},
                      NEW n \in Outputs, creator[n] = p
               PROVE  crumb = [owner |-> p, name |-> n]
    BY DEF Recorded, Unrecorded, Faultless
  <2>1. n \in Names /\ Accounted(p, n)
    BY DEF AloneInv, WrittenDown, Outputs
  <2> QED BY <2>1 DEF Accounted, Unnamed
<1> QED BY <1>1, AloneInvariance, PTL

\* How a process on Hyprland comes to its end.
LEMMA EndsOnHyprland ==
  ASSUME AloneInv, Next, Hyprland, "overlap" \notin disturbed, "race" \notin disturbed,
         "recover" \notin failed, NEW p \in Procs, Acts(p), Alive(p), pc'[p] = "gone", ~StripFails(p)
  PROVE  conf' = Clean(wanted) /\ marker' = 0
<1>1. /\ conf.user = wanted /\ conf \in [user : Contents, blocks : 0..MaxBlocks]
      /\ conf.blocks <= 1 /\ BlockOf(p)
  BY DEF AloneInv, IInv, EditsKept, TypeOK, Conf, OneBlock, BlockOf
<1> USE DEF AloneInv, IInv, TypeOK, Goto, Exits, Undo
<1>2. CASE NoOutput(p) \/ CreateFails(p) \/ FindName(p) \/ RemoveFails(p) \/ Forget(p)
  <2>1. ~Blocks(p) /\ ~Marked(p)
    BY <1>2 DEF NoOutput, CreateFails, FindName, RemoveFails, Forget, AfterRemoval, Blocks, Marked,
       Undoes, Recovers, Holding, Undoing
  <2>2. conf' = conf /\ marker' = marker
    BY <1>2 DEF NoOutput, CreateFails, FindName, RemoveFails, Forget, machine
  <2> QED BY <1>1, <2>1, <2>2 DEF BlockOf, Clean
<1>3. CASE Strip(p)
  <2>1. ~Marked(p) /\ marker' = marker
    BY <1>3 DEF Strip, UndoesFor, Marked, Recovers, Undoing
  <2>2. conf'.user = conf.user /\ conf'.blocks = 0 /\ conf' \in [user : Contents, blocks : 0..MaxBlocks]
    BY <1>1, <1>3 DEF Strip, Stripped
  <2> QED BY <1>1, <2>1, <2>2 DEF BlockOf, Clean
<1>4. NoOutput(p) \/ CreateFails(p) \/ FindName(p) \/ RemoveFails(p) \/ Forget(p) \/ Strip(p)
  BY DEF Acts, Start, Arm, Request, EndSession, Crash, Create, Look, CreateOutput, Note, SetMode, Snapshot,
     WriteConf, CreationFails, SwayOutput, SwaySnapshot, SwayConf, SwayFails, CleanUp, Unmark,
     RemoveOutput, SwayDisable, SwayGone, SwayRestore, Sway, Hyprland
<1> QED BY <1>2, <1>3, <1>4

\* How one on Sway does.
LEMMA EndsOnSway ==
  ASSUME AloneInv, Next, Sway, disturbed \cap {"overlap", "race", "edit"} = {}, Untroubled',
         wanted = "custom", NEW p \in Procs, Acts(p), Alive(p), pc'[p] = "gone"
  PROVE  conf' = Clean(wanted) /\ marker' = 0
<1>1. Untroubled /\ marker = 0 /\ ~Hyprland /\ pc[p] \notin {"unmark", "forget"}
  BY UntroubledBefore DEF AloneInv, IInv, MarkerHeld, SwayPoints, Sway, Hyprland
<1>2. /\ Changed(p) => snap[p] = Clean("custom")
      /\ ~Changed(p) => conf = Clean("custom")
  <2>1. \A q \in Procs \ {p} : ~Changed(q)
    BY DEF AloneInv, Alone, Alive, Changed, Holding
  <2> QED BY <1>1, <2>1 DEF AloneInv, Snapshotted
<1> USE DEF AloneInv, IInv, TypeOK, Goto, Exits, Undo
<1>3. CASE NoOutput(p)
  BY <1>1, <1>2, <1>3 DEF NoOutput, machine, Changed, Holding
<1>4. CASE SwayRestore(p)
  BY <1>1, <1>2, <1>4 DEF SwayRestore, Changed, Clean
<1>5. ~(SwayFails(p) \/ SwayGone(p) \/ StripFails(p))
  BY DEF SwayFails, SwayGone, StripFails, Fails, Untroubled
<1>6. NoOutput(p) \/ SwayRestore(p)
  BY <1>1, <1>5 DEF Acts, Start, Arm, Request, EndSession, Crash, Create, Look, CreateOutput, CreateFails,
     FindName, Note, SetMode, Snapshot, WriteConf, CreationFails, SwayOutput, SwaySnapshot, SwayConf,
     CleanUp, Unmark, RemoveOutput, RemoveFails, Forget, Strip, SwayDisable
<1> QED BY <1>3, <1>4, <1>6

\* A process that ends in its own way leaves the portal's configuration as the user
\* wants it and no marker, whatever was killed before it (cleanup_stale, cleanup, Drop).
THEOREM ConfigIsRestored == Spec => ConfigRestored
<1>1. AloneInv /\ [Next]_vars =>
        [ \A p \in Procs :
            /\ Alive(p) /\ pc'[p] = "gone"
            /\ disturbed \cap {"overlap", "race"} = {}
            /\ Hyprland => "recover" \notin failed /\ ~StripFails(p)
            /\ Sway => Untroubled' /\ "edit" \notin disturbed /\ wanted = "custom"
            => conf' = Clean(wanted) /\ marker' = 0 ]_vars
  <2> SUFFICES ASSUME AloneInv, Next, NEW p \in Procs, Alive(p), pc'[p] = "gone",
                      disturbed \cap {"overlap", "race"} = {},
                      Hyprland => "recover" \notin failed /\ ~StripFails(p),
                      Sway => Untroubled' /\ "edit" \notin disturbed /\ wanted = "custom"
               PROVE  conf' = Clean(wanted) /\ marker' = 0
    OBVIOUS
  <2>1. Acts(p)
    <3>1. pc'[p] # pc[p]
      BY DEF Alive
    <3>2. ~(OtherRequest \/ OtherOutput \/ UserEdits)
      BY <3>1 DEF OtherRequest, OtherOutput, UserEdits, procs
    <3>3. PICK r \in Procs : Acts(r)
      BY <3>2 DEF Next, Acts
    <3> QED BY <3>1, <3>3, ActsMove DEF Moves, AloneInv, IInv
  <2>2. CASE Hyprland
    BY <2>1, <2>2, EndsOnHyprland
  <2>3. CASE Sway
    BY <2>1, <2>3, EndsOnSway
  <2> QED BY <2>2, <2>3 DEF AloneInv, IInv, TypeOK, Sway, Hyprland
<1> QED BY <1>1, AloneInvariance, PTL DEF Spec, ConfigRestored

\* A portal request is answered with an output that exists, for any number of
\* sessions, of which several may run at a time.
THEOREM AnswersExist == Spec => AnswerExists
<1>1. AloneInv =>
        (Hyprland /\ failed \subseteq {"arm"} /\ "newcomer" \notin disturbed
         /\ (\A p \in Procs : pc[p] \notin {"killed", "lost"}) /\ marker # 0 => creator[marker] # None)
  <2> SUFFICES ASSUME AloneInv, Hyprland, "newcomer" \notin disturbed, Untroubled, marker # 0
               PROVE  creator[marker] # None
    BY DEF Untroubled
  <2>1. PICK p \in Procs : Marks(p) /\ out[p] = marker
    BY DEF AloneInv, MarkerHeld
  <2>2. Keeps(p)
    BY <2>1 DEF Marks, Keeps, Holding
  <2> QED BY <2>1, <2>2 DEF AloneInv, OutputsExist
<1>2. AloneInv /\ [Next]_vars =>
        [Hyprland /\ failed \subseteq {"arm"} /\ "newcomer" \notin disturbed
         /\ (\A p \in Procs : pc[p] \notin {"killed", "lost"})
         /\ marker # 0 /\ marker' = 0 /\ (\A p \in Procs : pc[p] = "unmark" => pc'[p] = pc[p])
           => creator[marker] # None]_vars
  BY <1>1
<1> QED BY <1>2, AloneInvariance, PTL DEF Spec, AnswerExists
=============================================================================
