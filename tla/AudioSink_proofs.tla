-------------------------- MODULE AudioSink_proofs --------------------------
(***************************************************************************)
(* Proofs about AudioSink, for any number of processes, sinks and modules. *)
(***************************************************************************)
EXTENDS AudioSink, TLAPS

USE ConstantsAssumption

\* The invariant holds initially: nothing has been created.
LEMMA InitInv == Init => IInv
<1> SUFFICES ASSUME Init PROVE IInv
  OBVIOUS
<1>1. TypeOK
  <2>1. pc \in [Procs -> Points] /\ job \in [Procs -> Record \cup {None}] /\ dropped \subseteq Procs
    BY DEF Init, Points
  <2>2. modules \in [Indices -> Procs \cup {Other, None}]
    BY DEF Init
  <2>3. last \in 0..MaxIndex
    BY DEF Init
  <2>4. default \in Sinks /\ crumb \in Record \cup {None} /\ wanted \in UserSinks
    BY DEF Init, Sinks
  <2>5. overlapped \in BOOLEAN /\ failed \subseteq Kinds
    BY DEF Init
  <2> QED BY <2>1, <2>2, <2>3, <2>4, <2>5 DEF TypeOK
<1> QED BY <1>1 DEF Init, IInv, JobsInHand, InHand, CrumbKnown, FreshIndices, Undoing

\* A process that undoes a sink has a record of one that it may undo.
LEMMA Undoable ==
  ASSUME IInv, NEW p \in Procs, pc[p] \in Undoing
  PROVE  /\ job[p] \in Record /\ job[p] # None /\ job[p].owner \in Procs
         /\ job[p].index \in Indices /\ Known(job[p])
         /\ job[p].owner = p \/ ~Alive(job[p].owner)
BY DEF IInv, TypeOK, JobsInHand, InHand, Known, Undoing, Record

\* A step that neither uses up indices nor loads modules leaves what is known of a
\* record true, if no process goes back to where it has not started.
LEMMA StaysKnown ==
  ASSUME NEW record, Known(record),
         TypeOK, last' = last, "reboot" \notin failed' => "reboot" \notin failed,
         \A i \in Indices : modules'[i] \in {modules[i], None},
         \A q \in Procs : pc[q] # "new" => pc'[q] # "new"
  PROVE  Known(record)'
BY DEF Known, Record

\* The same for the process that loads a module with the next index.
LEMMA LoadKeepsKnown ==
  ASSUME NEW record, Known(record), NEW who, TypeOK, FreshIndices,
         last < MaxIndex, last' = last + 1, modules' = [modules EXCEPT ![last'] = who],
         failed' = failed,
         \A q \in Procs : pc[q] # "new" => pc'[q] # "new"
  PROVE  Known(record)'
<1>1. CASE "reboot" \in failed
  BY <1>1 DEF Known, Record
<1>2. CASE "reboot" \notin failed
  <2>1. record.index \in Indices /\ record.index <= last /\ record.index # last + 1
    BY <1>2 DEF Known, Indices, TypeOK
  <2>2. modules'[record.index] = modules[record.index]
    BY <2>1 DEF TypeOK
  <2> QED BY <1>2, <2>1, <2>2 DEF Known, Record, TypeOK, Indices
<1> QED BY <1>1, <1>2

\* Done, wherever it is reached from, is the end of the process or of its recovery.
LEMMA DoneType ==
  ASSUME IInv, NEW p \in Procs, pc[p] \in Undoing, Done(p)
  PROVE  /\ pc' \in [Procs -> Points] /\ job' \in [Procs -> Record \cup {None}]
         /\ dropped' \subseteq Procs
         /\ pc'[p] \in {"gone", "between"}
         /\ \A q \in Procs \ {p} : pc'[q] = pc[q] /\ job'[q] = job[q]
BY DEF IInv, Done, Exits, Goto, TypeOK, Points

\* A step of p leaves everybody with what they should have in hand, if p has and the
\* others are not touched.
LEMMA JobsStep ==
  ASSUME IInv, NEW p \in Procs, InHand(p)',
         \A q \in Procs \ {p} : pc'[q] = pc[q] /\ job'[q] = job[q],
         \A record : Known(record) => Known(record)',
         \A q \in Procs : pc[q] # "new" /\ ~Alive(q) => ~Alive(q)'
  PROVE  JobsInHand'
<1> SUFFICES ASSUME NEW q \in Procs, q # p PROVE InHand(q)'
  BY DEF JobsInHand
<1>1. pc'[q] = pc[q] /\ job'[q] = job[q] /\ InHand(q)
  BY DEF IInv, JobsInHand
<1>2. pc[q] \in Undoing => job[q].owner \in Procs /\ pc[job[q].owner] # "new"
  BY <1>1 DEF InHand, Known, Record
<1> QED BY <1>1, <1>2 DEF InHand

---------------------------------------------------------------------------
\* One lemma per group of actions: starting, ...
LEMMA StartInv ==
  ASSUME IInv, NEW p \in Procs, Start(p) \/ ReadDefault(p) \/ NoSink(p)
  PROVE  IInv'
<1> USE DEF Start, ReadDefault, NoSink, Exits, Goto, server, history
<1>1. TypeOK'
  <2> USE DEF IInv, TypeOK, Points
  <2>1. CASE Start(p)
    BY <2>1 DEF Stale
  <2>2. CASE ReadDefault(p)
    <3>1. default \in Sinks \cup {None} /\ 0 \in 0..MaxIndex
      OBVIOUS
    <3>2. job' \in [Procs -> Record \cup {None}]
      BY <2>2, <3>1 DEF Record
    <3>3. failed' \subseteq Kinds
      BY <2>2 DEF Fails, Kinds
    <3> QED BY <2>2, <3>2, <3>3
  <2>3. CASE NoSink(p)
    BY <2>3
  <2> QED BY <2>1, <2>2, <2>3
<1>2. \A q \in Procs : pc[q] # "new" => pc'[q] # "new"
  BY DEF IInv, TypeOK
<1>3. last' = last /\ modules' = modules /\ crumb' = crumb
  OBVIOUS
<1>4. "reboot" \notin failed' => "reboot" \notin failed
  BY DEF Fails
<1>5. \A record : Known(record) => Known(record)'
  BY <1>2, <1>3, <1>4, StaysKnown DEF IInv, TypeOK
<1>6. \A q \in Procs : pc[q] # "new" /\ ~Alive(q) => ~Alive(q)'
  BY DEF IInv, TypeOK, Alive
<1>7. InHand(p)'
  <2> USE DEF InHand, Undoing
  <2>1. CASE Start(p) /\ Stale(crumb)
    <3>1. pc'[p] = "restore" /\ job'[p] = crumb
      BY <2>1 DEF IInv, TypeOK
    <3>2. Known(crumb) /\ crumb # None /\ ~Alive(crumb.owner)
      BY <2>1 DEF IInv, CrumbKnown, Stale
    <3>3. crumb.owner \in Procs /\ pc[crumb.owner] # "new"
      BY <3>2 DEF Known, Record
    <3> QED BY <1>5, <1>6, <3>1, <3>2, <3>3
  <2>2. CASE Start(p) /\ ~Stale(crumb)
    BY <2>2 DEF IInv, TypeOK
  <2>3. CASE ReadDefault(p)
    <3>1. PICK prev \in {default, None} :
            job' = [job EXCEPT ![p] = [owner |-> p, index |-> 0, prev |-> prev]]
      BY <2>3
    <3>2. [owner |-> p, index |-> 0, prev |-> prev] \in Record
      BY <3>1 DEF IInv, TypeOK, Record
    <3>3. job'[p] = [owner |-> p, index |-> 0, prev |-> prev] /\ pc'[p] = "load"
      BY <2>3, <3>1 DEF IInv, TypeOK
    <3> QED BY <3>2, <3>3
  <2>4. CASE NoSink(p)
    BY <2>4 DEF IInv, TypeOK
  <2> QED BY <2>1, <2>2, <2>3, <2>4
<1>8. JobsInHand'
  <2>1. \A q \in Procs \ {p} : pc'[q] = pc[q] /\ job'[q] = job[q]
    BY DEF IInv, TypeOK
  <2> QED BY <1>5, <1>6, <1>7, <2>1, JobsStep
<1>9. CrumbKnown' /\ FreshIndices'
  BY <1>3, <1>5 DEF IInv, CrumbKnown, FreshIndices
<1> QED BY <1>1, <1>8, <1>9 DEF IInv

\* ... creating the sink, ...
LEMMA CreateInv ==
  ASSUME IInv, NEW p \in Procs,
         LoadModule(p) \/ WriteCrumb(p) \/ SetAsDefault(p) \/ SetAsDefaultFails(p) \/ EndSession(p)
  PROVE  IInv'
<1> USE DEF LoadModule, WriteCrumb, SetAsDefault, SetAsDefaultFails, EndSession, Goto, server, history
<1>0. job[p] # None /\ job[p] \in Record /\ job[p].owner = p
  BY DEF IInv, TypeOK, JobsInHand, InHand
<1>1. TypeOK'
  <2> USE DEF IInv, TypeOK, Points
  <2>1. CASE LoadModule(p)
    <3>1. last' \in Indices /\ last' \in 0..MaxIndex
      BY <2>1 DEF Indices
    <3>2. job'[p] \in Record
      BY <2>1, <3>1, <1>0 DEF Record
    <3> QED BY <2>1, <3>1, <3>2
  <2>2. CASE WriteCrumb(p)
    BY <2>2, <1>0 DEF Fails, Kinds
  <2>3. CASE SetAsDefault(p)
    BY <2>3 DEF Sinks
  <2>4. CASE SetAsDefaultFails(p) \/ EndSession(p)
    BY <2>4
  <2> QED BY <2>1, <2>2, <2>3, <2>4
<1>2. \A q \in Procs : pc[q] # "new" => pc'[q] # "new"
  BY DEF IInv, TypeOK
<1>3. \A record : Known(record) => Known(record)'
  <2>1. CASE LoadModule(p)
    BY <1>2, <2>1, LoadKeepsKnown DEF IInv
  <2>2. CASE ~LoadModule(p)
    <3>1. "reboot" \notin failed' => "reboot" \notin failed
      BY <2>2 DEF Fails
    <3> QED BY <1>2, <2>2, <3>1, StaysKnown DEF IInv, TypeOK
  <2> QED BY <2>1, <2>2
<1>4. \A q \in Procs : pc[q] # "new" /\ ~Alive(q) => ~Alive(q)'
  BY DEF IInv, TypeOK, Alive
<1>5. InHand(p)'
  <2> USE DEF InHand, Undoing
  <2>1. CASE LoadModule(p)
    <3>1. job'[p] = [job[p] EXCEPT !.index = last'] /\ pc'[p] = "note"
      BY <2>1 DEF IInv, TypeOK
    <3>2. last' \in Indices /\ modules'[last'] = p
      BY <2>1 DEF IInv, TypeOK, Indices
    <3>3. job'[p] \in Record /\ job'[p].owner = p /\ job'[p].index = last'
      BY <1>0, <3>1, <3>2 DEF Record, Indices
    <3>4. last' <= last'
      BY <3>2 DEF Indices
    <3>5. Known(job[p])'
      BY <3>1, <3>2, <3>3, <3>4 DEF Known
    <3> QED BY <3>1, <3>3, <3>5
  <2>2. CASE ~LoadModule(p)
    <3>1. job' = job /\ Known(job[p]) /\ pc'[p] \notin {"load", "note"}
      BY <2>2 DEF IInv, TypeOK, JobsInHand
    <3> QED BY <1>0, <1>3, <3>1
  <2> QED BY <2>1, <2>2
<1>6. JobsInHand'
  <2>1. \A q \in Procs \ {p} : pc'[q] = pc[q] /\ job'[q] = job[q]
    BY DEF IInv, TypeOK
  <2> QED BY <1>3, <1>4, <1>5, <2>1, JobsStep
<1>7. CrumbKnown'
  <2>1. CASE WriteCrumb(p) /\ crumb' = job[p]
    <3>1. Known(job[p])
      BY <2>1 DEF IInv, JobsInHand, InHand
    <3> QED BY <1>3, <2>1, <3>1 DEF CrumbKnown
  <2>2. CASE crumb' = crumb
    BY <1>3, <2>2 DEF IInv, CrumbKnown
  <2> QED BY <2>1, <2>2
<1>8. FreshIndices'
  BY DEF IInv, TypeOK, FreshIndices, Indices
<1> QED BY <1>1, <1>6, <1>7, <1>8 DEF IInv

\* ... undoing one, ...
LEMMA UndoInv ==
  ASSUME IInv, NEW p \in Procs,
         Restore(p) \/ Unload(p) \/ UnloadFails(p) \/ Forget(p) \/ NoPactl(p)
  PROVE  IInv'
<1> USE DEF Restore, Unload, UnloadFails, Forget, NoPactl, Done, Exits, Goto, server, history
<1>0. /\ pc[p] \in Undoing
      /\ job[p] \in Record /\ job[p] # None /\ job[p].owner \in Procs
      /\ job[p].index \in Indices /\ Known(job[p])
      /\ job[p].owner = p \/ ~Alive(job[p].owner)
  BY Undoable DEF Undoing
<1>1. TypeOK'
  <2> USE DEF IInv, TypeOK, Points
  <2>1. failed' \subseteq Kinds
    BY DEF Fails, Kinds
  <2>2. default' \in Sinks
    <3>1. CASE Restore(p)
      BY <3>1, <1>0 DEF Record
    <3>2. CASE Unload(p)
      BY <3>2 DEF Fallback, Sinks
    <3> QED BY <3>1, <3>2
  <2>3. modules' \in [Indices -> Procs \cup {Other, None}]
    OBVIOUS
  <2>4. pc' \in [Procs -> Points] /\ job' \in [Procs -> Record \cup {None}] /\ dropped' \subseteq Procs
    OBVIOUS
  <2> QED BY <2>1, <2>2, <2>3, <2>4
<1>2. \A q \in Procs : pc[q] # "new" => pc'[q] # "new"
  BY DEF IInv, TypeOK
<1>3. \A record : Known(record) => Known(record)'
  <2>1. "reboot" \notin failed' => "reboot" \notin failed
    BY DEF Fails
  <2>2. \A i \in Indices : modules'[i] \in {modules[i], None}
    BY DEF IInv, TypeOK
  <2> QED BY <1>2, <2>1, <2>2, StaysKnown DEF IInv, TypeOK
<1>4. \A q \in Procs : pc[q] # "new" /\ ~Alive(q) => ~Alive(q)'
  BY DEF IInv, TypeOK, Alive
<1>5. InHand(p)'
  <2>1. CASE pc'[p] \in {"gone", "between"}
    BY <2>1 DEF InHand, Undoing
  <2>2. CASE pc'[p] \notin {"gone", "between"}
    <3>1. pc'[p] \in Undoing /\ job' = job
      BY <2>2 DEF IInv, TypeOK, Undoing
    <3>2. job[p].owner # p => ~Alive(job[p].owner)'
      BY <1>0, <1>4 DEF Known
    <3> QED BY <1>0, <1>3, <3>1, <3>2 DEF InHand, Undoing
  <2> QED BY <2>1, <2>2
<1>6. JobsInHand'
  <2>1. \A q \in Procs \ {p} : pc'[q] = pc[q] /\ job'[q] = job[q]
    BY DEF IInv, TypeOK
  <2> QED BY <1>3, <1>4, <1>5, <2>1, JobsStep
<1>7. CrumbKnown'
  BY <1>3 DEF IInv, CrumbKnown
<1>8. FreshIndices'
  BY DEF IInv, TypeOK, FreshIndices
<1> QED BY <1>1, <1>6, <1>7, <1>8 DEF IInv

\* ... dying, ...
LEMMA CrashInv ==
  ASSUME IInv, NEW p \in Procs, Crash(p)
  PROVE  IInv'
<1> USE DEF Crash, Exits, Goto, server, history
<1>1. TypeOK'
  BY DEF IInv, TypeOK, Points
<1>2. \A q \in Procs : pc[q] # "new" => pc'[q] # "new"
  BY DEF IInv, TypeOK
<1>3. \A record : Known(record) => Known(record)'
  BY <1>2, StaysKnown DEF IInv, TypeOK
<1>4. \A q \in Procs : pc[q] # "new" /\ ~Alive(q) => ~Alive(q)'
  BY DEF IInv, TypeOK, Alive
<1>5. InHand(p)'
  BY DEF IInv, TypeOK, InHand, Undoing
<1>6. JobsInHand'
  <2>1. \A q \in Procs \ {p} : pc'[q] = pc[q] /\ job'[q] = job[q]
    BY DEF IInv, TypeOK
  <2> QED BY <1>3, <1>4, <1>5, <2>1, JobsStep
<1>7. CrumbKnown' /\ FreshIndices'
  BY <1>3 DEF IInv, CrumbKnown, FreshIndices
<1> QED BY <1>1, <1>6, <1>7 DEF IInv

\* ... and what others do to the sound server.
LEMMA AroundInv ==
  ASSUME IInv, OtherLoads \/ Restart \/ \E s \in UserSinks : UserChooses(s)
  PROVE  IInv'
<1> USE DEF OtherLoads, Restart, UserChooses, procs, history
<1>0. pc' = pc /\ job' = job /\ dropped' = dropped /\ crumb' = crumb
  OBVIOUS
<1>1. TypeOK'
  <2> USE DEF IInv, TypeOK
  <2>1. CASE OtherLoads
    BY <1>0, <2>1 DEF Indices
  <2>2. CASE Restart
    <3>1. failed' \subseteq Kinds /\ default' \in Sinks
      BY <2>2 DEF Fails, Kinds, Sinks
    <3>2. last' \in 0..MaxIndex
      BY <2>2
    <3>3. modules' \in [Indices -> Procs \cup {Other, None}]
      BY <2>2
    <3> QED BY <1>0, <2>2, <3>1, <3>2, <3>3
  <2>3. CASE \E s \in UserSinks : UserChooses(s)
    BY <1>0, <2>3 DEF Sinks
  <2> QED BY <2>1, <2>2, <2>3
<1>2. \A record : Known(record) => Known(record)'
  <2>1. CASE OtherLoads
    BY <1>0, <2>1, LoadKeepsKnown DEF IInv
  <2>2. CASE Restart
    BY <1>0, <2>2 DEF Known, Fails
  <2>3. CASE \E s \in UserSinks : UserChooses(s)
    BY <1>0, <2>3, StaysKnown DEF IInv, TypeOK
  <2> QED BY <2>1, <2>2, <2>3
<1>3. JobsInHand'
  BY <1>0, <1>2 DEF IInv, JobsInHand, InHand, Alive
<1>4. CrumbKnown'
  BY <1>0, <1>2 DEF IInv, CrumbKnown
<1>5. FreshIndices'
  BY DEF IInv, TypeOK, FreshIndices, Indices
<1> QED BY <1>1, <1>3, <1>4, <1>5 DEF IInv

\* Every step keeps the invariant.
LEMMA NextInv == IInv /\ [Next]_vars => IInv'
<1> SUFFICES ASSUME IInv, [Next]_vars PROVE IInv'
  OBVIOUS
<1>1. CASE UNCHANGED vars
  BY <1>1 DEF vars, procs, server, history, IInv, TypeOK, JobsInHand, InHand, CrumbKnown,
     FreshIndices, Known, Alive
<1>2. CASE \E p \in Procs : Step(p)
  BY <1>2, StartInv, CreateInv, UndoInv, CrashInv DEF Step
<1>3. CASE OtherLoads \/ Restart \/ \E s \in UserSinks : UserChooses(s)
  BY <1>3, AroundInv
<1> QED BY <1>1, <1>2, <1>3 DEF Next

---------------------------------------------------------------------------
\* The inductive invariant of AudioSink holds always.
THEOREM Invariance == Spec => []IInv
BY InitInv, NextInv, PTL DEF Spec

\* The variables of AudioSink keep their types.
THEOREM TypeCorrect == Spec => []TypeOK
<1>1. IInv => TypeOK
  BY DEF IInv
<1> QED BY <1>1, Invariance, PTL

\* A sink goes only by its own process, or by one that found its owner dead.
LEMMA LiveSinkStep ==
  ASSUME IInv, Next, "reboot" \notin failed,
         NEW p \in Procs, Alive(p), Loaded(p), ~Loaded(p)'
  PROVE  pc'[p] # pc[p]
<1>1. PICK i \in Indices : modules[i] = p
  BY DEF Loaded
<1>2. modules'[i] # p
  BY DEF Loaded
<1>3. p # None /\ i <= last
  BY <1>1 DEF IInv, FreshIndices, TypeOK, Indices
<1>4. CASE \E q \in Procs : Unload(q)
  <2>1. PICK q \in Procs : Unload(q)
    BY <1>4
  <2>2. pc[q] \in Undoing
    BY <2>1 DEF Unload, Undoing
  <2>3. i = job[q].index
    BY <1>1, <1>2, <2>1 DEF Unload, IInv, TypeOK
  <2>4. Known(job[q]) /\ (job[q].owner = q \/ ~Alive(job[q].owner))
    BY <2>2, Undoable
  <2>5. job[q].owner = p
    BY <1>1, <1>3, <2>3, <2>4 DEF Known
  <2>6. q = p
    BY <2>4, <2>5
  <2> QED BY <2>1, <2>6 DEF Unload, Goto, IInv, TypeOK
<1>5. CASE OtherLoads \/ \E q \in Procs : LoadModule(q)
  BY <1>1, <1>2, <1>3, <1>5 DEF OtherLoads, LoadModule, IInv, TypeOK, Indices
<1>6. CASE Restart
  BY <1>6 DEF Restart
<1>7. CASE modules' = modules
  BY <1>1, <1>2, <1>7
<1> QED
  BY <1>4, <1>5, <1>6, <1>7
  DEF Next, Step, Start, ReadDefault, NoSink, WriteCrumb, SetAsDefault, SetAsDefaultFails,
      EndSession, Restore, UnloadFails, Forget, NoPactl, Crash, UserChooses, server, procs

\* Nobody takes the sink of a session that is running, for any number of processes that
\* are killed anywhere and recover each other.
THEOREM SinksAreKept == Spec => LiveSinkKept
<1>1. IInv /\ [Next]_vars
      => ["reboot" \notin failed =>
            \A p \in Procs : Alive(p) /\ Loaded(p) /\ ~Loaded(p)' => pc'[p] # pc[p]]_vars
  BY LiveSinkStep
<1> QED BY <1>1, Invariance, PTL DEF Spec, LiveSinkKept

---------------------------------------------------------------------------
\* One process at a time, and operations that work

\* A step of p keeps account of every sink, if it does of p's: the others are not
\* running, and p writes the breadcrumb when there is none and removes it when the sink
\* it is about is gone.
LEMMA StepFollowed ==
  ASSUME IInv, Followed, Calm, NEW p \in Procs,
         \A q \in Procs \ {p} : ~Alive(q) /\ pc'[q] = pc[q],
         \A i \in Indices : modules'[i] \in {modules[i], None, p, Other},
         \/ crumb' = crumb
         \/ crumb = None /\ crumb' # None /\ crumb'.owner = p
         \/ crumb' = None /\ ~Loaded(crumb.owner),
         Noted(p)', LoadsOnce(p)'
  PROVE  Followed'
<1>1. \A q \in Procs \ {p} : ~Alive(q)' /\ pc'[q] \in {"new", "gone", "lost"}
  BY DEF Alive
<1>2. OneAtATime'
  BY <1>1 DEF OneAtATime
<1>3. ASSUME NEW q \in Procs, q # p PROVE Noted(q)' /\ LoadsOnce(q)'
  <2>1. pc'[q] = pc[q] /\ pc'[q] \in {"new", "gone", "lost"}
    BY <1>1, <1>3
  <2>2. Noted(q)'
    BY <2>1 DEF Noted, Undoing
  <2>3. q # Other /\ q # None
    OBVIOUS
  <2>4. \A i \in Indices : modules'[i] = q => modules[i] = q
    BY <1>3, <2>3
  <2>5. Loaded(q)' => Loaded(q)
    BY <2>4 DEF Loaded
  <2>6. LoadsOnce(q)
    BY DEF Followed
  <2>7. Loaded(q)' /\ pc'[q] # "lost" => crumb' # None /\ crumb'.owner = q
    BY <1>3, <2>1, <2>5, <2>6 DEF LoadsOnce
  <2>8. crumb' # None /\ crumb'.owner = q => \A i \in Indices : modules'[i] = q => i = crumb'.index
    BY <1>3, <2>4, <2>6 DEF LoadsOnce
  <2> QED BY <2>1, <2>2, <2>5, <2>6, <2>7, <2>8 DEF LoadsOnce, Undoing
<1> QED BY <1>2, <1>3 DEF Followed

\* While p is running, or about to when nobody is, the others are not.
LEMMA Alone ==
  ASSUME Followed, Calm, NEW p \in Procs, Alive(p)
  PROVE  \A q \in Procs \ {p} : ~Alive(q)
BY DEF Followed, OneAtATime

\* What went wrong once is not forgotten.
LEMMA HistoryGrows ==
  ASSUME NEW p \in Procs, Step(p)
  PROVE  failed \subseteq failed' /\ (overlapped => overlapped')
<1> USE DEF Step, Start, ReadDefault, NoSink, LoadModule, WriteCrumb, SetAsDefault,
            SetAsDefaultFails, EndSession, Restore, Unload, UnloadFails, Forget, NoPactl, Crash,
            history
<1>1. failed' = failed \/ \E kind \in Kinds : failed' = failed \cup {kind}
  BY DEF Fails, Kinds
<1>2. overlapped => overlapped'
  OBVIOUS
<1> QED BY <1>1, <1>2

\* Starting, and creating the sink.
LEMMA CreateFollowed ==
  ASSUME IInv, Followed, NEW p \in Procs, Calm',
         \/ Start(p) \/ ReadDefault(p) \/ NoSink(p) \/ LoadModule(p) \/ WriteCrumb(p)
         \/ SetAsDefault(p) \/ SetAsDefaultFails(p) \/ EndSession(p)
  PROVE  Followed'
<1> USE DEF Start, ReadDefault, NoSink, LoadModule, WriteCrumb, SetAsDefault,
            SetAsDefaultFails, EndSession, Exits, Goto, server, history
<1>1. Calm
  <2>1. failed \subseteq failed' /\ (overlapped => overlapped')
    BY HistoryGrows DEF Step
  <2> QED BY <2>1 DEF Calm
<1>2. \A q \in Procs \ {p} : ~Alive(q) /\ pc'[q] = pc[q]
  <2>1. CASE Start(p)
    BY <2>1 DEF IInv, TypeOK, Calm
  <2>2. CASE ~Start(p)
    BY <1>1, <2>2, Alone DEF IInv, TypeOK, Alive
  <2> QED BY <2>1, <2>2
<1>3. \A i \in Indices : modules'[i] \in {modules[i], None, p, Other}
  BY DEF IInv, TypeOK
<1>4. Noted(p) /\ LoadsOnce(p)
  BY <1>1 DEF Followed
<1>5. CASE Start(p)
  <2>1. crumb' = crumb /\ modules' = modules /\ ~Loaded(p)
    BY <1>4, <1>5 DEF LoadsOnce
  <2>2. crumb # None => Stale(crumb)
    <3>1. crumb # None => crumb.owner \in Procs /\ crumb.owner # p
      BY <1>5 DEF IInv, CrumbKnown, Known, Record
    <3> QED BY <1>2, <3>1 DEF Stale
  <2>3. Noted(p)'
    BY <1>5, <2>1, <2>2 DEF IInv, TypeOK, Noted, Undoing, Stale
  <2>4. LoadsOnce(p)'
    BY <1>5, <2>1 DEF IInv, TypeOK, LoadsOnce, Loaded
  <2> QED BY <1>1, <1>2, <1>3, <2>1, <2>3, <2>4, StepFollowed
<1>6. CASE ReadDefault(p) \/ NoSink(p)
  <2>1. crumb' = crumb /\ modules' = modules /\ pc'[p] \in {"load", "gone"}
    BY <1>6 DEF IInv, TypeOK
  <2>2. (crumb = None \/ pc'[p] = "gone") /\ ~Loaded(p)
    BY <1>4, <1>6 DEF Noted, LoadsOnce
  <2>3. Noted(p)'
    BY <1>4, <1>6, <2>1, <2>2 DEF Noted, Undoing
  <2>4. LoadsOnce(p)'
    BY <2>1, <2>2 DEF LoadsOnce, Undoing, Loaded
  <2> QED BY <1>1, <1>2, <1>3, <2>1, <2>3, <2>4, StepFollowed
<1>7. CASE LoadModule(p)
  <2>1. crumb' = crumb /\ crumb = None /\ ~Loaded(p) /\ pc'[p] = "note"
    BY <1>4, <1>7 DEF IInv, TypeOK, Noted, LoadsOnce
  <2>2. job'[p].index = last'
    <3>1. job[p] \in Record
      BY <1>7 DEF IInv, TypeOK, JobsInHand, InHand
    <3> QED BY <1>7, <3>1 DEF IInv, TypeOK, Record
  <2>3. \A i \in Indices : modules'[i] = p => i = last'
    BY <1>7, <2>1 DEF IInv, TypeOK, Loaded
  <2> QED BY <1>1, <1>2, <1>3, <2>1, <2>2, <2>3, StepFollowed DEF Noted, LoadsOnce, Undoing
<1>8. CASE WriteCrumb(p)
  <2>1. crumb' = job[p] /\ job' = job /\ modules' = modules /\ pc'[p] = "setdef" /\ crumb = None
    BY <1>4, <1>8 DEF IInv, TypeOK, Calm, Fails, Noted
  <2>2. job[p] \in Record /\ job[p] # None /\ job[p].owner = p
    BY <1>8 DEF IInv, TypeOK, JobsInHand, InHand
  <2>3. \A i \in Indices : modules[i] = p => i = job[p].index
    BY <1>4, <1>8 DEF LoadsOnce
  <2>4. Noted(p)' /\ LoadsOnce(p)'
    BY <2>1, <2>2, <2>3 DEF Noted, LoadsOnce, Undoing
  <2> QED BY <1>1, <1>2, <1>3, <2>1, <2>2, <2>4, StepFollowed
<1>9. CASE SetAsDefault(p) \/ SetAsDefaultFails(p) \/ EndSession(p)
  <2>1. /\ crumb' = crumb /\ modules' = modules /\ job' = job
        /\ pc[p] \in {"setdef", "live"} /\ pc'[p] \in {"live", "restore"}
    BY <1>9 DEF IInv, TypeOK
  <2>2. crumb = job[p] /\ job[p].owner = p
    BY <1>4, <2>1 DEF Noted, IInv, JobsInHand, InHand
  <2>3. Noted(p)' /\ LoadsOnce(p)'
    BY <1>4, <2>1, <2>2 DEF Noted, LoadsOnce, Undoing, Loaded
  <2> QED BY <1>1, <1>2, <1>3, <2>1, <2>3, StepFollowed
<1> QED BY <1>5, <1>6, <1>7, <1>8, <1>9

\* Undoing one, and dying.
LEMMA UndoFollowed ==
  ASSUME IInv, Followed, NEW p \in Procs, Calm',
         Restore(p) \/ Unload(p) \/ UnloadFails(p) \/ Forget(p) \/ NoPactl(p) \/ Crash(p)
  PROVE  Followed'
<1> USE DEF Restore, Unload, UnloadFails, Forget, NoPactl, Crash, Done, Exits, Goto, server, history
<1>1. Calm
  BY DEF Calm, Fails
<1>2. \A q \in Procs \ {p} : ~Alive(q) /\ pc'[q] = pc[q]
  BY <1>1, Alone DEF IInv, TypeOK, Alive
<1>3. \A i \in Indices : modules'[i] \in {modules[i], None, p, Other}
  BY DEF IInv, TypeOK
<1>4. Noted(p) /\ LoadsOnce(p)
  BY <1>1 DEF Followed
<1>5. CASE Crash(p)
  <2>1. crumb' = crumb /\ modules' = modules
    BY <1>4, <1>5 DEF Noted
  <2>2. pc'[p] = IF pc[p] = "note" THEN "lost" ELSE "gone"
    BY <1>5 DEF IInv, TypeOK
  <2>3. Noted(p)' /\ LoadsOnce(p)'
    BY <1>4, <1>5, <2>1, <2>2 DEF Noted, LoadsOnce, Undoing, Loaded, Alive
  <2> QED BY <1>1, <1>2, <1>3, <2>1, <2>3, StepFollowed
<1>6. CASE ~Crash(p)
  <2>0. ~NoPactl(p)
    BY DEF Calm, Fails
  <2>1. pc[p] \in Undoing /\ crumb = job[p] /\ job[p] # None /\ job[p].owner \in Procs
        /\ Known(job[p])
    <3>1. pc[p] \in Undoing
      BY <1>6, <2>0 DEF Undoing
    <3> QED BY <1>4, <3>1, Undoable DEF Noted
  <2>2. job[p].owner # p => ~Loaded(p)
    BY <1>4, <2>1 DEF LoadsOnce
  <2>3. CASE Restore(p)
    <3>1. /\ crumb' = crumb /\ modules' = modules /\ job' = job
          /\ pc'[p] = "unload"
      BY <2>3 DEF IInv, TypeOK
    <3> QED BY <1>1, <1>2, <1>3, <1>4, <2>1, <2>2, <3>1, StepFollowed
            DEF Noted, LoadsOnce, Undoing, Loaded
  <2>4. CASE Unload(p) \/ UnloadFails(p)
    <3>1. crumb' = crumb /\ job' = job /\ pc'[p] = "forget"
      BY <2>4 DEF IInv, TypeOK, Calm, Fails
    <3>2. \A i \in Indices : modules'[i] \in {modules[i], None}
      BY <2>4 DEF IInv, TypeOK
    <3>3. ~Loaded(job[p].owner)'
      <4>1. CASE Unload(p)
        <5>1. \A i \in Indices : modules[i] = job[p].owner => i = job[p].index
          BY <1>1, <2>1 DEF Followed, LoadsOnce
        <5>2. modules'[job[p].index] = None
          BY <4>1, <2>1 DEF IInv, TypeOK, Known
        <5> QED BY <2>1, <3>1, <3>2, <5>1, <5>2 DEF Loaded
      <4>2. CASE UnloadFails(p)
        BY <4>2 DEF Calm, Fails, Loaded
      <4> QED BY <2>4, <4>1, <4>2
    <3>4. Noted(p)'
      BY <2>1, <3>1, <3>3 DEF Noted, Undoing
    <3>5. p # None /\ (Loaded(p)' => Loaded(p))
      BY <3>2 DEF Loaded
    <3>6. LoadsOnce(p)'
      BY <1>4, <2>1, <2>2, <3>1, <3>2, <3>5 DEF LoadsOnce, Loaded, Undoing
    <3> QED BY <1>1, <1>2, <1>3, <3>1, <3>4, <3>6, StepFollowed
  <2>5. CASE Forget(p)
    <3>1. /\ crumb' = None /\ modules' = modules /\ ~Loaded(job[p].owner)
          /\ pc'[p] \in {"gone", "between"}
      BY <1>4, <2>5 DEF IInv, TypeOK, Noted
    <3>2. ~Loaded(p)
      BY <2>2, <3>1
    <3>3. Noted(p)' /\ LoadsOnce(p)'
      BY <3>1, <3>2 DEF Noted, LoadsOnce, Undoing, Loaded
    <3> QED BY <1>1, <1>2, <1>3, <2>1, <3>1, <3>3, StepFollowed
  <2> QED BY <1>6, <2>0, <2>3, <2>4, <2>5
<1> QED BY <1>5, <1>6

\* What others do to the sound server.
LEMMA AroundFollowed ==
  ASSUME IInv, Followed, Calm', OtherLoads \/ Restart \/ \E s \in UserSinks : UserChooses(s)
  PROVE  Followed'
<1> USE DEF OtherLoads, Restart, UserChooses, procs, history
<1>1. Calm
  BY DEF Calm, Fails
<1>2. pc' = pc /\ job' = job /\ crumb' = crumb
  OBVIOUS
<1>3. \A i \in Indices : modules'[i] \in {modules[i], None, Other}
  BY DEF IInv, TypeOK
<1>4. \A p \in Procs, i \in Indices : modules'[i] = p => modules[i] = p
  BY <1>3
<1>5. OneAtATime'
  BY <1>1, <1>2 DEF Followed, OneAtATime, Alive
<1>6. ASSUME NEW p \in Procs PROVE Noted(p)' /\ LoadsOnce(p)'
  <2>1. Noted(p) /\ LoadsOnce(p)
    BY <1>1 DEF Followed
  <2>2. Loaded(p)' => Loaded(p)
    BY <1>4 DEF Loaded
  <2>3. pc[p] = "forget" => ~Loaded(job[p].owner)'
    <3>1. pc[p] = "forget" => job[p].owner \in Procs
      BY Undoable DEF Undoing
    <3> QED BY <1>4, <2>1, <3>1 DEF Noted, Loaded
  <2> QED BY <1>2, <1>4, <2>1, <2>2, <2>3 DEF Noted, LoadsOnce
<1> QED BY <1>5, <1>6 DEF Followed

LEMMA NextFollowed == IInv /\ Followed /\ [Next]_vars => Followed'
<1> SUFFICES ASSUME IInv, Followed, [Next]_vars, Calm' PROVE Followed'
  BY DEF Followed
<1>1. CASE UNCHANGED vars
  BY <1>1 DEF vars, procs, server, history, Followed, Calm, OneAtATime, Noted, LoadsOnce,
     Alive, Loaded
<1>2. CASE \E p \in Procs : Step(p)
  BY <1>2, CreateFollowed, UndoFollowed DEF Step
<1>3. CASE OtherLoads \/ Restart \/ \E s \in UserSinks : UserChooses(s)
  BY <1>3, AroundFollowed
<1> QED BY <1>1, <1>2, <1>3 DEF Next

LEMMA InitFollowed == Init => Followed
BY DEF Init, Followed, OneAtATime, Noted, LoadsOnce, Alive, Loaded, Undoing

\* A sink that outlived its process is in the breadcrumb, for any number of processes
\* one after the other, however often the recovery is itself cut short.
THEOREM LeftoversAreRecorded == Spec => []Recorded
<1>1. Followed => Recorded
  BY DEF Followed, Calm, LoadsOnce, Recorded, Unrecorded
<1>2. Spec => []Followed
  BY InitFollowed, NextFollowed, Invariance, PTL DEF Spec
<1> QED BY <1>1, <1>2, PTL

---------------------------------------------------------------------------
\* The user's default

LEMMA InitRemembered == Init => Remembered
BY DEF Init, Remembered, Alive

\* A step of the only process that runs keeps the note of the user's default, whatever
\* it does with the default sink, the breadcrumb and its own record.
LEMMA StepRemembered ==
  ASSUME IInv, NEW p \in Procs, \A q \in Procs \ {p} : ~Alive(q)', wanted' = wanted,
         crumb' # None => crumb'.prev = wanted,
         Alive(p)' /\ pc'[p] # "between" => job'[p].prev = wanted,
         pc'[p] \notin {"live", "restore"} => default' = wanted,
         crumb' = None => default' = wanted
  PROVE  Remembered'
BY DEF Remembered, Alive

LEMMA ProcRemembered ==
  ASSUME IInv, Followed, Remembered, NEW p \in Procs, Step(p), ~overlapped', failed' = {}
  PROVE  Remembered'
<1> USE DEF Start, ReadDefault, NoSink, LoadModule, WriteCrumb, SetAsDefault, SetAsDefaultFails,
            EndSession, Restore, Unload, UnloadFails, Forget, NoPactl, Crash, Done, Exits, Goto,
            server, history
<1>1. ~overlapped /\ failed = {}
  <2>1. failed \subseteq failed' /\ (overlapped => overlapped')
    BY HistoryGrows
  <2> QED BY <2>1
<1>2. Calm
  BY <1>1 DEF Calm
<1>3. wanted' = wanted
  BY DEF Step
<1>4. \A q \in Procs \ {p} : ~Alive(q)'
  <2>1. \A q \in Procs \ {p} : pc'[q] = pc[q]
    BY DEF IInv, TypeOK, Step
  <2>2. CASE Start(p)
    BY <2>1, <2>2 DEF Alive
  <2>3. CASE Alive(p)
    BY <1>2, <2>1, <2>3, Alone DEF Alive
  <2> QED BY <2>2, <2>3 DEF Step, Alive
<1>5. Noted(p)
  BY <1>2 DEF Followed
<1>6. (crumb # None => crumb.prev = wanted) /\ (crumb = None => default = wanted)
  BY <1>1 DEF Remembered
<1>7. Alive(p) => /\ pc[p] # "between" => job[p].prev = wanted
                  /\ pc[p] \notin {"live", "restore"} => default = wanted
  BY <1>1 DEF Remembered
<1>8. CASE Start(p)
  <2>1. crumb' = crumb /\ default' = default
    BY <1>8
  <2>2. CASE Stale(crumb)
    BY <1>3, <1>4, <1>6, <1>8, <2>1, <2>2, StepRemembered DEF IInv, TypeOK, Stale
  <2>3. CASE ~Stale(crumb)
    <3>1. crumb = None
      <4>1. crumb # None => crumb.owner \in Procs /\ crumb.owner # p
        BY <1>8 DEF IInv, CrumbKnown, Known, Record
      <4>2. \A q \in Procs : ~Alive(q)
        BY <1>8
      <4> QED BY <2>3, <4>1, <4>2 DEF Stale
    <3>2. pc'[p] = "between"
      BY <1>8, <2>3 DEF IInv, TypeOK
    <3> QED BY <1>3, <1>4, <1>6, <2>1, <3>1, <3>2, StepRemembered
  <2> QED BY <2>2, <2>3
<1>9. CASE ReadDefault(p)
  <2>1. Alive(p) /\ default = wanted /\ crumb = None
    BY <1>5, <1>7, <1>9 DEF Alive, Noted
  <2>2. job'[p].prev = wanted
    BY <1>9, <2>1 DEF IInv, TypeOK, Fails
  <2>3. crumb' = crumb /\ default' = default
    BY <1>9
  <2> QED BY <1>3, <1>4, <2>1, <2>2, <2>3, StepRemembered
<1>10. CASE LoadModule(p)
  <2>1. Alive(p) /\ default = wanted /\ crumb = None /\ job[p] # None /\ job[p].prev = wanted
    BY <1>5, <1>7, <1>10 DEF Alive, Noted, IInv, TypeOK, JobsInHand, InHand
  <2>2. job[p] \in Record
    BY <2>1 DEF IInv, TypeOK
  <2>3. job'[p].prev = job[p].prev
    BY <1>10, <2>2 DEF IInv, TypeOK, Record
  <2>4. crumb' = crumb /\ default' = default
    BY <1>10
  <2> QED BY <1>3, <1>4, <2>1, <2>3, <2>4, StepRemembered
<1>11. CASE NoSink(p) \/ WriteCrumb(p)
  <2>1. Alive(p) /\ default = wanted /\ default' = default
    BY <1>7, <1>11 DEF Alive
  <2>2. Alive(p)' => job'[p].prev = wanted
    BY <1>7, <1>11, <2>1 DEF IInv, TypeOK, Alive
  <2>3. crumb' # None => crumb'.prev = wanted
    BY <1>6, <1>7, <1>11, <2>1
  <2> QED BY <1>3, <1>4, <2>1, <2>2, <2>3, StepRemembered
<1>12. CASE SetAsDefault(p) \/ SetAsDefaultFails(p) \/ EndSession(p)
  <2>1. /\ Alive(p) /\ crumb' = crumb /\ job' = job /\ pc'[p] \in {"live", "restore"}
        /\ job[p].prev = wanted
    BY <1>7, <1>12 DEF Alive, IInv, TypeOK
  <2>2. crumb # None
    BY <1>5, <1>12 DEF Noted, IInv, JobsInHand, InHand
  <2> QED BY <1>3, <1>4, <1>6, <1>7, <2>1, <2>2, StepRemembered
<1>13. CASE Restore(p)
  <2>1. Alive(p) /\ pc[p] \in Undoing /\ crumb' = crumb /\ job' = job /\ pc'[p] = "unload"
    BY <1>13 DEF Alive, Undoing, IInv, TypeOK
  <2>2. job[p].prev = wanted /\ wanted # None
    BY <1>7, <2>1 DEF IInv, TypeOK, Undoing
  <2>3. default' = wanted
    BY <1>13, <2>2 DEF Fails
  <2> QED BY <1>3, <1>4, <1>6, <2>1, <2>2, <2>3, StepRemembered
<1>14. CASE Unload(p)
  <2>1. /\ Alive(p) /\ pc[p] \in Undoing /\ crumb' = crumb /\ job' = job /\ default = wanted
        /\ job[p].prev = wanted
    BY <1>7, <1>14 DEF Alive, Undoing
  <2>2. modules[job[p].index] # default
    <3>1. /\ Known(job[p]) /\ "reboot" \notin failed /\ job[p].owner \in Procs
          /\ default \in UserSinks
      BY <1>1, <2>1, Undoable DEF IInv, TypeOK
    <3> QED BY <3>1 DEF Known
  <2>3. default' = default
    BY <1>14, <2>2 DEF Fallback
  <2> QED BY <1>3, <1>4, <1>6, <2>1, <2>3, StepRemembered
<1>15. CASE UnloadFails(p) \/ NoPactl(p)
  <2>1. Alive(p) /\ crumb' = crumb /\ job' = job /\ default' = default /\ pc[p] = "unload"
    BY <1>15 DEF Alive, Fails
  <2> QED BY <1>3, <1>4, <1>6, <1>7, <2>1, StepRemembered
<1>16. CASE Forget(p)
  <2>1. Alive(p) /\ default = wanted /\ default' = default /\ crumb' = None
    BY <1>7, <1>16 DEF Alive
  <2>2. Alive(p)' => pc'[p] = "between"
    BY <1>16 DEF IInv, TypeOK, Alive
  <2> QED BY <1>3, <1>4, <1>7, <2>1, <2>2, StepRemembered
<1>17. CASE Crash(p)
  <2>1. Alive(p) /\ crumb' = crumb /\ default' = default /\ job'[p] = None
    BY <1>5, <1>17 DEF Noted, IInv, TypeOK
  <2>2. ~Alive(p)'
    BY <1>17 DEF IInv, TypeOK, Alive
  <2> QED BY <1>3, <1>4, <1>6, <2>1, <2>2 DEF Remembered
<1> QED BY <1>8, <1>9, <1>10, <1>11, <1>12, <1>13, <1>14, <1>15, <1>16, <1>17 DEF Step

LEMMA NextRemembered == IInv /\ Followed /\ Remembered /\ [Next]_vars => Remembered'
<1> SUFFICES ASSUME IInv, Followed, Remembered, [Next]_vars, ~overlapped', failed' = {}
             PROVE  Remembered'
  BY DEF Remembered
<1>1. CASE UNCHANGED vars
  BY <1>1 DEF vars, procs, server, history, Remembered, Alive
<1>2. CASE \E p \in Procs : Step(p)
  BY <1>2, ProcRemembered
<1>3. CASE OtherLoads
  BY <1>3 DEF OtherLoads, procs, history, Remembered, Alive
<1>4. CASE Restart
  BY <1>4 DEF Restart, Fails
<1>5. CASE \E s \in UserSinks : UserChooses(s)
  BY <1>5 DEF UserChooses, procs, Remembered, Alive
<1> QED BY <1>1, <1>2, <1>3, <1>4, <1>5 DEF Next

\* After any number of sessions, crashes and recoveries the default is the user's own.
THEOREM TheDefaultComesBack == Spec => []DefaultRestored
<1>1. Remembered => DefaultRestored
  BY DEF Remembered, DefaultRestored
<1>2. Spec => []Followed
  BY InitFollowed, NextFollowed, Invariance, PTL DEF Spec
<1>3. Spec => []Remembered
  BY <1>2, InitRemembered, NextRemembered, Invariance, PTL DEF Spec
<1> QED BY <1>1, <1>3, PTL
=============================================================================
