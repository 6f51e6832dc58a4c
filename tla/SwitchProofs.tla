----------------------------- MODULE SwitchProofs -----------------------------
(***************************************************************************)
(* Theorems about Switch, for any tables, threads, ports and list lengths. *)
(*                                                                         *)
(* RunsBuilt alone is not inductive: a thread handles whatever is in its   *)
(* queue, and a list never shrinks when a pipeline is freed.  LifeInv adds *)
(* that the control handle is set exactly for a built pipeline, and that   *)
(* without it nothing has ever been sent to a thread.                      *)
(*                                                                         *)
(* The theorems on the threads and on the tables are those of the parts:   *)
(* every step of the composition is a step of ThreadControl and one of     *)
(* TableCtl, or leaves its variables alone.  For the tables NoStranded is  *)
(* needed: what the wait of a commit relies on and does not check.         *)
(***************************************************************************)
EXTENDS Switch, TableCtlRefines

\* No thread has been given anything.
Untouched ==
    /\ msgq_req = [t \in Threads |-> <<>>]
    /\ n_pipelines = [t \in Threads |-> 0]

LifeInv ==
    /\ ctl \in BOOLEAN
    /\ ctl => swx = "built" /\ PortsFit
    /\ ~ctl => Untouched

\* The initial state: no pipeline, empty lists, empty queues.
LEMMA LifeInit == SwitchInit => LifeInv
BY DEF SwitchInit, LifeInv, Untouched, Control!Init

\* Once the control handle is set, a step that leaves the pipeline's life
\* alone keeps the invariant.
LEMMA LifeBuilt ==
    ASSUME LifeInv, ctl, UNCHANGED lifeVars
    PROVE  LifeInv'
BY DEF LifeInv, lifeVars, PortsFit

\* A step that leaves the life, the queues and the lists alone keeps it.
LEMMA LifeSame ==
    ASSUME LifeInv, UNCHANGED lifeVars, UNCHANGED msgq_req, UNCHANGED n_pipelines
    PROVE  LifeInv'
BY DEF LifeInv, lifeVars, PortsFit, Untouched

\* A thread that has been given nothing leaves its queue and its list alone.
LEMMA IdleThread ==
    ASSUME NEW t \in Threads, Untouched, Control!DataPlane(t)
    PROVE  UNCHANGED msgq_req /\ UNCHANGED n_pipelines
<1>1. msgq_req[t] = <<>>
  BY DEF Untouched
<1>2. ~Control!MsgHandle(t)
  BY <1>1 DEF Control!MsgHandle
<1>3. QED
  BY <1>2 DEF Control!DataPlane, Control!RunPipeline, Control!EndPass, Control!Poll,
              Control!MsgNone, Control!MsgSend, Control!ringVars, Control!listVars

\* Every step keeps the invariant.
LEMMA LifeNext == LifeInv /\ [SwitchNext]_switchVars => LifeInv'
<1> SUFFICES ASSUME LifeInv, [SwitchNext]_switchVars PROVE LifeInv'
  OBVIOUS
<1>1. CASE PipelineCreate
  BY <1>1, NameAssumption DEF PipelineCreate, LifeInv, PortsFit, Untouched, threadVars
<1>2. ASSUME NEW i \in 0 .. MaxPorts - 1, PortIn(i) PROVE LifeInv'
  BY <1>2 DEF PortIn, LifeInv, Untouched, threadVars
<1>3. CASE Build
  BY <1>3 DEF Build, LifeInv, PortsFit, Untouched, threadVars
<1>4. CASE TableCommand
  BY <1>4, LifeSame DEF TableCommand, threadVars
<1>5. CASE Wait
  BY <1>5, LifeSame DEF Wait, threadVars
<1>6. CASE ThreadCommand
  BY <1>6, LifeBuilt DEF ThreadCommand, Usable
<1>7. ASSUME NEW t \in Threads, ThreadStep(t) PROVE LifeInv'
  <2>1. CASE ctl
    BY <1>7, <2>1, LifeBuilt DEF ThreadStep
  <2>2. CASE ~ctl
    BY <1>7, <2>2, IdleThread, LifeSame DEF ThreadStep, LifeInv
  <2>3. QED
    BY <2>1, <2>2
<1>8. ASSUME NEW t \in Threads, NEW w \in Thread, PacketStep(t, w) PROVE LifeInv'
  BY <1>8, LifeSame DEF PacketStep, threadVars
<1>9. CASE UNCHANGED switchVars
  BY <1>9, LifeSame DEF switchVars, threadVars, lifeVars
<1>10. QED
  BY <1>1, <1>2, <1>3, <1>4, <1>5, <1>6, <1>7, <1>8, <1>9 DEF SwitchNext

\* RunsBuilt: whatever fails in a build and whatever the operator tries, a
\* thread only ever gets a pipeline that was built and not freed.
THEOREM OnlyBuiltRuns == SwitchSpec => []RunsBuilt
<1>1. LifeInv => RunsBuilt
  <2> SUFFICES ASSUME LifeInv, NEW t \in Threads,
                      Control!Listed(t, PIPELINE0) \/ msgq_req[t] # <<>>
               PROVE  ctl
    BY DEF RunsBuilt, LifeInv
  <2>1. ASSUME ~ctl PROVE FALSE
    <3>1. msgq_req[t] = <<>> /\ n_pipelines[t] = 0
      BY <2>1 DEF LifeInv, Untouched
    <3>2. ~Control!Listed(t, PIPELINE0)
      BY <3>1 DEF Control!Listed, Control!Slots
    <3>3. QED
      BY <3>1, <3>2
  <2>2. QED
    BY <2>1 DEF LifeInv
<1>2. QED
  BY <1>1, LifeInit, LifeNext, PTL DEF SwitchSpec

----------------------------------------------------------------------------
(***************************************************************************)
(* The data plane of the composition is that of ThreadControl, so that its *)
(* theorems hold here.                                                     *)
(***************************************************************************)
Threading == INSTANCE ThreadControlProofs WITH
    Pipelines <- {PIPELINE0}, NULL <- None, pc <- thrPc

\* A step that leaves the thread variables alone, seen by ThreadControl.
LEMMA SameStutter == UNCHANGED threadVars => UNCHANGED Threading!vars
BY DEF threadVars, Threading!vars, Threading!ctlVars, Threading!ringVars,
       Threading!listVars, Threading!runVars

\* The same initial states.
LEMMA SameInit == SwitchInit => Threading!Init
BY DEF SwitchInit, Control!Init, Threading!Init, Control!Slots, Threading!Slots

\* The same commands.
LEMMA SameControl == Control!Control => Threading!Control
BY DEF Control!Control, Threading!Control, Control!CmdEnable, Threading!CmdEnable,
       Control!CmdDisable, Threading!CmdDisable, Control!CmdComplete, Threading!CmdComplete,
       Control!Send, Threading!Send, Control!RingSpace, Threading!RingSpace,
       Control!Mapped, Threading!Mapped, Control!Accepted, Threading!Accepted,
       Control!listVars, Threading!listVars, Control!runVars, Threading!runVars

\* The same handling of a message.
LEMMA SameHandle ==
    ASSUME NEW t \in Threads, Control!MsgHandle(t)
    PROVE  Threading!MsgHandle(t)
<1>1. ASSUME NEW q, Control!MsgHandleEnable(t, q) PROVE Threading!MsgHandleEnable(t, q)
  BY <1>1 DEF Control!MsgHandleEnable, Threading!MsgHandleEnable, Control!HasRoom,
              Threading!HasRoom, Control!listVars, Threading!listVars
<1>2. ASSUME NEW q, Control!MsgHandleDisable(t, q) PROVE Threading!MsgHandleDisable(t, q)
  BY <1>2 DEF Control!MsgHandleDisable, Threading!MsgHandleDisable, Control!First,
              Threading!First, Control!MoveLast, Threading!MoveLast,
              Control!listVars, Threading!listVars, Control!Slots, Threading!Slots
<1>3. QED
  BY <1>1, <1>2 DEF Control!MsgHandle, Threading!MsgHandle, Control!ctlVars, Threading!ctlVars

\* The same steps of a thread.
LEMMA SameDataPlane ==
    ASSUME NEW t \in Threads, Control!DataPlane(t)
    PROVE  Threading!DataPlane(t)
BY SameHandle
   DEF Control!DataPlane, Threading!DataPlane, Control!RunPipeline, Threading!RunPipeline,
       Control!EndPass, Threading!EndPass, Control!Poll, Threading!Poll,
       Control!MsgNone, Threading!MsgNone, Control!MsgSend, Threading!MsgSend,
       Control!RingSpace, Threading!RingSpace, Control!ctlVars, Threading!ctlVars,
       Control!ringVars, Threading!ringVars, Control!listVars, Threading!listVars

\* Every step of the composition is a step of ThreadControl, or none.
LEMMA SameNext == [SwitchNext]_switchVars => [Threading!Next]_Threading!vars
<1> SUFFICES ASSUME [SwitchNext]_switchVars PROVE [Threading!Next]_Threading!vars
  OBVIOUS
<1>1. CASE ThreadCommand
  BY <1>1, SameControl DEF ThreadCommand, Threading!Next
<1>2. ASSUME NEW t \in Threads, ThreadStep(t) PROVE Threading!Next
  BY <1>2, SameDataPlane DEF ThreadStep, Threading!Next
<1>3. ASSUME UNCHANGED threadVars PROVE [Threading!Next]_Threading!vars
  BY <1>3, SameStutter
<1>4. (SwitchNext \/ UNCHANGED switchVars)
         => ThreadCommand \/ (\E t \in Threads : ThreadStep(t)) \/ UNCHANGED threadVars
  BY DEF SwitchNext, PipelineCreate, PortIn, Build, TableCommand, Wait, PacketStep, switchVars
<1>5. QED
  BY <1>1, <1>2, <1>3, <1>4

\* The invariant of ThreadControl, with a careful operator.
ThreadInv == Threading!IndInv /\ Threading!Exact /\ reenabled = {}

\* The invariant of ThreadControl holds initially.
LEMMA ThreadInit == SwitchInit => ThreadInv
<1>1. SwitchInit => Threading!IndInv
  BY SameInit, Threading!IndInit, ThreadAssumption, NameAssumption
<1>2. SwitchInit => Threading!Exact
  BY SameInit, Threading!ExactInit, ThreadAssumption, NameAssumption
<1>3. SwitchInit => reenabled = {}
  BY DEF SwitchInit, Control!Init
<1>4. QED
  BY <1>1, <1>2, <1>3 DEF ThreadInv

\* Every step of the composition keeps it.
LEMMA ThreadNext == MayReenable = {} /\ ThreadInv /\ [SwitchNext]_switchVars => ThreadInv'
<1> SUFFICES ASSUME MayReenable = {}, ThreadInv, [SwitchNext]_switchVars PROVE ThreadInv'
  OBVIOUS
<1>1. Threading!IndInv /\ Threading!Exact /\ reenabled = {}
  BY DEF ThreadInv
<1>2. [Threading!Next]_Threading!vars
  BY SameNext
<1>3. Threading!IndInv'
  BY <1>1, <1>2, Threading!IndNext, ThreadAssumption, NameAssumption
<1>4. reenabled' = {}
  BY <1>1, <1>2, ThreadAssumption
     DEF Threading!Next, Threading!Control, Threading!CmdEnable, Threading!CmdDisable,
         Threading!CmdComplete, Threading!DataPlane, Threading!RunPipeline, Threading!EndPass,
         Threading!Poll, Threading!MsgNone, Threading!MsgHandle, Threading!MsgSend,
         Threading!ctlVars, Threading!vars
<1>5. Threading!Exact'
  BY <1>1, <1>2, <1>4, Threading!ExactNext, ThreadAssumption, NameAssumption
<1>6. QED
  BY <1>3, <1>4, <1>5 DEF ThreadInv

\* Only a packet step changes the packets in flight.
LEMMA OnlyPacketSteps ==
    ASSUME [SwitchNext]_switchVars, held' # held
    PROVE  \E t \in Threads, w \in Thread : PacketStep(t, w)
<1>1. ~UNCHANGED switchVars /\ ~UNCHANGED vars
  BY DEF switchVars, vars
<1>2. ASSUME Command PROVE UNCHANGED held
  BY <1>2 DEF Command, TableAdd, TableDelete, TableDefault, Abort
<1>3. ASSUME CommitStep PROVE UNCHANGED held
  BY <1>3 DEF CommitStep, RollFwdSkip, RollFwdInPlace, RollFwdRebuild, RollFwdCreateFails,
              Swap, Sync, RollBack
<1>4. ~TableCommand /\ ~Wait
  BY <1>2, <1>3 DEF TableCommand, Commit, Wait, Slept
<1>5. QED
  BY <1>1, <1>4 DEF SwitchNext, PipelineCreate, PortIn, Build, ThreadCommand, ThreadStep

\* A pipeline that a thread executes is on its list.
LEMMA RunningIsListed ==
    ASSUME Threading!IndInv, NEW t \in Threads, Control!Running(t) = PIPELINE0
    PROVE  Threading!Listed(t, PIPELINE0)
<1>1. /\ j[t] < n_pipelines[t] /\ p[t][j[t]] = PIPELINE0
      /\ j[t] \in Nat /\ n_pipelines[t] \in 0 .. THREAD_PIPELINES_MAX
  BY NameAssumption DEF Control!Running, Threading!IndInv, Threading!Types
<1>2. j[t] \in Threading!Slots
  BY <1>1, ThreadAssumption DEF Threading!Slots
<1>3. pipeline_data[t][j[t]] = PIPELINE0
  BY <1>1, <1>2 DEF Threading!IndInv, Threading!ArraysAgree
<1>4. QED
  BY <1>1, <1>2, <1>3 DEF Threading!Listed

\* The packets of a pipeline that is off its thread stay where they are.
LEMMA QuietStep ==
    ASSUME ThreadInv, [SwitchNext]_switchVars, held' # held
    PROVE  enabled[PIPELINE0] \/ ctlPc = "wait"
<1>1. PICK t \in Threads, w \in Thread : PacketStep(t, w)
  BY OnlyPacketSteps
<1>2. Threading!Listed(t, PIPELINE0)
  BY <1>1, RunningIsListed DEF PacketStep, ThreadInv
<1>3. Threading!Expected(t, PIPELINE0)
  BY <1>2 DEF ThreadInv, Threading!Exact
<1>4. QED
  BY <1>3 DEF Threading!Expected, Threading!Done, Threading!Mapped

\* DisabledIsQuiet: with an operator who enables only what is disabled, the
\* data plane touches the packets of a pipeline only while the control thread
\* believes it enabled or is just changing that.
THEOREM QuietWhenDisabled == MayReenable = {} => (SwitchSpec => DisabledIsQuiet)
<1> SUFFICES ASSUME MayReenable = {} PROVE SwitchSpec => DisabledIsQuiet
  OBVIOUS
<1>1. ThreadInv /\ [SwitchNext]_switchVars
          => [held' # held => enabled[PIPELINE0] \/ ctlPc = "wait"]_switchVars
  BY QuietStep
<1>2. QED
  BY <1>1, ThreadInit, ThreadNext, PTL DEF SwitchSpec, DisabledIsQuiet

----------------------------------------------------------------------------
(***************************************************************************)
(* The tables of the composition are those of TableCtl, when the operator  *)
(* commits only while the pipeline runs or has no packets: the wait of the *)
(* commit is then long enough although nothing looks at the packets.       *)
(***************************************************************************)

\* During a commit no thread command is under way, and the pipeline runs or has
\* no packets.
NoStranded ==
    pc # "idle" => ctlPc = "idle" /\ (enabled[PIPELINE0] \/ \A w \in Thread : held[w] = None)

\* A step of a data plane thread is not a step of the control thread.
LEMMA DataPlaneFrame ==
    ASSUME NEW t \in Threads, Control!DataPlane(t)
    PROVE  UNCHANGED <<ctlPc, enabled>>
BY DEF Control!DataPlane, Control!RunPipeline, Control!EndPass, Control!Poll, Control!MsgNone,
       Control!MsgHandle, Control!MsgSend, Control!ctlVars

\* Every step keeps NoStranded.
LEMMA StrandedNext ==
    ASSUME MayCommitDisabled = FALSE, ThreadInv, NoStranded, [SwitchNext]_switchVars
    PROVE  NoStranded'
<1>1. CASE UNCHANGED vars /\ UNCHANGED threadVars
  BY <1>1 DEF NoStranded, vars, threadVars
<1>2. CASE TableCommand \/ Wait
  <2>1. UNCHANGED <<ctlPc, enabled>>
    BY <1>2 DEF TableCommand, Wait, threadVars
  <2>2. UNCHANGED held
    BY <1>2 DEF TableCommand, Wait, Slept, Command, TableAdd, TableDelete, TableDefault, Abort,
                Commit, CommitStep, RollFwdSkip, RollFwdInPlace, RollFwdRebuild,
                RollFwdCreateFails, Swap, Sync, RollBack
  <2>3. CASE pc # "idle"
    BY <2>1, <2>2, <2>3 DEF NoStranded
  <2>4. CASE pc = "idle" /\ Commit
    <3>1. TableCommand
      BY <1>2, <2>4 DEF Wait, Slept
    <3>2. ctlPc = "idle" /\ (enabled[PIPELINE0] \/ \A w \in Thread : held[w] = None)
      BY <2>4, <3>1 DEF TableCommand, Commit, Command, TableAdd, TableDelete, TableDefault,
                        Abort, CommitStep, RollFwdSkip, RollFwdInPlace, RollFwdRebuild,
                        RollFwdCreateFails, Swap, Sync, RollBack
    <3>3. QED
      BY <2>1, <2>2, <3>2 DEF NoStranded
  <2>5. CASE pc = "idle" /\ ~Commit
    BY <1>2, <2>5 DEF NoStranded, TableCommand, Wait, Slept, Command, TableAdd, TableDelete,
                      TableDefault, Abort, CommitStep, RollFwdSkip, RollFwdInPlace,
                      RollFwdRebuild, RollFwdCreateFails, Swap, Sync, RollBack
  <2>6. QED
    BY <2>3, <2>4, <2>5
<1>3. CASE ThreadCommand
  BY <1>3 DEF ThreadCommand, NoStranded, vars
<1>4. ASSUME NEW t \in Threads, ThreadStep(t) PROVE NoStranded'
  BY <1>4, DataPlaneFrame DEF ThreadStep, NoStranded, vars
<1>5. ASSUME NEW t \in Threads, NEW w \in Thread, PacketStep(t, w) PROVE NoStranded'
  <2>1. UNCHANGED <<ctlPc, enabled, pc>>
    BY <1>5 DEF PacketStep, threadVars, Rx, Tx
  <2>2. CASE held' = held
    BY <2>1, <2>2 DEF NoStranded
  <2>3. CASE held' # held
    BY <2>1, <2>3, QuietStep DEF NoStranded
  <2>4. QED
    BY <2>2, <2>3
<1>6. QED
  BY <1>1, <1>2, <1>3, <1>4, <1>5
     DEF SwitchNext, PipelineCreate, PortIn, Build, switchVars

\* Every step of the composition is a step of TableCtl, or none.
LEMMA TableNext ==
    ASSUME TypeOK, InFlight, NoStranded, [SwitchNext]_switchVars
    PROVE  [Next]_vars
<1>1. CASE Wait
  <2>1. Drained
    <3>1. CASE enabled[PIPELINE0]
      BY <1>1, <3>1 DEF Wait
    <3>2. CASE ~enabled[PIPELINE0]
      <4>1. \A w \in Thread : held[w] = None
        BY <1>1, <3>2 DEF NoStranded, Wait, Slept
      <4>2. ts_next # None
        BY NoneAssumption DEF TypeOK, ts_next
      <4>3. QED
        BY <4>1, <4>2 DEF Drained
    <3>3. QED
      BY <3>1, <3>2
  <2>2. QED
    BY <1>1, <2>1 DEF Wait, Usleep, Next
<1>2. CASE TableCommand
  BY <1>2 DEF TableCommand, Next
<1>3. ASSUME NEW t \in Threads, NEW w \in Thread, PacketStep(t, w) PROVE Next
  BY <1>3 DEF PacketStep, Next
<1>4. CASE UNCHANGED vars
  BY <1>4
<1>5. QED
  BY <1>1, <1>2, <1>3, <1>4
     DEF SwitchNext, PipelineCreate, PortIn, Build, ThreadCommand, ThreadStep, switchVars

\* With an operator who enables only what is disabled and commits only while
\* the pipeline runs or is empty, the tables behave as in TableCtl.
LEMMA TablesInSwitch ==
    MayReenable = {} /\ MayCommitDisabled = FALSE => (SwitchSpec => Spec)
<1> SUFFICES ASSUME MayReenable = {}, MayCommitDisabled = FALSE PROVE SwitchSpec => Spec
  OBVIOUS
<1> DEFINE I == IndInv({}) /\ ThreadInv /\ NoStranded
<1>1. SwitchInit => I
  <2>1. Scope({})
    BY DEF Scope
  <2>2. SwitchInit => IndInv({})
    BY <2>1, IndInit DEF SwitchInit
  <2>3. SwitchInit => NoStranded
    BY DEF SwitchInit, Init, NoStranded
  <2>4. QED
    BY <2>2, <2>3, ThreadInit
<1>2. I /\ [SwitchNext]_switchVars => [Next]_vars
  BY TableNext DEF IndInv
<1>3. I /\ [SwitchNext]_switchVars => I'
  <2>1. Scope({})
    BY DEF Scope
  <2>2. IndInv({}) /\ [Next]_vars => IndInv({})'
    BY <2>1, IndNext DEF Accepted, Restored
  <2>3. QED
    BY <1>2, <2>2, ThreadNext, StrandedNext
<1>4. SwitchInit => Init
  BY DEF SwitchInit
<1> HIDE DEF I
<1>5. QED
  BY <1>1, <1>2, <1>3, <1>4, PTL DEF SwitchSpec, Spec

\* Implements: also when the pipeline is built, moved between threads and taken
\* off them, a commit takes effect in all tables and for all packets at once, as
\* long as no rollback lacks room and no second pass is refused.
THEOREM SwitchImplements ==
    ASSUME RebuiltFirst, ~MayRunOut, MayReenable = {}, MayCommitDisabled = FALSE
    PROVE  SwitchSpec /\ []PutBackFits /\ []SecondPassGuaranteed => Implements
BY TablesInSwitch, TablesImplement, PTL
=============================================================================
