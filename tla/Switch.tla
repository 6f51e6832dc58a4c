-------------------------------- MODULE Switch --------------------------------
(***************************************************************************)
(* One pipeline of the application, from its creation on: its life in the  *)
(* CLI (cli.c, obj.c), its tables (TableCtl) and the data plane threads    *)
(* that run it (ThreadControl).                                            *)
(*                                                                         *)
(* The control thread runs one command at a time (main.c), so a command on *)
(* the tables and a command on the threads never overlap.  A packet moves  *)
(* only while a thread executes the pipeline, and rte_swx_pipeline_run     *)
(* stops after a number of instructions, in the middle of packets: a       *)
(* pipeline that is taken off its thread keeps the packets it has.  The    *)
(* CLI lets the operator change the tables of a pipeline at any time after *)
(* it was built, whether it runs or not.                                   *)
(*                                                                         *)
(* When the control handle cannot be made, the build command frees the     *)
(* pipeline and leaves it registered.  A command on its ports or a second  *)
(* build would then use freed memory, and is where the model ends.         *)
(***************************************************************************)
EXTENDS TableCtl

CONSTANTS
    Threads, PIPELINE0, THREAD_PIPELINES_MAX, THREAD_MSGQ_SIZE, MayReenable,
    MaxPorts,           \* bound: input ports
    MayCommitDisabled   \* the operator also commits while a pipeline that has
                        \* packets is off its thread

ASSUME NameAssumption ==
    /\ None \notin {"created", "built", "freed"}
    /\ None # PIPELINE0 /\ None \notin Threads
ASSUME ThreadAssumption ==
    /\ THREAD_PIPELINES_MAX \in Nat \ {0}
    /\ THREAD_MSGQ_SIZE \in Nat /\ THREAD_MSGQ_SIZE >= 2
    /\ MayReenable \subseteq {PIPELINE0}

VARIABLES
    swx, ctl, ports_in,         \* struct pipeline: p, ctl; p->ports_in
    enabled, thread_id, ctlPc, ctlReq, ctlThread, msgq_req, msgq_rsp,
    p, pipeline_data, n_pipelines, thrPc, j, rsp, reenabled

Control == INSTANCE ThreadControl WITH
    Pipelines <- {PIPELINE0}, NULL <- None, pc <- thrPc

lifeVars   == <<swx, ctl, ports_in>>
threadVars == <<enabled, thread_id, ctlPc, ctlReq, ctlThread, msgq_req, msgq_rsp,
                p, pipeline_data, n_pipelines, thrPc, j, rsp, reenabled>>
switchVars == <<vars, lifeVars, threadVars>>

SwitchInit ==
    /\ Init /\ Control!Init
    /\ swx = None /\ ctl = FALSE /\ ports_in = {}

----------------------------------------------------------------------------
(* The pipeline is created, given ports and built.                         *)

PipelineCreate ==
    /\ swx = None
    /\ swx' = "created"
    /\ UNCHANGED <<vars, ctl, ports_in, threadVars>>

\* rte_swx_pipeline_port_in_config refuses a port that is there.
PortIn(i) ==
    /\ swx = "created" /\ ~ctl
    /\ i \notin ports_in
    /\ ports_in' = ports_in \cup {i}
    /\ UNCHANGED <<vars, swx, ctl, threadVars>>

\* port_in_build: the ports are 0, 1, ..., and their number a power of two.
PortsFit == \E x \in 0 .. MaxPorts : ports_in = 0 .. 2^x - 1

\* A build that fails earlier leaves the pipeline unbuilt and its ports as they
\* were; what else it registered (the drop port, the objects of the spec) makes a
\* second build fail or not, which the nondeterminism here allows either way.
Build ==
    /\ swx = "created" /\ ~ctl
    /\ PortsFit
    /\ \/ swx' = "built" /\ ctl' = TRUE
       \/ swx' = "freed" /\ ctl' = FALSE       \* rte_swx_ctl_pipeline_create fails
    /\ UNCHANGED <<vars, ports_in, threadVars>>

----------------------------------------------------------------------------
(* The pipeline is used.                                                   *)

\* Mutant: the commands look the pipeline up and do not look at p->ctl.
MutUsable == swx # None

\* What the commands on tables and threads ask of a pipeline.
Usable == swx # None /\ ctl

\* The CLI executes a command on the tables.
TableCommand ==
    /\ ctlPc = "idle" /\ Usable
    /\ \/ Command
       \/ Commit /\ (MayCommitDisabled \/ enabled[PIPELINE0] \/ \A w \in Thread : held[w] = None)
       \/ CommitStep
    /\ UNCHANGED <<lifeVars, threadVars>>

\* The wait of a commit is long enough for the packets of a pipeline that
\* runs; those of a pipeline that does not run stay where they are.
Wait ==
    /\ enabled[PIPELINE0] => Drained
    /\ Slept
    /\ UNCHANGED <<lifeVars, threadVars>>

\* The CLI executes a command on the threads.
ThreadCommand ==
    /\ pc = "idle" /\ Usable
    /\ Control!Control
    /\ UNCHANGED <<vars, lifeVars>>

ThreadStep(t) == Control!DataPlane(t) /\ UNCHANGED <<vars, lifeVars>>

\* rte_swx_pipeline_run: a packet is received or is done.
PacketStep(t, w) ==
    /\ Control!Running(t) = PIPELINE0
    /\ Rx(w) \/ Tx(w)
    /\ UNCHANGED <<lifeVars, threadVars>>

SwitchNext ==
    \/ PipelineCreate
    \/ \E i \in 0 .. MaxPorts - 1 : PortIn(i)
    \/ Build
    \/ TableCommand
    \/ Wait
    \/ ThreadCommand
    \/ \E t \in Threads : ThreadStep(t) \/ \E w \in Thread : PacketStep(t, w)

SwitchSpec == SwitchInit /\ [][SwitchNext]_switchVars

----------------------------------------------------------------------------
(* Properties, with Implements of TableCtl: the pipeline implements        *)
(* TableSpec also when it is moved between threads.                        *)

\* Once the disable command has returned, and until the next enable command,
\* the data plane leaves the pipeline and its packets alone.
DisabledIsQuiet == [][held' # held => enabled[PIPELINE0] \/ ctlPc = "wait"]_switchVars

\* What a thread has on its list, and what it is asked to put there, is a
\* pipeline that was built and never freed: a thread does not check.
RunsBuilt ==
    \A t \in Threads :
        Control!Listed(t, PIPELINE0) \/ msgq_req[t] # <<>> => swx = "built" /\ PortsFit
=============================================================================
