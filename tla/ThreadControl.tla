---------------------------- MODULE ThreadControl ----------------------------
(***************************************************************************)
(* The control thread and the data plane threads of the pipeline           *)
(* application (thread.c).                                                 *)
(*                                                                         *)
(* A data plane thread runs the pipelines of its list one after the other, *)
(* forever, and now and then polls its request queue between two passes.   *)
(* The control thread executes one CLI command at a time: to map a         *)
(* pipeline to a thread, or to unmap it, it puts a request into the        *)
(* thread's queue and spins until the response is there.  It keeps its own *)
(* record of the mapping (enabled, thread_id), which no data plane thread  *)
(* reads; the data plane keeps the lists, which the control thread does    *)
(* not read.  Only the messages hold the two together.                     *)
(*                                                                         *)
(* Every lcore is running before the first command (main launches the      *)
(* threads and then runs the script) and thread_main does not return: the  *)
(* branches of the two commands for a thread that is not running are never *)
(* taken.  The CLI refuses pipelines that were not built.                  *)
(***************************************************************************)
EXTENDS Integers, Sequences

CONSTANTS
    Threads,                \* the lcores that run thread_main
    Pipelines,              \* the pipelines that were built (p->ctl is set)
    THREAD_PIPELINES_MAX,   \* length of a thread's list
    THREAD_MSGQ_SIZE,       \* size of a message ring; one entry stays unused
    MayReenable,            \* bound: what is enabled again while it is enabled
    NULL

ASSUME MaxAssumption  == THREAD_PIPELINES_MAX \in Nat \ {0}
ASSUME RingAssumption == THREAD_MSGQ_SIZE \in Nat /\ THREAD_MSGQ_SIZE >= 2
ASSUME BoundAssumption == MayReenable \subseteq Pipelines
ASSUME NullAssumption == NULL \notin Pipelines /\ NULL \notin Threads

VARIABLES
    enabled, thread_id,         \* control thread: struct pipeline
    ctlPc, ctlReq, ctlThread,   \* control thread: the command it waits for
    msgq_req, msgq_rsp,         \* the two rings of every thread
    p, pipeline_data,           \* data plane: the two arrays of the list
    n_pipelines,                \* data plane: the length of the list
    pc, j, rsp,                 \* data plane: where thread_main is
    reenabled                   \* history: the pipelines that the operator enabled
                                \* while they were enabled

ctlVars  == <<enabled, thread_id, ctlPc, ctlReq, ctlThread, reenabled>>
ringVars == <<msgq_req, msgq_rsp>>
listVars == <<p, pipeline_data, n_pipelines>>
runVars  == <<pc, j, rsp>>
vars     == <<ctlVars, ringVars, listVars, runVars>>

Slots    == 0 .. THREAD_PIPELINES_MAX - 1
Requests == [type : {"enable", "disable"}, p : Pipelines]
Statuses == {0, -1}

RingSpace(q) == Len(q) < THREAD_MSGQ_SIZE - 1

Init ==
    /\ enabled = [q \in Pipelines |-> FALSE]
    /\ thread_id = [q \in Pipelines |-> NULL]
    /\ ctlPc = "idle" /\ ctlReq = NULL /\ ctlThread = NULL
    /\ msgq_req = [t \in Threads |-> <<>>]
    /\ msgq_rsp = [t \in Threads |-> <<>>]
    /\ p = [t \in Threads |-> [i \in Slots |-> NULL]]
    /\ pipeline_data = [t \in Threads |-> [i \in Slots |-> NULL]]
    /\ n_pipelines = [t \in Threads |-> 0]
    /\ pc = [t \in Threads |-> "run"]
    /\ j = [t \in Threads |-> 0]
    /\ rsp = [t \in Threads |-> NULL]
    /\ reenabled = {}

-----------------------------------------------------------------------------
(***************************************************************************)
(* Mutants: bugs this code could have had, each of which a property below  *)
(* must detect.  No definition of the specification uses them.             *)
(***************************************************************************)
MutHasRoom(n)         == n <= THREAD_PIPELINES_MAX  \* off by one in the handler's test
MutAccepted(status)   == TRUE                       \* the response is not looked at
MutMapped(t, q)       == enabled[q]                 \* the thread is not compared
MutMoveLast(a, i, n)  == a                          \* the last entry is not moved

\* The handler waits for room in a full list.
MutMsgHandleEnable(t, q) ==
    /\ n_pipelines[t] < THREAD_PIPELINES_MAX
    /\ LET n == n_pipelines[t]
       IN  /\ p' = [p EXCEPT ![t][n] = q]
           /\ pipeline_data' = [pipeline_data EXCEPT ![t][n] = q]
           /\ n_pipelines' = [n_pipelines EXCEPT ![t] = n + 1]
           /\ rsp' = [rsp EXCEPT ![t] = 0]

\* Only the array for the timers gets the new pipeline.
MutEnableOneArray(t, q) ==
    LET n == n_pipelines[t]
    IN  \/ /\ n < THREAD_PIPELINES_MAX
           /\ pipeline_data' = [pipeline_data EXCEPT ![t][n] = q]
           /\ n_pipelines' = [n_pipelines EXCEPT ![t] = n + 1]
           /\ rsp' = [rsp EXCEPT ![t] = 0]
           /\ UNCHANGED p
        \/ /\ n >= THREAD_PIPELINES_MAX
           /\ rsp' = [rsp EXCEPT ![t] = -1]
           /\ UNCHANGED listVars

\* The search for the pipeline to disable stops one entry too early.
MutFirst(t, q, i) == /\ i < n_pipelines[t] - 1
                     /\ pipeline_data[t][i] = q
                     /\ \A k \in Slots : k < i => pipeline_data[t][k] # q

\* The commands do not wait for the response.
MutCmdComplete ==
    /\ ctlPc = "wait"
    /\ enabled' = [enabled EXCEPT ![ctlReq.p] = ctlReq.type = "enable"]
    /\ thread_id' = [thread_id EXCEPT ![ctlReq.p] = ctlThread]
    /\ ctlPc' = "idle" /\ ctlReq' = NULL /\ ctlThread' = NULL
    /\ UNCHANGED <<reenabled, ringVars, listVars, runVars>>

-----------------------------------------------------------------------------
(***************************************************************************)
(* The control thread.  A command that fails a check returns at once and   *)
(* changes nothing.                                                        *)
(***************************************************************************)
Accepted(status) == status = 0

\* thread_msg_send_recv, the first half.
Send(t, req) ==
    /\ RingSpace(msgq_req[t])
    /\ msgq_req' = [msgq_req EXCEPT ![t] = Append(@, req)]
    /\ ctlPc' = "wait" /\ ctlReq' = req /\ ctlThread' = t

\* "thread t pipeline q enable": the code does not ask whether q is enabled
\* already; a careful operator does.
CmdEnable(t, q) ==
    /\ ctlPc = "idle"
    /\ Send(t, [type |-> "enable", p |-> q])
    /\ enabled[q] => q \in MayReenable
    /\ reenabled' = IF enabled[q] THEN reenabled \cup {q} ELSE reenabled
    /\ UNCHANGED <<enabled, thread_id, msgq_rsp, listVars, runVars>>

\* "thread t pipeline q disable": refused unless the control thread's own
\* record says that q runs on t.
Mapped(t, q) == enabled[q] /\ thread_id[q] = t

CmdDisable(t, q) ==
    /\ ctlPc = "idle"
    /\ Mapped(t, q)
    /\ Send(t, [type |-> "disable", p |-> q])
    /\ UNCHANGED <<reenabled, enabled, thread_id, msgq_rsp, listVars, runVars>>

\* thread_msg_send_recv, the second half, and the completion of the request.
CmdComplete ==
    /\ ctlPc = "wait"
    /\ msgq_rsp[ctlThread] # <<>>
    /\ msgq_rsp' = [msgq_rsp EXCEPT ![ctlThread] = Tail(@)]
    /\ LET ok == Accepted(Head(msgq_rsp[ctlThread]))
           on == ctlReq.type = "enable"
       IN  /\ enabled' = IF ok THEN [enabled EXCEPT ![ctlReq.p] = on] ELSE enabled
           /\ thread_id' = IF ok /\ on THEN [thread_id EXCEPT ![ctlReq.p] = ctlThread]
                           ELSE thread_id
    /\ ctlPc' = "idle" /\ ctlReq' = NULL /\ ctlThread' = NULL
    /\ UNCHANGED <<reenabled, msgq_req, listVars, runVars>>

-----------------------------------------------------------------------------
(***************************************************************************)
(* A data plane thread: the dispatch loop of thread_main.                  *)
(***************************************************************************)

\* rte_swx_pipeline_run(t->p[j]) returns.
RunPipeline(t) ==
    /\ pc[t] = "run"
    /\ j[t] < n_pipelines[t]
    /\ j' = [j EXCEPT ![t] = @ + 1]
    /\ UNCHANGED <<ctlVars, ringVars, listVars, pc, rsp>>

\* The end of a pass that does not poll: 15 of 16 passes, and all of them
\* until the timer expires.
EndPass(t) ==
    /\ pc[t] = "run"
    /\ j[t] >= n_pipelines[t]
    /\ j' = [j EXCEPT ![t] = 0]
    /\ UNCHANGED <<ctlVars, ringVars, listVars, pc, rsp>>

\* The end of a pass that polls.
Poll(t) ==
    /\ pc[t] = "run"
    /\ j[t] >= n_pipelines[t]
    /\ pc' = [pc EXCEPT ![t] = "msg"]
    /\ UNCHANGED <<ctlVars, ringVars, listVars, j, rsp>>

\* thread_msg_handle finds the queue empty.
MsgNone(t) ==
    /\ pc[t] = "msg"
    /\ msgq_req[t] = <<>>
    /\ pc' = [pc EXCEPT ![t] = "run"]
    /\ j' = [j EXCEPT ![t] = 0]
    /\ UNCHANGED <<ctlVars, ringVars, listVars, rsp>>

\* thread_msg_handle_pipeline_enable appends to both arrays.
HasRoom(n) == n < THREAD_PIPELINES_MAX

MsgHandleEnable(t, q) ==
    LET n == n_pipelines[t]
    IN  \/ /\ HasRoom(n)
           /\ p' = [p EXCEPT ![t][n] = q]
           /\ pipeline_data' = [pipeline_data EXCEPT ![t][n] = q]
           /\ n_pipelines' = [n_pipelines EXCEPT ![t] = n + 1]
           /\ rsp' = [rsp EXCEPT ![t] = 0]
        \/ /\ ~HasRoom(n)
           /\ rsp' = [rsp EXCEPT ![t] = -1]
           /\ UNCHANGED listVars

\* thread_msg_handle_pipeline_disable removes the first entry with pipeline
\* q: the last entry takes its place in both arrays.
MoveLast(a, i, n) == [a EXCEPT ![i] = a[n - 1]]
First(t, q, i)    == /\ i < n_pipelines[t]
                     /\ pipeline_data[t][i] = q
                     /\ \A k \in Slots : k < i => pipeline_data[t][k] # q

MsgHandleDisable(t, q) ==
    LET n == n_pipelines[t]
    IN  \/ \E i \in Slots :
             /\ First(t, q, i)
             /\ p' = [p EXCEPT ![t] = MoveLast(@, i, n)]
             /\ pipeline_data' = [pipeline_data EXCEPT ![t] = MoveLast(@, i, n)]
             /\ n_pipelines' = [n_pipelines EXCEPT ![t] = n - 1]
             /\ rsp' = [rsp EXCEPT ![t] = 0]
        \/ /\ ~\E i \in Slots : First(t, q, i)
           /\ rsp' = [rsp EXCEPT ![t] = 0]
           /\ UNCHANGED listVars

\* One round of thread_msg_handle: dequeue, handle.  The response is in the
\* memory of the request.
MsgHandle(t) ==
    /\ pc[t] = "msg"
    /\ msgq_req[t] # <<>>
    /\ LET req == Head(msgq_req[t])
       IN  \/ req.type = "enable"  /\ MsgHandleEnable(t, req.p)
           \/ req.type = "disable" /\ MsgHandleDisable(t, req.p)
    /\ msgq_req' = [msgq_req EXCEPT ![t] = Tail(@)]
    /\ pc' = [pc EXCEPT ![t] = "send"]
    /\ UNCHANGED <<ctlVars, msgq_rsp, j>>

\* thread_msg_send.
MsgSend(t) ==
    /\ pc[t] = "send"
    /\ RingSpace(msgq_rsp[t])
    /\ msgq_rsp' = [msgq_rsp EXCEPT ![t] = Append(@, rsp[t])]
    /\ rsp' = [rsp EXCEPT ![t] = NULL]
    /\ pc' = [pc EXCEPT ![t] = "msg"]
    /\ UNCHANGED <<ctlVars, msgq_req, listVars, j>>

-----------------------------------------------------------------------------
DataPlane(t) == \/ RunPipeline(t) \/ EndPass(t) \/ Poll(t)
                \/ MsgNone(t) \/ MsgHandle(t) \/ MsgSend(t)
Control      == \/ \E t \in Threads, q \in Pipelines : CmdEnable(t, q) \/ CmdDisable(t, q)
                \/ CmdComplete
Next         == Control \/ \E t \in Threads : DataPlane(t)

Spec == Init /\ [][Next]_vars

\* Every lcore runs its own endless loop.  The timer expires again and again
\* and every 16th pass looks at it: a thread that ends a pass infinitely often
\* polls infinitely often.  The operator need not enter any command.
Fairness == /\ WF_vars(CmdComplete)
            /\ \A t \in Threads :
                 /\ WF_vars(RunPipeline(t)) /\ SF_vars(Poll(t))
                 /\ WF_vars(MsgNone(t) \/ MsgHandle(t) \/ MsgSend(t))
LiveSpec == Spec /\ Fairness

-----------------------------------------------------------------------------
(***************************************************************************)
(* Properties.                                                             *)
(***************************************************************************)

\* Thread t has pipeline q in its list.
Listed(t, q) == \E i \in Slots : i < n_pipelines[t] /\ pipeline_data[t][i] = q

\* The pipeline that thread t is executing, or NULL between two passes.
Running(t) == IF pc[t] = "run" /\ j[t] < n_pipelines[t] THEN p[t][j[t]] ELSE NULL

\* The types of the variables, without the history.
Types ==
    /\ enabled \in [Pipelines -> BOOLEAN]
    /\ thread_id \in [Pipelines -> Threads \cup {NULL}]
    /\ ctlPc \in {"idle", "wait"}
    /\ ctlReq \in Requests \cup {NULL}
    /\ ctlThread \in Threads \cup {NULL}
    /\ msgq_req \in [Threads -> Seq(Requests)]
    /\ msgq_rsp \in [Threads -> Seq(Statuses)]
    /\ p \in [Threads -> [Slots -> Pipelines \cup {NULL}]]
    /\ pipeline_data \in [Threads -> [Slots -> Pipelines \cup {NULL}]]
    /\ n_pipelines \in [Threads -> 0 .. THREAD_PIPELINES_MAX]
    /\ pc \in [Threads -> {"run", "msg", "send"}]
    /\ j \in [Threads -> 0 .. THREAD_PIPELINES_MAX]
    /\ rsp \in [Threads -> Statuses \cup {NULL}]

\* Every variable keeps its type; in particular the lists of the threads do
\* not grow beyond their arrays and the rings never hold more messages than
\* thread_msg_send has room for.
TypeOK ==
    /\ Types /\ reenabled \subseteq Pipelines
    /\ \A t \in Threads : /\ Len(msgq_req[t]) <= THREAD_MSGQ_SIZE - 1
                          /\ Len(msgq_rsp[t]) <= THREAD_MSGQ_SIZE - 1

\* The array that thread_main runs and the array in which the disable
\* handler searches hold the same pipelines in the same slots.
ArraysAgree ==
    \A t \in Threads, i \in Slots :
        i < n_pipelines[t] => p[t][i] = pipeline_data[t][i] /\ p[t][i] # NULL

\* "should not get here" at the end of thread_msg_handle_pipeline_disable:
\* a request to disable is for a pipeline that the thread has in its list,
\* although the two sides never look at each other's records.
DisableFindsPipeline ==
    \A t \in Threads :
        (msgq_req[t] # <<>> /\ Head(msgq_req[t]).type = "disable")
            => Listed(t, Head(msgq_req[t]).p)

\* What the control thread believes is enabled is on the list of the thread
\* it names, unless it is waiting for the thread to take it off.
EnabledIsListed ==
    \A q \in Pipelines :
        (enabled[q] /\ ctlPc = "idle") => thread_id[q] \in Threads /\ Listed(thread_id[q], q)

\* Between two commands the control thread's record is exact for every
\* pipeline that the operator never enabled while it was enabled: the pipeline
\* is on the list of the thread it is mapped to, and on no other, whatever was
\* done with the other pipelines and however many requests were refused.
ControlViewExact ==
    ctlPc = "idle" =>
        \A t \in Threads, q \in Pipelines \ reenabled : Listed(t, q) <=> Mapped(t, q)

\* "Each pipeline is mapped to a specific application thread": no two threads
\* ever execute the same pipeline, whose state is not protected by any lock,
\* unless the operator enabled that pipeline while it was enabled.
RunExclusive ==
    \A t, u \in Threads :
        (t # u /\ Running(t) # NULL /\ Running(t) = Running(u)) => Running(t) \in reenabled

\* Every command of the operator returns: the control thread does not spin
\* for a response for ever.
CommandReturns == ctlPc = "wait" ~> ctlPc = "idle"

\* An enabled pipeline gets its turn on the thread it is mapped to, again and
\* again, whatever else is enabled and disabled there, provided the thread
\* returns to its passes: thread_msg_handle loops until the queue is empty, so
\* an operator who never pauses between commands keeps it from all of them.
EnabledRuns ==
    \A t \in Threads, q \in Pipelines :
        ([]<>(pc[t] = "run")) =>
            (Mapped(t, q) ~> (Running(t) = q \/ ~Mapped(t, q)))
=============================================================================
