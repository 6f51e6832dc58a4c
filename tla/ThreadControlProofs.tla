------------------------- MODULE ThreadControlProofs -------------------------
(***************************************************************************)
(* Proofs about ThreadControl, for any number of threads, pipelines and    *)
(* list slots.                                                             *)
(***************************************************************************)
EXTENDS ThreadControl, TLAPS

-----------------------------------------------------------------------------
(***************************************************************************)
(* The inductive invariant.                                                *)
(***************************************************************************)

\* Where the request of the control thread, or its response, can be.
Quiet(t)   == msgq_req[t] = <<>> /\ msgq_rsp[t] = <<>> /\ pc[t] # "send"
Asked(t)   == msgq_req[t] = <<ctlReq>> /\ msgq_rsp[t] = <<>> /\ pc[t] # "send"
Handled(t) == /\ msgq_req[t] = <<>> /\ msgq_rsp[t] = <<>>
              /\ pc[t] = "send" /\ rsp[t] \in Statuses
Replied(t) == /\ msgq_req[t] = <<>> /\ pc[t] # "send"
              /\ \E s \in Statuses : msgq_rsp[t] = <<s>>

\* At most one message is under way, to or from the thread that the control
\* thread waits for.
Protocol ==
    /\ ctlPc = "idle" => \A t \in Threads : Quiet(t)
    /\ ctlPc = "wait" =>
         /\ ctlReq \in Requests /\ ctlThread \in Threads
         /\ \A t \in Threads : t # ctlThread => Quiet(t)
         /\ Asked(ctlThread) \/ Handled(ctlThread) \/ Replied(ctlThread)

\* The request has been handled, and with which status.
Done     == ctlPc = "wait" /\ msgq_req[ctlThread] = <<>>
Reply    == IF pc[ctlThread] = "send" THEN rsp[ctlThread] ELSE Head(msgq_rsp[ctlThread])
Turned(on) == Done /\ ctlReq.type = on /\ Reply = 0

\* The control thread's record and the lists, while a request is under way.
Mapping ==
    /\ \A q \in Pipelines : enabled[q] => thread_id[q] \in Threads
    /\ ctlPc = "wait" /\ ctlReq.type = "disable" => Mapped(ctlThread, ctlReq.p)
    /\ Done /\ ctlReq.type = "disable" => Reply = 0
    /\ \A q \in Pipelines :
         enabled[q] /\ ~(Turned("disable") /\ ctlReq.p = q) => Listed(thread_id[q], q)
    /\ Turned("enable") => Listed(ctlThread, ctlReq.p)

IndInv == Types /\ ArraysAgree /\ Protocol /\ Mapping

\* Which pipelines are on which list, those apart that were enabled while
\* they were enabled.
Expected(t, q) ==
    IF Done /\ ctlReq.p = q /\ Reply = 0 THEN ctlReq.type = "enable" /\ t = ctlThread
    ELSE Mapped(t, q)

NoDuplicates ==
    \A t \in Threads : \A i, k \in Slots :
        (i < n_pipelines[t] /\ k < n_pipelines[t] /\ i # k
           /\ pipeline_data[t][i] \notin reenabled)
            => pipeline_data[t][i] # pipeline_data[t][k]

Exact ==
    /\ NoDuplicates
    /\ \A t \in Threads, q \in Pipelines \ reenabled : Listed(t, q) => Expected(t, q)
    /\ ctlPc = "wait" /\ ctlReq.type = "enable" =>
         ~enabled[ctlReq.p] \/ ctlReq.p \in reenabled

CarefulInv == reenabled \subseteq Pipelines /\ Exact

-----------------------------------------------------------------------------
(***************************************************************************)
(* Facts about single messages.                                            *)
(***************************************************************************)

\* Facts about rings that hold one message.
LEMMA Singletons ==
    ASSUME NEW x
    PROVE  /\ Append(<<>>, x) = <<x>> /\ Head(<<x>>) = x /\ Tail(<<x>>) = <<>>
           /\ <<x>> # <<>>
OBVIOUS

\* Putting a message into an empty ring.
LEMMA SingletonSeq ==
    ASSUME NEW S, NEW x \in S
    PROVE  <<x>> \in Seq(S) /\ <<>> \in Seq(S)
OBVIOUS

\* The slots of a list are numbered from 0 to THREAD_PIPELINES_MAX - 1.
LEMMA SlotFacts == /\ THREAD_PIPELINES_MAX \in Nat
                   /\ THREAD_PIPELINES_MAX >= 1
                   /\ Slots = 0 .. THREAD_PIPELINES_MAX - 1
                   /\ Slots \subseteq Int
BY MaxAssumption DEF Slots

\* What thread_init sets up satisfies the invariant.
LEMMA IndInit == Init => IndInv
<1> SUFFICES ASSUME Init PROVE IndInv
  OBVIOUS
<1>1. Types
  BY SlotFacts DEF Init, Types
<1>2. ArraysAgree
  BY SlotFacts DEF Init, ArraysAgree
<1>3. Protocol
  BY DEF Init, Protocol, Quiet
<1>4. Mapping
  BY DEF Init, Mapping, Done, Turned
<1>5. QED
  BY <1>1, <1>2, <1>3, <1>4 DEF IndInv

-----------------------------------------------------------------------------
(***************************************************************************)
(* The control thread sends a request.                                     *)
(***************************************************************************)

\* Sending a request while no command is under way preserves the invariant.
LEMMA SendInd ==
    ASSUME IndInv, NEW t \in Threads, NEW req \in Requests,
           ctlPc = "idle", Send(t, req),
           req.type = "disable" => Mapped(t, req.p),
           UNCHANGED <<enabled, thread_id, msgq_rsp, listVars, runVars>>
    PROVE  IndInv'
<1>1. /\ msgq_req' = [msgq_req EXCEPT ![t] = Append(@, req)]
      /\ ctlPc' = "wait" /\ ctlReq' = req /\ ctlThread' = t
      /\ UNCHANGED <<enabled, thread_id, msgq_rsp, p, pipeline_data, n_pipelines, pc, j, rsp>>
  BY DEF Send, listVars, runVars
<1>2. \A u \in Threads : Quiet(u)
  BY DEF IndInv, Protocol
<1>3. msgq_req \in [Threads -> Seq(Requests)]
  BY DEF IndInv, Types
<1>4. /\ msgq_req'[t] = <<req>>
      /\ \A u \in Threads : u # t => msgq_req'[u] = <<>>
      /\ msgq_req' \in [Threads -> Seq(Requests)]
  BY <1>1, <1>2, <1>3, Singletons, SingletonSeq DEF Quiet
<1>5. Types'
  BY <1>1, <1>4 DEF IndInv, Types
<1>6. ArraysAgree'
  BY <1>1 DEF IndInv, ArraysAgree
<1>7. Protocol'
  BY <1>1, <1>2, <1>4 DEF Protocol, Quiet, Asked
<1>8. ~Done' /\ ~Done
  BY <1>1, <1>4, Singletons DEF Done
<1>9. \A q \in Pipelines : enabled[q] => thread_id[q] \in Threads /\ Listed(thread_id[q], q)
  BY <1>8 DEF IndInv, Mapping, Turned
<1>10. Mapping'
  BY <1>1, <1>8, <1>9 DEF Mapping, Turned, Mapped, Listed
<1>11. QED
  BY <1>5, <1>6, <1>7, <1>10 DEF IndInv

\* The enable command, up to its wait, preserves the invariant.
LEMMA CmdEnableInd ==
    ASSUME IndInv, NEW t \in Threads, NEW q \in Pipelines, CmdEnable(t, q)
    PROVE  IndInv'
<1> DEFINE req == [type |-> "enable", p |-> q]
<1>1. req \in Requests /\ req.type # "disable"
  BY DEF Requests
<1>2. ctlPc = "idle" /\ Send(t, req) /\ UNCHANGED <<enabled, thread_id, msgq_rsp, listVars, runVars>>
  BY DEF CmdEnable
<1> HIDE DEF req
<1>3. QED
  BY <1>1, <1>2, SendInd

\* The disable command, up to its wait, preserves the invariant.
LEMMA CmdDisableInd ==
    ASSUME IndInv, NEW t \in Threads, NEW q \in Pipelines, CmdDisable(t, q)
    PROVE  IndInv'
<1> DEFINE req == [type |-> "disable", p |-> q]
<1>1. req \in Requests /\ req.p = q
  BY DEF Requests
<1>2. /\ ctlPc = "idle" /\ Send(t, req) /\ Mapped(t, q)
      /\ UNCHANGED <<enabled, thread_id, msgq_rsp, listVars, runVars>>
  BY DEF CmdDisable
<1> HIDE DEF req
<1>3. QED
  BY <1>1, <1>2, SendInd

-----------------------------------------------------------------------------
(***************************************************************************)
(* The control thread takes the response.                                  *)
(***************************************************************************)

\* Taking the response and recording the result preserves the invariant.
LEMMA CmdCompleteInd ==
    ASSUME IndInv, CmdComplete
    PROVE  IndInv'
<1> DEFINE T == ctlThread
           q == ctlReq.p
<1>1. /\ ctlPc = "wait" /\ msgq_rsp[T] # <<>>
      /\ msgq_rsp' = [msgq_rsp EXCEPT ![T] = Tail(@)]
      /\ ctlPc' = "idle" /\ ctlReq' = NULL /\ ctlThread' = NULL
      /\ UNCHANGED <<msgq_req, p, pipeline_data, n_pipelines, pc, j, rsp>>
  BY DEF CmdComplete, listVars, runVars
<1>2. /\ T \in Threads /\ ctlReq \in Requests /\ q \in Pipelines
      /\ ctlReq.type \in {"enable", "disable"}
      /\ \A t \in Threads : t # T => Quiet(t)
      /\ Replied(T)
  BY <1>1 DEF IndInv, Protocol, Asked, Handled, Requests
<1>3. PICK st \in Statuses : msgq_rsp[T] = <<st>>
  BY <1>2 DEF Replied
<1>4. /\ msgq_rsp'[T] = <<>>
      /\ \A t \in Threads : t # T => msgq_rsp'[t] = <<>>
      /\ msgq_rsp' \in [Threads -> Seq(Statuses)]
  BY <1>1, <1>2, <1>3, Singletons, SingletonSeq DEF IndInv, Types, Quiet
<1>5. Reply = st /\ Done
  BY <1>1, <1>2, <1>3, Singletons DEF Reply, Replied, Done
<1>6. CASE st # 0
  <2>1. UNCHANGED <<enabled, thread_id>>
    BY <1>3, <1>6, Singletons DEF CmdComplete, Accepted
  <2>2. Types'
    BY <1>1, <1>4, <2>1 DEF IndInv, Types
  <2>3. ArraysAgree'
    BY <1>1 DEF IndInv, ArraysAgree
  <2>4. Protocol'
    BY <1>1, <1>2, <1>4 DEF Protocol, Quiet, Replied
  <2>5. \A r \in Pipelines : enabled[r] => thread_id[r] \in Threads /\ Listed(thread_id[r], r)
    BY <1>5, <1>6 DEF IndInv, Mapping, Turned
  <2>6. Mapping'
    BY <1>1, <2>1, <2>5 DEF Mapping, Done, Turned, Listed
  <2>7. QED
    BY <2>2, <2>3, <2>4, <2>6 DEF IndInv
<1>7. CASE st = 0 /\ ctlReq.type = "enable"
  <2>1. /\ enabled' = [enabled EXCEPT ![q] = TRUE]
        /\ thread_id' = [thread_id EXCEPT ![q] = T]
    BY <1>3, <1>7, Singletons DEF CmdComplete, Accepted
  <2>2. Types'
    BY <1>1, <1>2, <1>4, <2>1 DEF IndInv, Types
  <2>3. ArraysAgree'
    BY <1>1 DEF IndInv, ArraysAgree
  <2>4. Protocol'
    BY <1>1, <1>2, <1>4 DEF Protocol, Quiet, Replied
  <2>5. Listed(T, q)
    BY <1>5, <1>7 DEF IndInv, Mapping, Turned
  <2>6. \A r \in Pipelines : enabled[r] => thread_id[r] \in Threads /\ Listed(thread_id[r], r)
    BY <1>5, <1>7 DEF IndInv, Mapping, Turned
  <2>7. \A r \in Pipelines : enabled'[r] => thread_id'[r] \in Threads /\ Listed(thread_id'[r], r)
    BY <1>2, <2>1, <2>5, <2>6 DEF IndInv, Types
  <2>8. Mapping'
    BY <1>1, <2>7 DEF Mapping, Done, Turned, Listed
  <2>9. QED
    BY <2>2, <2>3, <2>4, <2>8 DEF IndInv
<1>8. CASE st = 0 /\ ctlReq.type = "disable"
  <2>1. enabled' = [enabled EXCEPT ![q] = FALSE] /\ thread_id' = thread_id
    BY <1>3, <1>8, Singletons DEF CmdComplete, Accepted
  <2>2. Types'
    BY <1>1, <1>2, <1>4, <2>1 DEF IndInv, Types
  <2>3. ArraysAgree'
    BY <1>1 DEF IndInv, ArraysAgree
  <2>4. Protocol'
    BY <1>1, <1>2, <1>4 DEF Protocol, Quiet, Replied
  <2>5. \A r \in Pipelines :
          enabled[r] /\ r # q => thread_id[r] \in Threads /\ Listed(thread_id[r], r)
    BY DEF IndInv, Mapping
  <2>6. \A r \in Pipelines : enabled'[r] => thread_id'[r] \in Threads /\ Listed(thread_id'[r], r)
    BY <1>2, <2>1, <2>5 DEF IndInv, Types
  <2>7. Mapping'
    BY <1>1, <2>6 DEF Mapping, Done, Turned, Listed
  <2>8. QED
    BY <2>2, <2>3, <2>4, <2>7 DEF IndInv
<1>9. QED
  BY <1>2, <1>6, <1>7, <1>8

-----------------------------------------------------------------------------
(***************************************************************************)
(* The data plane between two messages: nothing but pc and j changes.      *)
(***************************************************************************)

\* A step of a pass, which moves only the thread's own position, preserves the invariant.
LEMMA PassInd ==
    ASSUME IndInv, NEW t \in Threads, pc[t] # "send",
           NEW x \in {"run", "msg"}, pc' = [pc EXCEPT ![t] = x],
           j' \in [Threads -> 0 .. THREAD_PIPELINES_MAX],
           UNCHANGED <<ctlVars, ringVars, listVars, rsp>>
    PROVE  IndInv'
<1>1. UNCHANGED <<enabled, thread_id, ctlPc, ctlReq, ctlThread, msgq_req, msgq_rsp,
                  p, pipeline_data, n_pipelines, rsp>>
  BY DEF ctlVars, ringVars, listVars
<1>2. /\ pc' \in [Threads -> {"run", "msg", "send"}]
      /\ \A u \in Threads : pc'[u] = "send" <=> pc[u] = "send"
  BY DEF IndInv, Types
<1>3. Types'
  BY <1>1, <1>2 DEF IndInv, Types
<1>4. ArraysAgree'
  BY <1>1 DEF IndInv, ArraysAgree
<1>5. Protocol'
  BY <1>1, <1>2 DEF IndInv, Protocol, Quiet, Asked, Handled, Replied
<1>6. (Done' <=> Done) /\ (Done => Reply' = Reply)
  BY <1>1, <1>2 DEF IndInv, Protocol, Done, Reply
<1>7. Mapping'
  BY <1>1, <1>6 DEF IndInv, Mapping, Turned, Mapped, Listed
<1>8. QED
  BY <1>3, <1>4, <1>5, <1>7 DEF IndInv

\* Running a pipeline of the list preserves the invariant.
LEMMA RunPipelineInd == ASSUME IndInv, NEW t \in Threads, RunPipeline(t) PROVE IndInv'
<1>1. /\ pc[t] = "run" /\ pc' = [pc EXCEPT ![t] = "run"]
      /\ UNCHANGED <<ctlVars, ringVars, listVars, rsp>>
  BY DEF RunPipeline, IndInv, Types
<1>2. j' \in [Threads -> 0 .. THREAD_PIPELINES_MAX]
  <2>1. j[t] < n_pipelines[t] /\ j[t] \in Nat /\ n_pipelines[t] \in 0 .. THREAD_PIPELINES_MAX
    BY DEF RunPipeline, IndInv, Types
  <2>2. j[t] + 1 \in 0 .. THREAD_PIPELINES_MAX
    BY <2>1, SlotFacts
  <2>3. QED
    BY <2>2 DEF RunPipeline, IndInv, Types
<1>3. QED
  BY <1>1, <1>2, PassInd

\* The end of a pass without a poll preserves the invariant.
LEMMA EndPassInd == ASSUME IndInv, NEW t \in Threads, EndPass(t) PROVE IndInv'
<1>1. /\ pc[t] = "run" /\ pc' = [pc EXCEPT ![t] = "run"]
      /\ UNCHANGED <<ctlVars, ringVars, listVars, rsp>>
  BY DEF EndPass, IndInv, Types
<1>2. j' \in [Threads -> 0 .. THREAD_PIPELINES_MAX]
  BY SlotFacts DEF EndPass, IndInv, Types
<1>3. QED
  BY <1>1, <1>2, PassInd

\* The end of a pass with a poll preserves the invariant.
LEMMA PollInd == ASSUME IndInv, NEW t \in Threads, Poll(t) PROVE IndInv'
BY PassInd DEF Poll, IndInv, Types

\* Finding the request queue empty preserves the invariant.
LEMMA MsgNoneInd == ASSUME IndInv, NEW t \in Threads, MsgNone(t) PROVE IndInv'
<1>1. /\ pc[t] = "msg" /\ pc' = [pc EXCEPT ![t] = "run"]
      /\ UNCHANGED <<ctlVars, ringVars, listVars, rsp>>
  BY DEF MsgNone
<1>2. j' \in [Threads -> 0 .. THREAD_PIPELINES_MAX]
  BY SlotFacts DEF MsgNone, IndInv, Types
<1>3. QED
  BY <1>1, <1>2, PassInd

-----------------------------------------------------------------------------
(***************************************************************************)
(* The message handlers.                                                   *)
(***************************************************************************)

\* What the handlers do to the lists.
LEMMA AppendToList ==
    ASSUME Types, ArraysAgree, NEW t \in Threads, NEW q \in Pipelines,
           n_pipelines[t] < THREAD_PIPELINES_MAX,
           p' = [p EXCEPT ![t][n_pipelines[t]] = q],
           pipeline_data' = [pipeline_data EXCEPT ![t][n_pipelines[t]] = q],
           n_pipelines' = [n_pipelines EXCEPT ![t] = n_pipelines[t] + 1]
    PROVE  /\ p' \in [Threads -> [Slots -> Pipelines \cup {NULL}]]
           /\ pipeline_data' \in [Threads -> [Slots -> Pipelines \cup {NULL}]]
           /\ n_pipelines' \in [Threads -> 0 .. THREAD_PIPELINES_MAX]
           /\ ArraysAgree'
           /\ Listed(t, q)'
           /\ \A u \in Threads, r \in Pipelines :
                 Listed(u, r)' <=> Listed(u, r) \/ (u = t /\ r = q)
<1> DEFINE n == n_pipelines[t]
<1>1. n \in Nat /\ n \in Slots
  BY SlotFacts DEF Types
<1>2. /\ p' \in [Threads -> [Slots -> Pipelines \cup {NULL}]]
      /\ pipeline_data' \in [Threads -> [Slots -> Pipelines \cup {NULL}]]
  BY <1>1 DEF Types
<1>3. n_pipelines' \in [Threads -> 0 .. THREAD_PIPELINES_MAX]
  BY <1>1, SlotFacts DEF Types
<1>4. /\ n_pipelines'[t] = n + 1
      /\ \A i \in Slots : pipeline_data'[t][i] = IF i = n THEN q ELSE pipeline_data[t][i]
      /\ \A i \in Slots : p'[t][i] = IF i = n THEN q ELSE p[t][i]
      /\ \A u \in Threads : u # t => /\ n_pipelines'[u] = n_pipelines[u]
                                    /\ pipeline_data'[u] = pipeline_data[u]
                                    /\ p'[u] = p[u]
  BY <1>1 DEF Types
<1>5. ArraysAgree'
  <2> SUFFICES ASSUME NEW u \in Threads, NEW i \in Slots, i < n_pipelines'[u]
               PROVE  p'[u][i] = pipeline_data'[u][i] /\ p'[u][i] # NULL
    BY DEF ArraysAgree
  <2>1. CASE u = t /\ i = n
    BY <2>1, <1>1, <1>4, NullAssumption
  <2>2. CASE u = t /\ i # n
    BY <2>2, <1>1, <1>4, SlotFacts DEF ArraysAgree
  <2>3. CASE u # t
    BY <2>3, <1>4 DEF ArraysAgree
  <2>4. QED
    BY <2>1, <2>2, <2>3
<1>6. Listed(t, q)'
  BY <1>1, <1>4 DEF Listed
<1>7. ASSUME NEW u \in Threads, NEW r \in Pipelines
      PROVE  Listed(u, r)' <=> Listed(u, r) \/ (u = t /\ r = q)
  <2>1. CASE u = t
    <3>1. ASSUME Listed(u, r) PROVE Listed(u, r)'
      BY <2>1, <3>1, <1>1, <1>4, SlotFacts DEF Listed
    <3>2. ASSUME Listed(u, r)' PROVE Listed(u, r) \/ r = q
      BY <2>1, <3>2, <1>1, <1>4, SlotFacts DEF Listed
    <3>3. QED
      BY <2>1, <3>1, <3>2, <1>6
  <2>2. CASE u # t
    BY <2>2, <1>4 DEF Listed
  <2>3. QED
    BY <2>1, <2>2
<1>8. QED
  BY <1>2, <1>3, <1>5, <1>6, <1>7

\* Removing an entry keeps the arrays in step and all the other pipelines listed.
LEMMA RemoveFromList ==
    ASSUME Types, ArraysAgree, NEW t \in Threads, NEW q \in Pipelines,
           NEW i \in Slots, First(t, q, i),
           p' = [p EXCEPT ![t] = MoveLast(@, i, n_pipelines[t])],
           pipeline_data' = [pipeline_data EXCEPT ![t] = MoveLast(@, i, n_pipelines[t])],
           n_pipelines' = [n_pipelines EXCEPT ![t] = n_pipelines[t] - 1]
    PROVE  /\ p' \in [Threads -> [Slots -> Pipelines \cup {NULL}]]
           /\ pipeline_data' \in [Threads -> [Slots -> Pipelines \cup {NULL}]]
           /\ n_pipelines' \in [Threads -> 0 .. THREAD_PIPELINES_MAX]
           /\ ArraysAgree'
           /\ \A u \in Threads, r \in Pipelines : Listed(u, r)' => Listed(u, r)
           /\ \A u \in Threads, r \in Pipelines :
                 Listed(u, r) /\ (u # t \/ r # q) => Listed(u, r)'
<1> DEFINE n == n_pipelines[t]
<1>1. /\ n \in Nat /\ i < n /\ n - 1 \in Slots /\ n <= THREAD_PIPELINES_MAX
      /\ pipeline_data[t][i] = q
  BY SlotFacts DEF Types, First
<1>2. /\ p' \in [Threads -> [Slots -> Pipelines \cup {NULL}]]
      /\ pipeline_data' \in [Threads -> [Slots -> Pipelines \cup {NULL}]]
  BY <1>1 DEF Types, MoveLast
<1>3. n_pipelines' \in [Threads -> 0 .. THREAD_PIPELINES_MAX]
  <2>1. n - 1 \in 0 .. THREAD_PIPELINES_MAX
    BY <1>1, SlotFacts
  <2>2. QED
    BY <2>1 DEF Types
<1>4. /\ n_pipelines'[t] = n - 1
      /\ \A k \in Slots : pipeline_data'[t][k] = pipeline_data[t][IF k = i THEN n - 1 ELSE k]
      /\ \A k \in Slots : p'[t][k] = p[t][IF k = i THEN n - 1 ELSE k]
      /\ \A u \in Threads : u # t => /\ n_pipelines'[u] = n_pipelines[u]
                                    /\ pipeline_data'[u] = pipeline_data[u]
                                    /\ p'[u] = p[u]
  BY <1>1 DEF Types, MoveLast
<1>5. ArraysAgree'
  <2> SUFFICES ASSUME NEW u \in Threads, NEW k \in Slots, k < n_pipelines'[u]
               PROVE  p'[u][k] = pipeline_data'[u][k] /\ p'[u][k] # NULL
    BY DEF ArraysAgree
  <2>1. CASE u = t
    BY <2>1, <1>1, <1>4, SlotFacts DEF ArraysAgree
  <2>2. CASE u # t
    BY <2>2, <1>4 DEF ArraysAgree
  <2>3. QED
    BY <2>1, <2>2
<1>6. ASSUME NEW u \in Threads, NEW r \in Pipelines, Listed(u, r)'
      PROVE  Listed(u, r)
  <2>1. CASE u = t
    <3>1. PICK k \in Slots : k < n - 1 /\ pipeline_data'[t][k] = r
      BY <2>1, <1>4, <1>6 DEF Listed
    <3>2. QED
      BY <2>1, <3>1, <1>1, <1>4, SlotFacts DEF Listed
  <2>2. CASE u # t
    BY <2>2, <1>4, <1>6 DEF Listed
  <2>3. QED
    BY <2>1, <2>2
<1>7. ASSUME NEW u \in Threads, NEW r \in Pipelines, Listed(u, r), u # t \/ r # q
      PROVE  Listed(u, r)'
  <2>1. CASE u = t
    <3>1. PICK k \in Slots : k < n /\ pipeline_data[t][k] = r
      BY <2>1, <1>7 DEF Listed
    <3>2. k # i
      BY <3>1, <2>1, <1>1, <1>7
    <3>3. CASE k = n - 1
      <4>1. i < n - 1 /\ pipeline_data'[t][i] = r
        BY <3>1, <3>2, <3>3, <1>1, <1>4, SlotFacts
      <4>2. QED
        BY <4>1, <2>1, <1>4 DEF Listed
    <3>4. CASE k # n - 1
      <4>1. k < n - 1 /\ pipeline_data'[t][k] = r
        BY <3>1, <3>2, <3>4, <1>1, <1>4, SlotFacts
      <4>2. QED
        BY <4>1, <2>1, <1>4 DEF Listed
    <3>5. QED
      BY <3>3, <3>4
  <2>2. CASE u # t
    BY <2>2, <1>4, <1>7 DEF Listed
  <2>3. QED
    BY <2>1, <2>2
<1>8. QED
  BY <1>2, <1>3, <1>5, <1>6, <1>7

\* A thread that finds a request has found the one the control thread waits for.
LEMMA RequestFound ==
    ASSUME IndInv, NEW t \in Threads, msgq_req[t] # <<>>
    PROVE  /\ ctlPc = "wait" /\ t = ctlThread /\ Asked(t)
           /\ Head(msgq_req[t]) = ctlReq /\ Tail(msgq_req[t]) = <<>>
           /\ ctlReq \in Requests /\ ctlReq.p \in Pipelines
           /\ ctlReq.type \in {"enable", "disable"}
<1>1. ctlPc = "wait"
  BY DEF IndInv, Types, Protocol, Quiet
<1>2. t = ctlThread /\ Asked(t) /\ ctlReq \in Requests
  BY <1>1 DEF IndInv, Protocol, Quiet, Handled, Replied
<1>3. QED
  BY <1>1, <1>2, Singletons DEF Asked, Requests

\* The part of MsgHandle that does not depend on the type of the request.
LEMMA HandledInd ==
    ASSUME IndInv, NEW t \in Threads, pc[t] = "msg", msgq_req[t] # <<>>,
           msgq_req' = [msgq_req EXCEPT ![t] = Tail(@)],
           pc' = [pc EXCEPT ![t] = "send"],
           NEW st \in Statuses, rsp' = [rsp EXCEPT ![t] = st],
           UNCHANGED <<ctlVars, msgq_rsp, j>>,
           p' \in [Threads -> [Slots -> Pipelines \cup {NULL}]],
           pipeline_data' \in [Threads -> [Slots -> Pipelines \cup {NULL}]],
           n_pipelines' \in [Threads -> 0 .. THREAD_PIPELINES_MAX]
    PROVE  Types' /\ Protocol' /\ Done' /\ Reply' = st /\ ~Done
<1>1. UNCHANGED <<enabled, thread_id, ctlPc, ctlReq, ctlThread, msgq_rsp, j>>
  BY DEF ctlVars
<1>2. /\ ctlPc = "wait" /\ t = ctlThread /\ Asked(t) /\ Tail(msgq_req[t]) = <<>>
      /\ ctlReq \in Requests
  BY RequestFound
<1>3. /\ msgq_req'[t] = <<>> /\ pc'[t] = "send" /\ rsp'[t] = st
      /\ \A u \in Threads : u # t => msgq_req'[u] = msgq_req[u] /\ pc'[u] = pc[u]
      /\ msgq_req' \in [Threads -> Seq(Requests)]
      /\ rsp' \in [Threads -> Statuses \cup {NULL}]
      /\ pc' \in [Threads -> {"run", "msg", "send"}]
  BY <1>2, SingletonSeq DEF IndInv, Types
<1>4. Types'
  BY <1>1, <1>3 DEF IndInv, Types
<1>5. Protocol'
  BY <1>1, <1>2, <1>3 DEF IndInv, Protocol, Quiet, Asked, Handled
<1>6. Done' /\ Reply' = st /\ ~Done
  BY <1>1, <1>2, <1>3 DEF Done, Reply
<1>7. QED
  BY <1>4, <1>5, <1>6

\* Handling a request preserves the invariant.
LEMMA MsgHandleInd ==
    ASSUME IndInv, NEW t \in Threads, MsgHandle(t)
    PROVE  IndInv'
<1> DEFINE n == n_pipelines[t]
<1>1. /\ pc[t] = "msg" /\ msgq_req[t] # <<>>
      /\ msgq_req' = [msgq_req EXCEPT ![t] = Tail(@)]
      /\ pc' = [pc EXCEPT ![t] = "send"]
      /\ UNCHANGED <<ctlVars, msgq_rsp, j>>
  BY DEF MsgHandle
<1>2. /\ ctlPc = "wait" /\ t = ctlThread /\ Head(msgq_req[t]) = ctlReq
      /\ ctlReq.type \in {"enable", "disable"} /\ ctlReq.p \in Pipelines
  BY <1>1, RequestFound
<1>3. PICK q \in Pipelines : q = ctlReq.p
  BY <1>2
<1>4. UNCHANGED <<enabled, thread_id, ctlPc, ctlReq, ctlThread>>
  BY <1>1 DEF ctlVars
<1>5. ~Done
  BY <1>1, <1>2 DEF Done
<1>6. \A r \in Pipelines : enabled[r] => thread_id[r] \in Threads /\ Listed(thread_id[r], r)
  BY <1>5 DEF IndInv, Mapping, Turned
<1>7. CASE ctlReq.type = "enable"
  <2>1. MsgHandleEnable(t, q)
    BY <1>2, <1>3, <1>7 DEF MsgHandle
  <2>2. CASE HasRoom(n)
    <3>1. /\ n < THREAD_PIPELINES_MAX
          /\ p' = [p EXCEPT ![t][n] = q]
          /\ pipeline_data' = [pipeline_data EXCEPT ![t][n] = q]
          /\ n_pipelines' = [n_pipelines EXCEPT ![t] = n + 1]
          /\ rsp' = [rsp EXCEPT ![t] = 0]
      BY <2>1, <2>2 DEF MsgHandleEnable, HasRoom
    <3>2. /\ p' \in [Threads -> [Slots -> Pipelines \cup {NULL}]]
          /\ pipeline_data' \in [Threads -> [Slots -> Pipelines \cup {NULL}]]
          /\ n_pipelines' \in [Threads -> 0 .. THREAD_PIPELINES_MAX]
          /\ ArraysAgree' /\ Listed(t, q)'
          /\ \A u \in Threads, r \in Pipelines : Listed(u, r) => Listed(u, r)'
      BY <3>1, <1>2, AppendToList DEF IndInv
    <3>3. Types' /\ Protocol' /\ Done' /\ Reply' = 0
      BY <1>1, <3>1, <3>2, HandledInd DEF Statuses
    <3>4. Mapping'
      BY <1>2, <1>3, <1>4, <1>6, <1>7, <3>2, <3>3 DEF Mapping, Turned
    <3>5. QED
      BY <3>2, <3>3, <3>4 DEF IndInv
  <2>3. CASE ~HasRoom(n)
    <3>1. rsp' = [rsp EXCEPT ![t] = -1] /\ UNCHANGED <<p, pipeline_data, n_pipelines>>
      BY <2>1, <2>3 DEF MsgHandleEnable, listVars
    <3>2. Types' /\ Protocol' /\ Done' /\ Reply' = -1
      BY <1>1, <3>1, HandledInd DEF Statuses, IndInv, Types
    <3>3. ArraysAgree'
      BY <3>1 DEF IndInv, ArraysAgree
    <3>4. Mapping'
      BY <1>2, <1>3, <1>4, <1>6, <1>7, <3>1, <3>2 DEF Mapping, Turned, Listed
    <3>5. QED
      BY <3>2, <3>3, <3>4 DEF IndInv
  <2>4. QED
    BY <2>2, <2>3
<1>8. CASE ctlReq.type = "disable"
  <2>1. MsgHandleDisable(t, q)
    BY <1>2, <1>3, <1>8 DEF MsgHandle
  <2>2. Mapped(t, q)
    BY <1>2, <1>3, <1>8 DEF IndInv, Mapping
  <2>3. CASE \E i \in Slots : First(t, q, i)
    <3>1. PICK i \in Slots :
            /\ First(t, q, i)
            /\ p' = [p EXCEPT ![t] = MoveLast(@, i, n)]
            /\ pipeline_data' = [pipeline_data EXCEPT ![t] = MoveLast(@, i, n)]
            /\ n_pipelines' = [n_pipelines EXCEPT ![t] = n - 1]
            /\ rsp' = [rsp EXCEPT ![t] = 0]
      BY <2>1, <2>3 DEF MsgHandleDisable
    <3>2. /\ p' \in [Threads -> [Slots -> Pipelines \cup {NULL}]]
          /\ pipeline_data' \in [Threads -> [Slots -> Pipelines \cup {NULL}]]
          /\ n_pipelines' \in [Threads -> 0 .. THREAD_PIPELINES_MAX]
          /\ ArraysAgree'
          /\ \A u \in Threads, r \in Pipelines :
                Listed(u, r) /\ (u # t \/ r # q) => Listed(u, r)'
      BY <3>1, <1>2, RemoveFromList DEF IndInv
    <3>3. Types' /\ Protocol' /\ Done' /\ Reply' = 0
      BY <1>1, <3>1, <3>2, HandledInd DEF Statuses
    <3>4. Mapping'
      BY <1>2, <1>3, <1>4, <1>6, <1>8, <2>2, <3>2, <3>3 DEF Mapping, Turned, Mapped
    <3>5. QED
      BY <3>2, <3>3, <3>4 DEF IndInv
  <2>4. CASE ~\E i \in Slots : First(t, q, i)
    <3>1. rsp' = [rsp EXCEPT ![t] = 0] /\ UNCHANGED <<p, pipeline_data, n_pipelines>>
      BY <2>1, <2>4 DEF MsgHandleDisable, listVars
    <3>2. Types' /\ Protocol' /\ Done' /\ Reply' = 0
      BY <1>1, <3>1, HandledInd DEF Statuses, IndInv, Types
    <3>3. ArraysAgree'
      BY <3>1 DEF IndInv, ArraysAgree
    <3>4. Mapping'
      BY <1>2, <1>3, <1>4, <1>6, <1>8, <2>2, <3>1, <3>2 DEF Mapping, Turned, Listed, Mapped
    <3>5. QED
      BY <3>2, <3>3, <3>4 DEF IndInv
  <2>5. QED
    BY <2>3, <2>4
<1>9. QED
  BY <1>2, <1>7, <1>8

\* Sending the response preserves the invariant.
LEMMA MsgSendInd ==
    ASSUME IndInv, NEW t \in Threads, MsgSend(t)
    PROVE  IndInv'
<1>1. /\ pc[t] = "send"
      /\ msgq_rsp' = [msgq_rsp EXCEPT ![t] = Append(@, rsp[t])]
      /\ rsp' = [rsp EXCEPT ![t] = NULL]
      /\ pc' = [pc EXCEPT ![t] = "msg"]
      /\ UNCHANGED <<enabled, thread_id, ctlPc, ctlReq, ctlThread, msgq_req,
                     p, pipeline_data, n_pipelines, j>>
  BY DEF MsgSend, ctlVars, listVars
<1>2. /\ ctlPc = "wait" /\ t = ctlThread /\ Handled(t)
      /\ ctlReq \in Requests /\ \A u \in Threads : u # t => Quiet(u)
  BY <1>1 DEF IndInv, Types, Protocol, Quiet, Asked, Replied
<1>3. /\ msgq_rsp'[t] = <<rsp[t]>> /\ pc'[t] = "msg" /\ rsp[t] \in Statuses
      /\ \A u \in Threads : u # t => msgq_rsp'[u] = msgq_rsp[u] /\ pc'[u] = pc[u]
      /\ msgq_rsp' \in [Threads -> Seq(Statuses)]
      /\ rsp' \in [Threads -> Statuses \cup {NULL}]
      /\ pc' \in [Threads -> {"run", "msg", "send"}]
  BY <1>1, <1>2, Singletons, SingletonSeq DEF IndInv, Types, Handled
<1>4. Types'
  BY <1>1, <1>3 DEF IndInv, Types
<1>5. ArraysAgree'
  BY <1>1 DEF IndInv, ArraysAgree
<1>6. Protocol'
  BY <1>1, <1>2, <1>3 DEF Protocol, Quiet, Handled, Replied
<1>7. Done /\ Done' /\ Reply' = Reply
  BY <1>1, <1>2, <1>3, Singletons DEF Done, Reply, Handled
<1>8. Mapping'
  BY <1>1, <1>7 DEF IndInv, Mapping, Turned, Mapped, Listed
<1>9. QED
  BY <1>4, <1>5, <1>6, <1>8 DEF IndInv

\* Every step preserves the invariant.
LEMMA IndNext == IndInv /\ [Next]_vars => IndInv'
<1> SUFFICES ASSUME IndInv, [Next]_vars PROVE IndInv'
  OBVIOUS
<1>1. CASE Control
  BY <1>1, CmdEnableInd, CmdDisableInd, CmdCompleteInd DEF Control
<1>2. ASSUME NEW t \in Threads, DataPlane(t) PROVE IndInv'
  BY <1>2, RunPipelineInd, EndPassInd, PollInd, MsgNoneInd, MsgHandleInd, MsgSendInd
     DEF DataPlane
<1>3. CASE UNCHANGED vars
  <2>1. UNCHANGED <<enabled, thread_id, ctlPc, ctlReq, ctlThread, msgq_req, msgq_rsp,
                    p, pipeline_data, n_pipelines, pc, j, rsp>>
    BY <1>3 DEF vars, ctlVars, ringVars, listVars, runVars
  <2>2. Types' /\ ArraysAgree'
    BY <2>1 DEF IndInv, Types, ArraysAgree
  <2>3. Protocol'
    BY <2>1 DEF IndInv, Protocol, Quiet, Asked, Handled, Replied
  <2>4. Mapping'
    BY <2>1 DEF IndInv, Mapping, Turned, Done, Reply, Mapped, Listed
  <2>5. QED
    BY <2>2, <2>3, <2>4 DEF IndInv
<1>4. QED
  BY <1>1, <1>2, <1>3 DEF Next

\* The invariant holds in every reachable state.
LEMMA Inductive == Spec => []IndInv
BY IndInit, IndNext, PTL DEF Spec

-----------------------------------------------------------------------------
(***************************************************************************)
(* Theorems that hold whatever the operator does.                          *)
(***************************************************************************)

\* The pipelines that a thread runs are those that it can be told to stop.
THEOREM ArraysCorrect == Spec => []ArraysAgree
<1>1. IndInv => ArraysAgree
  BY DEF IndInv
<1>2. QED
  BY <1>1, Inductive, PTL

\* The line marked "should not get here" is not reached.
THEOREM DisableCorrect == Spec => []DisableFindsPipeline
<1>1. IndInv => DisableFindsPipeline
  <2> SUFFICES ASSUME IndInv, NEW t \in Threads,
                      msgq_req[t] # <<>>, Head(msgq_req[t]).type = "disable"
               PROVE  Listed(t, Head(msgq_req[t]).p)
    BY DEF DisableFindsPipeline
  <2>1. /\ ctlPc = "wait" /\ t = ctlThread /\ Head(msgq_req[t]) = ctlReq
        /\ ctlReq.p \in Pipelines
    BY RequestFound
  <2>2. Mapped(t, ctlReq.p) /\ ~Done
    BY <2>1 DEF IndInv, Mapping, Done
  <2>3. QED
    BY <2>1, <2>2 DEF IndInv, Mapping, Turned, Mapped
<1>2. QED
  BY <1>1, Inductive, PTL

\* Between two commands every enabled pipeline is on its thread's list.
THEOREM EnabledCorrect == Spec => []EnabledIsListed
<1>1. IndInv => EnabledIsListed
  BY DEF IndInv, Mapping, EnabledIsListed, Turned, Done
<1>2. QED
  BY <1>1, Inductive, PTL

-----------------------------------------------------------------------------
(***************************************************************************)
(* Theorems about the pipelines that were never enabled while enabled.     *)
(***************************************************************************)

\* Between two messages nothing that Exact speaks of changes.
LEMMA ExactStutter ==
    ASSUME Exact, Done' <=> Done, Done => Reply' = Reply,
           UNCHANGED <<enabled, thread_id, ctlPc, ctlReq, ctlThread, reenabled,
                       pipeline_data, n_pipelines>>
    PROVE  Exact'
BY DEF Exact, NoDuplicates, Listed, Expected, Mapped

\* A request keeps the lists and the record in agreement.
LEMMA ExactSend ==
    ASSUME IndInv, Exact, NEW t \in Threads, NEW req \in Requests,
           ctlPc = "idle", Send(t, req),
           reenabled \subseteq reenabled',
           req.type = "enable" => ~enabled[req.p] \/ req.p \in reenabled',
           UNCHANGED <<enabled, thread_id, pipeline_data, n_pipelines>>
    PROVE  Exact'
<1>1. /\ msgq_req' = [msgq_req EXCEPT ![t] = Append(@, req)]
      /\ ctlPc' = "wait" /\ ctlReq' = req /\ ctlThread' = t
  BY DEF Send
<1>2. msgq_req'[t] = <<req>>
  BY <1>1, Singletons DEF IndInv, Types, Protocol, Quiet
<1>3. ~Done /\ ~Done'
  BY <1>1, <1>2, Singletons DEF Done
<1>4. QED
  BY <1>1, <1>3 DEF Exact, NoDuplicates, Listed, Expected, Mapped

\* Recording the result of a command keeps the lists and the record in agreement.
LEMMA ExactComplete ==
    ASSUME IndInv, Exact, CmdComplete
    PROVE  Exact'
<1>1. /\ ctlPc = "wait" /\ msgq_rsp[ctlThread] # <<>> /\ ctlPc' = "idle"
      /\ UNCHANGED <<pipeline_data, n_pipelines, reenabled>>
  BY DEF CmdComplete, listVars
<1>2. /\ Replied(ctlThread) /\ ctlReq.p \in Pipelines /\ ctlThread \in Threads
      /\ ctlReq.type \in {"enable", "disable"}
  BY <1>1 DEF IndInv, Protocol, Asked, Handled, Requests
<1>3. Done /\ Reply = Head(msgq_rsp[ctlThread]) /\ ~Done'
  BY <1>1, <1>2 DEF Done, Reply, Replied
<1>4. ASSUME NEW t \in Threads, NEW q \in Pipelines, Expected(t, q)
      PROVE  Mapped(t, q)'
  <2>1. CASE Reply # 0
    BY <1>3, <1>4, <2>1 DEF Expected, Mapped, CmdComplete, Accepted
  <2>2. CASE Reply = 0 /\ ctlReq.type = "enable"
    <3>1. /\ enabled' = [enabled EXCEPT ![ctlReq.p] = TRUE]
          /\ thread_id' = [thread_id EXCEPT ![ctlReq.p] = ctlThread]
      BY <1>3, <2>2 DEF CmdComplete, Accepted
    <3>2. QED
      BY <1>2, <1>3, <1>4, <2>2, <3>1 DEF Expected, Mapped, IndInv, Types
  <2>3. CASE Reply = 0 /\ ctlReq.type = "disable"
    <3>1. enabled' = [enabled EXCEPT ![ctlReq.p] = FALSE] /\ thread_id' = thread_id
      BY <1>3, <2>3 DEF CmdComplete, Accepted
    <3>2. QED
      BY <1>2, <1>3, <1>4, <2>3, <3>1 DEF Expected, Mapped, IndInv, Types
  <2>4. QED
    BY <1>2, <2>1, <2>2, <2>3
<1>5. \A t \in Threads, q \in Pipelines : Expected(t, q)' <=> Mapped(t, q)'
  BY <1>3 DEF Expected
<1>6. QED
  BY <1>1, <1>4, <1>5 DEF Exact, NoDuplicates, Listed

\* Removing an entry of a pipeline: it was the only one, unless the pipeline
\* was enabled while it was enabled.
LEMMA RemoveUnique ==
    ASSUME Types, NoDuplicates, NEW t \in Threads, NEW q \in Pipelines,
           NEW i \in Slots, First(t, q, i),
           pipeline_data' = [pipeline_data EXCEPT ![t] = MoveLast(@, i, n_pipelines[t])],
           n_pipelines' = [n_pipelines EXCEPT ![t] = n_pipelines[t] - 1],
           reenabled' = reenabled
    PROVE  NoDuplicates' /\ (q \notin reenabled => ~Listed(t, q)')
<1> DEFINE n == n_pipelines[t]
           src(k) == IF k = i THEN n - 1 ELSE k
<1>1. n \in Nat /\ i < n /\ n - 1 \in Slots /\ pipeline_data[t][i] = q
  BY SlotFacts DEF Types, First
<1>2. /\ n_pipelines'[t] = n - 1
      /\ \A k \in Slots : pipeline_data'[t][k] = pipeline_data[t][src(k)]
      /\ \A u \in Threads : u # t => /\ n_pipelines'[u] = n_pipelines[u]
                                    /\ pipeline_data'[u] = pipeline_data[u]
  BY <1>1 DEF Types, MoveLast
<1>3. \A k \in Slots : k < n - 1 => src(k) \in Slots /\ src(k) < n /\ src(k) # i
  BY <1>1, SlotFacts
<1>4. \A k, m \in Slots : (k < n - 1 /\ m < n - 1 /\ k # m) => src(k) # src(m)
  BY <1>1, SlotFacts
<1> HIDE DEF src
<1>5. NoDuplicates'
  <2> SUFFICES ASSUME NEW u \in Threads, NEW k \in Slots, NEW m \in Slots,
                      k < n_pipelines'[u], m < n_pipelines'[u], k # m,
                      pipeline_data'[u][k] \notin reenabled
               PROVE  pipeline_data'[u][k] # pipeline_data'[u][m]
    BY DEF NoDuplicates
  <2>1. CASE u = t
    <3>1. src(k) \in Slots /\ src(k) < n /\ src(m) \in Slots /\ src(m) < n /\ src(k) # src(m)
      BY <2>1, <1>2, <1>3, <1>4
    <3>2. QED
      BY <2>1, <3>1, <1>2 DEF NoDuplicates
  <2>2. CASE u # t
    BY <2>2, <1>2 DEF NoDuplicates
  <2>3. QED
    BY <2>1, <2>2
<1>6. ASSUME q \notin reenabled, NEW k \in Slots, k < n - 1 PROVE pipeline_data'[t][k] # q
  <2>1. src(k) \in Slots /\ src(k) < n /\ src(k) # i
    BY <1>3, <1>6
  <2>2. QED
    BY <2>1, <1>1, <1>2, <1>6 DEF NoDuplicates
<1>7. QED
  BY <1>2, <1>5, <1>6 DEF Listed

\* Handling a request changes the lists exactly as the record will change.
LEMMA ExactHandle ==
    ASSUME IndInv, Exact, NEW t \in Threads, MsgHandle(t)
    PROVE  Exact'
<1> DEFINE n == n_pipelines[t]
<1>1. /\ pc[t] = "msg" /\ msgq_req[t] # <<>>
      /\ msgq_req' = [msgq_req EXCEPT ![t] = Tail(@)]
      /\ pc' = [pc EXCEPT ![t] = "send"]
      /\ UNCHANGED <<ctlVars, msgq_rsp, j>>
  BY DEF MsgHandle
<1>2. /\ ctlPc = "wait" /\ t = ctlThread /\ Head(msgq_req[t]) = ctlReq
      /\ ctlReq.type \in {"enable", "disable"} /\ ctlReq.p \in Pipelines
  BY <1>1, RequestFound
<1>3. PICK q \in Pipelines : q = ctlReq.p
  BY <1>2
<1>4. UNCHANGED <<enabled, thread_id, ctlPc, ctlReq, ctlThread, reenabled>>
  BY <1>1 DEF ctlVars
<1>5. \A u \in Threads, r \in Pipelines \ reenabled : Listed(u, r) => Mapped(u, r)
  BY <1>1, <1>2 DEF Exact, Expected, Done
<1>6. Types /\ ArraysAgree /\ NoDuplicates
  BY DEF IndInv, Exact
<1>7. CASE ctlReq.type = "enable" /\ HasRoom(n)
  <2>1. /\ n < THREAD_PIPELINES_MAX
        /\ p' = [p EXCEPT ![t][n] = q]
        /\ pipeline_data' = [pipeline_data EXCEPT ![t][n] = q]
        /\ n_pipelines' = [n_pipelines EXCEPT ![t] = n + 1]
        /\ rsp' = [rsp EXCEPT ![t] = 0]
    BY <1>2, <1>3, <1>7 DEF MsgHandle, MsgHandleEnable, HasRoom
  <2>2. /\ p' \in [Threads -> [Slots -> Pipelines \cup {NULL}]]
        /\ pipeline_data' \in [Threads -> [Slots -> Pipelines \cup {NULL}]]
        /\ n_pipelines' \in [Threads -> 0 .. THREAD_PIPELINES_MAX]
        /\ \A u \in Threads, r \in Pipelines :
              Listed(u, r)' <=> Listed(u, r) \/ (u = t /\ r = q)
    BY <1>6, <2>1, AppendToList
  <2>3. Done' /\ Reply' = 0
    BY <1>1, <2>1, <2>2, HandledInd DEF Statuses
  <2>4. /\ ~enabled[q] \/ q \in reenabled
        /\ q \notin reenabled => \A u \in Threads : ~Listed(u, q)
    BY <1>2, <1>3, <1>5, <1>7 DEF Exact, Mapped
  <2>5. NoDuplicates'
    <3>1. n \in Nat /\ n \in Slots
      BY <1>6, <2>1, SlotFacts DEF Types
    <3>2. /\ n_pipelines'[t] = n + 1
          /\ \A i \in Slots : pipeline_data'[t][i] = IF i = n THEN q ELSE pipeline_data[t][i]
          /\ \A u \in Threads : u # t => /\ n_pipelines'[u] = n_pipelines[u]
                                        /\ pipeline_data'[u] = pipeline_data[u]
      BY <1>6, <2>1, <3>1 DEF Types
    <3>3. q \notin reenabled => \A i \in Slots : i < n => pipeline_data[t][i] # q
      BY <2>4 DEF Listed
    <3>4. \A i \in Slots : i < n + 1 => i < n \/ i = n
      BY <3>1, SlotFacts
    <3>5. QED
      BY <1>4, <1>6, <3>1, <3>2, <3>3, <3>4 DEF NoDuplicates
  <2>6. ASSUME NEW u \in Threads, NEW r \in Pipelines \ reenabled, Listed(u, r)'
        PROVE  Expected(u, r)'
    <3>1. CASE r = q
      BY <1>2, <1>3, <1>4, <1>7, <2>2, <2>3, <2>4, <2>6, <3>1 DEF Expected
    <3>2. CASE r # q
      BY <1>3, <1>4, <1>5, <2>2, <2>6, <3>2 DEF Expected, Mapped
    <3>3. QED
      BY <3>1, <3>2
  <2>7. QED
    BY <1>2, <1>3, <1>4, <2>4, <2>5, <2>6 DEF Exact
<1>8. CASE ctlReq.type = "enable" /\ ~HasRoom(n)
  <2>1. rsp' = [rsp EXCEPT ![t] = -1] /\ UNCHANGED <<p, pipeline_data, n_pipelines>>
    BY <1>2, <1>8 DEF MsgHandle, MsgHandleEnable, listVars
  <2>2. Reply' = -1
    BY <1>1, <1>6, <2>1, HandledInd DEF Statuses, Types
  <2>3. QED
    BY <1>4, <1>5, <2>1, <2>2 DEF Exact, NoDuplicates, Listed, Expected, Mapped
<1>9. CASE ctlReq.type = "disable"
  <2>1. Mapped(t, q) /\ Listed(t, q)
    BY <1>1, <1>2, <1>3, <1>9 DEF IndInv, Mapping, Done, Turned, Mapped
  <2>2. MsgHandleDisable(t, q)
    BY <1>2, <1>3, <1>9 DEF MsgHandle
  <2>3. CASE \E i \in Slots : First(t, q, i)
    <3>1. PICK i \in Slots :
            /\ First(t, q, i)
            /\ p' = [p EXCEPT ![t] = MoveLast(@, i, n)]
            /\ pipeline_data' = [pipeline_data EXCEPT ![t] = MoveLast(@, i, n)]
            /\ n_pipelines' = [n_pipelines EXCEPT ![t] = n - 1]
            /\ rsp' = [rsp EXCEPT ![t] = 0]
      BY <2>2, <2>3 DEF MsgHandleDisable
    <3>2. /\ p' \in [Threads -> [Slots -> Pipelines \cup {NULL}]]
          /\ pipeline_data' \in [Threads -> [Slots -> Pipelines \cup {NULL}]]
          /\ n_pipelines' \in [Threads -> 0 .. THREAD_PIPELINES_MAX]
          /\ \A u \in Threads, r \in Pipelines : Listed(u, r)' => Listed(u, r)
      BY <1>6, <3>1, RemoveFromList
    <3>3. NoDuplicates' /\ (q \notin reenabled => ~Listed(t, q)')
      BY <1>4, <1>6, <3>1, RemoveUnique
    <3>4. Done' /\ Reply' = 0
      BY <1>1, <3>1, <3>2, HandledInd DEF Statuses
    <3>5. ASSUME NEW u \in Threads, NEW r \in Pipelines \ reenabled, Listed(u, r)'
          PROVE  r # q /\ Mapped(u, r)
      BY <1>5, <2>1, <3>2, <3>3, <3>5 DEF Mapped
    <3>6. ASSUME NEW u \in Threads, NEW r \in Pipelines \ reenabled, Listed(u, r)'
          PROVE  Expected(u, r)'
      BY <1>3, <1>4, <3>5, <3>6 DEF Expected, Mapped
    <3>7. QED
      BY <1>4, <1>9, <3>3, <3>6 DEF Exact
  <2>4. CASE ~\E i \in Slots : First(t, q, i)
    <3>1. q \in reenabled
      <4>1. PICK i \in Slots : i < n /\ pipeline_data[t][i] = q
        BY <2>1 DEF Listed
      <4>2. PICK k \in Slots : k < i /\ pipeline_data[t][k] = q
        BY <2>4, <4>1 DEF First
      <4>3. k < n /\ k # i
        BY <1>6, <4>1, <4>2, SlotFacts DEF Types
      <4>4. QED
        BY <1>6, <4>1, <4>2, <4>3 DEF NoDuplicates
    <3>2. rsp' = [rsp EXCEPT ![t] = 0] /\ UNCHANGED <<p, pipeline_data, n_pipelines>>
      BY <2>2, <2>4 DEF MsgHandleDisable, listVars
    <3>3. ASSUME NEW u \in Threads, NEW r \in Pipelines \ reenabled, Listed(u, r)'
          PROVE  Expected(u, r)'
      BY <1>3, <1>4, <1>5, <3>1, <3>2, <3>3 DEF Expected, Mapped, Listed
    <3>4. QED
      BY <1>4, <1>6, <1>9, <3>2, <3>3 DEF Exact, NoDuplicates
  <2>5. QED
    BY <2>3, <2>4
<1>10. QED
  BY <1>2, <1>7, <1>8, <1>9

\* Every step keeps the lists and the record in agreement.
LEMMA ExactNext ==
    ASSUME IndInv, Exact, [Next]_vars
    PROVE  Exact'
<1>1. ASSUME NEW t \in Threads, NEW q \in Pipelines, CmdEnable(t, q) PROVE Exact'
  <2> DEFINE req == [type |-> "enable", p |-> q]
  <2>1. req \in Requests /\ req.p = q
    BY DEF Requests
  <2>2. /\ ctlPc = "idle" /\ Send(t, req)
        /\ reenabled \subseteq reenabled' /\ (~enabled[q] \/ q \in reenabled')
        /\ UNCHANGED <<enabled, thread_id, pipeline_data, n_pipelines>>
    BY <1>1 DEF CmdEnable, listVars
  <2> HIDE DEF req
  <2>3. QED
    BY <2>1, <2>2, ExactSend
<1>2. ASSUME NEW t \in Threads, NEW q \in Pipelines, CmdDisable(t, q) PROVE Exact'
  <2> DEFINE req == [type |-> "disable", p |-> q]
  <2>1. req \in Requests /\ req.type # "enable"
    BY DEF Requests
  <2>2. /\ ctlPc = "idle" /\ Send(t, req)
        /\ UNCHANGED <<enabled, thread_id, pipeline_data, n_pipelines, reenabled>>
    BY <1>2 DEF CmdDisable, listVars
  <2> HIDE DEF req
  <2>3. QED
    BY <2>1, <2>2, ExactSend
<1>3. ASSUME NEW t \in Threads, RunPipeline(t) \/ EndPass(t) \/ Poll(t) \/ MsgNone(t)
      PROVE  Exact'
  <2>1. /\ UNCHANGED <<enabled, thread_id, ctlPc, ctlReq, ctlThread, reenabled, msgq_req, msgq_rsp,
                       pipeline_data, n_pipelines, rsp>>
        /\ pc' = pc \/ \E x \in {"run", "msg"} : pc[t] # "send" /\ pc' = [pc EXCEPT ![t] = x]
    BY <1>3 DEF RunPipeline, EndPass, Poll, MsgNone, ctlVars, ringVars, listVars
  <2>2. \A u \in Threads : pc'[u] = "send" <=> pc[u] = "send"
    BY <2>1 DEF IndInv, Types
  <2>3. (Done' <=> Done) /\ (Done => Reply' = Reply)
    BY <2>1, <2>2 DEF IndInv, Protocol, Done, Reply
  <2>4. QED
    BY <2>1, <2>3, ExactStutter
<1>4. ASSUME NEW t \in Threads, MsgSend(t) PROVE Exact'
  <2>1. /\ pc[t] = "send"
        /\ msgq_rsp' = [msgq_rsp EXCEPT ![t] = Append(@, rsp[t])]
        /\ pc' = [pc EXCEPT ![t] = "msg"]
        /\ UNCHANGED <<enabled, thread_id, ctlPc, ctlReq, ctlThread, reenabled, msgq_req,
                       pipeline_data, n_pipelines>>
    BY <1>4 DEF MsgSend, ctlVars, listVars
  <2>2. ctlPc = "wait" /\ t = ctlThread /\ Handled(t)
    BY <2>1 DEF IndInv, Types, Protocol, Quiet, Asked, Replied
  <2>3. msgq_rsp'[t] = <<rsp[t]>> /\ pc'[t] = "msg"
    BY <2>1, <2>2, Singletons DEF IndInv, Types, Handled
  <2>4. (Done' <=> Done) /\ Reply' = Reply
    BY <2>1, <2>2, <2>3, Singletons DEF Done, Reply
  <2>5. QED
    BY <2>1, <2>4, ExactStutter
<1>5. CASE UNCHANGED vars
  <2>1. UNCHANGED <<enabled, thread_id, ctlPc, ctlReq, ctlThread, reenabled, msgq_req, msgq_rsp,
                    pipeline_data, n_pipelines, pc, rsp>>
    BY <1>5 DEF vars, ctlVars, ringVars, listVars, runVars
  <2>2. (Done' <=> Done) /\ Reply' = Reply
    BY <2>1 DEF Done, Reply
  <2>3. QED
    BY <2>1, <2>2, ExactStutter
<1>6. QED
  BY <1>1, <1>2, <1>3, <1>4, <1>5, ExactComplete, ExactHandle
     DEF Next, Control, DataPlane

\* Initially nothing is listed and nothing is recorded.
LEMMA ExactInit == Init => Exact
<1> SUFFICES ASSUME Init PROVE Exact
  OBVIOUS
<1>1. NoDuplicates /\ \A t \in Threads, q \in Pipelines : ~Listed(t, q)
  BY SlotFacts DEF Init, NoDuplicates, Listed
<1>2. QED
  BY <1>1 DEF Init, Exact

\* Only pipelines are enabled while they are enabled.
LEMMA ReenabledType ==
    reenabled \subseteq Pipelines /\ [Next]_vars => reenabled' \subseteq Pipelines
<1> SUFFICES ASSUME reenabled \subseteq Pipelines, [Next]_vars
             PROVE  reenabled' \subseteq Pipelines
  OBVIOUS
<1>1. ASSUME NEW t \in Threads, NEW q \in Pipelines, CmdEnable(t, q)
      PROVE  reenabled' \subseteq Pipelines
  BY <1>1 DEF CmdEnable
<1>2. ASSUME reenabled' = reenabled PROVE reenabled' \subseteq Pipelines
  BY <1>2
<1>3. QED
  BY <1>1, <1>2 DEF Next, Control, CmdDisable, CmdComplete, DataPlane, RunPipeline, EndPass,
                    Poll, MsgNone, MsgHandle, MsgSend, vars, ctlVars

\* Lists and record agree in every reachable state.
LEMMA CarefulInductive == Spec => []CarefulInv
<1>1. Init => CarefulInv
  BY ExactInit DEF CarefulInv, Init
<1>2. IndInv /\ CarefulInv /\ [Next]_vars => CarefulInv'
  BY ExactNext, ReenabledType DEF CarefulInv
<1>3. QED
  BY <1>1, <1>2, Inductive, PTL DEF Spec

\* Between two commands the control thread's record of the mapping is exact
\* for every pipeline that was never enabled while it was enabled, whatever
\* happened to the other pipelines.
THEOREM ControlViewCorrect == Spec => []ControlViewExact
<1>1. ASSUME IndInv, CarefulInv, ctlPc = "idle",
             NEW t \in Threads, NEW q \in Pipelines \ reenabled
      PROVE  Listed(t, q) <=> Mapped(t, q)
  <2>1. ~Done
    BY <1>1 DEF Done
  <2>2. Listed(t, q) => Mapped(t, q)
    BY <1>1, <2>1 DEF CarefulInv, Exact, Expected
  <2>3. Mapped(t, q) => Listed(t, q)
    BY <1>1, <2>1 DEF IndInv, Mapping, Turned, Mapped
  <2>4. QED
    BY <2>2, <2>3
<1>2. IndInv /\ CarefulInv => ControlViewExact
  BY <1>1 DEF ControlViewExact
<1>3. QED
  BY <1>2, Inductive, CarefulInductive, PTL

\* No two threads execute the same pipeline at the same time, not even while
\* a pipeline moves from one thread to another, unless the operator enabled
\* that very pipeline while it was enabled.
THEOREM Exclusive == Spec => []RunExclusive
<1>1. ASSUME IndInv, CarefulInv, NEW t \in Threads, NEW u \in Threads,
             t # u, Running(t) # NULL, Running(t) = Running(u), Running(t) \notin reenabled
      PROVE  FALSE
  <2>1. ASSUME NEW v \in Threads, Running(v) # NULL
        PROVE  Running(v) \in Pipelines /\ Listed(v, Running(v))
    <3>1. /\ j[v] < n_pipelines[v] /\ Running(v) = p[v][j[v]]
          /\ j[v] \in Nat /\ n_pipelines[v] \in 0 .. THREAD_PIPELINES_MAX
      BY <1>1, <2>1 DEF Running, IndInv, Types
    <3>2. j[v] \in Slots
      BY <3>1, SlotFacts
    <3>3. p[v][j[v]] = pipeline_data[v][j[v]] /\ p[v][j[v]] \in Pipelines \cup {NULL}
      BY <1>1, <3>1, <3>2 DEF IndInv, ArraysAgree, Types
    <3>4. QED
      BY <2>1, <3>1, <3>2, <3>3 DEF Listed
  <2>2. Expected(t, Running(t)) /\ Expected(u, Running(t))
    BY <1>1, <2>1 DEF CarefulInv, Exact
  <2>3. QED
    BY <1>1, <2>2 DEF Expected, Mapped
<1>2. IndInv /\ CarefulInv => RunExclusive
  BY <1>1 DEF RunExclusive
<1>3. QED
  BY <1>2, Inductive, CarefulInductive, PTL

\* Types: in particular no list outgrows its array, and no ring holds more
\* messages than it has room for.
THEOREM TypeCorrect == Spec => []TypeOK
<1>1. IndInv /\ CarefulInv => TypeOK
  <2> SUFFICES ASSUME IndInv, NEW t \in Threads
               PROVE  /\ Len(msgq_req[t]) <= THREAD_MSGQ_SIZE - 1
                      /\ Len(msgq_rsp[t]) <= THREAD_MSGQ_SIZE - 1
    BY DEF TypeOK, IndInv, CarefulInv
  <2>1. /\ msgq_req[t] = <<>> \/ \E x : msgq_req[t] = <<x>>
        /\ msgq_rsp[t] = <<>> \/ \E x : msgq_rsp[t] = <<x>>
    BY DEF IndInv, Types, Protocol, Quiet, Asked, Handled, Replied
  <2>2. Len(<<>>) = 0 /\ \A x : Len(<<x>>) = 1
    OBVIOUS
  <2>3. Len(msgq_req[t]) \in {0, 1} /\ Len(msgq_rsp[t]) \in {0, 1}
    BY <2>1, <2>2
  <2>4. \A n \in {0, 1} : n <= THREAD_MSGQ_SIZE - 1
    BY RingAssumption
  <2>5. QED
    BY <2>3, <2>4, Zenon
<1>2. QED
  BY <1>1, Inductive, CarefulInductive, PTL
=============================================================================
