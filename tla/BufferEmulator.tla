---------------------------- MODULE BufferEmulator ----------------------------
(***************************************************************************)
(* The "three buffers round robin" admission control of the switch.  Each  *)
(* sub-buffer is a text file that holds one decimal number, the number of  *)
(* free slots of the buffer.  Two processes rewrite the files:             *)
(*                                                                         *)
(*   - the transmit path of the ixgbe driver (davidis_vtx1), which takes a *)
(*     slot for every packet it sends and drops the packet if there is none*)
(*   - the worker process (worker.c), which serves the buffers in turn and *)
(*     gives a slot back for every job it completes.                       *)
(*                                                                         *)
(* Both read the number with one fopen/fclose, open the file again for     *)
(* writing (which truncates it) and write the new number when they close   *)
(* it.  The flock calls are given a FILE pointer and not a descriptor, and *)
(* are released between the read and the write anyway: they exclude nobody.*)
(* Every system call on a file is therefore an action of its own.          *)
(***************************************************************************)
EXTENDS Integers

CONSTANTS
    Base,           \* base of the numbers in the files (10 in the code)
    QUEUE_SIZE,     \* slots of a sub-buffer (33 in worker.c and the Makefile)
    QoSValues,      \* the QoS bytes that packets carry
    MaxPkts,        \* bound: packets handed to the driver
    MaxRestarts     \* bound: times the worker process is killed and restarted

\* The largest number of two digits.
MaxNumber == Base * Base - 1

ASSUME BaseAssumption      == Base \in Nat /\ Base >= 2
ASSUME QueueSizeAssumption == QUEUE_SIZE \in 1..MaxNumber
ASSUME QoSAssumption       == QoSValues \subseteq 0..255
ASSUME BoundsAssumption    == MaxPkts \in Nat /\ MaxRestarts \in Nat

NUM_OF_QUEUES == 3
Buffers       == 0 .. NUM_OF_QUEUES - 1

VARIABLES
    file,           \* file[b]: the text of sub-buffer b's file
    drvPc,          \* driver: idle, before the truncating open, before the write
    drvQoS,         \* driver: current_QoS of the packet in hand
    drvFifo,        \* driver: its local FIFO_SIZE
    wrkPc,          \* worker: before the read, the truncating open, the write
    turn,           \* worker: the sub-buffer it serves
    wrkFifo,        \* worker: its FIFO_SIZE, which survives from turn to turn
    skipped,        \* packets dropped
    packets_sent,   \* packets_sent[b]: packets admitted to sub-buffer b
    completed,      \* completed[b]: jobs of sub-buffer b the worker completed
    restarts,       \* restarts of the worker so far
    mixed           \* history: mixed[b]: a number was written over a longer one

drvVars == <<drvPc, drvQoS, drvFifo>>
wrkVars == <<wrkPc, turn, wrkFifo>>
vars    == <<file, drvVars, wrkVars, skipped, packets_sent, completed, restarts, mixed>>

-----------------------------------------------------------------------------
(***************************************************************************)
(* The text of a file: at most two digits, by position.                    *)
(***************************************************************************)
NoDigit == -1
Text    == [0..1 -> -1 .. Base - 1]
Empty   == [i \in 0..1 |-> NoDigit]

\* What fprintf("%d") puts into the buffer for a number of one or two digits.
Digits(n) == [i \in 0..1 |-> IF n < Base THEN IF i = 0 THEN n ELSE NoDigit
                             ELSE IF i = 0 THEN n \div Base ELSE n % Base]

\* What fscanf("%d") makes of a text that is not empty.
Value(t) == IF t[1] = NoDigit THEN t[0] ELSE Base * t[0] + t[1]

\* What fscanf leaves in a variable that held "old": an empty file has no
\* number, and the variable keeps its value.
Scan(t, old) == IF t = Empty THEN old ELSE Value(t)

\* A write at offset 0 over what the other process has written meanwhile.
Overlay(old, new) == [i \in 0..1 |-> IF new[i] # NoDigit THEN new[i] ELSE old[i]]

\* The number n is written to file b.  When the text there is longer, what is
\* left has digits of both numbers.
WriteNumber(b, n) ==
    /\ file' = [file EXCEPT ![b] = Overlay(@, Digits(n))]
    /\ mixed' = [mixed EXCEPT ![b] = @ \/ Overlay(file[b], Digits(n)) # Digits(n)]

\* The sub-buffer of a packet, by the QoS byte the classifier gave it.
SubBuffer(qos) == IF qos <= 20 THEN 0 ELSE IF qos < 80 THEN 1 ELSE 2

Init ==
    /\ file = [b \in Buffers |-> Digits(QUEUE_SIZE)]
    /\ drvPc = "idle" /\ drvQoS = 0 /\ drvFifo = 0
    /\ wrkPc = "read" /\ turn = 0 /\ wrkFifo = 0
    /\ skipped = 0
    /\ packets_sent = [b \in Buffers |-> 0]
    /\ completed = [b \in Buffers |-> 0]
    /\ restarts = 0
    /\ mixed = [b \in Buffers |-> FALSE]

-----------------------------------------------------------------------------
(***************************************************************************)
(* Mutants: bugs this code could have had, each of which a property below  *)
(* must detect.  No definition of the specification uses them.             *)
(***************************************************************************)
MutSlotFreeAtZero(FIFO)   == FIFO >= 0            \* "<" for "<=" in the driver's test
MutSlotNotTaken(FIFO)     == FIFO                 \* the driver's FIFO_SIZE-- is lost
MutJobAtQueueSize(FIFO)   == FIFO <= QUEUE_SIZE   \* "<=" for "<" in the worker's test
MutJobBelowSize(FIFO)     == FIFO + 1 < QUEUE_SIZE
MutTurnKept               == turn                 \* the round robin does not advance
MutRangeOverlap(qos)      == IF qos <= 20 THEN 0 ELSE IF qos <= 80 THEN 1 ELSE 2

\* The second if-chain of davidis_vtx1 disagrees with the first one at 80.
MutDTrunc ==
    /\ drvPc = "trunc"
    /\ drvPc' = "write"
    /\ file' = [file EXCEPT ![MutRangeOverlap(drvQoS)] = Empty]
    /\ UNCHANGED <<drvQoS, drvFifo, wrkVars, skipped, packets_sent, completed, restarts, mixed>>

\* The worker steps to the next buffer before it closes the file.
MutWWrite ==
    /\ wrkPc = "write"
    /\ wrkPc' = "read"
    /\ turn' = (turn + 1) % NUM_OF_QUEUES
    /\ WriteNumber(turn', wrkFifo)
    /\ completed' = [completed EXCEPT ![turn] = @ + 1]
    /\ UNCHANGED <<wrkFifo, drvVars, skipped, packets_sent, restarts>>

-----------------------------------------------------------------------------
(***************************************************************************)
(* The driver: davidis_vtx1 for one packet of the burst at a time.         *)
(***************************************************************************)
TotalSent == packets_sent[0] + packets_sent[1] + packets_sent[2]

SlotFree(FIFO)  == FIFO > 0
SlotTaken(FIFO) == FIFO - 1

\* bufferManagementProbability supplies the QoS byte; the verdict it computes is
\* overwritten with true.  Then fopen "r", fscanf into a local that starts at 0,
\* fclose.  Without a free slot the packet is dropped; otherwise a slot is taken
\* from the local.
DRead(qos) ==
    /\ drvPc = "idle"
    /\ TotalSent + skipped < MaxPkts
    /\ LET b    == SubBuffer(qos)
           FIFO == Scan(file[b], 0)
       IN  \/ /\ ~SlotFree(FIFO)
              /\ skipped' = skipped + 1
              /\ UNCHANGED <<drvVars, packets_sent>>
           \/ /\ SlotFree(FIFO)
              /\ drvPc' = "trunc"
              /\ drvQoS' = qos
              /\ drvFifo' = SlotTaken(FIFO)
              /\ packets_sent' = [packets_sent EXCEPT ![b] = @ + 1]
              /\ UNCHANGED skipped
    /\ UNCHANGED <<file, wrkVars, completed, restarts, mixed>>

\* fopen "w": the file is empty until the number is written.
DTrunc ==
    /\ drvPc = "trunc"
    /\ drvPc' = "write"
    /\ file' = [file EXCEPT ![SubBuffer(drvQoS)] = Empty]
    /\ UNCHANGED <<drvQoS, drvFifo, wrkVars, skipped, packets_sent, completed, restarts, mixed>>

\* fclose flushes what fprintf put into the buffer.
DWrite ==
    /\ drvPc = "write"
    /\ drvPc' = "idle"
    /\ WriteNumber(SubBuffer(drvQoS), drvFifo)
    /\ UNCHANGED <<drvQoS, drvFifo, wrkVars, skipped, packets_sent, completed, restarts>>

-----------------------------------------------------------------------------
(***************************************************************************)
(* The worker: one iteration of the loop in main serves the buffer "turn". *)
(***************************************************************************)
JobAvailable(FIFO) == FIFO < QUEUE_SIZE
NextTurn           == (turn + 1) % NUM_OF_QUEUES

\* fopen "r+", fscanf, fclose, and the comparison with QUEUE_SIZE.
WRead ==
    /\ wrkPc = "read"
    /\ LET FIFO == Scan(file[turn], wrkFifo)
       IN  \/ /\ JobAvailable(FIFO)
              /\ wrkFifo' = FIFO + 1
              /\ wrkPc' = "trunc"
              /\ UNCHANGED turn
           \/ /\ ~JobAvailable(FIFO)
              /\ wrkFifo' = FIFO
              /\ turn' = NextTurn
              /\ UNCHANGED wrkPc
    /\ UNCHANGED <<file, drvVars, skipped, packets_sent, completed, restarts, mixed>>

\* fopen "w+" truncates.
WTrunc ==
    /\ wrkPc = "trunc"
    /\ wrkPc' = "write"
    /\ file' = [file EXCEPT ![turn] = Empty]
    /\ UNCHANGED <<turn, wrkFifo, drvVars, skipped, packets_sent, completed, restarts, mixed>>

\* fclose flushes the number; the turn passes to the next buffer.
WWrite ==
    /\ wrkPc = "write"
    /\ wrkPc' = "read"
    /\ WriteNumber(turn, wrkFifo)
    /\ turn' = NextTurn
    /\ completed' = [completed EXCEPT ![turn] = @ + 1]
    /\ UNCHANGED <<wrkFifo, drvVars, skipped, packets_sent, restarts>>

\* The process is killed, wherever it is, and started again.  A number that
\* was still in the stdio buffer is lost.
WorkerRestart ==
    /\ restarts < MaxRestarts
    /\ restarts' = restarts + 1
    /\ wrkPc' = "read" /\ turn' = 0 /\ wrkFifo' = 0
    /\ UNCHANGED <<file, drvVars, skipped, packets_sent, completed, mixed>>

-----------------------------------------------------------------------------
Driver == (\E qos \in QoSValues : DRead(qos)) \/ DTrunc \/ DWrite
Worker == WRead \/ WTrunc \/ WWrite
Next   == Driver \/ Worker \/ WorkerRestart

Spec == Init /\ [][Next]_vars

\* Both processes are scheduled by the operating system; packets may stop
\* coming, but a packet in hand is finished.
Fairness == WF_vars(DTrunc) /\ WF_vars(DWrite) /\ WF_vars(Worker)
LiveSpec == Spec /\ Fairness

-----------------------------------------------------------------------------
(***************************************************************************)
(* Properties.                                                             *)
(***************************************************************************)

\* The number of free slots the driver sees in sub-buffer b.
Credit(b) == Scan(file[b], 0)

\* The most that the file of b can show.
Limit(b) == IF mixed[b] THEN MaxNumber ELSE QUEUE_SIZE

\* Every variable keeps its type: the files hold at most two digits and the
\* two FIFO_SIZE locals stay within what two digits can say.
TypeOK ==
    /\ file \in [Buffers -> Text]
    /\ drvPc \in {"idle", "trunc", "write"}
    /\ drvQoS \in 0..255
    /\ drvFifo \in 0 .. MaxNumber - 1
    /\ wrkPc \in {"read", "trunc", "write"}
    /\ turn \in Buffers
    /\ wrkFifo \in 0..MaxNumber
    /\ skipped \in Nat
    /\ packets_sent \in [Buffers -> Nat]
    /\ completed \in [Buffers -> Nat]
    /\ restarts \in Nat
    /\ mixed \in [Buffers -> BOOLEAN]

\* Free slots are not created out of nothing: whatever the interleaving of the
\* driver with the worker, and wherever the worker is killed, a file shows more
\* than QUEUE_SIZE slots only after davidis_vtx1 or worker.c has written a number
\* over a longer one.
CreditWithinSize == \A b \in Buffers : ~mixed[b] => Credit(b) <= QUEUE_SIZE

\* Admission control in spite of the lost updates: davidis_vtx1 admits at
\* most one full buffer of packets for every job that worker.c completes, and
\* after a mix at most what two digits can say.
AdmissionBounded ==
    \A b \in Buffers : packets_sent[b] <= Limit(b) * (1 + completed[b])

\* The classes are isolated: a sub-buffer to which no packet was admitted is
\* full of free slots and its file was never rewritten, although the worker
\* carries the number of one buffer over to the next in FIFO_SIZE.
ClassIsolation ==
    \A b \in Buffers :
        packets_sent[b] = 0 => file[b] = Digits(QUEUE_SIZE) /\ completed[b] = 0

\* As long as the worker was never killed, a file without a number is one
\* that the driver or the worker is about to write.
EmptyIsTransient ==
    restarts = 0 =>
        \A b \in Buffers : file[b] = Empty =>
            \/ drvPc = "write" /\ SubBuffer(drvQoS) = b
            \/ wrkPc = "write" /\ turn = b

\* README: "each sub-buffer is served in a round-robin manner".  A sub-buffer
\* with a packet in it is served until exactly QUEUE_SIZE slots are free again,
\* once the traffic stops (MaxPkts bounds it), unless its number was mixed with
\* another or the worker was killed.
EverySubBufferServed ==
    \A b \in Buffers :
        (Credit(b) < QUEUE_SIZE) ~> (Credit(b) = QUEUE_SIZE \/ mixed[b] \/ restarts > 0)

\* "accuire a lock": the comment on the flock calls of davidis_vtx1.  If they
\* did exclude the worker, then between two updates every slot would be
\* accounted for.
CreditConserved ==
    (drvPc = "idle" /\ wrkPc = "read" /\ restarts = 0) =>
        \A b \in Buffers : Credit(b) = QUEUE_SIZE - packets_sent[b] + completed[b]

\* The worker passes over the sub-buffer whose turn it is, and the driver is
\* not updating it.
Skips ==
    /\ wrkPc = "read" /\ wrkPc' = "read" /\ turn' # turn /\ restarts' = 0
    /\ drvPc = "idle" \/ SubBuffer(drvQoS) # turn

\* "no job available in this queue, skip to next queue": the comment on the
\* worker's else branch.  What is skipped has exactly QUEUE_SIZE free slots.
SkipMeansNoJob == [][Skips => Credit(turn) = QUEUE_SIZE]_vars

\* The comment is right about the files in which no numbers were mixed.
UnmixedSkipMeansNoJob == [][Skips /\ ~mixed[turn] => Credit(turn) = QUEUE_SIZE]_vars
=============================================================================
