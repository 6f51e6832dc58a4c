# A TLA+ model of the DPDK-P4 switch

This directory is a verification development for the switch in `src/`: TLA+
modules translated from its code, TLC configurations that check them on small
instances, and theorems that TLAPS checks for every value of the constants.
`PROJECT.json` lists runs, theorems, hazards and, for every definition, the
lines it models.

## 1. The system

The repository is a software switch built on DPDK 22.07. Most of its files are
DPDK itself; the switch's own logic is in the places below. `make run` writes
`33` into three text files and starts `pipelineD -c 0x3 -- -s l3.cli`: one
control thread and one data plane thread. The worker is a process of its own.

| part | source | state it keeps | operations |
|---|---|---|---|
| buffer emulator, driver side | `drivers/net/ixgbe/ixgbe_rxtx_vec_sse.c` (`davidis_vtx1`) | three files with a number of free slots; counters | for each packet: read the slots of its class, drop it or take a slot and write the number back |
| buffer emulator, worker | `worker/worker.c` | the same files; `turn`, `FIFO_SIZE` | serve the files in turn: read, add a slot, write back |
| transmit ring | the same driver file, `ixgbe_rxtx_vec_common.h` | descriptors, `sw_ring`, `tx_tail`, `nb_tx_free`, `tx_next_rs`, `tx_next_dd` | transmit a burst, take back the buffers of sent packets |
| data plane threads | `pipeline/thread.c` | a list of pipelines per thread, two rings per thread, `enabled` and `thread_id` per pipeline | enable and disable a pipeline on a thread; run the list |
| connection server | `pipeline/conn.c` | one input buffer, a set of clients | accept, read and execute lines, close |
| CLI | `pipeline/cli.c` | none of its own | one function per command, over all the others |
| object registry | `pipeline/obj.c` | named mempools, links, rings, taps, pipelines | create, find |
| table transactions | `lib/pipeline/rte_swx_ctl.c` (vendored) | per table: committed and pending entries; two copies of all tables | add, delete, default, commit, abort |
| classifier | `P4/l3.p4`, `P4/l3.spec` | one register | gives each packet its QoS value |
| main loop | `pipeline/main.c` | - | threads, then script, then server; log one register |

How they interact:

- the classifier writes a QoS value into the packet; the driver reads one byte of
  it and picks the sub-buffer: up to 20, between 20 and 80, from 80 on;
- driver and worker share the three files and nothing else. Neither can see what
  the other is doing;
- the control thread runs one CLI command at a time, from the start-up script and
  then from the clients. It talks to a data plane thread through a request and a
  response ring, and spins until the response is there;
- a data plane thread runs its pipelines, whose output ports call the driver's
  transmit function;
- a pipeline's tables exist twice. Packets use one copy, a commit prepares the other,
  swaps the two and sleeps 100 microseconds before it changes the old one.

What is hard, and what makes the parts correct:

- *files as shared memory*: every read-modify-write of a sub-buffer is an open, a
  read, an open that truncates and a write, in two processes, without a lock that
  works. Correct means: no slots out of nothing, bounded admission, classes that do
  not disturb each other, no sub-buffer that is forgotten;
- *text*: a number written over a longer number leaves a third number;
- *a killed worker* loses what stdio has buffered, after the file was truncated;
- *two views of one mapping*: the control thread's record and the data plane's list
  are changed by different threads and compared by nobody. Correct means: they
  agree whenever no command is under way, a pipeline runs on one thread only, every
  command returns, every enabled pipeline runs;
- *ring arithmetic in the driver*: drops make the number of packets sent differ from
  the number of descriptors used. Correct means: the card sends what was written and
  nothing else, and every buffer goes back to its pool once;
- *transactions over several tables* while packets are in flight, with a table that may
  refuse after others have been changed. Correct means: a packet sees all of a commit
  or nothing of it, and a failed commit leaves no trace;
- *a pipeline's life*: it is created, given ports, built and enabled by separate
  commands, any of which may fail or come too early;
- *one input buffer for all clients*, and commands that fail half-way.

The hazards are listed one by one, with their lines, in `PROJECT.json`.

## 2. Modules

| module | models | status |
|---|---|---|
| `BufferEmulator` | driver side and worker over the three files | checked |
| `BufferEmulatorProofs` | its theorems | proved |
| `ThreadControl` | control thread, rings, data plane threads | checked |
| `ThreadControlProofs` | its theorems | proved |
| `Conn`, `MCConn` | connection server; its model values | checked |
| `ConnProofs` | its theorems | proved |
| `TableSpec` | what table updates promise (abstract) | refined by `TableCtl` |
| `TableCtl`, `MCTableCtl` | pending work, commit, rollback, abort, packets in flight; its model values | checked |
| `TableCtlProofs` | its invariants | proved |
| `TableCtlRefines` | that it implements `TableSpec` | proved |
| `TxRing` | transmit queue of the driver and the network card | checked |
| `TxRingProofs` | its theorems | proved |
| `Switch`, `MCSwitch` | life of a pipeline; composes `TableCtl` and `ThreadControl` | checked |
| `SwitchProofs` | its theorems, and those of the parts in the composition | proved |

### BufferEmulator

`file[b]` is the text of a file, at most two digits by position. The driver
(`drvPc`, `drvQoS`, `drvFifo`) handles one packet after the other; the worker
(`wrkPc`, `turn`, `wrkFifo`) runs its loop. Each system call that reads or changes
a file is one action, since the two processes may interleave there:

| action | code |
|---|---|
| `DRead(qos)` | QoS byte, `fopen "r"`, `fscanf`, `fclose`; drop, or take a slot from the local |
| `DTrunc` | `fopen "w"`: the file is empty from here on |
| `DWrite` | `fclose` flushes the number; the descriptor is written |
| `WRead` | `fopen "r+"`, `fscanf`, `fclose`; job or skip |
| `WTrunc`, `WWrite` | `fopen "w+"`; `fclose` and the next turn |
| `WorkerRestart` | the process is killed anywhere and started again |

The `flock` calls have no effect in the model because they have none in the code:
they get a `FILE *` where a descriptor is expected, and even a working lock is
released between read and write. Numbers are written to base `Base`, 10 in the code: a smaller
base lets TLC meet numbers of one and of two digits with a few slots. `Digits`, `Value`, `Scan` and `Overlay` are what
`fprintf`, `fscanf` and a write at offset 0 do to a text: an empty text leaves the
variable as it was, which is 0 for the driver and the previous sub-buffer's number
for the worker. `mixed[b]` is a history variable: a number was written over a longer one in file
`b`, so that the text has digits of both. The verdict of `bufferManagementProbability` is overwritten with
`true` in the code, so it is left out. The newline that `echo` leaves after the
first number is left out too: `fscanf` does not read it, and the first update of
the file truncates it away. A file that cannot be opened is not modelled (the code
would pass a null pointer on).

### ThreadControl

`enabled` and `thread_id` are the control thread's record in `struct pipeline`;
`p`, `pipeline_data` and `n_pipelines` are the list of each thread in `struct
thread_data`. `CmdEnable` and `CmdDisable` are the commands up to the point where
they have put the request into the ring, `CmdComplete` is the rest. A data plane
thread is the loop of `thread_main`: `RunPipeline` for each entry, then `EndPass` or
`Poll`, and in the poll `MsgNone`, `MsgHandle` and `MsgSend` until the queue is
empty. A command that fails a check changes nothing and is no step. The branches for
a thread that is not running cannot be reached: `main` launches the threads before
it runs the first command, and `thread_main` never returns. The code does not prevent an operator
from enabling what is enabled already; `reenabled` is the set of the
pipelines with which that happened, and `MayReenable` says with which it may happen. The timers are abstracted to the choice between `EndPass` and `Poll`.

### Conn

`stream[c]` is everything client `c` has sent, newline or not by position; `rd[c]` is how
much of it the server has read, `pos` how much of the current client's bytes it has
handled. `msg_in` is the one input buffer, and each byte in it knows whose it is. The
actions follow the dispatch loop: `ConnNone`, `Accept`, `AcceptFails` are
`conn_poll_for_conn`; `MsgNone` and `MsgEvent` are `epoll_wait`; `Read`, `ByteNewline`,
`ByteStore`, `ByteTooLong` and `Prompt` are `data_event_handle`; `Control` is
`control_event_handle`, and `ControlFails` its return when `epoll_ctl` cannot take the client out
of the group: the descriptor is not closed then. (`close` releases it also when it reports an error.)
Every call that the code checks may fail if `MayFail`, `accept4` and `epoll_wait` included, and the
data handler then returns where the code does (`Abandon`), before `msg_in_len` is reset. A read
takes at most `BUF_SIZE` bytes and may leave some behind, which `cut` remembers. The
event is taken before the read and its hangup bit is used after it, as in the code.
Commands are run by `ThreadControl` and the CLI; here a newline runs one. `failed`,
`torn` (a segment or a read did not end with a line) and `cut` are history variables that only
properties read.

### TableSpec and TableCtl

`TableSpec` has three variables: the committed state of all tables, the wished-for state,
and what each packet in flight sees. A commit is one step, a failed commit or an abort
drops the wish, a packet keeps what was committed when it was received, and only a thread without a
packet receives one, so a copy that changes under a packet is no step of it.

`TableCtl` is the code. `entries` and the `pending_*` lists are those of `struct table`
(`entries` as a function of the key: nothing depends on its order), `n_add`, `n_modify` and
`n_delete` the counters that the rollback uses. `obj` and `dflt` are the two copies. `place` is the
bucket of each key of an exact match table: the keys of one hash value (`Hash`) are in a chain of
buckets of `KEYS_PER_BUCKET` keys, 0 the bucket itself, then its extensions in their order. `ops.add` takes the first hole of the
chain (`Placed`), appends an extension if there is none and one of the table's `n_buckets_ext` is
free, and refuses otherwise (`Room`); `ops.del` takes an extension it leaves empty out of its chain
(`Released`). `shared`
says that both copies of a table without `ops.add` point to one object, which is what makes
a free dangerous; `Freed` is an object after `ops.free`. `held[w]` is the copy that the
packet of hardware thread `w` keeps. `differ` and `refused` are history variables: a rollback left the
two copies of a table unequal, and a second pass was refused.

| action | code |
|---|---|
| `TableAdd`, `TableDelete`, `TableDefault` | one line of the CLI's file, `rte_swx_ctl_pipeline_table_*` |
| `Commit`, `RollFwd*` | the start of a commit; `table_rollfwd0` for one table: nothing pending, in place, rebuilt, `create` fails or (`MayRunOut`) there is no memory for its list |
| `Swap` | `table_rollfwd1` for all tables, `rte_swx_pipeline_table_state_set` |
| `Usleep` | `usleep(100)` returns |
| `Sync` | second pass for one table: `table_rollfwd0`, `1`, `2` |
| `RollBack` | `table_rollback` and `table_abort` for one table |
| `Abort` | `rte_swx_ctl_pipeline_abort` |
| `Rx`, `Tx` | a packet is received (or recirculated) and finished |

The lines of a file are handled one by one and are not undone when a later one is bad, so a
line is a step. `Usleep` assumes what the code relies on: with the pipeline running, 100
microseconds are enough for the packets of the old copy (`Drained`). The code does not check it, and
`switch_disable` shows where it is not so.

The refinement mapping takes the copy in use as committed, the entries with the pending work
done as the wish, and the held copy's content as what a packet sees. While a failed commit is
being undone, the wish is the committed state already.

### TxRing

A descriptor has a packet, the RS and DD bits, and `new`: written since it was last sent. A
burst is one step, since the card looks at descriptors before TDT only and TDT is written
last; it first takes back a group of buffers if the code would (`Reclaims`). Which packets the
buffer emulator admits is a choice (`sent`). `vtx` is the sum the code computes: `ret` is not
initialised (its value is any of `Garbage`) and accumulates, and what is added up is the
running total. `Layout` is the split at the end of the ring, with the remainder computed from
the packets sent; packets beyond the burst are `Stray`. `Transmit` is the card. `plain`
remembers that all bursts so far were single packets inside the ring, or dropped as a whole,
which is where the code counts right. `RingAssumption` is what `ixgbe_dev_tx_queue_setup` checks before
it accepts a ring. Its last line matters: with `tx_rs_thresh + tx_free_thresh > nb_tx_desc` the
driver would reclaim the group it is still writing, because the reset of the queue sets the DD bit of
every descriptor, and TLC shows `PlainBuffers` violated on a ring of 6 with `tx_free_thresh = 6`.

### Switch

One pipeline, `PIPELINE0`: `swx` is what `p->p` points to (created, built, freed), `ctl` whether
`p->ctl` is set. `PipelineCreate`, `PortIn` and `Build` are the commands before it can be used.
`TableCommand` is a step of a command on tables, `ThreadCommand` of one on threads: the control
thread executes one at a time, so each needs the other to be idle. `PacketStep` is a step of
`TableCtl`'s data plane, possible only while a thread of `ThreadControl` executes the pipeline.
`rte_swx_pipeline_run` stops after a number of instructions wherever packets are, so a
pipeline that is disabled keeps its packets. `Wait` therefore waits for packets only if the
pipeline runs. `MayCommitDisabled` says whether the operator commits while a
disabled pipeline has packets.

## 3. What the runs check

Passing runs:

| run | bounds | shows |
|---|---|---|
| `buffer_classes` | base 3, 3 slots, QoS 20, 79 and 80, 4 packets, 1 restart, fairness | `CreditWithinSize`, `AdmissionBounded`, `ClassIsolation`, `EmptyIsTransient`, `UnmixedSkipMeansNoJob`, `EverySubBufferServed` |
| `thread_commands` | 2 threads, 2 pipelines, lists of 2, one pipeline also enabled while enabled, fairness | `ControlViewExact`, `RunExclusive`, `DisableFindsPipeline`, `ArraysAgree`, `EnabledIsListed`, `CommandReturns`, `EnabledRuns` |
| `table_commit` | 2 exact match tables in use, of 5 and 2 keys, 2 keys per bucket, 8 keys of 2 hash values, 2 commits | `CopiesAgree`, `BucketsExact`, `PutBackFits`, `SecondPassFits` |
| `tx_plain` | ring of 6, groups of 2, 6 packets, bursts of 2, garbage 0 and 1 | `TypeOK`, `PlainCounts`, `PlainBuffers` |
| `switch_careful` | 2 threads, 2 ports, a wildcard and an exact match table, 2 keys, 1 packet | `RunsBuilt`, `Implements`, `DisabledIsQuiet` |
| `conn_clients` | 2 clients, 5 bytes, reads of 3, lines of 2, failing calls, fairness | `PendingIsUnfinished`, `CommandIsLine`, `SentIsRead`, `HangupIsClosed` |

Bounds. Three slots to base 3 are the smallest buffer whose number loses a digit when a slot
is taken, as 33 slots to base 10 do on the way from 10 to 9; four packets fill a sub-buffer, drop
packets, and let the
driver overtake the worker in every phase; 20, 79 and 80 are the edges of the three
classes. A list
of two fills up, with two pipelines or with one that is enabled twice, and has a first and a last entry to remove.
Five bytes are a
line and the torn beginning of another, of two clients or of one; three bytes
without a newline overflow an input buffer of two, and four bytes are more than one read takes.
With two keys per bucket, a table of five keys has two buckets and two extensions. `table_commit` starts from
tables that earlier commits filled: in the first both extensions hold one key each, while the bucket before
them has holes, so that keys move when they are deleted and put back; the second is full and refuses, so
that the first has been changed when the rollback starts. A second commit then meets what the first left behind.
In `switch_careful` a wildcard table comes first, whose `create` may fail, and a table with room for one key
refuses the other.
One packet meets every phase of a commit; more packets
are independent of each other. A ring of three groups wraps, fills up and is reclaimed by
groups while the card is anywhere. Two threads and lists of one are enough to move a pipeline
while it holds a packet. The pipeline of `thread_commands` that may be
enabled again fills the lists, so that requests for the other one are refused. `MaxPkts`, `MaxRestarts`, `MayReenable`, `MaxBytes`, `MaxCommits`,
`MaxPackets`, `MaxBurst`, `MaxFull` and `MaxPorts` bound counters and inputs and appear in the guards only.
`switch_careful` uses the symmetry of the two threads, which have the same code and the same
initial state; `table_commit` and `table_second` that of two keys with the same hash value and the same
place in the start. They check safety only.

`Implements` is the refinement. It fails if a packet can see part of a commit, a table in
the middle of an update, or a freed object; and if a failed commit or a later retry installs
anything that was dropped. `SecondPassFits` is the claim of the comment before the second
pass, where no status is checked, for the tables of which no rollback left the copies unequal; `table_second`
shows that it is false without that proviso. `PutBackFits` is what the rollback relies on when it ignores the
status of its additions. `CreditWithinSize`, `AdmissionBounded` and `UnmixedSkipMeansNoJob` say what is left
of the buffers' numbers when digits can be mixed: everything, in the files where that has not happened.

Runs that fail, each stating what a comment or a document says of the code:

| run | property | what happens |
|---|---|---|
| `buffer_locks` | `CreditConserved` ("accuire a lock") | the worker reads, the driver updates, the worker writes: the driver's update is lost |
| `buffer_skip` | `SkipMeansNoJob` ("no job available in this queue, skip to next queue") | of ten slots one is taken; the worker is about to write 10, the driver has read 9 and is about to write 8, both have truncated the file; 10, then 8 at offset 0, leave 80, and the worker skips a queue with jobs. With 33 slots 9 over 11 leaves 91 |
| `tx_tail` | `TailMarksUsed` ("MOVES THE TX_TAIL pointer to indicate which descriptors ... have been used") | `ret` starts at 0; of two packets the first is admitted and the second dropped, `vtx` adds the running totals 1 and 1: tail and TDT move by two, and the card is told to send a descriptor nobody wrote |
| `table_rollback` | `CopiesAgree` ("reverts ALL the tables to their state before the commit started") | the first table refuses; the second, a wildcard table with pending work, was not reached; its `ts_next->obj` is the shared object and is freed |
| `table_second` | `SecondPassGuaranteed` ("it is guaranteed that they will not fail on the current ts_next") | a commit deletes a key from the first of two extensions of a chain and fails at the next table; the rollback puts the key into a hole of the bucket itself and frees the extension, in one copy; the next commit needs an extension for another chain, gets it in that copy and is refused in the other. With 4 keys per bucket a table of 9 keys gets there |
| `switch_disable` | `Implements` ("only the before-update and the after-update table entries visible to the packets") | a pipeline is disabled with a packet in flight; a commit swaps, sleeps, and changes the copy that packet holds |

What these runs imply for the passing ones: `switch_careful` puts the wildcard
table first, as a commit that reaches it can undo it; `SecondPassFits` leaves out tables that a rollback has
left unequal, and `CopiesAgree` what comes after a refused second pass; the properties of the buffers look at `mixed`;
`tx_plain` states the counters for plain
bursts; and `switch_careful` has an operator who does not commit while a disabled pipeline
holds packets.

Behaviours of the code that the models contain and that restrict what is claimed:

- a file whose digits were mixed may show slots that nobody gave back, up to `MaxNumber`; the driver then admits
  them, and the worker skips the queue until the driver has used them up;
- `EverySubBufferServed` and `EmptyIsTransient` hold up to the first kill of the worker. Killed between truncation and
  write, it leaves an empty file; the driver reads 0 and drops, the restarted worker reads
  the previous buffer's number and skips, and neither repairs it;
- `RunExclusive` and `ControlViewExact` hold for every pipeline that was never enabled while it was enabled
  (`reenabled`). The code does not ask: a pipeline enabled on a second thread runs on both;
- `CommandIsLine` holds for lines that arrive whole, fit and are read whole. All clients share one input buffer,
  so half a line of one client becomes the beginning of another client's command, and the tail of a line that
  is too long is a command of its own;
- `SentIsRead` has an exception: the event that reports the hangup reads one buffer full and closes the
  connection, whatever the read left behind;
- `HangupIsClosed` holds if `epoll_ctl` does not fail for ever: as long as it does, the descriptor stays open;
- without memory for the list of a new object (`MayRunOut`), `ts_next` keeps the shared object and the rollback
  frees it, even for the first table: TLC shows `CopiesAgree` violated after five steps. The runs leave it out, and the theorems that assume `~MayRunOut`;
- a failed commit drops the pending work, while its message offers a retry. In `TableSpec` this
  is `Discard`; a retry commits nothing.

Fairness. Driver and worker are scheduled by the operating system: a packet in hand
is finished (`WF` on `DTrunc` and `DWrite`), the worker's loop goes on (`WF` on its
actions); packets need not come and nobody is obliged to restart anything. A data
plane lcore is a busy loop: pipelines return and messages are handled (`WF`). Whether
the end of a pass polls depends on a timer; a pass that finds it expired comes again
and again, while the action is disabled in between, hence `SF` on `Poll`. `EnabledRuns`
has the proviso that the thread returns to its passes again and again:
`thread_msg_handle` loops until its queue is empty, and TLC shows that an operator who
never pauses keeps a thread from its pipelines. The control thread's loop never ends (`WF`);
the backlog is a queue and epoll rotates its ready list, so no client is passed over for
ever (`SF` on accepting and on the event of each client). Clients owe nothing. `TableCtl`,
`TxRing` and `Switch` state no fairness: they check safety, and a refinement of safety.

## 4. What is proved

The invariants and action properties of the passing runs are proved, as is the refinement, except for
`BucketsExact` and `PutBackFits`, which are left to TLC together with liveness. The proofs are for every value of the constants that the named
assumptions allow: every base and every buffer size of at most two digits (from 1 to 99, 33 among
them), any QoS bytes, any number of packets and restarts;
any sets of threads and pipelines, any list length from 1 and any ring size from 2; any clients and
buffer sizes; any number of tables of both kinds, of any size, with any buckets, hash values, keys, actions
and packets; any
ring and thresholds that the driver accepts.

`BufferEmulatorProofs`: `CreditBound`, `AdmissionBound`, `Isolation`, `EmptyTransient`,
`TypeCorrect`, `SkipCorrect`. None of the invariants is inductive alone. The driver may read, be
overtaken by the worker, and write a number that ignores it, so the bound on admitted
packets is not preserved by the write as such. `Reserve(b)` is what the driver can still
admit to `b` until the worker writes again: the number in the file, or, while the driver
is between its read and its write, the number the file will show after that write.
`Limit(b)` is the most that file `b` can show: `QUEUE_SIZE`, or `MaxNumber` once its digits were mixed.
`ReserveBounded` says that admitted packets plus reserve stay within `Limit(b) * (1 +
completed)`. A read moves one from the reserve to the admitted packets; a truncation
never raises the reserve; a write of the worker may raise it, to at most the limit, and
is paid for by the job it completes; a mix only raises the limit. `FilesFit` and `LocalsFit` bound the files and the locals
by the limit of their own file, so that a mix in one file is not felt in another: the worker adds one only to
what is below `QUEUE_SIZE`. `Isolation` adds that a process about to rewrite a file has an
admitted packet of that class behind it. `SkipCorrect` is the action property `UnmixedSkipMeansNoJob`:
a worker that skips has read a number (`EmptyIsTransient`), which is not below
`QUEUE_SIZE` (the test, `SkipReads`) nor above it (`CreditWithinSize`).

`ThreadControlProofs`: `TypeCorrect`, which includes that the rings never overflow, `ArraysCorrect`, `DisableCorrect`,
`EnabledCorrect`, whatever the operator does; `ControlViewCorrect` and `Exclusive` for every pipeline that was
never enabled while it was enabled, whatever was done with the others. The strengthening is
`Protocol`, which says where the one message under way can be (request ring, handled but
not sent, response ring), and `Mapping`, which relates record and list while it is there.
`Exact` adds, for the pipelines outside `reenabled`, that no list has one twice and that a list holds only what
the record, corrected by the message under way, expects.

`ConnProofs`: `TypeCorrect` (the input buffer is never overrun) and `ExecutedOnce` for any
clients and any segments, and `LinesStayWhole` (`CommandIsLine`), for any size of the read buffer.
`PendingIsUnfinished` is
inductive with the types. `CommandIsLine` is not: `LineInv` adds that between two events
`msg_in` is empty, that what was read ends with a newline, and that in the loop `msg_in`
holds exactly the current line so far, which is why a line that fits never meets the
"Command too long." branch.

`SwitchProofs`: `OnlyBuiltRuns` (`RunsBuilt`) and, for an operator who enables only what is disabled
(`MayReenable = {}`), `QuietWhenDisabled`
(`DisabledIsQuiet`), for any tables, threads, ports and list lengths. `RunsBuilt` needs `LifeInv`:
the control handle is set only for a built pipeline, and as long as it is not set no thread
has a request or an entry in its list. For `QuietWhenDisabled` every step of the composition is
shown to be a step of `ThreadControl` or to leave its variables alone (`SameNext`), so that the
inductive invariant of `ThreadControlProofs` holds in the composition; a packet that moves is
then on a list that the record explains.

`TableCtlProofs`: `TypeCorrect`, `SecondPassAccepted` (`SecondPassFits`), `AgreeIfSafe` and
`CopiesCorrect` (`CopiesAgree`). `CopiesAgree` speaks of the moments between two commands, so `IndInv`
has to say what a copy contains at every moment of a commit. With `Kept` (what the lists say is in the
table) and `Updated` (what they say will be in it) a table is in one of three situations, and the phase
and `tid` say which: both copies have `Kept` (`Rest`); one has `Kept` and the other `Updated`
(`Split`); or the second has the part of the work that the counters `n_add`, `n_modify` and `n_delete`
account for, so that undoing that part leaves `Kept` (`Undoable`). `Lists` says that a key is at most
once in a list and in at most one of them, except that `pending_modify0` and `pending_modify1` name the
same keys; `Defaults` is the same story for the default
actions; `InFlight` that outside the grace period packets use the copy in use. The loops over a list are
folds, and what they do to a table is proved for the first `n` entries, with the least `n` for which it
would be wrong (`Least`) in the place of induction.

The part on the contents of the copies is stated for a set of tables. For the empty set it is inductive
without a condition (`BaseInductive`). For all tables (`AllInductive`) three things can break it, and
each is named. `RollBackSafe` says that a rollback does not come to a table that is built anew while its two
copies are one object (`table_rollback` shows that it may). `PutBackFits` says that the rollback finds room for what it
puts back; it is a hypothesis here and checked by `table_commit`. And once a second pass was refused
(`refused`, see `table_second`) nothing is claimed. `AgreeIfSafe` proves `CopiesAgree`, which has the last in its
premise, from the first two, for tables in any order, and with `MayRunOut`. `SafeIfRebuiltFirst` proves `RollBackSafe` of
every pipeline in which at most the first table is built anew (`RebuiltFirst`) and there is memory for its
lists (`~MayRunOut`), because a commit that fails has then been at that table and replaced its object, with NULL if it failed there; `CopiesCorrect`
combines the two.

`SecondPassAccepted` (`SecondPassFits`) needs none of that. Its invariant is `Twins`: the copies of a table
updated in place of which no rollback left the copies unequal (`differ`) are the same, place for place, or one
is the other with the pending work done, or with the part of it that was accepted. So the second pass
repeats on one copy what the first did on an equal one, with the same result, whatever buckets and hash
values are.

`TableCtlRefines`: `ImplementsIfSafe` and `TablesImplement` (`Implements`), under the same
hypotheses and `SecondPassGuaranteed`: after a refused second pass the next swap would install a table that nobody
asked for. Initial states map to initial states (`InitRefines`) and every step to a step or a stutter
(`NextRefines`): a table command edits the wish, the swap is the commit, the refusal of a table and an
abort drop the wish, `Rx` and `Tx` are themselves, and the rest is invisible. The last needs `InFlight`
(the pass that changes a copy changes one that no packet holds) and `Cleared`: at the end of a rollback
no table it has passed has pending work.

`TxRingProofs`: `TypeCorrect`, `CountsCorrect` (`PlainCounts`) and `BuffersCorrect` (`PlainBuffers`). The
types hold for all bursts, the garbage in `ret` included, and say that `tx_next_dd` is the last
descriptor of a whole group. `PlainInv` divides the ring, as long as bursts are plain, into slots that
are reclaimed, sent, queued and unused (`Order`), says that the queued descriptors were written and are
not reported as done (`Fresh`), that both rings have the same packet in a slot and no packet is in two
(`Slotted`), and what the place of a packet means for its buffer (`Accounted`). Plain bursts end with the
first lap: where the ring wraps, the packets sent before its end are added to the tail once more (line 986),
even for a single packet, and nothing of the kind holds any longer. `RingAssumption` is needed where buffers are reclaimed: below `tx_free_thresh` free
descriptors the first group has been written, so its DD bit comes from the card.

`SwitchProofs` also proves `SwitchImplements` (`Implements`): the theorem of `TableCtlRefines` for the
composition, under the same hypotheses and with an operator who enables only disabled pipelines and does not
commit while a disabled one holds packets (`switch_disable` shows why). The work is `TablesInSwitch`: every behaviour of
the composition is one of `TableCtl`. The one step that is not obviously so is the wait of a commit,
which in the composition does not look at the packets of a pipeline that does not run; `NoStranded` says
that during a commit the pipeline is enabled or holds no packet.

Only model-checked: the liveness properties (`EverySubBufferServed`, `CommandReturns`, `EnabledRuns`,
`SentIsRead`, `HangupIsClosed`), since the prover does not reason about fairness; `BucketsExact` and
`PutBackFits`, whose proofs need counting arguments over the buckets of a chain after any number of additions and
deletions. `CreditConserved`, `SkipMeansNoJob`, `TailMarksUsed` and `SecondPassGuaranteed` are refuted by their
runs; so are `CopiesAgree` and `Implements` without the hypotheses above.

## 5. What is not modelled, and the plan

Left out for good: the P4 program (no state over time that matters here), the floating
point of the unused drop algorithms, scripts and logs, token splitting and messages of the
CLI, commands that read or write one cell (registers, meters, statistics, mirroring), the
creation of devices (mempools, links, rings, taps, output ports), the rest of DPDK.

Left out so far: learner tables, whose default is handled like that of a table; selector tables, which have
pending groups instead of entries and a rollback that makes both copies one object;
allocation failures inside an entry; exact match tables of fewer keys than a bucket holds, for which the code
allocates no bucket at all; the one global `log_file` that several data plane threads would open and close
under each other (one thread is started); the main loop's use of PIPELINE0 when the script did
not create it.

Proofs to add:

1. `PutBackFits`: an extension that the deletions of the first pass freed is free when the rollback puts
   entries back, and so is a place for every one of them; then `BucketsExact`, on which this rests. With it the
   hypothesis goes away from `CopiesCorrect`, `TablesImplement` and `SwitchImplements`.
2. `RollBackSafe` under a hypothesis weaker than `RebuiltFirst`: a table that is built anew may come
   later if no table before it and no rebuilt table after it can refuse (tables with room for every
   key, and a `create` that succeeds).
3. Safety that the liveness properties rest on, such as bounds on how long an empty file lasts.
