-------------------------------- MODULE Conn --------------------------------
(***************************************************************************)
(* The connection server of the pipeline application (conn.c): the control *)
(* thread accepts clients, assembles what they send into lines and runs a  *)
(* CLI command for every line.                                             *)
(*                                                                         *)
(* There is one input buffer msg_in for all clients.  What keeps their     *)
(* commands apart is only that a client's line usually arrives as a whole. *)
(*                                                                         *)
(* The bytes of a client are told apart by their position in what it sent, *)
(* and each is either a newline or not.  A system call of the server that  *)
(* can fail does so if MayFail: a client that does not read its output     *)
(* makes the non-blocking write fail with EAGAIN.                          *)
(***************************************************************************)
EXTENDS Integers, Sequences

CONSTANTS
    Clients,            \* connections (a client that comes back is another one)
    BUF_SIZE,           \* buf_size: the most one read takes
    MSG_IN_LEN_MAX,     \* msg_in_len_max: the longest line
    Sends,              \* what a client may put into one segment
    MayFail,            \* system calls may fail
    MaxBytes,           \* bound: bytes that the clients send
    NULL

ASSUME BufAssumption   == BUF_SIZE \in Nat \ {0} /\ MSG_IN_LEN_MAX \in Nat \ {0}
ASSUME SendsAssumption == Sends \subseteq Seq({"x", "nl"}) \ {<<>>}
ASSUME FailAssumption  == MayFail \in BOOLEAN /\ MaxBytes \in Nat
ASSUME NoClient        == NULL \notin Clients

VARIABLES
    link,               \* link[c]: the connection as the server has it
    gone,               \* gone[c]: the client has closed its end
    stream,             \* stream[c]: all the client sent
    sent,               \* bytes sent by all clients
    rd,                 \* rd[c]: how many bytes of it the server has read
    pc,                 \* where the dispatch loop is
    cur, hup,           \* fd_client and the control bits of the event
    pos,                \* bytes of cur handled; those up to rd[cur] are in buf
    msg_in,             \* the input buffer
    failed,             \* history: some system call has failed
    torn,               \* history: some segment or some read did not end with its line
    cut                 \* history: cut[c]: the last read of c left bytes behind

clientVars == <<link, gone, stream, sent, torn>>
serverVars == <<rd, pc, cur, hup, pos, msg_in, failed, cut>>
vars       == <<clientVars, serverVars>>

Bytes == [c : Clients, k : Nat \ {0}]

Init ==
    /\ link = [c \in Clients |-> "none"]
    /\ gone = [c \in Clients |-> FALSE]
    /\ stream = [c \in Clients |-> <<>>]
    /\ sent = 0
    /\ rd = [c \in Clients |-> 0]
    /\ pc = "conn" /\ cur = NULL /\ hup = FALSE /\ pos = 0
    /\ msg_in = <<>>
    /\ failed = FALSE /\ torn = FALSE
    /\ cut = [c \in Clients |-> FALSE]

-----------------------------------------------------------------------------
(***************************************************************************)
(* Mutants: bugs this code could have had, each of which a property below  *)
(* must detect.  No definition of the specification uses them.             *)
(***************************************************************************)
MutHasSpace      == Len(msg_in) <= MSG_IN_LEN_MAX   \* off by one in the length test
MutLessSpace     == Len(msg_in) + 1 < MSG_IN_LEN_MAX
MutAfterLine     == msg_in                          \* msg_in_len is not reset
MutHangup(c)     == FALSE                           \* no EPOLLRDHUP in the event mask

\* A client that has hung up is closed before its data is read.
MutRead ==
    /\ pc = "read"
    /\ \/ /\ ~hup
          /\ rd[cur] < Len(stream[cur])
          /\ rd' = [rd EXCEPT ![cur] = Len(stream[cur])]
          /\ pos' = rd[cur] /\ pc' = "byte"
       \/ /\ hup \/ rd[cur] = Len(stream[cur])
          /\ pc' = "ctrl"
          /\ UNCHANGED <<rd, pos>>
    /\ UNCHANGED <<clientVars, cur, hup, msg_in, failed, cut>>

-----------------------------------------------------------------------------
(***************************************************************************)
(* The clients, and the network.                                           *)
(***************************************************************************)
Connect(c) ==
    /\ link[c] = "none"
    /\ link' = [link EXCEPT ![c] = "backlog"]
    /\ UNCHANGED <<gone, stream, sent, torn, serverVars>>

Send(c, s) ==
    /\ link[c] \in {"backlog", "open"} /\ ~gone[c]
    /\ sent + Len(s) <= MaxBytes
    /\ sent' = sent + Len(s)
    /\ stream' = [stream EXCEPT ![c] = @ \o s]
    /\ torn' = (torn \/ s[Len(s)] # "nl")
    /\ UNCHANGED <<link, gone, serverVars>>

Leave(c) ==
    /\ link[c] \in {"backlog", "open"} /\ ~gone[c]
    /\ gone' = [gone EXCEPT ![c] = TRUE]
    /\ UNCHANGED <<link, stream, sent, torn, serverVars>>

-----------------------------------------------------------------------------
(***************************************************************************)
(* conn_poll_for_conn.                                                     *)
(***************************************************************************)

\* accept4 has nothing to return, or fails.
ConnNone ==
    /\ pc = "conn"
    /\ MayFail \/ \A c \in Clients : link[c] # "backlog"
    /\ pc' = "msg"
    /\ UNCHANGED <<clientVars, rd, cur, hup, pos, msg_in, failed, cut>>

\* The client joins the epoll group and gets welcome and prompt.
Accept(c) ==
    /\ pc = "conn"
    /\ link[c] = "backlog"
    /\ link' = [link EXCEPT ![c] = "open"]
    /\ pc' = "msg"
    /\ UNCHANGED <<gone, stream, sent, torn, rd, cur, hup, pos, msg_in, failed, cut>>

\* epoll_ctl or one of the two writes fails: the client is closed.
AcceptFails(c) ==
    /\ MayFail
    /\ pc = "conn"
    /\ link[c] = "backlog"
    /\ link' = [link EXCEPT ![c] = "closed"]
    /\ pc' = "msg"
    /\ failed' = TRUE
    /\ UNCHANGED <<gone, stream, sent, torn, rd, cur, hup, pos, msg_in, cut>>

-----------------------------------------------------------------------------
(***************************************************************************)
(* conn_poll_for_msg.                                                      *)
(***************************************************************************)
Hangup(c) == gone[c]
Ready(c)  == link[c] = "open" /\ (rd[c] < Len(stream[c]) \/ Hangup(c))

\* epoll_wait has no event, or fails.
MsgNone ==
    /\ pc = "msg"
    /\ MayFail \/ \A c \in Clients : ~Ready(c)
    /\ pc' = "conn"
    /\ UNCHANGED <<clientVars, rd, cur, hup, pos, msg_in, failed, cut>>

\* epoll_wait returns the event of one client.  A hangup comes with EPOLLIN.
MsgEvent(c) ==
    /\ pc = "msg"
    /\ Ready(c)
    /\ cur' = c /\ hup' = Hangup(c)
    /\ pc' = "read"
    /\ UNCHANGED <<clientVars, rd, pos, msg_in, failed, cut>>

\* data_event_handle reads what is there, at most a buffer full.
Read ==
    /\ pc = "read"
    /\ LET avail == Len(stream[cur]) - rd[cur]
       IN  \/ /\ avail > 0
              /\ rd' = [rd EXCEPT ![cur] = @ + (IF avail > BUF_SIZE THEN BUF_SIZE ELSE avail)]
              /\ pos' = rd[cur]
              /\ pc' = "byte"
              /\ cut' = [cut EXCEPT ![cur] = avail > BUF_SIZE]
              /\ torn' = (torn \/ stream[cur][rd'[cur]] # "nl")
           \/ /\ avail = 0
              /\ pc' = "ctrl"
              /\ UNCHANGED <<rd, pos, cut, torn>>
    /\ UNCHANGED <<link, gone, stream, sent, cur, hup, msg_in, failed>>

\* A call of data_event_handle fails: it returns, whatever is left in buf.
Abandon ==
    /\ MayFail
    /\ failed' = TRUE
    /\ pc' = "ctrl"
    /\ UNCHANGED <<rd, pos, msg_in, cut>>

ReadFails ==
    /\ pc = "read"
    /\ Abandon
    /\ UNCHANGED <<clientVars, cur, hup>>

\* The loop over the bytes of buf.
InBuf     == pc = "byte" /\ pos < rd[cur]
IsNewline == stream[cur][pos + 1] = "nl"
HasSpace  == Len(msg_in) < MSG_IN_LEN_MAX
AfterLine == <<>>

\* A newline: the command is run, and its output, if any, is written.
ByteNewline ==
    /\ InBuf /\ IsNewline
    /\ \/ msg_in' = AfterLine /\ pos' = pos + 1 /\ UNCHANGED <<rd, pc, failed, cut>>
       \/ Abandon
    /\ UNCHANGED <<clientVars, cur, hup>>

\* Any other byte goes into the input buffer.
ByteStore ==
    /\ InBuf /\ ~IsNewline
    /\ HasSpace
    /\ msg_in' = Append(msg_in, [c |-> cur, k |-> pos + 1])
    /\ pos' = pos + 1
    /\ UNCHANGED <<clientVars, rd, pc, cur, hup, failed, cut>>

\* "Command too long.": the buffer is emptied and the byte dropped.
ByteTooLong ==
    /\ InBuf /\ ~IsNewline
    /\ ~HasSpace
    /\ \/ msg_in' = <<>> /\ pos' = pos + 1 /\ UNCHANGED <<rd, pc, failed, cut>>
       \/ Abandon
    /\ UNCHANGED <<clientVars, cur, hup>>

\* All bytes are handled: the prompt is written.
Prompt ==
    /\ pc = "byte" /\ pos = rd[cur]
    /\ \/ pc' = "ctrl" /\ UNCHANGED <<rd, pos, msg_in, failed, cut>>
       \/ Abandon
    /\ UNCHANGED <<clientVars, cur, hup>>

\* control_event_handle closes a client that has hung up; close releases the
\* descriptor also when it reports an error.
Control ==
    /\ pc = "ctrl"
    /\ link' = IF hup THEN [link EXCEPT ![cur] = "closed"] ELSE link
    /\ pc' = "conn" /\ cur' = NULL /\ hup' = FALSE /\ pos' = 0
    /\ UNCHANGED <<gone, stream, sent, torn, rd, msg_in, failed, cut>>

\* epoll_ctl cannot take the client out of the group: it stays there and is not
\* closed, and its event comes again.
ControlFails ==
    /\ MayFail
    /\ pc = "ctrl" /\ hup
    /\ failed' = TRUE
    /\ pc' = "conn" /\ cur' = NULL /\ hup' = FALSE /\ pos' = 0
    /\ UNCHANGED <<clientVars, rd, msg_in, cut>>

-----------------------------------------------------------------------------
Client(c) == Connect(c) \/ (\E s \in Sends : Send(c, s)) \/ Leave(c)
Handle    == \/ Read \/ ReadFails \/ ByteNewline \/ ByteStore \/ ByteTooLong \/ Prompt
             \/ Control \/ ControlFails
Server    == \/ ConnNone \/ MsgNone \/ Handle
             \/ \E c \in Clients : Accept(c) \/ AcceptFails(c) \/ MsgEvent(c)
Next      == Server \/ \E c \in Clients : Client(c)

Spec == Init /\ [][Next]_vars

\* The dispatch loop of main never ends.  The backlog is a queue and epoll
\* rotates its ready list, so no client is passed over for ever.
Fairness == /\ WF_vars(Server)
            /\ \A c \in Clients : SF_vars(Accept(c) \/ AcceptFails(c)) /\ SF_vars(MsgEvent(c))
LiveSpec == Spec /\ Fairness

-----------------------------------------------------------------------------
(***************************************************************************)
(* Properties.                                                             *)
(***************************************************************************)

\* Every variable keeps its type; in particular msg_in has room for the
\* terminating zero that the handler writes at msg_in_len.
TypeOK ==
    /\ link \in [Clients -> {"none", "backlog", "open", "closed"}]
    /\ gone \in [Clients -> BOOLEAN]
    /\ stream \in [Clients -> Seq({"x", "nl"})]
    /\ sent \in Nat
    /\ rd \in [Clients -> Nat]
    /\ \A c \in Clients : rd[c] <= Len(stream[c])
    /\ pc \in {"conn", "msg", "read", "byte", "ctrl"}
    /\ cur \in Clients \cup {NULL}
    /\ pc \in {"read", "byte", "ctrl"} <=> cur \in Clients
    /\ hup \in BOOLEAN
    /\ pos \in Nat
    /\ pc = "byte" => pos <= rd[cur]
    /\ msg_in \in Seq(Bytes)
    /\ Len(msg_in) <= MSG_IN_LEN_MAX
    /\ failed \in BOOLEAN /\ torn \in BOOLEAN /\ cut \in [Clients -> BOOLEAN]

\* The bytes of client c that the loop in data_event_handle has been over.
Processed(c) == IF pc = "byte" /\ c = cur THEN pos ELSE rd[c]

\* Nothing is executed twice: as long as no call fails, no byte in msg_in
\* belongs to a line whose newline has been handled, so that each byte becomes
\* part of at most one command, however the segments of the clients mix.
PendingIsUnfinished ==
    ~failed =>
        \A i \in 1 .. Len(msg_in) :
            LET b == msg_in[i]
            IN  /\ b.k <= Processed(b.c)
                /\ \A m \in b.k .. Processed(b.c) : stream[b.c][m] # "nl"

\* Some line of client c does not fit into msg_in.
TooLong(c) ==
    \E k \in 1 .. Len(stream[c]) - MSG_IN_LEN_MAX :
        \A m \in k .. k + MSG_IN_LEN_MAX : stream[c][m] # "nl"

\* What the server relies on.  If the lines of all clients arrive in one piece,
\* every read ends with one, each fits into msg_in, and no call fails, then the
\* command that runs at a newline is the line that its client sent, from the
\* client's previous newline on, and nothing else.
CommandIsLine ==
    (InBuf /\ IsNewline /\ ~failed /\ ~torn /\ \A c \in Clients : ~TooLong(c)) =>
        LET n == Len(msg_in)
        IN  /\ \A i \in 1..n : msg_in[i] = [c |-> cur, k |-> pos - n + i]
            /\ pos = n \/ stream[cur][pos - n] = "nl"

\* Whatever a client sent before it hung up is read before the server closes
\* the connection, unless a call failed.  There is one more way to lose it: the
\* event that reports the hangup reads one buffer full and closes, although the
\* read left bytes behind.
SentIsRead ==
    \A c \in Clients :
        (link[c] \in {"backlog", "open"} /\ rd[c] < Len(stream[c]))
            ~> \/ rd[c] = Len(stream[c]) \/ failed
               \/ link[c] = "closed" /\ cut[c]

\* A client that hung up does not keep its descriptor, whichever calls fail,
\* unless epoll_ctl refuses again and again to take it out of the group.
HangupIsClosed ==
    (<>[][~ControlFails]_vars) =>
        \A c \in Clients : (gone[c] /\ link[c] = "open") ~> link[c] = "closed"
=============================================================================
