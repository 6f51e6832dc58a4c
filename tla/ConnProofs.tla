------------------------------ MODULE ConnProofs ------------------------------
(***************************************************************************)
(* Proofs about Conn, for any set of clients, any segments they send and   *)
(* any sizes of the two buffers.                                           *)
(***************************************************************************)
EXTENDS Conn, TLAPS

-----------------------------------------------------------------------------
(***************************************************************************)
(* Type correctness, action by action.                                     *)
(***************************************************************************)

\* What a client sends is added behind what it sent before.
LEMMA Extended ==
    ASSUME NEW S, NEW s \in Seq(S), NEW t \in Seq(S)
    PROVE  /\ s \o t \in Seq(S) /\ Len(s \o t) = Len(s) + Len(t)
           /\ \A i \in 1 .. Len(s) : (s \o t)[i] = s[i]
OBVIOUS

\* Initially the input buffer is empty and nobody is connected.
LEMMA TypeInit == Init => TypeOK
<1> SUFFICES ASSUME Init PROVE TypeOK
  OBVIOUS
<1>1. <<>> \in Seq({"x", "nl"}) /\ <<>> \in Seq(Bytes) /\ Len(<<>>) = 0
  OBVIOUS
<1>2. stream \in [Clients -> Seq({"x", "nl"})] /\ \A c \in Clients : rd[c] <= Len(stream[c])
  BY <1>1 DEF Init
<1>3. msg_in \in Seq(Bytes) /\ Len(msg_in) <= MSG_IN_LEN_MAX
  BY <1>1, BufAssumption DEF Init
<1>4. QED
  BY <1>2, <1>3, NoClient DEF Init, TypeOK

\* The steps of a client touch nothing of the server.
LEMMA TypeClient == ASSUME TypeOK, NEW c \in Clients, Client(c) PROVE TypeOK'
<1>1. CASE Connect(c)
  BY <1>1 DEF Connect, TypeOK, serverVars
<1>2. ASSUME NEW s \in Sends, Send(c, s) PROVE TypeOK'
  <2>1. s \in Seq({"x", "nl"}) /\ Len(s) \in Nat
    BY SendsAssumption
  <2>2. stream[c] \in Seq({"x", "nl"}) /\ Len(stream[c]) \in Nat /\ rd[c] \in Nat
    BY DEF TypeOK
  <2>3. stream[c] \o s \in Seq({"x", "nl"}) /\ Len(stream[c] \o s) = Len(stream[c]) + Len(s)
    BY <2>1, <2>2
  <2>4. /\ stream' = [stream EXCEPT ![c] = stream[c] \o s]
        /\ sent' = sent + Len(s)
        /\ torn' = (torn \/ s[Len(s)] # "nl")
        /\ UNCHANGED <<link, gone, rd, pc, cur, hup, pos, msg_in, failed, cut>>
    BY <1>2 DEF Send, serverVars
  <2>5. stream' \in [Clients -> Seq({"x", "nl"})]
    BY <2>3, <2>4 DEF TypeOK
  <2>6. \A d \in Clients : rd'[d] <= Len(stream'[d])
    BY <2>1, <2>2, <2>3, <2>4 DEF TypeOK
  <2>7. sent' \in Nat
    BY <2>1, <2>4 DEF TypeOK
  <2>8. torn' \in BOOLEAN
    BY <2>4 DEF TypeOK
  <2>9. QED
    BY <2>4, <2>5, <2>6, <2>7, <2>8 DEF TypeOK
<1>3. CASE Leave(c)
  BY <1>3 DEF Leave, TypeOK, serverVars
<1>4. QED
  BY <1>1, <1>2, <1>3 DEF Client

\* Accepting a client, and waiting in vain.
LEMMA TypePoll ==
    ASSUME TypeOK,
           \/ ConnNone \/ MsgNone
           \/ \E c \in Clients : Accept(c) \/ AcceptFails(c) \/ MsgEvent(c)
    PROVE  TypeOK'
<1>1. CASE ConnNone
  BY <1>1, NoClient DEF ConnNone, TypeOK, clientVars
<1>2. CASE MsgNone
  BY <1>2, NoClient DEF MsgNone, TypeOK, clientVars
<1>3. ASSUME NEW c \in Clients, Accept(c) PROVE TypeOK'
  BY <1>3 DEF Accept, TypeOK
<1>4. ASSUME NEW c \in Clients, AcceptFails(c) PROVE TypeOK'
  BY <1>4 DEF AcceptFails, TypeOK
<1>5. ASSUME NEW c \in Clients, MsgEvent(c) PROVE TypeOK'
  BY <1>5 DEF MsgEvent, Hangup, TypeOK, clientVars
<1>6. QED
  BY <1>1, <1>2, <1>3, <1>4, <1>5

\* The handlers of an event keep msg_in within its bounds.
LEMMA TypeHandle == ASSUME TypeOK, Handle PROVE TypeOK'
<1>1. CASE Read
  <2>1. cur \in Clients /\ rd[cur] \in Nat /\ Len(stream[cur]) \in Nat /\ rd[cur] <= Len(stream[cur])
    BY <1>1 DEF Read, TypeOK
  <2> DEFINE avail == Len(stream[cur]) - rd[cur]
             n     == IF avail > BUF_SIZE THEN BUF_SIZE ELSE avail
  <2>2. CASE /\ avail > 0 /\ rd' = [rd EXCEPT ![cur] = rd[cur] + n]
             /\ pos' = rd[cur] /\ pc' = "byte"
    <3>1. n \in Nat /\ rd[cur] + n \in Nat /\ rd[cur] + n <= Len(stream[cur])
      BY <2>1, <2>2, BufAssumption
    <3>2. rd' \in [Clients -> Nat] /\ rd'[cur] = rd[cur] + n
      BY <2>1, <2>2, <3>1 DEF TypeOK
    <3>3. \A c \in Clients : rd'[c] <= Len(stream[c])
      BY <2>1, <2>2, <3>1 DEF TypeOK
    <3>4. pos' \in Nat /\ pos' <= rd'[cur]
      BY <2>1, <2>2, <3>1, <3>2
    <3>5. /\ UNCHANGED <<link, gone, stream, sent, cur, hup, msg_in, failed>>
          /\ torn' \in BOOLEAN /\ cut' \in [Clients -> BOOLEAN]
      <4>1. torn' = torn \/ torn' = (torn \/ stream[cur][rd'[cur]] # "nl")
        BY <1>1 DEF Read
      <4>2. cut' = cut \/ cut' = [cut EXCEPT ![cur] = avail > BUF_SIZE]
        BY <1>1 DEF Read
      <4>3. torn' \in BOOLEAN /\ cut' \in [Clients -> BOOLEAN]
        BY <4>1, <4>2, (avail > BUF_SIZE) \in BOOLEAN DEF TypeOK
      <4>4. QED
        BY <1>1, <4>3 DEF Read
    <3>6. QED
      BY <1>1, <2>1, <2>2, <3>2, <3>3, <3>4, <3>5 DEF Read, TypeOK
  <2>3. CASE pc' = "ctrl" /\ UNCHANGED <<rd, pos, cut, torn>>
    BY <1>1, <2>3, <2>1 DEF Read, TypeOK
  <2>4. QED
    BY <1>1, <2>2, <2>3 DEF Read
<1>2. ASSUME pc \in {"read", "byte"}, Abandon, UNCHANGED <<clientVars, cur, hup>> PROVE TypeOK'
  BY <1>2 DEF Abandon, TypeOK, clientVars
<1>3. CASE ReadFails
  BY <1>2, <1>3 DEF ReadFails
<1>4. ASSUME InBuf, NEW m \in Seq(Bytes), Len(m) <= MSG_IN_LEN_MAX, msg_in' = m, pos' = pos + 1,
             UNCHANGED <<clientVars, rd, pc, cur, hup, failed, cut>>
      PROVE  TypeOK'
  <2>1. cur \in Clients /\ rd[cur] \in Nat /\ pos \in Nat /\ pos + 1 <= rd[cur]
    BY <1>4 DEF InBuf, TypeOK
  <2>2. QED
    BY <1>4, <2>1 DEF TypeOK, clientVars
<1>5. <<>> \in Seq(Bytes) /\ Len(<<>>) <= MSG_IN_LEN_MAX
  BY BufAssumption
<1>6. CASE ByteNewline
  BY <1>2, <1>4, <1>5, <1>6 DEF ByteNewline, AfterLine, InBuf
<1>7. CASE ByteStore
  <2> DEFINE b == [c |-> cur, k |-> pos + 1]
  <2>1. b \in Bytes
    BY <1>7 DEF ByteStore, InBuf, TypeOK, Bytes
  <2>2. Append(msg_in, b) \in Seq(Bytes) /\ Len(Append(msg_in, b)) = Len(msg_in) + 1
    BY <2>1 DEF TypeOK
  <2>3. Len(Append(msg_in, b)) <= MSG_IN_LEN_MAX
    BY <1>7, <2>2, BufAssumption DEF ByteStore, HasSpace, TypeOK
  <2>4. QED
    BY <1>4, <1>7, <2>2, <2>3 DEF ByteStore
<1>8. CASE ByteTooLong
  BY <1>2, <1>4, <1>5, <1>8 DEF ByteTooLong, InBuf
<1>9. CASE Prompt
  <2>1. CASE pc' = "ctrl" /\ UNCHANGED <<rd, pos, msg_in, failed, cut>>
    BY <1>9, <2>1 DEF Prompt, TypeOK, clientVars
  <2>2. QED
    BY <1>2, <1>9, <2>1 DEF Prompt
<1>10. CASE Control
  BY <1>10, NoClient DEF Control, TypeOK
<1>11. CASE ControlFails
  BY <1>11, NoClient DEF ControlFails, TypeOK, clientVars
<1>12. QED
  BY <1>1, <1>3, <1>6, <1>7, <1>8, <1>9, <1>10, <1>11 DEF Handle

\* msg_in never outgrows its allocation and positions stay within what was
\* read, whatever the clients send and whichever calls fail.
THEOREM TypeCorrect == Spec => []TypeOK
<1>1. TypeOK /\ [Next]_vars => TypeOK'
  <2> SUFFICES ASSUME TypeOK, [Next]_vars PROVE TypeOK'
    OBVIOUS
  <2>1. CASE UNCHANGED vars
    BY <2>1 DEF vars, clientVars, serverVars, TypeOK
  <2>2. CASE Next
    BY <2>2, TypeClient, TypePoll, TypeHandle DEF Next, Server
  <2>3. QED
    BY <2>1, <2>2
<1>2. QED
  BY <1>1, TypeInit, PTL DEF Spec

-----------------------------------------------------------------------------
(***************************************************************************)
(* No byte is executed twice.  With the types, PendingIsUnfinished is      *)
(* inductive.                                                              *)
(***************************************************************************)

\* A byte of msg_in that no newline of its client has followed yet.
Unfinished(b) == /\ b.k <= Processed(b.c)
                 /\ \A m \in b.k .. Processed(b.c) : stream[b.c][m] # "nl"

\* PendingIsUnfinished speaks about each byte of msg_in.
LEMMA PendingBytes ==
    PendingIsUnfinished <=> (~failed => \A i \in 1 .. Len(msg_in) : Unfinished(msg_in[i]))
BY DEF PendingIsUnfinished, Unfinished

\* The same after a step.
LEMMA PendingBytesNext ==
    ASSUME msg_in' \in Seq(Bytes),
           ~failed' => \A i \in 1 .. Len(msg_in') : \A b \in Bytes :
                           b = msg_in'[i] => Unfinished(b)'
    PROVE  PendingIsUnfinished'
<1> SUFFICES ASSUME ~failed', NEW i \in 1 .. Len(msg_in')
             PROVE  LET b == msg_in'[i]
                    IN  /\ b.k <= (IF pc' = "byte" /\ b.c = cur' THEN pos' ELSE rd'[b.c])
                        /\ \A m \in b.k .. (IF pc' = "byte" /\ b.c = cur' THEN pos' ELSE rd'[b.c]) :
                              stream'[b.c][m] # "nl"
  BY DEF PendingIsUnfinished, Processed
<1>1. PICK b \in Bytes : b = msg_in'[i]
  OBVIOUS
<1>2. Unfinished(b)'
  BY <1>1
<1>3. QED
  BY <1>1, <1>2 DEF Unfinished, Processed

\* A step that changes neither msg_in nor what has been handled, and only adds
\* to what the clients have sent, leaves unfinished lines unfinished.
LEMMA PendingKept ==
    ASSUME TypeOK, PendingIsUnfinished,
           UNCHANGED <<msg_in, failed>>,
           \A c \in Clients : Processed(c)' = Processed(c),
           \A c \in Clients : \A m \in 1 .. Len(stream[c]) : stream'[c][m] = stream[c][m]
    PROVE  PendingIsUnfinished'
<1> SUFFICES ASSUME ~failed, NEW i \in 1 .. Len(msg_in), NEW b \in Bytes, b = msg_in[i]
             PROVE  Unfinished(b)'
  BY PendingBytesNext DEF TypeOK
<1>1. b \in Bytes /\ b = msg_in[i]
  OBVIOUS
<1>2. Unfinished(b)
  BY <1>1, PendingBytes
<1>3. b.c \in Clients /\ b.k \in Nat \ {0}
  BY <1>1 DEF Bytes
<1>4. Processed(b.c) \in Nat /\ Processed(b.c) <= Len(stream[b.c])
  BY <1>3 DEF Processed, TypeOK
<1>5. Processed(b.c)' = Processed(b.c)
  BY <1>3
<1>6. \A m \in b.k .. Processed(b.c) : m \in 1 .. Len(stream[b.c])
  BY <1>3, <1>4 DEF TypeOK
<1>7. QED
  BY <1>1, <1>2, <1>3, <1>5, <1>6 DEF Unfinished

\* With an empty input buffer, or after a failure, there is nothing to show.
LEMMA PendingVacuous ==
    ASSUME msg_in' = <<>> \/ failed' = TRUE
    PROVE  PendingIsUnfinished'
BY DEF PendingIsUnfinished

\* Every step keeps the bytes in msg_in unfinished.
LEMMA PendingNext == TypeOK /\ PendingIsUnfinished /\ [Next]_vars => PendingIsUnfinished'
<1> SUFFICES ASSUME TypeOK, PendingIsUnfinished, [Next]_vars PROVE PendingIsUnfinished'
  OBVIOUS
<1>1. CASE UNCHANGED vars
  BY <1>1, PendingKept DEF vars, clientVars, serverVars, Processed
<1>2. ASSUME NEW c \in Clients, Client(c) PROVE PendingIsUnfinished'
  <2>1. UNCHANGED <<rd, pc, cur, pos, msg_in, failed>>
    BY <1>2 DEF Client, Connect, Send, Leave, serverVars
  <2>2. \A d \in Clients : Processed(d)' = Processed(d)
    BY <2>1 DEF Processed
  <2>3. \A d \in Clients : \A m \in 1 .. Len(stream[d]) : stream'[d][m] = stream[d][m]
    <3>1. CASE UNCHANGED stream
      BY <3>1
    <3>2. ASSUME NEW s \in Sends, Send(c, s)
          PROVE  \A d \in Clients : \A m \in 1 .. Len(stream[d]) : stream'[d][m] = stream[d][m]
      <4>1. stream' = [stream EXCEPT ![c] = stream[c] \o s]
        BY <3>2 DEF Send
      <4>2. s \in Seq({"x", "nl"}) /\ stream[c] \in Seq({"x", "nl"})
        BY SendsAssumption DEF TypeOK
      <4>3. \A m \in 1 .. Len(stream[c]) : (stream[c] \o s)[m] = stream[c][m]
        BY <4>2, Extended
      <4>4. QED
        BY <4>1, <4>3 DEF TypeOK
    <3>3. QED
      BY <1>2, <3>1, <3>2 DEF Client, Connect, Leave
  <2>4. QED
    BY <2>1, <2>2, <2>3, PendingKept
<1>3. ASSUME UNCHANGED <<stream, rd, msg_in, failed>>, pc # "byte", pc' # "byte"
      PROVE  PendingIsUnfinished'
  BY <1>3, PendingKept DEF Processed
<1>4. CASE ConnNone \/ MsgNone \/ Control
  BY <1>3, <1>4 DEF ConnNone, MsgNone, Control, clientVars
<1>5. CASE \E c \in Clients : Accept(c) \/ AcceptFails(c) \/ MsgEvent(c)
  BY <1>3, <1>5, PendingVacuous DEF Accept, AcceptFails, MsgEvent, clientVars
<1>6. CASE Read
  <2>1. CASE pc' = "byte" /\ pos' = rd[cur]
    <3>1. \A c \in Clients : Processed(c)' = Processed(c)
      BY <1>6, <2>1 DEF Read, Processed, TypeOK
    <3>2. QED
      BY <1>6, <3>1, PendingKept DEF Read
  <2>2. CASE pc' = "ctrl" /\ UNCHANGED rd
    BY <1>3, <1>6, <2>2 DEF Read
  <2>3. QED
    BY <1>6, <2>1, <2>2 DEF Read
<1>7. CASE ReadFails \/ ByteNewline \/ ByteTooLong \/ ControlFails
  BY <1>7, PendingVacuous DEF ReadFails, ControlFails, ByteNewline, ByteTooLong, Abandon, AfterLine
<1>8. CASE ByteStore
  <2>0. msg_in' \in Seq(Bytes) /\ UNCHANGED failed
    BY <1>8, TypeHandle DEF ByteStore, Handle, TypeOK
  <2> SUFFICES ASSUME ~failed, NEW i \in 1 .. Len(msg_in'), NEW b \in Bytes, b = msg_in'[i]
               PROVE  Unfinished(b)'
    BY <2>0, PendingBytesNext
  <2>1. /\ cur \in Clients /\ pos \in Nat /\ Processed(cur) = pos /\ Processed(cur)' = pos + 1
        /\ stream[cur][pos + 1] # "nl" /\ UNCHANGED <<stream, cur, rd>>
    BY <1>8 DEF ByteStore, InBuf, IsNewline, TypeOK, Processed, clientVars
  <2>2. \A c \in Clients : c # cur => Processed(c)' = Processed(c)
    BY <1>8 DEF ByteStore, Processed
  <2>3. msg_in' = Append(msg_in, [c |-> cur, k |-> pos + 1]) /\ msg_in \in Seq(Bytes)
    BY <1>8 DEF ByteStore, TypeOK
  <2>4. CASE i = Len(msg_in) + 1
    <3>1. b = [c |-> cur, k |-> pos + 1]
      BY <2>3, <2>4
    <3>2. QED
      BY <2>1, <3>1 DEF Unfinished
  <2>5. CASE i \in 1 .. Len(msg_in)
    <3>1. b = msg_in[i]
      BY <2>3, <2>5
    <3>2. Unfinished(b) /\ b.c \in Clients /\ b.k \in Nat
      BY <2>5, <3>1, PendingBytes DEF Bytes
    <3>3. CASE b.c = cur
      <4>1. b.k <= pos /\ \A m \in b.k .. pos : stream[cur][m] # "nl"
        BY <2>1, <3>2, <3>3 DEF Unfinished
      <4>2. b.k <= pos + 1 /\ \A m \in b.k .. pos + 1 : stream[cur][m] # "nl"
        BY <2>1, <3>2, <4>1
      <4>3. QED
        BY <2>1, <3>1, <3>3, <4>2 DEF Unfinished
    <3>4. CASE b.c # cur
      BY <2>1, <2>2, <3>1, <3>2, <3>4 DEF Unfinished
    <3>5. QED
      BY <3>3, <3>4
  <2>6. QED
    BY <2>3, <2>4, <2>5
<1>9. CASE Prompt
  <2>1. CASE pc' = "ctrl" /\ UNCHANGED <<rd, pos, msg_in, failed, cut>>
    <3>1. \A c \in Clients : Processed(c)' = Processed(c)
      BY <1>9, <2>1 DEF Prompt, Processed
    <3>2. QED
      BY <1>9, <2>1, <3>1, PendingKept DEF Prompt, clientVars
  <2>2. CASE Abandon
    BY <2>2, PendingVacuous DEF Abandon
  <2>3. QED
    BY <1>9, <2>1, <2>2 DEF Prompt
<1>10. QED
  BY <1>1, <1>2, <1>4, <1>5, <1>6, <1>7, <1>8, <1>9 DEF Next, Server, Handle

\* As long as no call fails, every byte a client sends is part of at most one
\* command, although all clients share msg_in.
THEOREM ExecutedOnce == Spec => []PendingIsUnfinished
<1>1. Init => PendingIsUnfinished
  BY DEF Init, PendingIsUnfinished
<1>2. QED
  BY <1>1, TypeCorrect, PendingNext, PTL DEF Spec

-----------------------------------------------------------------------------
(***************************************************************************)
(* If every segment and every read ends with a line, lines stay whole.     *)
(***************************************************************************)

\* Nothing has happened yet that can tear a line.
Ideal == ~failed /\ ~torn /\ \A c \in Clients : ~TooLong(c)

\* Position n of client c is the end of a line, or the beginning of all.
AtBreak(c, n) == n = 0 \/ stream[c][n] = "nl"

\* msg_in is what client c sent since its last newline, up to position n.
LineSoFar(c, n) ==
    /\ Len(msg_in) <= n
    /\ AtBreak(c, n - Len(msg_in))
    /\ \A i \in 1 .. Len(msg_in) : /\ msg_in[i] = [c |-> c, k |-> n - Len(msg_in) + i]
                                   /\ stream[c][n - Len(msg_in) + i] # "nl"

\* The inductive invariant: between two events nothing is left in msg_in, and
\* during one it holds the beginning of the current line.
LinesWhole ==
    /\ \A c \in Clients : AtBreak(c, Len(stream[c])) /\ AtBreak(c, rd[c])
    /\ pc # "byte" => msg_in = <<>>
    /\ pc = "byte" => LineSoFar(cur, pos)

LineInv == Ideal => LinesWhole

\* What a client has sent is never changed, only added to.
LEMMA StreamGrows ==
    ASSUME TypeOK, [Next]_vars, NEW c \in Clients
    PROVE  /\ Len(stream[c]) <= Len(stream'[c])
           /\ \A m \in 1 .. Len(stream[c]) : stream'[c][m] = stream[c][m]
<1>1. CASE UNCHANGED stream
  BY <1>1 DEF TypeOK
<1>2. ASSUME NEW d \in Clients, NEW s \in Sends, Send(d, s)
      PROVE  /\ Len(stream[c]) <= Len(stream'[c])
             /\ \A m \in 1 .. Len(stream[c]) : stream'[c][m] = stream[c][m]
  <2>1. stream' = [stream EXCEPT ![d] = stream[d] \o s]
    BY <1>2 DEF Send
  <2>2. s \in Seq({"x", "nl"}) /\ stream[d] \in Seq({"x", "nl"})
    BY SendsAssumption DEF TypeOK
  <2>3. /\ Len(stream[d] \o s) = Len(stream[d]) + Len(s)
        /\ \A m \in 1 .. Len(stream[d]) : (stream[d] \o s)[m] = stream[d][m]
    BY <2>2, Extended
  <2>4. QED
    BY <2>1, <2>2, <2>3 DEF TypeOK
<1>3. QED
  BY <1>1, <1>2 DEF Next, Client, Connect, Leave, Server, Handle, ConnNone, MsgNone, Accept,
     AcceptFails, MsgEvent, Read, ReadFails, ByteNewline, ByteStore, ByteTooLong, Prompt,
     Control, ControlFails, clientVars, vars

\* A line that was too long remains too long, and what has failed has failed.
LEMMA IdealBefore ==
    ASSUME TypeOK, TypeOK', [Next]_vars, Ideal'
    PROVE  Ideal /\ ~failed' /\ ~torn'
<1>1. ~failed' /\ ~torn' /\ \A c \in Clients : ~TooLong(c)'
  BY DEF Ideal
<1>2. ~failed
  BY <1>1 DEF Next, Client, Connect, Send, Leave, Server, Handle, ConnNone, MsgNone, Accept,
     AcceptFails, MsgEvent, Read, ReadFails, ByteNewline, ByteStore, ByteTooLong, Prompt, Abandon,
     Control, ControlFails, vars, serverVars
<1>3. ~torn
  BY <1>1 DEF Next, Client, Connect, Send, Leave, Server, Handle, ConnNone, MsgNone, Accept,
     AcceptFails, MsgEvent, Read, ReadFails, ByteNewline, ByteStore, ByteTooLong, Prompt,
     Control, ControlFails, clientVars, vars
<1>4. ASSUME NEW c \in Clients, TooLong(c) PROVE TooLong(c)'
  <2>1. PICK k \in 1 .. Len(stream[c]) - MSG_IN_LEN_MAX :
            \A m \in k .. k + MSG_IN_LEN_MAX : stream[c][m] # "nl"
    BY <1>4 DEF TooLong
  <2>2. Len(stream[c]) \in Nat /\ Len(stream'[c]) \in Nat
    BY DEF TypeOK
  <2>3. k \in 1 .. Len(stream'[c]) - MSG_IN_LEN_MAX
    BY <2>1, <2>2, StreamGrows, BufAssumption
  <2>4. \A m \in k .. k + MSG_IN_LEN_MAX : m \in 1 .. Len(stream[c])
    BY <2>1, <2>2, BufAssumption
  <2>5. \A m \in k .. k + MSG_IN_LEN_MAX : stream'[c][m] # "nl"
    BY <2>1, <2>4, StreamGrows
  <2>6. QED
    BY <2>3, <2>5 DEF TooLong
<1>5. QED
  BY <1>1, <1>2, <1>3, <1>4 DEF Ideal

\* A client that sends whole lines disturbs neither its own lines nor others'.
LEMMA WholeClient ==
    ASSUME TypeOK, TypeOK', LinesWhole, [Next]_vars, NEW c \in Clients, Client(c), ~torn'
    PROVE  LinesWhole'
<1>1. UNCHANGED <<rd, pc, cur, pos, msg_in>>
  BY DEF Client, Connect, Send, Leave, serverVars
<1>2. \A d \in Clients : Len(stream[d]) \in Nat /\ rd[d] \in Nat /\ rd[d] <= Len(stream[d])
  BY DEF TypeOK
<1>3. \A d \in Clients : AtBreak(d, rd[d])'
  <2> SUFFICES ASSUME NEW d \in Clients PROVE rd[d] = 0 \/ stream'[d][rd[d]] = "nl"
    BY <1>1 DEF AtBreak
  <2>1. rd[d] = 0 \/ rd[d] \in 1 .. Len(stream[d])
    BY <1>2
  <2>2. QED
    BY <2>1, StreamGrows DEF LinesWhole, AtBreak
<1>4. \A d \in Clients : AtBreak(d, Len(stream[d]))'
  <2>1. CASE UNCHANGED stream
    BY <2>1 DEF LinesWhole, AtBreak
  <2>2. ASSUME NEW s \in Sends, Send(c, s) PROVE \A d \in Clients : AtBreak(d, Len(stream[d]))'
    <3>1. stream' = [stream EXCEPT ![c] = stream[c] \o s] /\ s[Len(s)] = "nl"
      BY <2>2 DEF Send
    <3>2. s \in Seq({"x", "nl"}) /\ s # <<>> /\ stream[c] \in Seq({"x", "nl"})
      BY SendsAssumption DEF TypeOK
    <3>3. (stream[c] \o s)[Len(stream[c] \o s)] = "nl"
      BY <3>1, <3>2
    <3>4. QED
      BY <3>1, <3>3 DEF LinesWhole, AtBreak, TypeOK
  <2>3. QED
    BY <2>1, <2>2 DEF Client, Connect, Leave
<1>5. pc = "byte" => LineSoFar(cur, pos)'
  <2> SUFFICES ASSUME pc = "byte" PROVE LineSoFar(cur, pos)'
    OBVIOUS
  <2>1. cur \in Clients /\ pos \in Nat /\ pos <= Len(stream[cur]) /\ Len(msg_in) \in Nat
    BY <1>2 DEF TypeOK
  <2>2. \A m \in 1 .. pos : stream'[cur][m] = stream[cur][m]
    BY <2>1, StreamGrows DEF TypeOK
  <2>3. LineSoFar(cur, pos)
    BY DEF LinesWhole
  <2>4. AtBreak(cur, pos - Len(msg_in))'
    BY <1>1, <2>1, <2>2, <2>3 DEF LineSoFar, AtBreak
  <2>5. \A i \in 1 .. Len(msg_in) : pos - Len(msg_in) + i \in 1 .. pos
    BY <2>1, <2>3 DEF LineSoFar
  <2>6. QED
    BY <1>1, <2>2, <2>3, <2>4, <2>5 DEF LineSoFar
<1>6. QED
  BY <1>1, <1>3, <1>4, <1>5 DEF LinesWhole

\* The server takes lines apart at newlines only, since a line that fits into
\* msg_in ends before msg_in is full, and a read that cuts a line is recorded.
LEMMA WholeServer ==
    ASSUME TypeOK, TypeOK', LineInv, Ideal, Server, ~failed', ~torn'
    PROVE  LinesWhole'
<1>1. LinesWhole /\ ~Abandon
  BY DEF LineInv, Abandon
<1>2. UNCHANGED stream
  BY DEF Server, Handle, ConnNone, MsgNone, Accept, AcceptFails, MsgEvent, Read, ReadFails,
     ByteNewline, ByteStore, ByteTooLong, Prompt, Control, ControlFails, clientVars
<1>3. ASSUME UNCHANGED <<rd, msg_in>>, pc # "byte", pc' # "byte" PROVE LinesWhole'
  BY <1>1, <1>2, <1>3 DEF LinesWhole, AtBreak
<1>4. CASE \/ ConnNone \/ MsgNone \/ Control \/ ControlFails
           \/ \E c \in Clients : Accept(c) \/ AcceptFails(c) \/ MsgEvent(c)
  BY <1>3, <1>4 DEF ConnNone, MsgNone, Control, ControlFails, Accept, AcceptFails, MsgEvent
<1>5. CASE Read
  <2>1. cur \in Clients /\ rd[cur] \in Nat
    BY <1>5 DEF Read, TypeOK
  <2>2. CASE /\ pc' = "byte" /\ pos' = rd[cur] /\ stream[cur][rd'[cur]] = "nl"
             /\ \A c \in Clients : c # cur => rd'[c] = rd[c]
    <3>2. \A c \in Clients : AtBreak(c, Len(stream[c]))' /\ AtBreak(c, rd[c])'
      BY <1>1, <1>2, <2>2 DEF LinesWhole, AtBreak
    <3>3. msg_in = <<>> /\ UNCHANGED <<msg_in, cur>>
      BY <1>1, <1>5 DEF Read, LinesWhole
    <3>4. LineSoFar(cur, pos)'
      <4>1. AtBreak(cur, rd[cur])
        BY <1>1, <2>1 DEF LinesWhole
      <4>2. Len(msg_in') = 0 /\ 1 .. Len(msg_in') = {} /\ pos' \in Nat /\ pos' - Len(msg_in') = rd[cur]
        BY <2>1, <2>2, <3>3
      <4>3. QED
        BY <1>2, <2>2, <3>3, <4>1, <4>2 DEF LineSoFar, AtBreak
    <3>5. QED
      BY <2>2, <3>2, <3>4 DEF LinesWhole
  <2>3. CASE pc' = "ctrl" /\ UNCHANGED <<rd, pos>>
    BY <1>3, <1>5, <2>3 DEF Read
  <2>4. QED
    BY <1>5, <2>2, <2>3 DEF Read, TypeOK
<1>6. CASE ReadFails
  BY <1>1, <1>6 DEF ReadFails
<1>7. ASSUME InBuf
      PROVE  /\ cur \in Clients /\ pos \in Nat /\ pos + 1 <= Len(stream[cur])
             /\ Len(msg_in) \in Nat /\ LineSoFar(cur, pos)
  BY <1>1, <1>7 DEF InBuf, TypeOK, LinesWhole
<1>8. CASE ByteNewline
  <2>1. msg_in' = <<>> /\ pos' = pos + 1 /\ UNCHANGED <<rd, pc, cur>> /\ InBuf /\ IsNewline
    BY <1>1, <1>8 DEF ByteNewline, AfterLine
  <2>2. LineSoFar(cur, pos)'
    BY <1>2, <1>7, <2>1 DEF LineSoFar, AtBreak, IsNewline
  <2>3. QED
    BY <1>1, <1>2, <2>1, <2>2 DEF LinesWhole, AtBreak, InBuf
<1>9. CASE ByteStore
  <2>1. /\ msg_in' = Append(msg_in, [c |-> cur, k |-> pos + 1]) /\ pos' = pos + 1
        /\ UNCHANGED <<rd, pc, cur>> /\ InBuf /\ stream[cur][pos + 1] # "nl"
    BY <1>9 DEF ByteStore, IsNewline
  <2>2. msg_in \in Seq(Bytes) /\ Len(msg_in') = Len(msg_in) + 1
    BY <2>1 DEF TypeOK
  <2>3. pos' - Len(msg_in') = pos - Len(msg_in)
    BY <1>7, <2>1, <2>2
  <2>4. Len(msg_in') <= pos' /\ AtBreak(cur, pos - Len(msg_in))'
    BY <1>2, <1>7, <2>1, <2>2, <2>3 DEF LineSoFar, AtBreak
  <2>5. ASSUME NEW i \in 1 .. Len(msg_in')
        PROVE  /\ msg_in'[i] = [c |-> cur, k |-> pos - Len(msg_in) + i]
               /\ stream[cur][pos - Len(msg_in) + i] # "nl"
    <3>1. CASE i = Len(msg_in) + 1
      <4>1. pos - Len(msg_in) + i = pos + 1
        BY <1>7, <2>1, <3>1
      <4>2. QED
        BY <2>1, <2>2, <3>1, <4>1
    <3>2. CASE i \in 1 .. Len(msg_in)
      BY <1>7, <2>1, <2>2, <3>2 DEF LineSoFar
    <3>3. QED
      BY <2>2, <3>1, <3>2
  <2>6. LineSoFar(cur, pos)'
    BY <1>2, <2>1, <2>3, <2>4, <2>5 DEF LineSoFar
  <2>7. QED
    BY <1>1, <1>2, <2>1, <2>6 DEF LinesWhole, AtBreak, InBuf
<1>10. CASE ByteTooLong
  <2>1. InBuf /\ stream[cur][pos + 1] # "nl" /\ Len(msg_in) = MSG_IN_LEN_MAX
    BY <1>7, <1>10, BufAssumption DEF ByteTooLong, IsNewline, HasSpace, TypeOK
  <2> DEFINE k == pos - MSG_IN_LEN_MAX + 1
  <2>2. k \in 1 .. Len(stream[cur]) - MSG_IN_LEN_MAX
    BY <1>7, <2>1, BufAssumption DEF LineSoFar
  <2>3. ASSUME NEW m \in k .. k + MSG_IN_LEN_MAX PROVE stream[cur][m] # "nl"
    <3>1. CASE m = pos + 1
      BY <2>1, <3>1
    <3>2. CASE m - k + 1 \in 1 .. MSG_IN_LEN_MAX
      <4>1. pos - Len(msg_in) + (m - k + 1) = m
        BY <1>7, <2>1, <2>2, BufAssumption
      <4>2. QED
        BY <1>7, <2>1, <3>2, <4>1 DEF LineSoFar
    <3>3. QED
      BY <1>7, <2>1, <2>2, <3>1, <3>2, BufAssumption
  <2>4. TooLong(cur)
    BY <2>2, <2>3 DEF TooLong
  <2>5. QED
    BY <1>7, <2>1, <2>4 DEF Ideal
<1>11. CASE Prompt
  <2>1. pc = "byte" /\ pos = rd[cur] /\ pc' = "ctrl" /\ UNCHANGED <<rd, msg_in>>
    BY <1>1, <1>11 DEF Prompt
  <2>2. cur \in Clients /\ pos \in Nat /\ Len(msg_in) \in Nat /\ msg_in \in Seq(Bytes)
    BY <2>1 DEF TypeOK
  <2>3. AtBreak(cur, pos) /\ LineSoFar(cur, pos)
    BY <1>1, <2>1, <2>2 DEF LinesWhole
  <2>4. Len(msg_in) = 0
    <3>1. SUFFICES ASSUME Len(msg_in) >= 1 PROVE FALSE
      BY <2>2
    <3>2. pos - Len(msg_in) + Len(msg_in) = pos /\ pos >= 1
      BY <2>2, <2>3, <3>1 DEF LineSoFar
    <3>3. stream[cur][pos] # "nl"
      <4>1. Len(msg_in) \in 1 .. Len(msg_in)
        BY <2>2, <3>1
      <4>2. stream[cur][pos - Len(msg_in) + Len(msg_in)] # "nl"
        BY <2>3, <4>1 DEF LineSoFar
      <4>3. QED
        BY <3>2, <4>2
    <3>4. QED
      BY <2>3, <3>2, <3>3 DEF AtBreak
  <2>5. msg_in = <<>>
    BY <2>2, <2>4
  <2>6. QED
    BY <1>1, <1>2, <2>1, <2>5 DEF LinesWhole, AtBreak
<1>12. QED
  BY <1>4, <1>5, <1>6, <1>8, <1>9, <1>10, <1>11 DEF Server, Handle

\* Every step keeps whole lines whole.
LEMMA LineNext == TypeOK /\ TypeOK' /\ LineInv /\ [Next]_vars => LineInv'
<1> SUFFICES ASSUME TypeOK, TypeOK', LineInv, [Next]_vars, Ideal' PROVE LinesWhole'
  BY DEF LineInv
<1>1. Ideal /\ ~failed' /\ ~torn' /\ LinesWhole
  BY IdealBefore DEF LineInv
<1>2. CASE UNCHANGED vars
  BY <1>1, <1>2 DEF vars, clientVars, serverVars, LinesWhole, LineSoFar, AtBreak
<1>3. CASE Server
  BY <1>1, <1>3, WholeServer
<1>4. ASSUME NEW c \in Clients, Client(c) PROVE LinesWhole'
  BY <1>1, <1>4, WholeClient
<1>5. QED
  BY <1>2, <1>3, <1>4 DEF Next

\* What the server relies on: if the lines of the clients arrive whole and fit,
\* and every read ends with one, the command that data_event_handle runs at a
\* newline is exactly the line its client sent, for any size of the buffers.
THEOREM LinesStayWhole == Spec => []CommandIsLine
<1>1. Init => LineInv
  BY DEF Init, LineInv, LinesWhole, AtBreak
<1>2. TypeOK /\ TypeOK' /\ LineInv /\ [Next]_vars => LineInv'
  BY LineNext
<1>3. TypeOK /\ LineInv => CommandIsLine
  <2> SUFFICES ASSUME TypeOK, LineInv, Ideal, InBuf, IsNewline
               PROVE  LET n == Len(msg_in)
                      IN  /\ \A i \in 1..n : msg_in[i] = [c |-> cur, k |-> pos - n + i]
                          /\ pos = n \/ stream[cur][pos - n] = "nl"
    BY DEF CommandIsLine, Ideal
  <2>1. LineSoFar(cur, pos) /\ pos \in Nat /\ Len(msg_in) \in Nat
    BY DEF LineInv, LinesWhole, InBuf, TypeOK
  <2>2. QED
    BY <2>1 DEF LineSoFar, AtBreak
<1>4. QED
  BY <1>1, <1>2, <1>3, TypeCorrect, PTL DEF Spec
=============================================================================
