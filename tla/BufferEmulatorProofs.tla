------------------------- MODULE BufferEmulatorProofs -------------------------
(***************************************************************************)
(* Proofs of the safety properties of BufferEmulator, for every base and   *)
(* every queue size of one or two digits, and without any bound on packets *)
(* or restarts.                                                            *)
(***************************************************************************)
EXTENDS BufferEmulator, TLAPS

-----------------------------------------------------------------------------
(***************************************************************************)
(* The inductive invariant.                                                *)
(***************************************************************************)

\* The packets the driver can still admit to sub-buffer b before the worker
\* writes to its file again.  Between its read and its write the driver has
\* the number in drvFifo; if the worker has written to the file that the
\* driver truncated, the write may leave any number within the limit.
Reserve(b) ==
    IF drvPc = "idle" \/ SubBuffer(drvQoS) # b THEN Scan(file[b], 0)
    ELSE IF drvPc = "trunc" \/ file[b] = Empty THEN drvFifo
    ELSE drvFifo + Limit(b)

\* The worker gives a slot back only where one is taken, and the driver takes
\* one from a number that its file may show.
LocalsFit ==
    /\ wrkPc # "read" => wrkFifo <= QUEUE_SIZE
    /\ drvPc # "idle" => drvFifo < Limit(SubBuffer(drvQoS))

\* There is no second digit without a first, and no number above the limit.
FilesFit ==
    \A b \in Buffers :
        /\ file[b][0] = NoDigit => file[b][1] = NoDigit
        /\ Scan(file[b], 0) <= Limit(b)

ReserveBounded ==
    \A b \in Buffers :
        packets_sent[b] + Reserve(b) <= Limit(b) * (1 + completed[b])

IndInv == TypeOK /\ LocalsFit /\ FilesFit /\ ReserveBounded

\* A process that is about to rewrite a file has a packet to account for.
Touched ==
    \A b \in Buffers : packets_sent[b] = 0 =>
        /\ drvPc # "idle" => SubBuffer(drvQoS) # b
        /\ wrkPc # "read" => turn # b

IsolationInv == ClassIsolation /\ Touched

-----------------------------------------------------------------------------
(***************************************************************************)
(* Lemmas on the texts of the files.                                       *)
(***************************************************************************)

\* The largest number of two digits is a number of at least two values.
LEMMA MaxNumberType == MaxNumber \in Nat /\ MaxNumber >= 3 /\ Base * Base = MaxNumber + 1
<1>1. Base \in Nat /\ Base >= 2
  BY BaseAssumption
<1>2. Base * Base >= 2 * Base /\ Base * Base \in Nat
  BY <1>1
<1>3. QED
  BY <1>1, <1>2 DEF MaxNumber

\* Every QoS byte selects one of the three files.
LEMMA SubBufferType == \A qos \in 0..255 : SubBuffer(qos) \in Buffers
BY DEF SubBuffer, Buffers, NUM_OF_QUEUES

\* Two digits make a number of two digits.
LEMMA TwoDigits ==
    ASSUME NEW x \in 0 .. Base - 1, NEW y \in 0 .. Base - 1
    PROVE  Base * x + y \in 0..MaxNumber
<1>1. Base \in Nat /\ Base >= 2 /\ x \in Nat /\ y \in Nat /\ x <= Base - 1
  BY BaseAssumption
<1>2. Base * x \in Nat /\ Base * x <= Base * (Base - 1)
  BY <1>1
<1>3. Base * (Base - 1) = Base * Base - Base /\ Base * Base \in Nat
  BY <1>1
<1>4. QED
  BY <1>1, <1>2, <1>3 DEF MaxNumber

\* The two digits of a number.
LEMMA Divide ==
    ASSUME NEW n \in 0..MaxNumber, n >= Base
    PROVE  /\ n \div Base \in 0 .. Base - 1 /\ n % Base \in 0 .. Base - 1
           /\ Base * (n \div Base) + (n % Base) = n
<1>1. Base \in Nat /\ Base >= 2 /\ n \in Nat /\ Base * Base = MaxNumber + 1
  BY BaseAssumption, MaxNumberType
<1>2. /\ n \div Base \in Nat /\ n % Base \in 0 .. Base - 1
      /\ Base * (n \div Base) + (n % Base) = n
  BY <1>1
<1>3. n \div Base < Base
  <2> DEFINE q == n \div Base
  <2>1. SUFFICES ASSUME q >= Base PROVE FALSE
    BY <1>1, <1>2
  <2>2. Base * q >= Base * Base
    BY <1>1, <1>2, <2>1
  <2>3. Base * q <= n /\ n <= MaxNumber /\ Base * q \in Nat
    BY <1>1, <1>2
  <2> DEFINE x == Base * q
             y == Base * Base
  <2> HIDE DEF x, y
  <2>4. x >= y /\ x <= n /\ n <= MaxNumber /\ x \in Nat /\ y = MaxNumber + 1
    BY <1>1, <2>2, <2>3 DEF x, y
  <2>5. QED
    BY <2>4, MaxNumberType, <1>1
<1>4. QED
  BY <1>1, <1>2, <1>3

\* What fprintf writes for a number of one or two digits reads back as that number.
LEMMA DigitsOf ==
    ASSUME NEW n \in 0..MaxNumber
    PROVE  /\ Digits(n) \in Text
           /\ Digits(n)[0] \in 0 .. Base - 1
           /\ Value(Digits(n)) = n
           /\ Digits(n) # Empty
<1>0. Base \in Nat /\ Base >= 2
  BY BaseAssumption
<1>1. CASE n < Base
  <2>1. Digits(n)[0] = n /\ Digits(n)[1] = NoDigit /\ Digits(n) \in Text
    BY <1>0, <1>1, MaxNumberType DEF Digits, Text, NoDigit
  <2>2. QED
    BY <1>0, <1>1, <2>1, MaxNumberType DEF Value, Empty, NoDigit
<1>2. CASE n >= Base
  <2>1. /\ n \div Base \in 0 .. Base - 1 /\ n % Base \in 0 .. Base - 1
        /\ Base * (n \div Base) + (n % Base) = n
    BY <1>2, Divide
  <2> DEFINE q == n \div Base
             r == n % Base
  <2>2. Digits(n) = [i \in 0..1 |-> IF i = 0 THEN q ELSE r]
    BY <1>0, <1>2, MaxNumberType DEF Digits
  <2> HIDE DEF q, r
  <2>3. q \in 0 .. Base - 1 /\ r \in 0 .. Base - 1 /\ Base * q + r = n
    BY <2>1 DEF q, r
  <2>4. Digits(n)[0] = q /\ Digits(n)[1] = r /\ Digits(n) \in Text
    BY <1>0, <2>2, <2>3 DEF Text
  <2>5. r # NoDigit /\ q # NoDigit
    BY <1>0, <2>3 DEF NoDigit
  <2>6. QED
    BY <2>3, <2>4, <2>5 DEF Value, Empty
<1>3. QED
  BY <1>0, <1>1, <1>2, MaxNumberType

\* The empty text is a text, and is told from the others by its first position.
LEMMA EmptyText ==
    /\ Empty \in Text /\ Empty[0] = NoDigit /\ Empty[1] = NoDigit
    /\ \A t \in Text : (t[0] = NoDigit => t[1] = NoDigit) => (t = Empty <=> t[0] = NoDigit)
BY BaseAssumption DEF Text, Empty, NoDigit

\* fscanf yields a number of at most two digits, or leaves what was there.
LEMMA ScanRange ==
    ASSUME NEW t \in Text, t[0] = NoDigit => t[1] = NoDigit, NEW old \in 0..MaxNumber
    PROVE  Scan(t, old) \in 0..MaxNumber
<1>1. CASE t = Empty
  BY <1>1 DEF Scan
<1>2. CASE t # Empty
  <2>1. t[0] \in 0 .. Base - 1 /\ t[1] \in -1 .. Base - 1
    BY <1>2, EmptyText, BaseAssumption DEF Text, NoDigit
  <2>2. CASE t[1] = NoDigit
    <3>1. Base - 1 <= MaxNumber
      BY BaseAssumption, Base * Base >= 2 * Base, MaxNumberType
    <3>2. QED
      BY <1>2, <2>1, <2>2, <3>1, BaseAssumption, MaxNumberType DEF Scan, Value
  <2>3. CASE t[1] # NoDigit
    <3>1. t[1] \in 0 .. Base - 1
      BY <2>1, <2>3, BaseAssumption DEF NoDigit
    <3>2. QED
      BY <1>2, <2>1, <2>3, <3>1, TwoDigits DEF Scan, Value
  <2>4. QED
    BY <2>2, <2>3
<1>3. QED
  BY <1>1, <1>2

\* A number written over any text leaves a text that is not empty; over the
\* empty text it leaves exactly itself.
LEMMA OverlayDigits ==
    ASSUME NEW t \in Text, NEW n \in 0..MaxNumber
    PROVE  LET o == Overlay(t, Digits(n)) IN
           /\ o \in Text
           /\ o[0] # NoDigit /\ o # Empty
           /\ t = Empty => o = Digits(n)
<1> DEFINE d == Digits(n)
<1>1. d \in Text /\ d[0] # NoDigit
  BY DigitsOf, BaseAssumption DEF NoDigit
<1> HIDE DEF d
<1>2. Overlay(t, d) \in Text /\ Overlay(t, d)[0] # NoDigit
  BY <1>1 DEF Overlay, Text
<1>3. ASSUME t = Empty PROVE Overlay(t, d) = d
  <2>1. \A i \in 0..1 : (IF d[i] # NoDigit THEN d[i] ELSE t[i]) = d[i]
    BY <1>3 DEF Empty
  <2>2. d = [i \in 0..1 |-> d[i]]
    BY <1>1 DEF Text
  <2>3. QED
    BY <2>1, <2>2 DEF Overlay
<1>4. QED
  BY <1>2, <1>3, EmptyText DEF d

\* The limit of a file is a number; it only grows, and is at least QUEUE_SIZE.
LEMMA LimitType ==
    ASSUME TypeOK, NEW b
    PROVE  Limit(b) \in 1..MaxNumber /\ QUEUE_SIZE <= Limit(b)
BY QueueSizeAssumption, MaxNumberType DEF Limit

\* Multiplication is monotonic.
LEMMA MulMono ==
    ASSUME NEW l \in Nat, NEW m \in Nat, NEW k \in Nat, l <= m
    PROVE  l * k <= m * k /\ l * k \in Nat /\ m * k \in Nat
<1>1. m * k = l * k + (m - l) * k /\ m - l \in Nat
  OBVIOUS
<1>2. (m - l) * k >= 0 /\ (m - l) * k \in Nat /\ l * k \in Nat
  BY <1>1
<1>3. QED
  BY <1>1, <1>2

\* The bound on admissions grows with the limit and with the completed jobs.
LEMMA Room ==
    ASSUME NEW p \in Nat, NEW r \in Nat, NEW l \in Nat, NEW m \in Nat, NEW c \in Nat,
           l <= m, p + r <= l * (1 + c)
    PROVE  /\ p + r <= m * (1 + c)
           /\ p + r + m <= m * (1 + (c + 1))
<1>1. l * (1 + c) <= m * (1 + c) /\ l * (1 + c) \in Nat /\ m * (1 + c) \in Nat
  BY MulMono
<1>2. m * (1 + (c + 1)) = m * (1 + c) + m
  OBVIOUS
<1>3. QED
  BY <1>1, <1>2

\* What WriteNumber leaves: a number within the (possibly raised) limit, and
\* the number written wherever the file was empty or nothing was mixed.
LEMMA WriteLeaves ==
    ASSUME TypeOK, FilesFit, NEW b \in Buffers, NEW n \in 0..MaxNumber, n <= Limit(b),
           WriteNumber(b, n)
    PROVE  /\ file' \in [Buffers -> Text] /\ mixed' \in [Buffers -> BOOLEAN]
           /\ \A c \in Buffers \ {b} : file'[c] = file[c] /\ mixed'[c] = mixed[c]
           /\ file'[b][0] # NoDigit /\ file'[b] # Empty
           /\ Scan(file'[b], 0) \in 0..MaxNumber /\ Scan(file'[b], 0) <= Limit(b)'
           /\ file[b] = Empty \/ ~mixed'[b] => Scan(file'[b], 0) = n
           /\ Limit(b) <= Limit(b)' /\ Limit(b)' \in 1..MaxNumber
<1> DEFINE o == Overlay(file[b], Digits(n))
<1>1. file[b] \in Text /\ mixed[b] \in BOOLEAN
  BY DEF TypeOK
<1>2. o \in Text /\ o[0] # NoDigit /\ o # Empty /\ (file[b] = Empty => o = Digits(n))
  BY <1>1, OverlayDigits
<1>3. Value(Digits(n)) = n
  BY DigitsOf
<1> HIDE DEF o
<1>4. file' = [file EXCEPT ![b] = o] /\ mixed' = [mixed EXCEPT ![b] = @ \/ o # Digits(n)]
  BY DEF WriteNumber, o
<1>5. /\ file' \in [Buffers -> Text] /\ mixed' \in [Buffers -> BOOLEAN]
      /\ \A c \in Buffers \ {b} : file'[c] = file[c] /\ mixed'[c] = mixed[c]
      /\ file'[b] = o /\ mixed'[b] = (mixed[b] \/ o # Digits(n))
  BY <1>1, <1>2, <1>4 DEF TypeOK
<1>6. Scan(o, 0) = Value(o) /\ Scan(o, 0) \in 0..MaxNumber
  BY <1>2, ScanRange, MaxNumberType DEF Scan
<1>7. /\ Limit(b)' = IF mixed'[b] THEN MaxNumber ELSE QUEUE_SIZE
      /\ Limit(b)  = IF mixed[b] THEN MaxNumber ELSE QUEUE_SIZE
  BY DEF Limit
<1>8. file[b] = Empty \/ ~mixed'[b] => Scan(o, 0) = n
  BY <1>2, <1>3, <1>5, <1>6
<1>9. Limit(b) <= Limit(b)' /\ Limit(b)' \in 1..MaxNumber
  BY <1>5, <1>7, QueueSizeAssumption, MaxNumberType
<1>10. Scan(o, 0) <= Limit(b)'
  <2>1. CASE mixed'[b]
    BY <2>1, <1>6, <1>7
  <2>2. CASE ~mixed'[b]
    <3>1. Scan(o, 0) = n /\ Limit(b) = QUEUE_SIZE /\ Limit(b)' = QUEUE_SIZE
      BY <2>2, <1>5, <1>7, <1>8
    <3>2. QED
      BY <3>1
  <2>3. QED
    BY <2>1, <2>2
<1>11. QED
  BY <1>2, <1>5, <1>6, <1>8, <1>9, <1>10

\* The quantities of the bound on admissions are natural numbers.
LEMMA ReserveRange ==
    ASSUME TypeOK, FilesFit, NEW b \in Buffers
    PROVE  /\ Reserve(b) \in Nat /\ Scan(file[b], 0) \in 0..MaxNumber
           /\ packets_sent[b] \in Nat /\ completed[b] \in Nat
           /\ Limit(b) \in Nat
<1>1. file[b] \in Text /\ packets_sent[b] \in Nat /\ completed[b] \in Nat
  BY DEF TypeOK
<1>2. Scan(file[b], 0) \in 0..MaxNumber
  BY <1>1, ScanRange, MaxNumberType DEF FilesFit
<1>3. Limit(b) \in Nat /\ drvFifo \in Nat
  BY LimitType, MaxNumberType DEF TypeOK
<1>4. QED
  BY <1>1, <1>2, <1>3, MaxNumberType DEF Reserve

-----------------------------------------------------------------------------
(***************************************************************************)
(* The inductive invariant holds initially and every action preserves it.  *)
(***************************************************************************)

\* The files that "make run" writes satisfy the invariant.
LEMMA IndInit == Init => IndInv
<1> SUFFICES ASSUME Init PROVE IndInv
  OBVIOUS
<1>1. QUEUE_SIZE \in 0..MaxNumber /\ QUEUE_SIZE \in Nat
  BY QueueSizeAssumption, MaxNumberType
<1>2. /\ Digits(QUEUE_SIZE) \in Text
      /\ Digits(QUEUE_SIZE)[0] # NoDigit
      /\ Scan(Digits(QUEUE_SIZE), 0) = QUEUE_SIZE
  BY <1>1, DigitsOf, BaseAssumption DEF Scan, NoDigit
<1>3. TypeOK
  BY <1>2, MaxNumberType DEF Init, TypeOK, Buffers, NUM_OF_QUEUES
<1>4. LocalsFit
  BY DEF Init, LocalsFit
<1>5. \A b \in Buffers : Limit(b) = QUEUE_SIZE
  BY DEF Init, Limit
<1>6. FilesFit
  BY <1>1, <1>2, <1>5 DEF Init, FilesFit
<1>7. ReserveBounded
  <2> SUFFICES ASSUME NEW b \in Buffers
               PROVE  packets_sent[b] + Reserve(b) <= Limit(b) * (1 + completed[b])
    BY DEF ReserveBounded
  <2>1. packets_sent[b] = 0 /\ completed[b] = 0 /\ Reserve(b) = QUEUE_SIZE
    BY <1>2 DEF Init, Reserve
  <2>2. QED
    BY <1>1, <1>5, <2>1
<1>8. QED
  BY <1>3, <1>4, <1>6, <1>7 DEF IndInv

\* The driver's read preserves the invariant: what it admits it takes from the reserve.
LEMMA DReadInd == IndInv /\ (\E qos \in QoSValues : DRead(qos)) => IndInv'
<1> SUFFICES ASSUME IndInv, NEW qos \in QoSValues, DRead(qos)
             PROVE  IndInv'
  OBVIOUS
<1> DEFINE d == SubBuffer(qos)
           F == Scan(file[d], 0)
<1>1. d \in Buffers /\ qos \in 0..255
  BY QoSAssumption, SubBufferType
<1>2. F \in 0..MaxNumber /\ F <= Limit(d)
  BY <1>1, ReserveRange DEF IndInv, FilesFit
<1>3. CASE ~SlotFree(F)
  <2>1. UNCHANGED <<file, drvVars, wrkVars, packets_sent, completed, restarts, mixed>>
        /\ skipped' = skipped + 1
    BY <1>3 DEF DRead
  <2>2. TypeOK' /\ LocalsFit' /\ FilesFit'
    BY <2>1 DEF IndInv, TypeOK, LocalsFit, FilesFit, drvVars, wrkVars, Limit
  <2>3. ReserveBounded'
    BY <2>1 DEF IndInv, ReserveBounded, Reserve, drvVars, Limit
  <2>4. QED
    BY <2>2, <2>3 DEF IndInv
<1>4. CASE SlotFree(F)
  <2>1. /\ drvPc = "idle" /\ drvPc' = "trunc" /\ drvQoS' = qos /\ drvFifo' = F - 1
        /\ packets_sent' = [packets_sent EXCEPT ![d] = @ + 1]
        /\ UNCHANGED <<skipped, file, wrkPc, turn, wrkFifo, completed, restarts, mixed>>
    BY <1>4 DEF DRead, SlotTaken, wrkVars
  <2>2. F - 1 \in 0 .. MaxNumber - 1 /\ F - 1 < Limit(d)
    BY <1>2, <1>4, LimitType, MaxNumberType DEF SlotFree, IndInv
  <2>3. TypeOK'
    BY <2>1, <2>2, <1>1 DEF IndInv, TypeOK
  <2>4. \A b \in Buffers : Limit(b)' = Limit(b)
    BY <2>1 DEF Limit
  <2>5. LocalsFit' /\ FilesFit'
    BY <1>1, <2>1, <2>2, <2>4 DEF IndInv, LocalsFit, FilesFit
  <2>6. ReserveBounded'
    <3> SUFFICES ASSUME NEW b \in Buffers
                 PROVE  packets_sent'[b] + Reserve(b)' <= Limit(b) * (1 + completed[b])
      BY <2>1, <2>4 DEF ReserveBounded
    <3>1. packets_sent[b] + Reserve(b) <= Limit(b) * (1 + completed[b])
      BY DEF IndInv, ReserveBounded
    <3>2. Reserve(b) = Scan(file[b], 0)
      BY <2>1 DEF Reserve
    <3>3. packets_sent[b] \in Nat
      BY DEF IndInv, TypeOK
    <3>4. CASE b = d
      <4>1. Reserve(b)' = F - 1
        BY <2>1, <3>4 DEF Reserve
      <4>2. packets_sent'[b] = packets_sent[b] + 1
        BY <2>1, <3>4 DEF IndInv, TypeOK
      <4>3. packets_sent'[b] + Reserve(b)' = packets_sent[b] + Reserve(b)
        BY <4>1, <4>2, <3>2, <3>3, <3>4, <1>2, MaxNumberType
      <4>4. QED
        BY <4>3, <3>1
    <3>5. CASE b # d
      BY <2>1, <3>1, <3>2, <3>5 DEF Reserve, IndInv, TypeOK
    <3>6. QED
      BY <3>4, <3>5
  <2>7. QED
    BY <2>3, <2>5, <2>6 DEF IndInv
<1>5. QED
  BY <1>3, <1>4

\* A truncating open of file d never adds to what the driver can still admit.
LEMMA TruncInd ==
    ASSUME IndInv, NEW d \in Buffers, file' = [file EXCEPT ![d] = Empty],
           UNCHANGED <<drvQoS, drvFifo, turn, wrkFifo, skipped, packets_sent,
                       completed, restarts, mixed>>,
           \/ drvPc' = drvPc /\ wrkPc # "read" /\ wrkPc' = "write"
           \/ drvPc = "trunc" /\ drvPc' = "write" /\ SubBuffer(drvQoS) = d /\ wrkPc' = wrkPc
    PROVE  IndInv'
<1>1. TypeOK'
  BY EmptyText DEF IndInv, TypeOK
<1>2. \A b : Limit(b)' = Limit(b)
  BY DEF Limit
<1>3. LocalsFit'
  BY <1>2 DEF IndInv, LocalsFit
<1>4. Scan(Empty, 0) = 0 /\ Empty[1] = NoDigit
  BY EmptyText DEF Scan
<1>5. FilesFit'
  <2> SUFFICES ASSUME NEW b \in Buffers
               PROVE  /\ file'[b][0] = NoDigit => file'[b][1] = NoDigit
                      /\ Scan(file'[b], 0) <= Limit(b)
    BY <1>2 DEF FilesFit
  <2>1. CASE b = d
    <3>1. file'[b] = Empty /\ Limit(b) \in 1..MaxNumber
      BY <2>1, LimitType DEF IndInv, TypeOK
    <3>2. QED
      BY <1>4, <3>1, MaxNumberType
  <2>2. CASE b # d
    BY <2>2 DEF IndInv, FilesFit, TypeOK
  <2>3. QED
    BY <2>1, <2>2
<1>6. ReserveBounded'
  <2> SUFFICES ASSUME NEW b \in Buffers
               PROVE  packets_sent[b] + Reserve(b)' <= Limit(b) * (1 + completed[b])
    BY <1>2 DEF ReserveBounded
  <2>1. packets_sent[b] + Reserve(b) <= Limit(b) * (1 + completed[b])
    BY DEF IndInv, ReserveBounded
  <2>2. /\ Reserve(b) \in Nat /\ packets_sent[b] \in Nat /\ completed[b] \in Nat
        /\ Limit(b) \in Nat /\ Scan(file[b], 0) \in Nat
    BY ReserveRange, MaxNumberType DEF IndInv
  <2>4. Reserve(b)' \in Nat /\ Reserve(b)' <= Reserve(b)
    <3>1. CASE b = d
      <4>1. file'[b] = Empty /\ drvFifo \in Nat
        BY <3>1, MaxNumberType DEF IndInv, TypeOK
      <4>2. QED
        BY <1>4, <2>2, <3>1, <4>1 DEF Reserve
    <3>2. CASE b # d
      <4>1. file'[b] = file[b]
        BY <3>2 DEF IndInv, TypeOK
      <4>2. Reserve(b)' = Reserve(b)
        BY <1>2, <3>2, <4>1 DEF Reserve
      <4>3. QED
        BY <4>2, <2>2
    <3>3. QED
      BY <3>1, <3>2
  <2>5. Limit(b) * (1 + completed[b]) \in Nat
    BY <2>2
  <2>6. QED
    BY <2>1, <2>2, <2>4, <2>5
<1>7. QED
  BY <1>1, <1>3, <1>5, <1>6 DEF IndInv

\* The driver's truncating open preserves the invariant.
LEMMA DTruncInd == IndInv /\ DTrunc => IndInv'
<1> SUFFICES ASSUME IndInv, DTrunc PROVE IndInv'
  OBVIOUS
<1>1. SubBuffer(drvQoS) \in Buffers
  BY SubBufferType DEF IndInv, TypeOK
<1>2. QED
  BY <1>1, TruncInd DEF DTrunc, wrkVars

\* The worker's truncating open preserves the invariant.
LEMMA WTruncInd == IndInv /\ WTrunc => IndInv'
<1> SUFFICES ASSUME IndInv, WTrunc PROVE IndInv'
  OBVIOUS
<1>1. turn \in Buffers
  BY DEF IndInv, TypeOK
<1>2. QED
  BY <1>1, TruncInd DEF WTrunc, drvVars

\* The driver's write preserves the invariant.  It adds to what can be admitted
\* only when it mixes its number with one that the worker has written since the
\* truncation, and the worker's job pays for that.
LEMMA DWriteInd == IndInv /\ DWrite => IndInv'
<1> SUFFICES ASSUME IndInv, DWrite PROVE IndInv'
  OBVIOUS
<1>0. PICK d \in Buffers : d = SubBuffer(drvQoS)
  BY SubBufferType DEF IndInv, TypeOK
<1>1. /\ drvPc = "write" /\ drvPc' = "idle" /\ WriteNumber(d, drvFifo)
      /\ UNCHANGED <<drvQoS, drvFifo, wrkPc, turn, wrkFifo, skipped, packets_sent,
                     completed, restarts>>
  BY <1>0 DEF DWrite, wrkVars
<1>2. d \in Buffers /\ drvFifo \in 0..MaxNumber /\ drvFifo <= Limit(d) /\ drvFifo \in Nat
  BY <1>0, <1>1, MaxNumberType, LimitType DEF IndInv, TypeOK, LocalsFit
<1>3. /\ file' \in [Buffers -> Text] /\ mixed' \in [Buffers -> BOOLEAN]
      /\ \A c \in Buffers \ {d} : file'[c] = file[c] /\ mixed'[c] = mixed[c]
      /\ file'[d][0] # NoDigit /\ file'[d] # Empty
      /\ Scan(file'[d], 0) \in 0..MaxNumber /\ Scan(file'[d], 0) <= Limit(d)'
      /\ file[d] = Empty \/ ~mixed'[d] => Scan(file'[d], 0) = drvFifo
      /\ Limit(d) <= Limit(d)' /\ Limit(d)' \in 1..MaxNumber
  BY <1>1, <1>2, WriteLeaves DEF IndInv
<1>4. TypeOK'
  BY <1>1, <1>3 DEF IndInv, TypeOK
<1>5. \A c \in Buffers \ {d} : Limit(c)' = Limit(c)
  BY <1>3 DEF Limit
<1>6. LocalsFit'
  BY <1>1 DEF IndInv, LocalsFit
<1>7. FilesFit'
  BY <1>3, <1>5 DEF IndInv, FilesFit
<1>8. ReserveBounded'
  <2> SUFFICES ASSUME NEW b \in Buffers
               PROVE  packets_sent[b] + Reserve(b)' <= Limit(b)' * (1 + completed[b])
    BY <1>1 DEF ReserveBounded
  <2>1. packets_sent[b] + Reserve(b) <= Limit(b) * (1 + completed[b])
    BY DEF IndInv, ReserveBounded
  <2>2. /\ Reserve(b) \in Nat /\ packets_sent[b] \in Nat /\ completed[b] \in Nat
        /\ Limit(b) \in Nat
    BY ReserveRange DEF IndInv
  <2>3. Reserve(b)' = Scan(file'[b], 0)
    BY <1>1 DEF Reserve
  <2>4. CASE b # d
    BY <1>0, <1>1, <1>3, <1>5, <2>1, <2>3, <2>4 DEF Reserve
  <2>5. CASE b = d
    <3>1. Limit(b)' \in Nat /\ Limit(b) <= Limit(b)' /\ Scan(file'[b], 0) \in Nat
      BY <1>3, <2>5, MaxNumberType
    <3>2. packets_sent[b] + Reserve(b) <= Limit(b)' * (1 + completed[b])
      BY <2>1, <2>2, <3>1, Room
    <3>3. Limit(b)' * (1 + completed[b]) \in Nat
      BY <2>2, <3>1
    <3>4. CASE Scan(file'[b], 0) = drvFifo
      <4>1. Reserve(b) >= drvFifo
        BY <1>0, <1>1, <1>2, <2>2, <2>5 DEF Reserve
      <4>2. QED
        BY <1>2, <2>2, <2>3, <3>2, <3>3, <3>4, <4>1
    <3>5. CASE Scan(file'[b], 0) # drvFifo
      <4>1. file[b] # Empty
        BY <1>3, <2>5, <3>5
      <4>2. Reserve(b) = drvFifo + Limit(b)
        BY <1>0, <1>1, <2>5, <4>1 DEF Reserve
      <4> DEFINE p == packets_sent[b]
                 c == completed[b]
                 l == Limit(b)
                 m == Limit(b)'
      <4> HIDE DEF p, c, l, m
      <4>3. /\ p \in Nat /\ c \in Nat /\ l \in Nat /\ m \in Nat /\ l <= m
            /\ p + l <= l * (1 + c)
        <5>1. Limit(b) * (1 + completed[b]) \in Nat
          BY <2>2
        <5>2. QED
          BY <1>2, <2>1, <2>2, <3>1, <4>2, <5>1 DEF p, c, l, m
      <4>4. p <= l * c
        BY <4>3, l * (1 + c) = l + l * c, l * c \in Nat
      <4>5. l * c <= m * c /\ l * c \in Nat /\ m * c \in Nat
        BY <4>3, MulMono
      <4>6. m * (1 + c) = m + m * c
        BY <4>3
      <4>7. p + m <= m * (1 + c)
        BY <4>3, <4>4, <4>5, <4>6
      <4>8. Scan(file'[b], 0) <= Limit(b)'
        BY <1>3, <2>5
      <4>9. QED
        BY <2>2, <2>3, <3>1, <3>3, <4>7, <4>8 DEF p, c, m
    <3>6. QED
      BY <3>4, <3>5
  <2>6. QED
    BY <2>4, <2>5
<1>9. QED
  BY <1>4, <1>6, <1>7, <1>8 DEF IndInv

\* The turn stays one of the three sub-buffers.
LEMMA NextTurnType == TypeOK => NextTurn \in Buffers
BY DEF TypeOK, NextTurn, Buffers, NUM_OF_QUEUES

\* The worker's read preserves the invariant.
LEMMA WReadInd == IndInv /\ WRead => IndInv'
<1> SUFFICES ASSUME IndInv, WRead PROVE IndInv'
  OBVIOUS
<1> DEFINE F == Scan(file[turn], wrkFifo)
<1>1. wrkPc = "read" /\ UNCHANGED <<file, drvPc, drvQoS, drvFifo, skipped, packets_sent,
                                    completed, restarts, mixed>>
  BY DEF WRead, drvVars
<1>2. F \in 0..MaxNumber
  BY ScanRange DEF IndInv, TypeOK, FilesFit
<1>3. \/ F < QUEUE_SIZE /\ wrkFifo' = F + 1 /\ wrkPc' = "trunc" /\ turn' = turn
      \/ wrkFifo' = F /\ turn' = NextTurn /\ wrkPc' = wrkPc
  BY DEF WRead, JobAvailable
<1>4. wrkFifo' \in 0..MaxNumber /\ (wrkPc' # "read" => wrkFifo' <= QUEUE_SIZE)
  BY <1>1, <1>2, <1>3, QueueSizeAssumption, MaxNumberType
<1>5. turn' \in Buffers /\ wrkPc' \in {"read", "trunc", "write"}
  BY <1>3, NextTurnType DEF IndInv, TypeOK
<1>6. TypeOK'
  BY <1>1, <1>4, <1>5 DEF IndInv, TypeOK
<1>7. LocalsFit' /\ FilesFit'
  BY <1>1, <1>4 DEF IndInv, LocalsFit, FilesFit, Limit
<1>8. ReserveBounded'
  BY <1>1 DEF IndInv, ReserveBounded, Reserve, Limit
<1>9. QED
  BY <1>6, <1>7, <1>8 DEF IndInv

\* The worker's write preserves the invariant: the completed job pays for the slots it may restore.
LEMMA WWriteInd == IndInv /\ WWrite => IndInv'
<1> SUFFICES ASSUME IndInv, WWrite PROVE IndInv'
  OBVIOUS
<1>1. /\ wrkPc = "write" /\ wrkPc' = "read"
      /\ WriteNumber(turn, wrkFifo)
      /\ turn' = NextTurn
      /\ completed' = [completed EXCEPT ![turn] = @ + 1]
      /\ UNCHANGED <<wrkFifo, drvPc, drvQoS, drvFifo, skipped, packets_sent, restarts>>
  BY DEF WWrite, drvVars
<1>2. turn \in Buffers /\ wrkFifo \in 0..MaxNumber /\ wrkFifo <= Limit(turn)
  BY <1>1, LimitType, QueueSizeAssumption, MaxNumberType DEF IndInv, TypeOK, LocalsFit
<1>3. /\ file' \in [Buffers -> Text] /\ mixed' \in [Buffers -> BOOLEAN]
      /\ \A c \in Buffers \ {turn} : file'[c] = file[c] /\ mixed'[c] = mixed[c]
      /\ file'[turn][0] # NoDigit
      /\ Scan(file'[turn], 0) \in 0..MaxNumber
  BY <1>1, <1>2, WriteLeaves DEF IndInv
<1>4. \A c \in Buffers \ {turn} : Limit(c)' = Limit(c)
  BY <1>3 DEF Limit
<1>5. ASSUME NEW b, b = turn
      PROVE  Limit(b) <= Limit(b)' /\ Limit(b)' \in 1..MaxNumber /\ Scan(file'[b], 0) <= Limit(b)'
  <2>1. b \in Buffers /\ wrkFifo <= Limit(b) /\ WriteNumber(b, wrkFifo)
    BY <1>1, <1>2, <1>5
  <2>2. QED
    BY <1>2, <2>1, WriteLeaves DEF IndInv
<1>6. TypeOK'
  <2>1. turn' \in Buffers /\ completed' \in [Buffers -> Nat]
    BY <1>1, <1>2, NextTurnType DEF IndInv, TypeOK
  <2>2. QED
    BY <1>1, <1>3, <2>1 DEF IndInv, TypeOK
<1>7. LocalsFit'
  <2>1. ASSUME drvPc # "idle" PROVE drvFifo < Limit(SubBuffer(drvQoS))'
    <3>0. PICK d \in Buffers : d = SubBuffer(drvQoS)
      BY SubBufferType DEF IndInv, TypeOK
    <3>1. d \in Buffers /\ drvFifo < Limit(d) /\ drvFifo \in Nat /\ Limit(d) \in Nat
      BY <2>1, <3>0, LimitType, MaxNumberType DEF IndInv, TypeOK, LocalsFit
    <3>3. Limit(d)' = Limit(d) \/ (Limit(d) <= Limit(d)' /\ Limit(d)' \in 1..MaxNumber)
      BY <1>4, <1>5, <3>1
    <3>4. drvFifo < Limit(d)'
      BY <3>1, <3>3, MaxNumberType
    <3>5. QED
      BY <1>1, <3>0, <3>4 DEF Limit
  <2>2. QED
    BY <1>1, <2>1 DEF LocalsFit
<1>8. FilesFit'
  BY <1>3, <1>4, <1>5 DEF IndInv, FilesFit
<1>9. ReserveBounded'
  <2> SUFFICES ASSUME NEW b \in Buffers
               PROVE  packets_sent[b] + Reserve(b)' <= Limit(b)' * (1 + completed'[b])
    BY <1>1 DEF ReserveBounded
  <2>1. packets_sent[b] + Reserve(b) <= Limit(b) * (1 + completed[b])
    BY DEF IndInv, ReserveBounded
  <2>2. /\ Reserve(b) \in Nat /\ packets_sent[b] \in Nat /\ completed[b] \in Nat
        /\ Limit(b) \in Nat
    BY ReserveRange DEF IndInv
  <2>3. CASE b = turn
    <3>1. completed'[b] = completed[b] + 1
      BY <1>1, <2>3 DEF IndInv, TypeOK
    <3>2. Limit(b)' \in Nat /\ Limit(b) <= Limit(b)' /\ drvFifo \in Nat
      BY <1>5, <2>3, MaxNumberType DEF IndInv, TypeOK
    <3>3. packets_sent[b] + Reserve(b) + Limit(b)' <= Limit(b)' * (1 + (completed[b] + 1))
      BY <2>1, <2>2, <3>2, Room
    <3>4. Limit(b)' * (1 + (completed[b] + 1)) \in Nat
      BY <2>2, <3>2
    <3>5. Reserve(b)' \in Nat /\ Reserve(b)' <= Reserve(b) + Limit(b)'
      <4>1. CASE drvPc = "idle" \/ SubBuffer(drvQoS) # b
        <5>1. Reserve(b)' = Scan(file'[b], 0)
          BY <1>1, <4>1 DEF Reserve
        <5>2. Scan(file'[b], 0) \in Nat /\ Scan(file'[b], 0) <= Limit(b)'
          BY <1>3, <1>5, <2>3, MaxNumberType
        <5>3. QED
          BY <2>2, <3>2, <5>1, <5>2
      <4>2. CASE ~(drvPc = "idle" \/ SubBuffer(drvQoS) # b)
        <5>1. Reserve(b) >= drvFifo
          BY <2>2, <3>2, <4>2 DEF Reserve
        <5>2. Reserve(b)' \in {drvFifo, drvFifo + Limit(b)'}
          BY <1>1, <4>2 DEF Reserve
        <5>3. QED
          BY <2>2, <3>2, <5>1, <5>2
      <4>3. QED
        BY <4>1, <4>2
    <3>6. QED
      BY <2>2, <3>1, <3>2, <3>3, <3>4, <3>5
  <2>4. CASE b # turn
    <3>1. file'[b] = file[b] /\ Limit(b)' = Limit(b) /\ completed'[b] = completed[b]
      BY <1>1, <1>3, <1>4, <2>4 DEF IndInv, TypeOK
    <3>2. Reserve(b)' = Reserve(b)
      BY <1>1, <3>1 DEF Reserve
    <3>3. QED
      BY <2>1, <3>1, <3>2
  <2>5. QED
    BY <2>3, <2>4
<1>10. QED
  BY <1>6, <1>7, <1>8, <1>9 DEF IndInv

\* A kill and restart of the worker, at any point, preserves the invariant.
LEMMA WorkerRestartInd == IndInv /\ WorkerRestart => IndInv'
<1> SUFFICES ASSUME IndInv, WorkerRestart PROVE IndInv'
  OBVIOUS
<1>1. /\ wrkPc' = "read" /\ turn' = 0 /\ wrkFifo' = 0 /\ restarts' = restarts + 1
      /\ UNCHANGED <<file, drvPc, drvQoS, drvFifo, skipped, packets_sent, completed, mixed>>
  BY DEF WorkerRestart, drvVars
<1>2. TypeOK'
  BY <1>1, MaxNumberType DEF IndInv, TypeOK, Buffers, NUM_OF_QUEUES
<1>3. LocalsFit' /\ FilesFit'
  BY <1>1 DEF IndInv, LocalsFit, FilesFit, Limit
<1>4. ReserveBounded'
  BY <1>1 DEF IndInv, ReserveBounded, Reserve, Limit
<1>5. QED
  BY <1>2, <1>3, <1>4 DEF IndInv

\* Every step preserves the invariant.
LEMMA IndNext == IndInv /\ [Next]_vars => IndInv'
<1> SUFFICES ASSUME IndInv, [Next]_vars PROVE IndInv'
  OBVIOUS
<1>1. CASE Driver
  BY <1>1, DReadInd, DTruncInd, DWriteInd DEF Driver
<1>2. CASE Worker
  BY <1>2, WReadInd, WTruncInd, WWriteInd DEF Worker
<1>3. CASE WorkerRestart
  BY <1>3, WorkerRestartInd
<1>4. CASE UNCHANGED vars
  <2>1. UNCHANGED <<file, drvPc, drvQoS, drvFifo, wrkPc, turn, wrkFifo, skipped,
                    packets_sent, completed, restarts, mixed>>
    BY <1>4 DEF vars, drvVars, wrkVars
  <2>2. TypeOK' /\ LocalsFit' /\ FilesFit'
    BY <2>1 DEF IndInv, TypeOK, LocalsFit, FilesFit, Limit
  <2>3. ReserveBounded'
    BY <2>1 DEF IndInv, ReserveBounded, Reserve, Limit
  <2>4. QED
    BY <2>2, <2>3 DEF IndInv
<1>5. QED
  BY <1>1, <1>2, <1>3, <1>4 DEF Next

\* The invariant holds in every reachable state.
LEMMA Inductive == Spec => []IndInv
BY IndInit, IndNext, PTL DEF Spec

-----------------------------------------------------------------------------
(***************************************************************************)
(* The theorems.                                                           *)
(***************************************************************************)

\* The files and the FIFO_SIZE locals of davidis_vtx1 and of the worker keep
\* their types, whatever the interleaving and wherever the worker is killed.
THEOREM TypeCorrect == Spec => []TypeOK
<1>1. IndInv => TypeOK
  BY DEF IndInv
<1>2. QED
  BY <1>1, Inductive, PTL

\* No interleaving of the two processes, and no kill of the worker, makes a
\* sub-buffer's file show more than QUEUE_SIZE free slots, as long as no number
\* was written over a longer one.
THEOREM CreditBound == Spec => []CreditWithinSize
<1>1. IndInv => CreditWithinSize
  BY DEF IndInv, FilesFit, CreditWithinSize, Credit, Limit
<1>2. QED
  BY <1>1, Inductive, PTL

\* For every job of a sub-buffer that the worker completes the driver admits at
\* most a buffer full of packets to it, in spite of the updates that are lost.
THEOREM AdmissionBound == Spec => []AdmissionBounded
<1>1. IndInv => AdmissionBounded
  <2> SUFFICES ASSUME IndInv, NEW b \in Buffers
               PROVE  packets_sent[b] <= Limit(b) * (1 + completed[b])
    BY DEF AdmissionBounded
  <2>1. /\ Reserve(b) \in Nat /\ packets_sent[b] \in Nat /\ completed[b] \in Nat
        /\ Limit(b) \in Nat
    BY ReserveRange DEF IndInv
  <2>2. packets_sent[b] + Reserve(b) <= Limit(b) * (1 + completed[b])
    BY DEF IndInv, ReserveBounded
  <2>3. Limit(b) * (1 + completed[b]) \in Nat
    BY <2>1
  <2>4. QED
    BY <2>1, <2>2, <2>3
<1>2. QED
  BY <1>1, Inductive, PTL

-----------------------------------------------------------------------------
(***************************************************************************)
(* Isolation of the classes.                                               *)
(***************************************************************************)

\* The initial text of a file is a number, QUEUE_SIZE.
LEMMA QueueDigits == /\ Digits(QUEUE_SIZE) # Empty
                     /\ Value(Digits(QUEUE_SIZE)) = QUEUE_SIZE
<1>1. QUEUE_SIZE \in 0..MaxNumber
  BY QueueSizeAssumption, MaxNumberType
<1>2. QED
  BY <1>1, DigitsOf

\* Initially no file has been touched.
LEMMA IsolationInit == Init => IsolationInv
BY DEF Init, IsolationInv, ClassIsolation, Touched

\* No step touches the file of a class without admitted packets.
LEMMA IsolationNext == IndInv /\ IsolationInv /\ [Next]_vars => IsolationInv'
<1> SUFFICES ASSUME IndInv, IsolationInv, [Next]_vars,
                    NEW b \in Buffers, packets_sent'[b] = 0
             PROVE  /\ file'[b] = Digits(QUEUE_SIZE) /\ completed'[b] = 0
                    /\ drvPc' # "idle" => SubBuffer(drvQoS') # b
                    /\ wrkPc' # "read" => turn' # b
  BY DEF IsolationInv, ClassIsolation, Touched
<1> USE DEF IndInv, TypeOK
<1>1. packets_sent[b] = 0 =>
        /\ file[b] = Digits(QUEUE_SIZE) /\ completed[b] = 0
        /\ drvPc # "idle" => SubBuffer(drvQoS) # b
        /\ wrkPc # "read" => turn # b
  BY DEF IsolationInv, ClassIsolation, Touched
<1>2. ASSUME NEW qos \in QoSValues, DRead(qos)
      PROVE  /\ packets_sent[b] = 0
             /\ drvPc' # "idle" => SubBuffer(drvQoS') # b
  <2>1. SubBuffer(qos) \in Buffers
    BY QoSAssumption, SubBufferType
  <2>2. \/ packets_sent' = packets_sent /\ drvPc' = "idle"
        \/ drvQoS' = qos /\ packets_sent' = [packets_sent EXCEPT ![SubBuffer(qos)] = @ + 1]
    BY <1>2 DEF DRead, drvVars
  <2>3. QED
    BY <2>1, <2>2
<1>3. CASE \E qos \in QoSValues : DRead(qos)
  <2>1. PICK qos \in QoSValues : DRead(qos)
    BY <1>3
  <2>2. UNCHANGED <<file, wrkPc, turn, completed>>
    BY <2>1 DEF DRead, wrkVars
  <2>3. QED
    BY <2>1, <2>2, <1>1, <1>2
<1>4. CASE DTrunc
  BY <1>4, <1>1 DEF DTrunc, wrkVars
<1>5. CASE DWrite
  BY <1>5, <1>1 DEF DWrite, WriteNumber, wrkVars
<1>6. CASE WRead
  <2>1. /\ wrkPc = "read"
        /\ UNCHANGED <<file, drvPc, drvQoS, packets_sent, completed>>
        /\ \/ Scan(file[turn], wrkFifo) < QUEUE_SIZE /\ turn' = turn
           \/ wrkPc' = "read"
    BY <1>6 DEF WRead, JobAvailable, drvVars
  <2>2. ASSUME turn = b PROVE ~(Scan(file[turn], wrkFifo) < QUEUE_SIZE)
    <3>1. Scan(file[turn], wrkFifo) = QUEUE_SIZE
      BY <1>1, <2>1, <2>2, QueueDigits DEF Scan
    <3>2. QED
      BY <3>1, QueueSizeAssumption
  <2>3. QED
    BY <2>1, <2>2, <1>1
<1>7. CASE WTrunc
  BY <1>7, <1>1 DEF WTrunc, drvVars
<1>8. CASE WWrite
  BY <1>8, <1>1 DEF WWrite, WriteNumber, drvVars
<1>9. CASE WorkerRestart
  BY <1>9, <1>1 DEF WorkerRestart, drvVars
<1>10. CASE UNCHANGED vars
  BY <1>10, <1>1 DEF vars, drvVars, wrkVars
<1>11. QED
  BY <1>3, <1>4, <1>5, <1>6, <1>7, <1>8, <1>9, <1>10 DEF Next, Driver, Worker

\* Traffic of one class never touches the file of another, although the
\* worker carries FIFO_SIZE from one sub-buffer to the next.
THEOREM Isolation == Spec => []ClassIsolation
<1>1. IsolationInv => ClassIsolation
  BY DEF IsolationInv
<1>2. QED
  BY <1>1, Inductive, IsolationInit, IsolationNext, PTL DEF Spec

-----------------------------------------------------------------------------
(***************************************************************************)
(* Empty files.                                                            *)
(***************************************************************************)

\* Initially no file is empty.
LEMMA EmptyInit == Init => EmptyIsTransient
BY QueueDigits DEF Init, EmptyIsTransient

\* Only a process that is about to write leaves a file empty.
LEMMA EmptyNext == IndInv /\ EmptyIsTransient /\ [Next]_vars => EmptyIsTransient'
<1> SUFFICES ASSUME IndInv, EmptyIsTransient, [Next]_vars, restarts' = 0,
                    NEW b \in Buffers, file'[b] = Empty
             PROVE  \/ drvPc' = "write" /\ SubBuffer(drvQoS') = b
                    \/ wrkPc' = "write" /\ turn' = b
  BY DEF EmptyIsTransient
<1> USE DEF IndInv, TypeOK
<1>1. ASSUME file[b] = Empty, restarts = 0
      PROVE  \/ drvPc = "write" /\ SubBuffer(drvQoS) = b
             \/ wrkPc = "write" /\ turn = b
  BY <1>1 DEF EmptyIsTransient
<1>2. CASE \E qos \in QoSValues : DRead(qos)
  BY <1>2, <1>1 DEF DRead, drvVars, wrkVars
<1>3. CASE DTrunc
  BY <1>3, <1>1 DEF DTrunc, wrkVars
<1>4. CASE DWrite
  <2>1. SubBuffer(drvQoS) \in Buffers
    BY SubBufferType
  <2>2. file[SubBuffer(drvQoS)] \in Text /\ drvFifo \in 0..MaxNumber
    BY <2>1, MaxNumberType
  <2>3. Overlay(file[SubBuffer(drvQoS)], Digits(drvFifo)) # Empty
    BY <2>2, OverlayDigits
  <2>4. b # SubBuffer(drvQoS)
    BY <1>4, <2>1, <2>3 DEF DWrite, WriteNumber
  <2>5. QED
    BY <1>4, <1>1, <2>4 DEF DWrite, WriteNumber, wrkVars
<1>5. CASE WRead
  BY <1>5, <1>1 DEF WRead, drvVars
<1>6. CASE WTrunc
  BY <1>6, <1>1 DEF WTrunc, drvVars
<1>7. CASE WWrite
  <2>1. file[turn] \in Text /\ wrkFifo \in 0..MaxNumber
    OBVIOUS
  <2>2. Overlay(file[turn], Digits(wrkFifo)) # Empty
    BY <2>1, OverlayDigits
  <2>3. b # turn
    BY <1>7, <2>2 DEF WWrite, WriteNumber
  <2>4. QED
    BY <1>7, <1>1, <2>3 DEF WWrite, WriteNumber, drvVars
<1>8. CASE WorkerRestart
  BY <1>8 DEF WorkerRestart
<1>9. CASE UNCHANGED vars
  BY <1>9, <1>1 DEF vars, drvVars, wrkVars
<1>10. QED
  BY <1>2, <1>3, <1>4, <1>5, <1>6, <1>7, <1>8, <1>9 DEF Next, Driver, Worker

\* Without a kill of the worker a truncated file is always about to be
\* written by the process that truncated it or by the other one.
THEOREM EmptyTransient == Spec => []EmptyIsTransient
BY Inductive, EmptyInit, EmptyNext, PTL DEF Spec

-----------------------------------------------------------------------------
(***************************************************************************)
(* The worker's else branch.                                               *)
(***************************************************************************)

\* The worker passes over a file whose number it has read, and that number is
\* not below QUEUE_SIZE, unless the driver is in the middle of an update.
LEMMA SkipReads ==
    ASSUME IndInv, EmptyIsTransient, [Next]_vars, Skips
    PROVE  Credit(turn) \in Nat /\ Credit(turn) >= QUEUE_SIZE
<1> USE DEF IndInv, TypeOK, Skips
<1>1. WRead
  <2>1. ~WorkerRestart
    BY DEF WorkerRestart
  <2>2. ~Driver /\ ~UNCHANGED vars
    BY DEF Driver, DRead, DTrunc, DWrite, vars, wrkVars
  <2>3. ~WTrunc /\ ~WWrite
    BY DEF WTrunc, WWrite
  <2>4. QED
    BY <2>1, <2>2, <2>3 DEF Next, Worker
<1>2. file[turn] # Empty
  BY <1>1 DEF WRead, EmptyIsTransient
<1>3. ~JobAvailable(Value(file[turn]))
  BY <1>1, <1>2 DEF WRead, Scan
<1>4. Credit(turn) \in Nat
  BY ReserveRange, MaxNumberType DEF Credit
<1>5. Credit(turn) = Value(file[turn])
  BY <1>2 DEF Credit, Scan
<1>6. QED
  BY <1>3, <1>4, <1>5, QueueSizeAssumption DEF JobAvailable

\* "no job available in this queue, skip to next queue": for every queue size
\* the worker skips a sub-buffer that the driver is not updating only when all
\* its slots are free, unless its file holds digits of two numbers.
THEOREM SkipCorrect == Spec => UnmixedSkipMeansNoJob
<1>1. IndInv /\ EmptyIsTransient /\ [Next]_vars =>
        [Skips /\ ~mixed[turn] => Credit(turn) = QUEUE_SIZE]_vars
  <2> SUFFICES ASSUME IndInv, EmptyIsTransient, [Next]_vars, Skips, ~mixed[turn]
               PROVE  Credit(turn) = QUEUE_SIZE
    OBVIOUS
  <2>1. Credit(turn) \in Nat /\ Credit(turn) >= QUEUE_SIZE
    BY SkipReads
  <2>2. Credit(turn) <= QUEUE_SIZE
    BY DEF Credit, IndInv, TypeOK, FilesFit, Limit
  <2>3. QED
    BY <2>1, <2>2, QueueSizeAssumption
<1>2. QED
  BY <1>1, Inductive, EmptyTransient, PTL DEF Spec, UnmixedSkipMeansNoJob
=============================================================================
