--------------------------- MODULE AppendLogProofs ---------------------------
(***************************************************************************)
(* Proofs about AppendLog, for all records, sizes of the disk, and numbers *)
(* and places of failures.                                                 *)
(***************************************************************************)
EXTENDS AppendLog, RespProofs

\* The acknowledged bytes are in the file, from where the stream was opened on.
AcknowledgedInFile ==
  \A i \in 1..Len(acked) : opened + i <= Len(file) /\ file[opened + i] = acked[i]

\* As long as nothing has failed nothing follows them, but the record of a call that
\* has been flushed and has not returned.
NothingBehind ==
  stream = "good" /\ stage # "flushed" => opened + Len(acked) = Len(file)

FlushedBehind ==
  LET text == encode_resp(caller) IN
  stream = "good" /\ stage = "flushed" =>
    /\ opened + Len(acked) + Len(text) = Len(file)
    /\ \A i \in 1..Len(text) : file[opened + Len(acked) + i] = text[i]

\* The buffer has the record of the call that is at the lock.
RecordBuffered ==
  stream = "good" /\ stage = "written" => pending = encode_resp(caller)

BytesValid ==
  /\ file \in Seq(Byte) /\ acked \in Seq(Byte) /\ pending \in Seq(Byte)
  /\ opened \in Nat

LogValid == AcknowledgedInFile /\ NothingBehind /\ FlushedBehind /\ RecordBuffered

IInv ==
  /\ TypeOK
  /\ BytesValid
  /\ ~overlapped => LogValid

-----------------------------------------------------------------------------
(* Recovery.                                                               *)

\* The records of bytes with a line end, when others are those behind it.
Combined(bytes, others) ==
  LET record == Take(bytes, LineEnd(bytes, 0) + 2)
      parts == parse_resp_request(record).parts
      isReplayed == parts # <<>> /\ Len(parts[1]) = 1 /\ parts[1][1] \in DOMAIN Arity
  IN IF ~Readable(record) THEN Refused
     ELSE IF isReplayed /\ Len(parts) # Arity[parts[1][1]] THEN Refused
     ELSE IF others = Refused THEN Refused
     ELSE IF isReplayed THEN <<parts>> \o others ELSE others

\* What is left of bytes when the first n are gone.
LEMMA DropProps ==
  ASSUME NEW bytes \in Seq(Byte), NEW n \in Nat, n <= Len(bytes)
  PROVE  /\ Drop(bytes, n) \in Seq(Byte) /\ Len(Drop(bytes, n)) = Len(bytes) - n
         /\ \A i \in 1..(Len(bytes) - n) : Drop(bytes, n)[i] = bytes[n + i]
         /\ \A p \in Nat : EndsAt(bytes, n + p) => EndsAt(Drop(bytes, n), p)
<1>1. PICK l \in Nat : l = Len(bytes)
  BY LenProperties
<1>2. n \in 0..Len(bytes)
  BY <1>1
<1>3. /\ Drop(bytes, n) \in Seq(Byte) /\ Len(Drop(bytes, n)) = l - n
      /\ \A i \in 1..(l - n) : Drop(bytes, n)[i] = bytes[n + i]
  BY <1>1, <1>2, CutSeq DEF Drop
<1>4. ASSUME NEW p \in Nat, EndsAt(bytes, n + p) PROVE EndsAt(Drop(bytes, n), p)
  <2>1. (n + p) + 2 <= l
    BY <1>1, <1>4 DEF EndsAt
  <2>2. /\ p + 1 \in 1..(l - n) /\ p + 2 \in 1..(l - n) /\ p + 2 <= l - n
        /\ n + (p + 1) = (n + p) + 1 /\ n + (p + 2) = (n + p) + 2
    BY <1>1, <2>1
  <2>. QED  BY <1>3, <1>4, <2>2 DEF EndsAt
<1>. QED  BY <1>1, <1>3, <1>4

\* The first line of bytes.
LEMMA FirstLine ==
  ASSUME NEW bytes \in Seq(Byte), LineEnd(bytes, 0) # NotFound
  PROVE  /\ LineEnd(bytes, 0) \in Nat /\ LineEnd(bytes, 0) + 2 <= Len(bytes)
         /\ EndsAt(bytes, LineEnd(bytes, 0))
         /\ Take(bytes, LineEnd(bytes, 0) + 2) \in Seq(Byte)
         /\ Take(bytes, LineEnd(bytes, 0) + 2)[1] = bytes[1]
         /\ Drop(bytes, LineEnd(bytes, 0) + 2) \in Seq(Byte)
         /\ Len(Drop(bytes, LineEnd(bytes, 0) + 2)) < Len(bytes)
<1>1. PICK e \in Nat : e = LineEnd(bytes, 0) /\ EndsAt(bytes, e)
  BY LineEndProps
<1>2. PICK l \in Nat : l = Len(bytes) /\ e + 2 <= l
  BY <1>1, LenProperties DEF EndsAt
<1>3. e + 2 \in 0..Len(bytes) /\ 1 \in 1..(e + 2)
  BY <1>2
<1>4. /\ Take(bytes, e + 2) \in Seq(Byte) /\ Take(bytes, e + 2)[1] = bytes[1]
      /\ Drop(bytes, e + 2) \in Seq(Byte) /\ Len(Drop(bytes, e + 2)) = l - (e + 2)
  BY <1>2, <1>3, CutSeq DEF Take, Drop
<1>. QED  BY <1>1, <1>2, <1>4

\* The function that reads the log exists: its equation holds.
LEMMA RecoveredEquation ==
  ASSUME NEW bytes \in Seq(Byte)
  PROVE  Recovered[bytes] =
           IF LineEnd(bytes, 0) = NotFound
           THEN (IF Len(bytes) <= MaxRecord THEN <<>> ELSE Refused)
           ELSE Combined(bytes, Recovered[Drop(bytes, LineEnd(bytes, 0) + 2)])
<1>. DEFINE D == Seq(Byte)
            Parts == {parse_resp_request(r).parts : r \in D}
            V == Seq(Parts) \cup {Refused}
            Rest(b) == Drop(b, LineEnd(b, 0) + 2)
            Base == {b \in D : LineEnd(b, 0) = NotFound}
            base == [b \in D |-> IF Len(b) <= MaxRecord THEN <<>> ELSE Refused]
            next == [b \in D |-> IF b \in Base THEN b ELSE Rest(b)]
            step == [p \in D \X V |-> IF p[1] \in Base THEN <<>> ELSE Combined(p[1], p[2])]
            size == [b \in D |-> Len(b)]
<1>1. ASSUME NEW b \in D, b \notin Base
      PROVE  /\ Rest(b) \in D /\ Len(Rest(b)) < Len(b)
             /\ Take(b, LineEnd(b, 0) + 2) \in D
  BY <1>1, FirstLine
<1>2. ASSUME NEW b \in D, b \notin Base, NEW others \in V
      PROVE  Combined(b, others) \in V
  <2>1. PICK r \in D : r = Take(b, LineEnd(b, 0) + 2)
    BY <1>1, <1>2
  <2>2. PICK parts \in Parts : parts = parse_resp_request(r).parts
    OBVIOUS
  <2>3. others # Refused => others \in Seq(Parts) /\ <<parts>> \o others \in Seq(Parts)
    <3>. HIDE DEF Parts
    <3>1. <<parts>> \in Seq(Parts)
      OBVIOUS
    <3>. QED  BY <3>1, ConcatProperties
  <2>4. Combined(b, others) \in {Refused, <<parts>> \o others, others}
        /\ (others = Refused => Combined(b, others) = Refused)
    BY <2>1, <2>2 DEF Combined
  <2>. HIDE DEF Parts
  <2>. QED  BY <2>3, <2>4
<1>3. \A b \in D : Len(b) \in Nat /\ <<>> \in V /\ Refused \in V
  BY LenProperties, EmptySeq
<1>. HIDE DEF V
<1>4. IsScheme(D, V, Base, base, next, step, size)
  <2>1. base \in [D -> V] /\ size \in [D -> Nat]
    BY <1>3
  <2>2. next \in [D -> D] /\ \A b \in D : b \in Base \/ size[next[b]] < size[b]
    <3>. HIDE DEF Rest, D
    <3>. QED  BY <1>1
  <2>3. step \in [D \X V -> V]
    <3>. SUFFICES ASSUME NEW p \in D \X V
                  PROVE  (IF p[1] \in Base THEN <<>> ELSE Combined(p[1], p[2])) \in V
      OBVIOUS
    <3>1. p[1] \in D /\ p[2] \in V
      OBVIOUS
    <3>. HIDE DEF Base, D
    <3>. QED  BY <1>2, <1>3, <3>1
  <2>. HIDE DEF D, Base, base, next, step, size
  <2>. QED  BY <2>1, <2>2, <2>3 DEF IsScheme
<1>5. PICK f \in [D -> V] : Solves(f, D, Base, base, next, step)
  <2>. HIDE DEF D, Base, base, next, step, size
  <2>. QED  BY <1>4, RecursionExists
<1>. DEFINE Equation(g, b) ==
              IF LineEnd(b, 0) = NotFound
              THEN (IF Len(b) <= MaxRecord THEN <<>> ELSE Refused)
              ELSE Combined(b, g[Rest(b)])
<1>6. ASSUME NEW b \in D PROVE f[b] = Equation(f, b)
  <2>1. f[b] = IF b \in Base THEN base[b] ELSE step[<<b, f[next[b]]>>]
    <3>. HIDE DEF D, Base, base, next, step
    <3>. QED  BY <1>5 DEF Solves
  <2>2. CASE b \in Base
    BY <2>1, <2>2
  <2>3. CASE b \notin Base
    <3>1. next[b] = Rest(b) /\ Rest(b) \in D
      BY <1>1, <2>3
    <3>2. PICK others \in V : others = f[Rest(b)]
      <4>. HIDE DEF Rest, D
      <4>. QED  BY <1>5, <3>1
    <3>3. step[<<b, others>>] = Combined(b, others)
      BY <2>3
    <3>4. f[b] = Combined(b, others)
      <4>. HIDE DEF step, next, Rest, D, Base
      <4>. QED  BY <2>1, <2>3, <3>1, <3>2, <3>3
    <3>. QED  BY <2>3, <3>2, <3>4
  <2>. QED  BY <2>2, <2>3
<1>7. f = [b \in D |-> Equation(f, b)]
  <2>. HIDE DEF Equation, D
  <2>. QED  BY <1>5, <1>6
<1>8. Recovered = [b \in D |-> Equation(Recovered, b)]
  BY <1>7 DEF Recovered, Combined
<1>. QED  BY <1>8

\* A line that begins with the marker of an argument is no request.
LEMMA ArgumentIsUnreadable ==
  ASSUME NEW record \in Seq(Byte), record[1] = "$"
  PROVE  ~Readable(record)
<1>1. record[1] # "*"
  OBVIOUS
<1>2. parse_resp_request(record) = Failed
  BY <1>1 DEF parse_resp_request, ReadArray
<1>. QED  BY <1>2 DEF Readable

\* The log is read line by line, so a line end that is followed by the marker of
\* an argument and another line end stops the recovery, at the latest.
LEMMA ArgumentRefused ==
  ASSUME NEW bytes \in Seq(Byte), NEW p \in Nat, NEW q \in Nat,
         EndsAt(bytes, p), bytes[p + 3] = "$", EndsAt(bytes, q), q >= p + 2
  PROVE  Recovered[bytes] = Refused
<1>. DEFINE D == Seq(Byte)
            size == [b \in D |-> Len(b)]
            HasArgument(b) ==
              \E i, j \in Nat : /\ EndsAt(b, i) /\ b[i + 3] = "$"
                                /\ EndsAt(b, j) /\ j >= i + 2
            Q == {b \in D : HasArgument(b) => Recovered[b] = Refused}
<1>1. ASSUME NEW b \in D, \A c \in D : size[c] < size[b] => c \in Q
      PROVE  b \in Q
  <2>. SUFFICES ASSUME NEW i \in Nat, NEW j \in Nat,
                       EndsAt(b, i), b[i + 3] = "$", EndsAt(b, j), j >= i + 2
                PROVE  Recovered[b] = Refused
    OBVIOUS
  <2>1. PICK e \in Nat : /\ e = LineEnd(b, 0) /\ EndsAt(b, e) /\ e <= i
                         /\ LineEnd(b, 0) # NotFound
    BY LineEndProps DEF NotFound
  <2>2. PICK n \in Nat : n = e + 2
    OBVIOUS
  <2>3. PICK l \in Nat : l = Len(b) /\ n <= l /\ j + 2 <= l
    BY <2>1, <2>2, LenProperties DEF EndsAt
  <2>4. PICK rest \in D : rest = Drop(b, n) /\ Len(rest) < Len(b)
    BY <2>1, <2>2, FirstLine
  <2>5. /\ \A k \in 1..(l - n) : rest[k] = b[n + k]
        /\ \A k \in Nat : EndsAt(b, n + k) => EndsAt(rest, k)
    <3>1. n <= Len(b)
      BY <2>3
    <3>2. /\ \A k \in 1..(Len(b) - n) : Drop(b, n)[k] = b[n + k]
          /\ \A k \in Nat : EndsAt(b, n + k) => EndsAt(Drop(b, n), k)
      BY <3>1, DropProps
    <3>. QED  BY <2>3, <2>4, <3>2
  <2>6. Recovered[rest] = Refused
    <3>1. CASE e = i
      <4>1. PICK k \in Nat : j = n + k
        <5>1. j - n \in Nat /\ j = n + (j - n)
          BY <2>2, <3>1
        <5>. QED  BY <5>1
      <4>2. EndsAt(rest, k)
        BY <2>5, <4>1
      <4>3. rest[1] = "$"
        <5>1. 1 \in 1..(l - n) /\ n + 1 = i + 3
          BY <2>2, <2>3, <3>1, <4>1
        <5>. QED  BY <2>5, <5>1
      <4>4. LineEnd(rest, 0) # NotFound
        BY <4>2, LineEndProps DEF NotFound
      <4>5. /\ Take(rest, LineEnd(rest, 0) + 2) \in Seq(Byte)
            /\ Take(rest, LineEnd(rest, 0) + 2)[1] = "$"
        BY <4>3, <4>4, FirstLine
      <4>6. ~Readable(Take(rest, LineEnd(rest, 0) + 2))
        BY <4>5, ArgumentIsUnreadable
      <4>. QED  BY <4>4, <4>6, RecoveredEquation DEF Combined
    <3>2. CASE e # i
      <4>1. e + 1 # i
        <5>1. b[e + 2] = "\n" /\ b[i + 1] = "\r" /\ "\n" # "\r"
          BY <2>1 DEF EndsAt
        <5>2. e + 1 = i => e + 2 = i + 1
          OBVIOUS
        <5>. QED  BY <5>1, <5>2
      <4>2. PICK k \in Nat, m \in Nat : i = n + k /\ j = n + m
        <5>1. e <= i /\ e # i /\ e + 1 # i /\ n = e + 2 /\ j >= i + 2
          BY <2>1, <2>2, <3>2, <4>1
        <5>2. i >= n /\ j >= n
          BY <5>1
        <5>3. i - n \in Nat /\ i = n + (i - n)
          BY <5>2
        <5>4. j - n \in Nat /\ j = n + (j - n)
          BY <5>2
        <5>. QED  BY <5>3, <5>4
      <4>3. EndsAt(rest, k) /\ EndsAt(rest, m) /\ m >= k + 2
        BY <2>5, <4>2
      <4>4. rest[k + 3] = "$"
        <5>1. k + 3 \in 1..(l - n) /\ n + (k + 3) = i + 3
          BY <2>3, <4>2
        <5>. QED  BY <2>5, <5>1
      <4>5. rest \in Q
        BY <1>1, <2>4
      <4>. QED  BY <4>3, <4>4, <4>5
    <3>. QED  BY <3>1, <3>2
  <2>7. Recovered[b] = Combined(b, Refused)
    BY <2>1, <2>2, <2>4, <2>6, RecoveredEquation
  <2>. QED  BY <2>7 DEF Combined
<1>2. Q = D
  <2>1. Q \in SUBSET D /\ size \in [D -> Nat]
    BY LenProperties
  <2>2. \A b \in D : (\A c \in D : size[c] < size[b] => c \in Q) => b \in Q
    <3>. HIDE DEF Q, size, D
    <3>. QED  BY <1>1
  <2>. HIDE DEF Q, size, D
  <2>. QED  BY <2>1, <2>2, SizeInduction
<1>. QED  BY <1>2

\* The text of k.record is in the bytes, and ends where k says.
IsIn(k, bytes) ==
  \E o \in Nat : /\ k.end = o + Len(encode_resp(k.record)) /\ k.end <= Len(bytes)
                 /\ \A i \in 1..Len(encode_resp(k.record)) :
                      bytes[o + i] = encode_resp(k.record)[i]

\* recover() throws whenever the log holds a record that append_command() has
\* written, whole or not at its place: the record's second line is read as a
\* request.
LEMMA RecordRefused ==
  ASSUME NEW bytes \in Seq(Byte), NEW k, k.record \in Records, IsIn(k, bytes)
  PROVE  Recovered[bytes] = Refused
<1>1. PICK text \in Seq(Byte) : text = encode_resp(k.record)
  BY RequestText, AppendLogAssumption
<1>2. PICK p, q \in Nat : /\ EndsAt(text, p) /\ text[p + 3] = "$"
                          /\ q > p + 2 /\ EndsAt(text, q)
  BY <1>1, RequestText, AppendLogAssumption
<1>3. PICK o \in Nat : /\ o + Len(text) <= Len(bytes)
                       /\ \A i \in 1..Len(text) : bytes[o + i] = text[i]
  BY <1>1 DEF IsIn
<1>4. PICK l, m \in Nat : l = Len(text) /\ m = Len(bytes)
  BY LenProperties
<1>5. p + 2 <= l /\ q + 2 <= l /\ o + l <= m
  BY <1>2, <1>3, <1>4 DEF EndsAt
<1>6. ASSUME NEW r \in Nat, EndsAt(text, r) PROVE EndsAt(bytes, o + r)
  <2>1. r + 2 <= l
    BY <1>4, <1>6 DEF EndsAt
  <2>2. /\ r + 1 \in 1..l /\ r + 2 \in 1..l /\ (o + r) + 2 <= m
        /\ o + (r + 1) = (o + r) + 1 /\ o + (r + 2) = (o + r) + 2
    BY <1>5, <2>1
  <2>. QED  BY <1>3, <1>4, <1>6, <2>2 DEF EndsAt
<1>7. bytes[(o + p) + 3] = "$"
  <2>1. p + 3 \in 1..l /\ o + (p + 3) = (o + p) + 3
    BY <1>2, <1>5
  <2>. QED  BY <1>2, <1>3, <1>4, <2>1
<1>8. o + p \in Nat /\ o + q \in Nat /\ o + q >= (o + p) + 2
  BY <1>2
<1>. QED  BY <1>2, <1>6, <1>7, <1>8, ArgumentRefused

-----------------------------------------------------------------------------
(* The steps.                                                              *)

\* The invariant holds at the start.
LEMMA InitInv == Init => IInv
<1>. SUFFICES ASSUME Init PROVE IInv
  OBVIOUS
<1>1. <<>> \in Seq(Byte) /\ Len(<<>>) = 0 /\ DiskSize \in Nat
  BY EmptySeq, AppendLogAssumption
<1>2. /\ mode = "down" /\ initialized = FALSE /\ stream = "closed" /\ pending = <<>>
      /\ opening = [t \in Openers |-> "out"] /\ stage = "idle" /\ overlapped = FALSE
      /\ file = <<>> /\ synced = 0 /\ opened = 0 /\ acked = <<>>
  BY DEF Init
<1>3. TypeOK
  <2>1. Len(file) <= DiskSize /\ synced \in 0..Len(file)
    BY <1>1, <1>2
  <2>. QED  BY <1>2, <2>1 DEF TypeOK
<1>4. BytesValid
  BY <1>1, <1>2 DEF BytesValid
<1>5. LogValid
  BY <1>1, <1>2 DEF LogValid, AcknowledgedInFile, NothingBehind, FlushedBehind, RecordBuffered
<1>. QED  BY <1>3, <1>4, <1>5 DEF IInv

\* The stream is opened: nothing is acknowledged yet.
LEMMA FreshInv ==
  ASSUME IInv, FreshStream, UNCHANGED <<stage, caller, file, synced>>,
         Locked => overlapped', TypeOK'
  PROVE  IInv'
<1>1. Len(file) \in Nat /\ file \in Seq(Byte)
  BY LenProperties DEF IInv, BytesValid
<1>2. BytesValid'
  BY <1>1, EmptySeq DEF BytesValid, FreshStream
<1>3. ASSUME ~overlapped' PROVE LogValid'
  <2>1. stage' \notin {"written", "flushed"}
    BY <1>3 DEF Locked
  <2>2. AcknowledgedInFile' /\ NothingBehind'
    BY <1>1 DEF FreshStream, AcknowledgedInFile, NothingBehind
  <2>. QED  BY <2>1, <2>2 DEF LogValid, FlushedBehind, RecordBuffered
<1>. QED  BY <1>2, <1>3 DEF IInv

\* A stream that is not good promises nothing but what has been acknowledged.
LEMMA NotGoodInv ==
  ASSUME TypeOK', BytesValid', stream' # "good", ~overlapped' => AcknowledgedInFile'
  PROVE  IInv'
  BY DEF IInv, LogValid, NothingBehind, FlushedBehind, RecordBuffered

\* The file and what is acknowledged of it stay as they are.
LEMMA LogSame ==
  ASSUME IInv, UNCHANGED <<file, opened, acked>>, pending' \in Seq(Byte)
  PROVE  /\ BytesValid'
         /\ overlapped' = overlapped => (~overlapped' => AcknowledgedInFile')
  BY DEF IInv, BytesValid, LogValid, AcknowledgedInFile

\* Bytes are written behind the others.
LEMMA FileGrows ==
  ASSUME IInv, NEW text \in Seq(Byte), Len(file) + Len(text) <= DiskSize,
         file' = file \o text, UNCHANGED <<synced, opened, acked, overlapped>>
  PROVE  /\ file' \in Seq(Byte) /\ acked' \in Seq(Byte) /\ opened' \in Nat
         /\ Len(file') <= DiskSize /\ synced' \in 0..Len(file')
         /\ Len(file) \in Nat /\ Len(text) \in Nat /\ Len(acked) \in Nat
         /\ Len(file') = Len(file) + Len(text)
         /\ \A i \in 1..Len(text) : file'[Len(file) + i] = text[i]
         /\ ~overlapped' => AcknowledgedInFile'
<1>. USE DEF IInv
<1>1. /\ file \in Seq(Byte) /\ acked \in Seq(Byte) /\ opened \in Nat
      /\ Len(file) \in Nat /\ Len(text) \in Nat /\ Len(acked) \in Nat
  BY LenProperties DEF BytesValid
<1>2. /\ file' \in Seq(Byte) /\ Len(file') = Len(file) + Len(text)
      /\ \A i \in 1..Len(file) : file'[i] = file[i]
      /\ \A i \in 1..Len(text) : file'[Len(file) + i] = text[i]
  BY <1>1
<1>3. Len(file') <= DiskSize /\ synced' \in 0..Len(file')
  BY <1>1, <1>2 DEF TypeOK
<1>4. ASSUME ~overlapped', NEW i \in 1..Len(acked)
      PROVE  opened + i <= Len(file') /\ file'[opened + i] = acked[i]
  <2>1. opened + i <= Len(file) /\ file[opened + i] = acked[i]
    BY <1>4 DEF LogValid, AcknowledgedInFile
  <2>2. opened + i \in 1..Len(file)
    BY <1>1, <2>1
  <2>. QED  BY <1>1, <1>2, <2>1, <2>2
<1>. QED  BY <1>1, <1>2, <1>3, <1>4 DEF AcknowledgedInFile

\* write() leaves the record in the buffer of a good stream.
LEMMA WriteInv ==
  ASSUME IInv, Write
  PROVE  IInv'
<1>. USE DEF IInv
<1>1. /\ stage = "begun" /\ stage' = "written"
      /\ pending' = (IF stream = "good" THEN encode_resp(caller) ELSE pending)
      /\ UNCHANGED <<mode, initialized, opening, stream, opened, acked, overlapped, caller, file,
                     synced>>
  BY DEF Write, Writable, disk
<1>2. caller \in Records /\ pending' \in Seq(Byte)
  <2>1. caller \in Records
    BY <1>1 DEF TypeOK
  <2>. QED  BY <1>1, <2>1, RequestText, AppendLogAssumption DEF BytesValid
<1>3. TypeOK'
  BY <1>1, <1>2 DEF TypeOK
<1>4. BytesValid' /\ (~overlapped' => AcknowledgedInFile')
  BY <1>1, <1>2, LogSame
<1>5. ~overlapped' => LogValid'
  BY <1>1, <1>4 DEF LogValid, NothingBehind, FlushedBehind, RecordBuffered
<1>. QED  BY <1>3, <1>4, <1>5

\* flush() leaves it behind what has been acknowledged.
LEMMA WriteOutInv ==
  ASSUME IInv, WriteOut
  PROVE  IInv'
<1>. USE DEF IInv
<1>1. /\ stage = "written" /\ stage' = "flushed" /\ stream = "good"
      /\ pending' = <<>> /\ file' = file \o pending /\ Len(file) + Len(pending) <= DiskSize
      /\ UNCHANGED <<mode, initialized, opening, stream, opened, acked, overlapped, caller, synced>>
  BY DEF WriteOut, Writable, FlushBuffer
<1>2. PICK text \in Seq(Byte) : text = pending
  BY DEF BytesValid
<1>3. /\ file' \in Seq(Byte) /\ acked' \in Seq(Byte) /\ opened' \in Nat
      /\ Len(file') <= DiskSize /\ synced' \in 0..Len(file')
      /\ Len(file) \in Nat /\ Len(text) \in Nat /\ Len(acked) \in Nat
      /\ Len(file') = Len(file) + Len(text)
      /\ \A i \in 1..Len(text) : file'[Len(file) + i] = text[i]
      /\ ~overlapped' => AcknowledgedInFile'
  BY <1>1, <1>2, FileGrows
<1>4. TypeOK'
  BY <1>1, <1>3 DEF TypeOK
<1>5. BytesValid'
  BY <1>1, <1>3, EmptySeq DEF BytesValid
<1>6. ASSUME ~overlapped' PROVE LogValid'
  <2>1. text = encode_resp(caller') /\ opened + Len(acked) = Len(file)
    BY <1>1, <1>2, <1>6 DEF LogValid, NothingBehind, RecordBuffered
  <2>2. FlushedBehind'
    BY <1>1, <1>3, <2>1 DEF FlushedBehind
  <2>. QED  BY <1>1, <1>3, <1>6, <2>2 DEF LogValid, NothingBehind, RecordBuffered
<1>. QED  BY <1>4, <1>5, <1>6

\* Or a piece of it, behind which nothing will be acknowledged.
LEMMA WriteOutFailsInv ==
  ASSUME IInv, NEW n \in Cuts, WriteOutFails(n)
  PROVE  IInv'
<1>. USE DEF IInv
<1>1. /\ stage = "written" /\ stage' = "idle" /\ stream = "good" /\ stream' = "bad"
      /\ n < Len(pending) /\ Len(file) + n <= DiskSize /\ file' = file \o Take(pending, n)
      /\ UNCHANGED <<mode, initialized, opening, pending, opened, acked, overlapped, synced>>
  BY DEF WriteOutFails, Writable, CallEnds
<1>2. pending \in Seq(Byte) /\ Len(pending) \in Nat
  BY LenProperties DEF BytesValid
<1>3. n \in 0..Len(pending)
  BY <1>1, <1>2, AppendLogAssumption
<1>4. Take(pending, n) \in Seq(Byte) /\ Len(Take(pending, n)) = n
  BY <1>2, <1>3, CutSeq DEF Take
<1>5. /\ file' \in Seq(Byte) /\ acked' \in Seq(Byte) /\ opened' \in Nat
      /\ Len(file') <= DiskSize /\ synced' \in 0..Len(file')
      /\ ~overlapped' => AcknowledgedInFile'
  BY <1>1, <1>4, FileGrows
<1>6. TypeOK'
  BY <1>1, <1>5 DEF TypeOK
<1>7. BytesValid'
  BY <1>1, <1>2, <1>5 DEF BytesValid
<1>. QED  BY <1>1, <1>5, <1>6, <1>7, NotGoodInv

\* The call returns: the record that is behind the acknowledged bytes is one of them.
LEMMA AppendReturnsInv ==
  ASSUME IInv, AppendReturns
  PROVE  IInv'
<1>. USE DEF IInv
<1>1. PICK text : text = encode_resp(caller)
  OBVIOUS
<1>2. /\ stage = "flushed" /\ stage' = "idle" /\ stream = "good" /\ acked' = acked \o text
      /\ UNCHANGED <<mode, initialized, opening, stream, pending, opened, overlapped, file, synced>>
  BY <1>1 DEF AppendReturns, Writable, CallEnds
<1>3. text \in Seq(Byte)
  <2>1. caller \in Records
    BY <1>2 DEF TypeOK
  <2>. QED  BY <1>1, <2>1, RequestText, AppendLogAssumption
<1>4. acked \in Seq(Byte) /\ opened \in Nat /\ pending \in Seq(Byte) /\ file \in Seq(Byte)
  BY DEF BytesValid
<1>5. PICK a, f, l \in Nat : a = Len(acked) /\ f = Len(file) /\ l = Len(text)
  BY <1>3, <1>4, LenProperties
<1>6. /\ acked' \in Seq(Byte) /\ Len(acked') = a + l
      /\ \A i \in 1..a : acked'[i] = acked[i]
      /\ \A i \in 1..l : acked'[a + i] = text[i]
  BY <1>2, <1>3, <1>4, <1>5, JoinSeq
<1>7. TypeOK' /\ BytesValid'
  BY <1>2, <1>4, <1>6 DEF TypeOK, BytesValid
<1>8. ASSUME ~overlapped' PROVE LogValid'
  <2>1. /\ opened + a + l = f /\ \A i \in 1..l : file[opened + a + i] = text[i]
        /\ \A i \in 1..a : opened + i <= f /\ file[opened + i] = acked[i]
    BY <1>1, <1>2, <1>5, <1>8 DEF LogValid, FlushedBehind, AcknowledgedInFile
  <2>2. ASSUME NEW i \in 1..(a + l) PROVE opened + i <= f /\ file[opened + i] = acked'[i]
    <3>1. CASE i \in 1..a
      BY <1>6, <2>1, <3>1
    <3>2. CASE i \notin 1..a
      <4>1. PICK j \in 1..l : i = a + j
        <5>1. i - a \in 1..l /\ i = a + (i - a)
          BY <3>2
        <5>. QED  BY <5>1
      <4>2. opened + i = opened + a + j /\ opened + i <= f
        BY <1>4, <2>1, <4>1
      <4>. QED  BY <1>6, <2>1, <4>1, <4>2
    <3>. QED  BY <3>1, <3>2
  <2>3. AcknowledgedInFile'
    BY <1>2, <1>5, <1>6, <2>2 DEF AcknowledgedInFile
  <2>4. NothingBehind'
    <3>1. opened + (a + l) = f
      BY <1>4, <2>1
    <3>. QED  BY <1>2, <1>5, <1>6, <3>1 DEF NothingBehind
  <2>. QED  BY <1>2, <2>3, <2>4 DEF LogValid, FlushedBehind, RecordBuffered
<1>. QED  BY <1>7, <1>8

\* flush() and close() write the beginning of what the buffer still holds.
LEMMA RewriteInv ==
  ASSUME IInv, NEW n \in Cuts \cup {Len(pending)}, Rewrite(n),
         UNCHANGED <<synced, opened, acked, overlapped>>,
         pending' \in {<<>>, pending}, stream' # "good",
         Len(file') <= DiskSize /\ synced' \in 0..Len(file') => TypeOK'
  PROVE  IInv'
<1>1. pending \in Seq(Byte) /\ Len(pending) \in Nat
  BY LenProperties DEF IInv, BytesValid
<1>2. /\ n \in 0..Len(pending) /\ Len(file) + n <= DiskSize
      /\ file' = file \o Take(pending, n)
  BY <1>1, AppendLogAssumption DEF Rewrite
<1>3. Take(pending, n) \in Seq(Byte) /\ Len(Take(pending, n)) = n
  BY <1>1, <1>2, CutSeq DEF Take
<1>4. /\ file' \in Seq(Byte) /\ acked' \in Seq(Byte) /\ opened' \in Nat
      /\ Len(file') <= DiskSize /\ synced' \in 0..Len(file')
      /\ ~overlapped' => AcknowledgedInFile'
  BY <1>2, <1>3, FileGrows
<1>5. BytesValid'
  BY <1>1, <1>4, EmptySeq DEF BytesValid
<1>. QED  BY <1>4, <1>5, NotGoodInv

\* The process ends and leaves a file that has what is acknowledged.
LEMMA EndInv ==
  ASSUME IInv, ProcessEnds, file' \in Seq(Byte), Len(file') <= DiskSize,
         synced' \in 0..Len(file'), overlapped' \in BOOLEAN, acked' \in Seq(Byte),
         ~overlapped' => AcknowledgedInFile'
  PROVE  IInv'
<1>1. /\ mode' = "down" /\ initialized' = FALSE /\ stream' = "closed" /\ pending' = <<>>
      /\ opening' = [t \in Openers |-> "out"] /\ stage' = "idle" /\ opened' = opened
  BY DEF ProcessEnds, CallEnds
<1>2. TypeOK'
  BY <1>1 DEF TypeOK
<1>3. BytesValid'
  BY <1>1, EmptySeq DEF BytesValid, IInv
<1>. QED  BY <1>1, <1>2, <1>3, NotGoodInv

\* A power failure takes only what was not synced, and the log is closed.
LEMMA PowerFailureInv ==
  ASSUME IInv, NEW n \in Cuts \cup {Len(file) - synced}, PowerFailure(n)
  PROVE  IInv'
<1>. USE DEF IInv
<1>1. file \in Seq(Byte) /\ Len(file) \in Nat /\ synced \in 0..Len(file)
  BY LenProperties DEF TypeOK, BytesValid
<1>2. n \in Nat /\ n <= Len(file) - synced
  BY <1>1, AppendLogAssumption DEF PowerFailure
<1>3. Len(file) - n \in 0..Len(file)
  BY <1>1, <1>2
<1>4. /\ file' \in Seq(Byte) /\ Len(file') = Len(file) - n
  <2>1. file' = SubSeq(file, 1, Len(file) - n)
    BY DEF PowerFailure, Take
  <2>. QED  BY <1>1, <1>3, <2>1, CutSeq
<1>5. /\ ProcessEnds /\ acked' = <<>> /\ overlapped' = FALSE /\ synced' = Len(file')
  BY DEF PowerFailure
<1>6. DiskSize \in Nat /\ Len(file') \in Nat /\ Len(file') <= DiskSize
  BY <1>1, <1>3, <1>4, AppendLogAssumption DEF TypeOK
<1>7. synced' \in 0..Len(file')
  BY <1>5, <1>6
<1>8. AcknowledgedInFile' /\ acked' \in Seq(Byte)
  BY <1>5, EmptySeq DEF AcknowledgedInFile
<1>. QED  BY <1>4, <1>5, <1>6, <1>7, <1>8, EndInv

\* initialize() leaves the log as it is, opens it, or spoils a stream that is open.
LEMMA InitializeInv ==
  ASSUME IInv, NEW t \in Openers,
         BeginInitialize(t) \/ Open(t) \/ OpenFails(t) \/ SetInitialized(t)
  PROVE  IInv'
<1>. USE DEF IInv
<1>1. CASE BeginInitialize(t) \/ OpenFails(t) \/ SetInitialized(t)
  <2>1. /\ initialized' \in BOOLEAN /\ opening' \in [Openers -> {"out", "tested", "opened"}]
        /\ UNCHANGED <<mode, streamVars, call, disk>>
    BY <1>1 DEF BeginInitialize, OpenFails, SetInitialized, TypeOK
  <2>2. mode = "serving"
    <3>1. BeginInitialize(t) \/ opening[t] # "out"
      BY <1>1 DEF OpenFails, SetInitialized
    <3>2. mode # "serving" => opening[t] = "out"
      BY DEF TypeOK
    <3>. QED  BY <3>1, <3>2 DEF BeginInitialize
  <2>3. TypeOK'
    BY <2>1, <2>2 DEF TypeOK, streamVars, call, disk
  <2>4. BytesValid' /\ (~overlapped' => LogValid')
    BY <2>1 DEF BytesValid, LogValid, AcknowledgedInFile, NothingBehind, FlushedBehind,
                RecordBuffered, streamVars, call, disk
  <2>. QED  BY <2>3, <2>4
<1>2. CASE Open(t)
  <2>1. /\ opening' \in [Openers -> {"out", "tested", "opened"}]
        /\ UNCHANGED <<mode, initialized, stage, caller, file, synced>>
    BY <1>2 DEF Open, TypeOK, call, disk
  <2>2. mode = "serving"
    BY <1>2 DEF Open, TypeOK
  <2>3. CASE stream = "closed" /\ FreshStream /\ overlapped' = Locked
    <3>1. TypeOK'
      BY <2>1, <2>2, <2>3 DEF TypeOK, FreshStream, Locked
    <3>. QED  BY <2>1, <2>3, <3>1, FreshInv
  <2>4. CASE /\ stream # "closed" /\ stream' = "bad"
             /\ UNCHANGED <<pending, opened, acked, overlapped>>
    <3>1. TypeOK'
      BY <2>1, <2>2, <2>4 DEF TypeOK
    <3>2. BytesValid' /\ (~overlapped' => AcknowledgedInFile')
      BY <2>1, <2>4, LogSame DEF BytesValid
    <3>. QED  BY <2>4, <3>1, <3>2, NotGoodInv
  <2>. QED  BY <1>2, <2>3, <2>4 DEF Open
<1>. QED  BY <1>1, <1>2

\* Every step keeps the invariant.
LEMMA NextInv == IInv /\ [Next]_vars => IInv'
<1>. SUFFICES ASSUME IInv, [Next]_vars PROVE IInv'
  OBVIOUS
<1>. USE DEF IInv
<1>1. CASE Start
  <2>1. mode = "down" /\ UNCHANGED <<opening, stage, caller, file, synced>>
    BY <1>1 DEF Start, call, disk
  <2>2. CASE mode' = "refused" /\ UNCHANGED <<initialized, streamVars>>
    <3>1. TypeOK'
      BY <2>1, <2>2 DEF TypeOK, streamVars
    <3>2. BytesValid' /\ (~overlapped' => LogValid')
      BY <2>1, <2>2 DEF BytesValid, LogValid, AcknowledgedInFile, NothingBehind, FlushedBehind,
                        RecordBuffered, streamVars
    <3>. QED  BY <3>1, <3>2
  <2>3. CASE mode' = "serving" /\ initialized' = TRUE /\ FreshStream /\ overlapped' = FALSE
    <3>1. TypeOK'
      BY <2>1, <2>3 DEF TypeOK, FreshStream
    <3>2. stage = "idle"
      BY <2>1 DEF TypeOK
    <3>3. ~Locked
      BY <3>2 DEF Locked
    <3>. QED  BY <2>1, <2>3, <3>1, <3>3, FreshInv
  <2>. QED  BY <1>1, <2>2, <2>3 DEF Start
<1>2. ASSUME NEW t \in Openers,
             BeginInitialize(t) \/ Open(t) \/ OpenFails(t) \/ SetInitialized(t)
      PROVE  IInv'
  BY <1>2, InitializeInv
<1>3. ASSUME NEW record \in Records, BeginAppend(record) PROVE IInv'
  <2>1. /\ mode = "serving" /\ stage = "idle" /\ stage' = "begun" /\ caller' = record
        /\ UNCHANGED <<mode, initialized, opening, streamVars, file, synced>>
    BY <1>3 DEF BeginAppend, disk
  <2>2. TypeOK'
    BY <2>1 DEF TypeOK, streamVars
  <2>3. BytesValid' /\ (~overlapped' => LogValid')
    BY <2>1 DEF BytesValid, LogValid, AcknowledgedInFile, NothingBehind, FlushedBehind,
                RecordBuffered, streamVars
  <2>. QED  BY <2>2, <2>3
<1>4. CASE AppendThrows
  <2>1. /\ stream # "good" /\ stage' = "idle"
        /\ UNCHANGED <<mode, initialized, opening, streamVars, file, synced>>
    BY <1>4 DEF AppendThrows, Writable, CallEnds, disk
  <2>2. TypeOK'
    BY <2>1 DEF TypeOK, streamVars
  <2>3. BytesValid' /\ (~overlapped' => AcknowledgedInFile')
    BY <2>1, LogSame DEF BytesValid, streamVars
  <2>. QED  BY <2>1, <2>2, <2>3, NotGoodInv DEF streamVars
<1>5. ASSUME NEW n \in Cuts, WriteOutFails(n) PROVE IInv'
  BY <1>5, WriteOutFailsInv
<1>6. ASSUME NEW n \in Cuts \cup {Len(pending)}, Flush(n) PROVE IInv'
  <2>1. /\ mode = "serving" /\ stream = "bad" /\ Rewrite(n) /\ pending' \in {<<>>, pending}
        /\ UNCHANGED <<mode, initialized, opening, stream, stage, caller, synced, opened, acked,
                       overlapped>>
    BY <1>6 DEF Flush, call
  <2>2. Len(file') <= DiskSize /\ synced' \in 0..Len(file') => TypeOK'
    BY <2>1 DEF TypeOK
  <2>. QED  BY <2>1, <2>2, RewriteInv
<1>7. ASSUME NEW n \in Cuts \cup {Len(pending)}, Close(n) PROVE IInv'
  <2>1. /\ mode = "serving" /\ Rewrite(n) /\ pending' = <<>>
        /\ stream' = "closed" /\ initialized' = FALSE
        /\ UNCHANGED <<mode, opening, stage, caller, synced, opened, acked, overlapped>>
    BY <1>7 DEF Close, call
  <2>2. Len(file') <= DiskSize /\ synced' \in 0..Len(file') => TypeOK'
    BY <2>1 DEF TypeOK
  <2>. QED  BY <2>1, <2>2, RewriteInv
<1>8. CASE Kill
  <2>1. ProcessEnds /\ UNCHANGED <<acked, overlapped, file, synced, opened>>
    BY <1>8 DEF Kill, ProcessEnds, disk
  <2>2. /\ file' \in Seq(Byte) /\ Len(file') <= DiskSize /\ synced' \in 0..Len(file')
        /\ overlapped' \in BOOLEAN /\ acked' \in Seq(Byte) /\ (~overlapped' => AcknowledgedInFile')
    BY <2>1 DEF TypeOK, BytesValid, LogValid, AcknowledgedInFile
  <2>. QED  BY <2>1, <2>2, EndInv
<1>9. ASSUME NEW n \in Cuts \cup {Len(file) - synced}, PowerFailure(n) PROVE IInv'
  BY <1>9, PowerFailureInv
<1>10. CASE UNCHANGED vars
  <2>1. UNCHANGED <<mode, initialized, opening, streamVars, stage, caller, file, synced>>
    BY <1>10 DEF vars, call, disk
  <2>2. TypeOK'
    BY <2>1 DEF TypeOK, streamVars
  <2>3. BytesValid' /\ (~overlapped' => LogValid')
    BY <2>1 DEF BytesValid, LogValid, AcknowledgedInFile, NothingBehind, FlushedBehind,
                RecordBuffered, streamVars
  <2>. QED  BY <2>2, <2>3
<1>. QED
  BY <1>1, <1>2, <1>3, <1>4, <1>5, <1>6, <1>7, <1>8, <1>9, <1>10, WriteInv, WriteOutInv,
     AppendReturnsInv DEF Next

\* The inductive invariant holds in every reachable state.
THEOREM Inductive == Spec => []IInv
  BY InitInv, NextInv, PTL DEF Spec

\* Every variable keeps its type: only a serving process has the stream open, and a
\* call at it; and when no call is between write() and flush(), a buffer that still
\* holds bytes is that of a stream that has failed.
THEOREM TypeCorrect == Spec => []TypeOK
<1>1. IInv => TypeOK
  BY DEF IInv
<1>. QED  BY <1>1, Inductive, PTL

\* Unless initialize() opened the stream while append_command() had the lock, what
\* append_command() has acknowledged since lies in the file as a whole and without
\* anything in between, wherever writes fail, whatever flush() and close() write
\* again, and wherever else several threads call initialize(), until the machine
\* loses power.
THEOREM AcknowledgedStays == Spec => []AcknowledgedIsWhole
<1>1. IInv => AcknowledgedIsWhole
  <2>. SUFFICES ASSUME IInv, ~overlapped PROVE IsPrefix(acked, Drop(file, opened))
    BY DEF AcknowledgedIsWhole, AppendedIsInFile
  <2>1. /\ file \in Seq(Byte) /\ acked \in Seq(Byte) /\ opened \in Nat
        /\ Len(file) \in Nat /\ Len(acked) \in Nat
    BY LenProperties DEF IInv, BytesValid
  <2>2. \A i \in 1..Len(acked) : opened + i <= Len(file) /\ file[opened + i] = acked[i]
    BY DEF IInv, LogValid, AcknowledgedInFile
  <2>3. SubSeq(acked, 1, Len(acked)) = acked
    BY <2>1
  <2>4. CASE Len(acked) = 0
    <3>1. Len(Drop(file, opened)) >= 0
      <4>1. \A i \in (opened + 1)..Len(file) : file[i] \in Byte
        BY <2>1, ElementOfSeq
      <4>2. Drop(file, opened) \in Seq(Byte)
        BY <2>1, <4>1, SubSeqProperties DEF Drop
      <4>. QED  BY <4>2, LenProperties
    <3>2. SubSeq(acked, 1, 0) = SubSeq(Drop(file, opened), 1, 0)
      OBVIOUS
    <3>. QED  BY <2>4, <3>1, <3>2 DEF IsPrefix
  <2>5. CASE Len(acked) # 0
    <3>1. opened + Len(acked) <= Len(file) /\ opened \in 0..Len(file)
      <4>1. Len(acked) \in 1..Len(acked)
        BY <2>1, <2>5
      <4>. QED  BY <2>1, <2>2, <4>1
    <3>. DEFINE tail == Drop(file, opened)
    <3>2. /\ tail \in Seq(Byte) /\ Len(tail) = Len(file) - opened
          /\ \A i \in 1..(Len(file) - opened) : tail[i] = file[opened + i]
      BY <2>1, <3>1, CutSeq DEF Drop
    <3>. HIDE DEF tail
    <3>3. Len(acked) \in 0..Len(tail)
      BY <2>1, <3>1, <3>2
    <3>4. /\ SubSeq(tail, 1, Len(acked)) \in Seq(Byte)
          /\ Len(SubSeq(tail, 1, Len(acked))) = Len(acked)
          /\ \A i \in 1..Len(acked) : SubSeq(tail, 1, Len(acked))[i] = tail[i]
      BY <3>2, <3>3, CutSeq
    <3>5. ASSUME NEW i \in 1..Len(acked)
          PROVE  SubSeq(tail, 1, Len(acked))[i] = acked[i]
      <4>1. i \in 1..(Len(file) - opened)
        BY <2>1, <3>1
      <4>. QED  BY <2>2, <3>2, <3>4, <4>1
    <3>6. SubSeq(tail, 1, Len(acked)) = acked
      BY <2>1, <3>4, <3>5, SeqEqual
    <3>. QED  BY <2>1, <2>3, <3>3, <3>6 DEF IsPrefix, tail
  <2>. QED  BY <2>4, <2>5
<1>. QED  BY <1>1, Inductive, PTL

-----------------------------------------------------------------------------
(* What recovery does with the records that were acknowledged.             *)

\* The acknowledged records are in the file.
KeptInFile == \A k \in kept : k.record \in Records /\ IsIn(k, file)

\* A log that is served had none of them in it when it was read.
NothingExpected == mode = "serving" => expected = {}

KInv == IInv /\ KeptInFile /\ NothingExpected

\* Bytes that agree with others hold the same records.
LEMMA IsInOther ==
  ASSUME NEW b \in Seq(Byte), NEW c \in Seq(Byte), NEW k, k.record \in Records,
         IsIn(k, b), k.end <= Len(c),
         \A i \in 1..Len(b) : i <= Len(c) => c[i] = b[i]
  PROVE  IsIn(k, c)
<1>1. PICK text \in Seq(Byte) : text = encode_resp(k.record)
  BY RequestText, AppendLogAssumption
<1>2. PICK o \in Nat : /\ k.end = o + Len(text) /\ k.end <= Len(b)
                       /\ \A i \in 1..Len(text) : b[o + i] = text[i]
  BY <1>1 DEF IsIn
<1>3. PICK l, m, n \in Nat : l = Len(text) /\ m = Len(b) /\ n = Len(c)
  BY LenProperties
<1>4. k.end = o + l /\ o + l <= m /\ o + l <= n
  BY <1>2, <1>3
<1>5. ASSUME NEW i \in 1..l PROVE c[o + i] = text[i]
  <2>1. o + i \in 1..m /\ o + i <= n
    BY <1>4
  <2>. QED  BY <1>2, <1>3, <2>1
<1>. QED  BY <1>1, <1>3, <1>4, <1>5 DEF IsIn

\* Bytes are written behind the others.
LEMMA KeptWrite ==
  ASSUME KInv, NEW text \in Seq(Byte), file' = file \o text
  PROVE  \A k \in kept : k.record \in Records /\ IsIn(k, file')
<1>1. file \in Seq(Byte) /\ KeptInFile
  BY DEF KInv, IInv, BytesValid
<1>2. PICK s \in Seq(Byte) : s = file
  BY <1>1
<1>3. Joined(s, text)
  BY JoinSeq DEF Joined
<1>4. PICK l, m, n \in Nat : /\ l = Len(s) /\ m = Len(text) /\ n = Len(s \o text)
                             /\ n = l + m
  BY <1>3 DEF Joined
<1>. SUFFICES ASSUME NEW k \in kept PROVE k.record \in Records /\ IsIn(k, s \o text)
  BY <1>2
<1>5. k.record \in Records /\ IsIn(k, s)
  BY <1>1, <1>2 DEF KeptInFile
<1>6. k.end <= n
  <2>1. PICK o \in Nat : k.end = o + Len(encode_resp(k.record)) /\ k.end <= l
    BY <1>4, <1>5 DEF IsIn
  <2>2. Len(encode_resp(k.record)) \in Nat
    BY <1>5, RequestText, AppendLogAssumption, LenProperties
  <2>. QED  BY <1>4, <2>1, <2>2
<1>7. s \o text \in Seq(Byte) /\ \A i \in 1..Len(s) : (s \o text)[i] = s[i]
  BY <1>3 DEF Joined
<1>. QED  BY <1>4, <1>5, <1>6, <1>7, IsInOther

\* A record is kept when the file ends with it.
LEMMA KeptAppend ==
  ASSUME KInv, AppendReturns
  PROVE  KeptInFile'
<1>1. caller \in Records /\ stage = "flushed"
  BY DEF AppendReturns, KInv, IInv, TypeOK
<1>2. PICK text \in Seq(Byte) : text = encode_resp(caller)
  BY <1>1, RequestText, AppendLogAssumption
<1>3. PICK s \in Seq(Byte) : s = file
  BY DEF KInv, IInv, BytesValid
<1>4. PICK l, m \in Nat : l = Len(s) /\ m = Len(text)
  BY LenProperties
<1>5. PICK new : new = [record |-> caller, end |-> l]
  OBVIOUS
<1>6. /\ file' = s
      /\ \/ kept' = kept
         \/ m <= l /\ Drop(s, l - m) = text /\ kept' = kept \cup {new}
  BY <1>2, <1>3, <1>4, <1>5 DEF AppendReturns
<1>7. new.record = caller /\ new.end = l
  BY <1>5
<1>8. \A k \in kept : k.record \in Records /\ IsIn(k, s)
  BY <1>3 DEF KInv, KeptInFile
<1>9. ASSUME m <= l, Drop(s, l - m) = text PROVE IsIn(new, s)
  <2>1. PICK o \in Nat : o = l - m /\ l = o + m
    <3>1. l - m \in Nat /\ l = (l - m) + m
      BY <1>9
    <3>. QED  BY <3>1
  <2>2. o <= Len(s) /\ Len(s) - o = m
    BY <1>4, <2>1
  <2>3. \A i \in 1..m : Drop(s, o)[i] = s[o + i]
    BY <2>2, DropProps
  <2>4. \A i \in 1..Len(text) : s[o + i] = text[i]
    BY <1>4, <1>9, <2>1, <2>3
  <2>5. new.end = o + Len(text) /\ new.end <= Len(s)
    BY <1>4, <1>7, <2>1
  <2>. QED  BY <1>2, <1>7, <2>4, <2>5 DEF IsIn
<1>. QED  BY <1>1, <1>6, <1>7, <1>8, <1>9 DEF KeptInFile

\* What a power failure takes away leaves kept too.
LEMMA KeptPowerFailure ==
  ASSUME KInv, NEW n \in Cuts \cup {Len(file) - synced}, PowerFailure(n)
  PROVE  KeptInFile'
<1>1. /\ file \in Seq(Byte) /\ synced \in 0..Len(file) /\ KeptInFile
      /\ file' = Take(file, Len(file) - n) /\ n <= Len(file) - synced
      /\ kept' = {k \in kept : k.end <= Len(file')}
  BY DEF KInv, IInv, BytesValid, TypeOK, PowerFailure
<1>2. Len(file) \in Nat
  BY <1>1, LenProperties
<1>3. Len(file) - n \in 0..Len(file)
  BY <1>1, <1>2, AppendLogAssumption
<1>4. PICK m \in 0..Len(file) : m = Len(file) - n
  BY <1>3
<1>5. /\ file' \in Seq(Byte) /\ Len(file') = m
      /\ \A i \in 1..m : file'[i] = file[i]
  BY <1>1, <1>4, CutSeq DEF Take
<1>6. \A i \in 1..Len(file) : i <= Len(file') => file'[i] = file[i]
  BY <1>2, <1>5
<1>7. ASSUME NEW k \in kept' PROVE k.record \in Records /\ IsIn(k, file')
  <2>1. k.record \in Records /\ IsIn(k, file) /\ k.end <= Len(file')
    BY <1>1, <1>7 DEF KeptInFile
  <2>. QED  BY <1>1, <1>5, <1>6, <2>1, IsInOther
<1>. QED  BY <1>7 DEF KeptInFile

\* Writing again what is pending only adds to the file.
LEMMA KeptRewrite ==
  ASSUME KInv, NEW n \in Cuts \cup {Len(pending)}, Rewrite(n), kept' = kept
  PROVE  KeptInFile'
<1>1. pending \in Seq(Byte) /\ Len(pending) \in Nat
  BY LenProperties DEF KInv, IInv, BytesValid
<1>2. n \in 0..Len(pending) /\ file' = file \o Take(pending, n)
  BY <1>1, AppendLogAssumption DEF Rewrite
<1>3. Take(pending, n) \in Seq(Byte)
  BY <1>1, <1>2, CutSeq DEF Take
<1>. QED  BY <1>2, <1>3, KeptWrite DEF KeptInFile

\* Every step keeps the second invariant.
LEMMA KInvNext == KInv /\ [Next]_vars => KInv'
<1>. SUFFICES ASSUME KInv, [Next]_vars PROVE KInv'
  OBVIOUS
<1>1. IInv'
  BY NextInv DEF KInv
<1>. SUFFICES KeptInFile' /\ NothingExpected'
  BY <1>1 DEF KInv
<1>2. CASE Start
  <2>1. UNCHANGED <<file, kept>>
    BY <1>2 DEF Start, disk
  <2>2. KeptInFile'
    BY <2>1 DEF KInv, KeptInFile
  <2>3. CASE Recovered[file] = Refused
    BY <1>2, <2>2, <2>3 DEF Start, NothingExpected
  <2>4. CASE Recovered[file] # Refused
    <3>1. kept = {}
      BY <2>4, RecordRefused DEF KInv, IInv, BytesValid, KeptInFile
    <3>2. expected' = {k.record : k \in kept}
      BY <1>2, <2>4 DEF Start
    <3>. QED  BY <2>2, <3>1, <3>2 DEF NothingExpected
  <2>. QED  BY <2>3, <2>4
<1>3. CASE UNCHANGED <<file, kept, expected>> /\ (mode' = "serving" => mode = "serving")
  BY <1>3 DEF KInv, KeptInFile, NothingExpected
<1>4. ASSUME NEW t \in Openers,
             BeginInitialize(t) \/ Open(t) \/ OpenFails(t) \/ SetInitialized(t)
      PROVE  KeptInFile' /\ NothingExpected'
  BY <1>3, <1>4 DEF BeginInitialize, Open, OpenFails, SetInitialized, disk
<1>5. ASSUME NEW record \in Records, BeginAppend(record)
      PROVE  KeptInFile' /\ NothingExpected'
  BY <1>3, <1>5 DEF BeginAppend, disk
<1>6. CASE Write \/ AppendThrows
  BY <1>3, <1>6 DEF Write, AppendThrows, disk
<1>7. CASE AppendReturns
  <2>1. mode' = mode /\ expected' = expected
    BY <1>7 DEF AppendReturns
  <2>. QED  BY <1>7, <2>1, KeptAppend DEF KInv, NothingExpected
<1>8. CASE WriteOut
  <2>1. /\ pending \in Seq(Byte) /\ file' = file \o pending
        /\ UNCHANGED <<mode, kept, expected>>
    BY <1>8 DEF WriteOut, FlushBuffer, KInv, IInv, BytesValid
  <2>2. KeptInFile'
    BY <2>1, KeptWrite DEF KeptInFile
  <2>. QED  BY <2>1, <2>2 DEF KInv, NothingExpected
<1>9. ASSUME NEW n \in Cuts, WriteOutFails(n) PROVE KeptInFile' /\ NothingExpected'
  <2>1. /\ n < Len(pending) /\ file' = file \o Take(pending, n)
        /\ UNCHANGED <<mode, kept, expected>>
    BY <1>9 DEF WriteOutFails
  <2>2. pending \in Seq(Byte) /\ Len(pending) \in Nat
    BY LenProperties DEF KInv, IInv, BytesValid
  <2>3. n \in 0..Len(pending)
    BY <2>1, <2>2, AppendLogAssumption
  <2>4. Take(pending, n) \in Seq(Byte)
    BY <2>2, <2>3, CutSeq DEF Take
  <2>5. KeptInFile'
    BY <2>1, <2>4, KeptWrite DEF KeptInFile
  <2>. QED  BY <2>1, <2>5 DEF KInv, NothingExpected
<1>10. ASSUME NEW n \in Cuts \cup {Len(pending)}, Flush(n) \/ Close(n)
       PROVE  KeptInFile' /\ NothingExpected'
  <2>1. Rewrite(n) /\ UNCHANGED <<mode, kept, expected>>
    BY <1>10 DEF Flush, Close
  <2>. QED  BY <2>1, KeptRewrite DEF KInv, NothingExpected
<1>11. CASE Kill
  BY <1>3, <1>11 DEF Kill, ProcessEnds, disk
<1>12. ASSUME NEW n \in Cuts \cup {Len(file) - synced}, PowerFailure(n)
       PROVE  KeptInFile' /\ NothingExpected'
  <2>1. mode' = "down"
    BY <1>12 DEF PowerFailure, ProcessEnds
  <2>. QED  BY <1>12, <2>1, KeptPowerFailure DEF NothingExpected
<1>13. CASE UNCHANGED vars
  BY <1>3, <1>13 DEF vars, disk
<1>. QED
  BY <1>2, <1>4, <1>5, <1>6, <1>7, <1>8, <1>9, <1>10, <1>11, <1>12, <1>13 DEF Next

\* What is in kept is in the file, and recovery never returns with something expected of it.
THEOREM KeptInductive == Spec => []KInv
<1>1. Init => KInv
  BY InitInv DEF Init, KInv, KeptInFile, NothingExpected
<1>. QED  BY <1>1, KInvNext, PTL DEF Spec

\* The program never serves from a log that held an acknowledged record when it was
\* read: however short the record, however often it was written, recover() throws.
\* (So a restart after the first append_command() ends the program, finding
\* IntactLogIsReplayed, for all records and not only those TLC tries.)
THEOREM RecordsAreRefused == Spec => [](mode = "serving" => expected = {})
<1>1. KInv => (mode = "serving" => expected = {})
  BY DEF KInv, NothingExpected
<1>. QED  BY <1>1, KeptInductive, PTL

\* recover() leaves no acknowledged record out when it returns, since it does not
\* return when there is one.
THEOREM NoRecordLostSilently == Spec => []NoSilentLoss
<1>1. KInv => NoSilentLoss
  BY DEF KInv, NothingExpected, NoSilentLoss
<1>. QED  BY <1>1, KeptInductive, PTL
=============================================================================
