----------------------------- MODULE RespProofs -----------------------------
(***************************************************************************)
(* Lemmas about the grammar of module Resp, for arguments of any number    *)
(* and length.                                                             *)
(***************************************************************************)
EXTENDS Resp, DataLemmas

\* A line ends behind the first p bytes of s.
EndsAt(s, p) == p + 2 <= Len(s) /\ s[p + 1] = "\r" /\ s[p + 2] = "\n"

\* What it means that s and t are joined.
Joined(s, t) ==
  /\ s \o t \in Seq(Byte)
  /\ Len(s) \in Nat /\ Len(t) \in Nat /\ Len(s \o t) = Len(s) + Len(t)
  /\ \A i \in 1..Len(s) : (s \o t)[i] = s[i]
  /\ \A i \in 1..Len(t) : (s \o t)[Len(s) + i] = t[i]

-----------------------------------------------------------------------------
(* Finding the end of a line.                                              *)

\* Two bytes are a line end when they are its bytes.
LEMMA TwoBytes ==
  ASSUME NEW s \in Seq(Byte), NEW p \in Nat, p + 2 <= Len(s)
  PROVE  SubSeq(s, p + 1, p + 2) = CRLF <=> EndsAt(s, p)
<1>1. Len(s) \in Nat /\ \A i \in 1..Len(s) : s[i] \in Byte
  BY LenProperties, ElementOfSeq
<1>. DEFINE t == SubSeq(s, p + 1, p + 2)
<1>2. /\ t \in Seq(Byte) /\ Len(t) = 2 /\ t[1] = s[p + 1] /\ t[2] = s[p + 2]
  <2>1. \A i \in (p + 1)..(p + 2) : s[i] \in Byte
    BY <1>1
  <2>2. t \in Seq(Byte) /\ Len(t) = 2 /\ \A i \in 1..2 : t[i] = s[(p + 1) + i - 1]
    BY <1>1, <2>1, SubSeqProperties
  <2>3. 1 \in 1..2 /\ 2 \in 1..2 /\ (p + 1) + 1 - 1 = p + 1 /\ (p + 1) + 2 - 1 = p + 2
    OBVIOUS
  <2>. HIDE DEF t
  <2>. QED  BY <2>2, <2>3
<1>3. /\ CRLF \in Seq(Byte) /\ Len(CRLF) = 2 /\ CRLF[1] = "\r" /\ CRLF[2] = "\n"
  BY RespAssumption DEF CRLF
<1>. HIDE DEF t
<1>4. CASE EndsAt(s, p)
  <2>1. \A i \in 1..2 : t[i] = CRLF[i]
    <3>1. \A i \in 1..2 : i = 1 \/ i = 2
      OBVIOUS
    <3>. QED  BY <1>2, <1>3, <1>4, <3>1 DEF EndsAt
  <2>2. t = CRLF
    BY <1>2, <1>3, <2>1, SeqEqual
  <2>. QED  BY <1>4, <2>2 DEF t
<1>5. CASE t = CRLF
  BY <1>2, <1>3, <1>5 DEF EndsAt, t
<1>. QED  BY <1>4, <1>5 DEF t

\* LineEnd() is the first end of a line from offset p on.
LEMMA LineEndProps ==
  ASSUME NEW s \in Seq(Byte), NEW p \in Nat
  PROVE  \/ /\ LineEnd(s, p) = NotFound
            /\ \A i \in Nat : i >= p => ~EndsAt(s, i)
         \/ /\ LineEnd(s, p) \in Nat /\ LineEnd(s, p) >= p
            /\ EndsAt(s, LineEnd(s, p))
            /\ \A i \in Nat : i >= p /\ i < LineEnd(s, p) => ~EndsAt(s, i)
<1>1. Len(s) \in Nat
  BY LenProperties
<1>. DEFINE ends == {e \in p..(Len(s) - 2) : SubSeq(s, e + 1, e + 2) = CRLF}
<1>2. \A e \in Nat : e \in ends <=> e >= p /\ EndsAt(s, e)
  <2>. TAKE e \in Nat
  <2>1. CASE e + 2 <= Len(s)
    <3>1. SubSeq(s, e + 1, e + 2) = CRLF <=> EndsAt(s, e)
      BY <2>1, TwoBytes
    <3>. QED  BY <1>1, <2>1, <3>1
  <2>2. CASE ~(e + 2 <= Len(s))
    BY <1>1, <2>2 DEF EndsAt
  <2>. QED  BY <2>1, <2>2
<1>3. ends \subseteq Nat
  BY <1>1
<1>4. LineEnd(s, p) = IF ends = {} THEN NotFound ELSE Min(ends)
  BY DEF LineEnd
<1>. HIDE DEF ends
<1>5. CASE ends = {}
  BY <1>2, <1>4, <1>5
<1>6. CASE ends # {}
  <2>1. PICK n \in ends : \A m \in ends : n <= m
    BY <1>3, <1>6, LeastElement
  <2>2. Min(ends) \in ends /\ \A m \in ends : Min(ends) <= m
    BY <2>1 DEF Min
  <2>3. PICK e \in Nat : e = Min(ends) /\ e \in ends
    BY <1>3, <2>2
  <2>4. e >= p /\ EndsAt(s, e)
    BY <1>2, <2>3
  <2>5. \A i \in Nat : i >= p /\ i < e => ~EndsAt(s, i)
    <3>. SUFFICES ASSUME NEW i \in Nat, i >= p, i < e, EndsAt(s, i) PROVE FALSE
      OBVIOUS
    <3>1. i \in ends
      BY <1>2
    <3>. QED  BY <2>2, <2>3, <3>1
  <2>. QED  BY <1>4, <1>6, <2>3, <2>4, <2>5
<1>. QED  BY <1>5, <1>6

-----------------------------------------------------------------------------
(* Writing.                                                                *)

\* Digits are bytes.
LEMMA DigitType == \A d \in 0..9 : Digit[d] \in Byte
  BY RespAssumption

\* The decimal representation of a number is a sequence of bytes.
LEMMA NumeralType == \A n \in Nat : Numeral[n] \in Seq(Byte)
<1>. DEFINE V == Seq(Byte)
            Base == 0..9
            base == [n \in Nat |-> IF n < 10 THEN <<Digit[n]>> ELSE <<>>]
            next == [n \in Nat |-> n \div 10]
            step == [p \in Nat \X V |-> Append(p[2], Digit[p[1] % 10])]
            size == [n \in Nat |-> n]
<1>1. \A n \in Nat : /\ n \in Base <=> n < 10
                     /\ n \div 10 \in Nat /\ n % 10 \in 0..9
                     /\ n >= 10 => n \div 10 < n
  OBVIOUS
<1>2. base \in [Nat -> V] /\ \A n \in Nat : n < 10 => base[n] = <<Digit[n]>>
  <2>1. ASSUME NEW n \in Nat PROVE (IF n < 10 THEN <<Digit[n]>> ELSE <<>>) \in V
    <3>1. n < 10 => Digit[n] \in Byte
      BY DigitType
    <3>. QED  BY <3>1, EmptySeq
  <2>. QED  BY <2>1
<1>3. step \in [Nat \X V -> V]
  <2>. SUFFICES ASSUME NEW p \in Nat \X V PROVE Append(p[2], Digit[p[1] % 10]) \in V
    OBVIOUS
  <2>1. p[2] \in Seq(Byte) /\ Digit[p[1] % 10] \in Byte
    BY <1>1, DigitType
  <2>. QED  BY <2>1, AppendProperties
<1>4. IsScheme(Nat, V, Base, base, next, step, size)
  <2>1. /\ next \in [Nat -> Nat] /\ size \in [Nat -> Nat]
        /\ \A n \in Nat : n \in Base \/ size[next[n]] < size[n]
    BY <1>1
  <2>. HIDE DEF V, Base, base, next, step, size
  <2>. QED  BY <1>2, <1>3, <2>1 DEF IsScheme
<1>5. PICK f \in [Nat -> V] : Solves(f, Nat, Base, base, next, step)
  <2>. HIDE DEF V, Base, base, next, step, size
  <2>. QED  BY <1>4, RecursionExists
<1>6. ASSUME NEW n \in Nat
      PROVE  f[n] = IF n < 10 THEN <<Digit[n]>> ELSE Append(f[n \div 10], Digit[n % 10])
  <2>1. f[n] = IF n \in Base THEN base[n] ELSE step[<<n, f[next[n]]>>]
    <3>. HIDE DEF V, Base, base, next, step
    <3>. QED  BY <1>5 DEF Solves
  <2>2. CASE n < 10
    BY <1>1, <1>2, <2>1, <2>2
  <2>3. CASE ~(n < 10)
    <3>1. next[n] = n \div 10 /\ f[n \div 10] \in V
      BY <1>1
    <3>2. step[<<n, f[n \div 10]>>] = Append(f[n \div 10], Digit[n % 10])
      BY <3>1
    <3>. QED  BY <1>1, <2>1, <2>3, <3>1, <3>2
  <2>. QED  BY <2>2, <2>3
<1>7. f = [n \in Nat |-> IF n < 10 THEN <<Digit[n]>> ELSE Append(f[n \div 10], Digit[n % 10])]
  <2>. HIDE DEF V
  <2>. QED  BY <1>6
<1>8. Numeral = [n \in Nat |-> IF n < 10 THEN <<Digit[n]>>
                               ELSE Append(Numeral[n \div 10], Digit[n % 10])]
  BY <1>7 DEF Numeral
<1>. DEFINE Q == {n \in Nat : Numeral[n] \in V}
<1>9. ASSUME NEW n \in Nat, \A k \in Nat : size[k] < size[n] => k \in Q
      PROVE  n \in Q
  <2>1. Numeral[n] = IF n < 10 THEN <<Digit[n]>> ELSE Append(Numeral[n \div 10], Digit[n % 10])
    BY <1>8
  <2>2. CASE n < 10
    <3>1. n \in 0..9
      BY <2>2
    <3>2. Digit[n] \in Byte
      BY <3>1, DigitType
    <3>3. <<Digit[n]>> \in Seq(Byte)
      BY <3>2
    <3>4. Numeral[n] = <<Digit[n]>>
      BY <2>1, <2>2
    <3>. QED  BY <3>3, <3>4
  <2>3. CASE ~(n < 10)
    <3>1. PICK k \in Nat : k = n \div 10 /\ k < n
      BY <1>1, <2>3
    <3>2. size[k] = k /\ size[n] = n
      OBVIOUS
    <3>3. Numeral[k] \in Seq(Byte)
      BY <1>9, <3>1, <3>2
    <3>4. Digit[n % 10] \in Byte
      BY <1>1, DigitType
    <3>5. Append(Numeral[k], Digit[n % 10]) \in Seq(Byte)
      BY <3>3, <3>4, AppendProperties
    <3>6. Numeral[n] = Append(Numeral[k], Digit[n % 10])
      BY <2>1, <2>3, <3>1
    <3>. QED  BY <3>5, <3>6
  <2>. QED  BY <2>2, <2>3
<1>10. Q = Nat
  <2>1. Q \in SUBSET Nat /\ size \in [Nat -> Nat]
    OBVIOUS
  <2>2. \A n \in Nat : (\A k \in Nat : size[k] < size[n] => k \in Q) => n \in Q
    <3>. HIDE DEF Q, size
    <3>. QED  BY <1>9
  <2>. HIDE DEF Q, size
  <2>. QED  BY <2>1, <2>2, SizeInduction
<1>. QED  BY <1>10

\* An argument is written as bytes; its text begins with the marker and ends with
\* the end of a line.
LEMMA BulkText ==
  ASSUME NEW value \in Seq(Byte)
  PROVE  /\ resp_bulk_string(value) \in Seq(Byte)
         /\ resp_bulk_string(value)[1] = "$"
         /\ \E q \in Nat : q >= 1 /\ EndsAt(resp_bulk_string(value), q)
<1>1. /\ CRLF \in Seq(Byte) /\ Len(CRLF) = 2 /\ CRLF[1] = "\r" /\ CRLF[2] = "\n"
      /\ <<"$">> \in Seq(Byte) /\ Len(<<"$">>) = 1 /\ <<"$">>[1] = "$"
  BY RespAssumption DEF CRLF
<1>2. Len(value) \in Nat
  BY LenProperties
<1>3. Numeral[Len(value)] \in Seq(Byte)
  BY <1>2, NumeralType
<1>. DEFINE a == <<"$">> \o Numeral[Len(value)]
            b == a \o CRLF
            c == b \o value
<1>. HIDE DEF Numeral, CRLF
<1>4. a \in Seq(Byte) /\ Len(a) \in Nat \ {0} /\ a[1] = "$"
  BY <1>1, <1>3
<1>. HIDE DEF a
<1>5. b \in Seq(Byte) /\ Len(b) \in Nat \ {0} /\ b[1] = "$"
  BY <1>1, <1>4
<1>. HIDE DEF b
<1>6. c \in Seq(Byte) /\ Len(c) \in Nat \ {0} /\ c[1] = "$"
  BY <1>2, <1>5
<1>. HIDE DEF c
<1>7. /\ c \o CRLF \in Seq(Byte) /\ Len(c \o CRLF) = Len(c) + 2
      /\ (c \o CRLF)[1] = "$"
      /\ (c \o CRLF)[Len(c) + 1] = "\r" /\ (c \o CRLF)[Len(c) + 2] = "\n"
  <2>1. PICK s, t \in Seq(Byte) : s = c /\ t = CRLF
    BY <1>1, <1>6
  <2>2. Joined(s, t)
    BY JoinSeq DEF Joined
  <2>3. Len(t) = 2
    BY <1>1, <2>1
  <2>4. 1 \in 1..Len(t) /\ 2 \in 1..Len(t)
    BY <2>3
  <2>5. 1 \in 1..Len(s)
    <3>1. Len(s) \in Nat \ {0}
      BY <1>6, <2>1
    <3>. QED  BY <3>1
  <2>. QED  BY <1>1, <1>6, <2>1, <2>2, <2>3, <2>4, <2>5 DEF Joined
<1>8. resp_bulk_string(value) = c \o CRLF
  BY DEF resp_bulk_string, a, b, c
<1>9. Len(c) >= 1 /\ EndsAt(c \o CRLF, Len(c))
  BY <1>6, <1>7 DEF EndsAt
<1>. QED  BY <1>6, <1>7, <1>8, <1>9

\* A request is written as bytes.  The line of its length is followed by the
\* marker of its first argument, and that by the end of another line.
LEMMA RequestText ==
  ASSUME NEW arguments \in Seq(Seq(Byte))
  PROVE  /\ encode_resp(arguments) \in Seq(Byte)
         /\ arguments # <<>> =>
              \E p, q \in Nat :
                /\ EndsAt(encode_resp(arguments), p)
                /\ encode_resp(arguments)[p + 3] = "$"
                /\ q > p + 2 /\ EndsAt(encode_resp(arguments), q)
<1>1. /\ CRLF \in Seq(Byte) /\ Len(CRLF) = 2 /\ CRLF[1] = "\r" /\ CRLF[2] = "\n"
      /\ <<"*">> \in Seq(Byte) /\ Len(<<"*">>) = 1
  BY RespAssumption DEF CRLF
<1>2. /\ Len(arguments) \in Nat /\ DOMAIN arguments = 1..Len(arguments)
      /\ \A i \in 1..Len(arguments) : arguments[i] \in Seq(Byte)
  BY LenProperties, ElementOfSeq
<1>3. Numeral[Len(arguments)] \in Seq(Byte)
  BY <1>2, NumeralType
<1>. DEFINE bulks == [i \in DOMAIN arguments |-> resp_bulk_string(arguments[i])]
<1>4. bulks \in Seq(Seq(Byte)) /\ Len(bulks) = Len(arguments)
  <2>1. bulks \in [1..Len(arguments) -> Seq(Byte)]
    BY <1>2, BulkText
  <2>. HIDE DEF bulks
  <2>2. PICK n \in Nat : n = Len(arguments)
    BY <1>2
  <2>3. bulks \in [1..n -> Seq(Byte)]
    BY <2>1, <2>2
  <2>4. bulks \in Seq(Seq(Byte))
    BY <2>3, SeqDef
  <2>5. Len(bulks) = n
    BY <2>3, <2>4, LenProperties
  <2>. QED  BY <2>2, <2>4, <2>5
<1>5. arguments # <<>> => bulks # <<>> /\ bulks[1] = resp_bulk_string(arguments[1])
  <2>. SUFFICES ASSUME arguments # <<>>
                PROVE  bulks # <<>> /\ bulks[1] = resp_bulk_string(arguments[1])
    OBVIOUS
  <2>1. Len(arguments) # 0 /\ 1 \in DOMAIN arguments
    BY <1>2, EmptySeq
  <2>2. bulks[1] = resp_bulk_string(arguments[1])
    BY <2>1
  <2>. HIDE DEF bulks
  <2>. QED  BY <1>4, <2>1, <2>2, EmptySeq
<1>. HIDE DEF bulks, Numeral, CRLF
<1>. DEFINE a == <<"*">> \o Numeral[Len(arguments)]
            b == a \o CRLF
            c == FlattenSeq(bulks)
<1>6. a \in Seq(Byte) /\ Len(a) \in Nat
  BY <1>1, <1>3
<1>. HIDE DEF a
<1>7. /\ b \in Seq(Byte) /\ Len(b) = Len(a) + 2
      /\ b[Len(a) + 1] = "\r" /\ b[Len(a) + 2] = "\n"
  <2>1. PICK s, t \in Seq(Byte) : s = a /\ t = CRLF
    BY <1>1, <1>6
  <2>2. Joined(s, t)
    BY JoinSeq DEF Joined
  <2>3. Len(t) = 2
    BY <1>1, <2>1
  <2>4. 1 \in 1..Len(t) /\ 2 \in 1..Len(t)
    BY <2>3
  <2>. QED  BY <1>1, <2>1, <2>2, <2>3, <2>4 DEF Joined
<1>. HIDE DEF b
<1>8. c \in Seq(Byte) /\ Len(c) \in Nat
  BY <1>4, FlattenProps, LenProperties
<1>9. /\ b \o c \in Seq(Byte) /\ Len(b \o c) = Len(b) + Len(c)
      /\ \A i \in 1..Len(b) : (b \o c)[i] = b[i]
      /\ \A i \in 1..Len(c) : (b \o c)[Len(b) + i] = c[i]
  <2>1. PICK s, t \in Seq(Byte) : s = b /\ t = c
    BY <1>7, <1>8
  <2>2. Joined(s, t)
    BY JoinSeq DEF Joined
  <2>. HIDE DEF c
  <2>. QED  BY <2>1, <2>2 DEF Joined
<1>10. encode_resp(arguments) = b \o c
  BY DEF encode_resp, a, b, bulks
<1>11. ASSUME arguments # <<>>
       PROVE  \E p, q \in Nat : /\ EndsAt(b \o c, p) /\ (b \o c)[p + 3] = "$"
                                /\ q > p + 2 /\ EndsAt(b \o c, q)
  <2>1. PICK first \in Seq(Byte) : first = resp_bulk_string(arguments[1])
    <3>1. arguments[1] \in Seq(Byte)
      BY <1>2, <1>11, EmptySeq
    <3>. QED  BY <3>1, BulkText
  <2>2. first[1] = "$" /\ \E q \in Nat : q >= 1 /\ EndsAt(first, q)
    <3>1. arguments[1] \in Seq(Byte)
      BY <1>2, <1>11, EmptySeq
    <3>. QED  BY <2>1, <3>1, BulkText
  <2>3. PICK k \in Nat : k >= 1 /\ EndsAt(first, k)
    BY <2>2
  <2>4. Len(first) <= Len(c) /\ \A j \in 1..Len(first) : c[j] = first[j]
    BY <1>4, <1>5, <1>11, <2>1, FlattenProps
  <2>. HIDE DEF c
  <2>5. PICK l, m, n \in Nat : l = Len(first) /\ m = Len(c) /\ n = Len(a)
    BY <1>6, <1>8, LenProperties
  <2>6. /\ k + 2 <= l /\ l <= m /\ Len(b) = n + 2 /\ Len(b \o c) = (n + 2) + m
        /\ first[k + 1] = "\r" /\ first[k + 2] = "\n"
    BY <1>7, <1>9, <2>3, <2>4, <2>5 DEF EndsAt
  <2>7. EndsAt(b \o c, n)
    <3>1. n + 1 \in 1..(n + 2) /\ n + 2 \in 1..(n + 2) /\ n + 2 <= (n + 2) + m
      OBVIOUS
    <3>. QED  BY <1>7, <1>9, <2>5, <2>6, <3>1 DEF EndsAt
  <2>8. \A j \in 1..l : (b \o c)[(n + 2) + j] = first[j]
    <3>1. \A j \in 1..l : j \in 1..m
      BY <2>6
    <3>. QED  BY <1>9, <2>4, <2>5, <2>6, <3>1
  <2>9. (b \o c)[n + 3] = "$"
    <3>1. 1 \in 1..l /\ (n + 2) + 1 = n + 3
      BY <2>6
    <3>. QED  BY <2>2, <2>8, <3>1
  <2>10. EndsAt(b \o c, (n + 2) + k)
    <3>1. /\ k + 1 \in 1..l /\ k + 2 \in 1..l
          /\ (n + 2) + (k + 1) = ((n + 2) + k) + 1
          /\ (n + 2) + (k + 2) = ((n + 2) + k) + 2
          /\ ((n + 2) + k) + 2 <= (n + 2) + m
      BY <2>6
    <3>. QED  BY <2>6, <2>8, <3>1 DEF EndsAt
  <2>11. (n + 2) + k \in Nat /\ (n + 2) + k > n + 2
    BY <2>3
  <2>. QED  BY <2>7, <2>9, <2>10, <2>11
<1>. QED  BY <1>9, <1>10, <1>11

\* What a loop computes.
LEMMA LoopProps ==
  ASSUME NEW V, NEW step, NEW start \in V, NEW n \in Nat,
         StaysIn(V, step, n)
  PROVE  \E f : Rounds(f, V, step, start, n) /\ Loop(step, start, n) = f[n]
<1>. DEFINE h == CHOOSE g : g = [i \in 0..n |-> IF i = 0 THEN start ELSE step[<<g[i - 1], i>>]]
<1>1. IsLoop(h, step, start, n)
  <2>1. PICK f : IsLoop(f, step, start, n)
    BY StepsExist
  <2>. QED  BY <2>1 DEF IsLoop
<1>2. Loop(step, start, n) = h[n]
  BY DEF Loop
<1>. HIDE DEF h
<1>3. Rounds(h, V, step, start, n)
  BY <1>1, LoopType
<1>. QED  BY <1>2, <1>3

-----------------------------------------------------------------------------
(* Numbers, written and read.                                              *)

\* The digits.
Digits == {Digit[d] : d \in 0..9}

\* The ten digits are bytes, none of them a marker or part of a line end, and every
\* one has its value.
LEMMA DigitProps ==
  /\ Digits \subseteq Byte /\ \A d \in 0..9 : Digit[d] \in Digits
  /\ Digits \cap {"*", "$", "+", "-", ":", "\r", "\n"} = {}
  /\ DOMAIN DigitValue = Digits
  /\ \A d \in 0..9 : DigitValue[Digit[d]] = d
<1>1. /\ DOMAIN Digit = 0..9
      /\ Digit[0] = "0" /\ Digit[1] = "1" /\ Digit[2] = "2" /\ Digit[3] = "3" /\ Digit[4] = "4"
      /\ Digit[5] = "5" /\ Digit[6] = "6" /\ Digit[7] = "7" /\ Digit[8] = "8" /\ Digit[9] = "9"
  BY DEF Digit
<1>2. \A d \in 0..9 : \/ d = 0 \/ d = 1 \/ d = 2 \/ d = 3 \/ d = 4
                      \/ d = 5 \/ d = 6 \/ d = 7 \/ d = 8 \/ d = 9
  OBVIOUS
<1>3. \A d, e \in 0..9 : Digit[d] = Digit[e] => d = e
  BY <1>1, <1>2
<1>4. \A d \in 0..9 : Digit[d] \notin {"*", "$", "+", "-", ":", "\r", "\n"}
  BY <1>1, <1>2
<1>5. Range(Digit) = Digits
  BY <1>1 DEF Range, Digits
<1>6. DigitValue = [c \in Digits |-> CHOOSE d \in 0..9 : c \in Digits => Digit[d] = c]
  BY <1>1, <1>5 DEF DigitValue, AntiFunction, Inverse
<1>7. \A d \in 0..9 : DigitValue[Digit[d]] = d
  <2>. TAKE d \in 0..9
  <2>1. Digit[d] \in Digits
    BY DEF Digits
  <2>2. DigitValue[Digit[d]] = CHOOSE e \in 0..9 : Digit[d] \in Digits => Digit[e] = Digit[d]
    BY <1>6, <2>1
  <2>3. \A e \in 0..9 : (Digit[d] \in Digits => Digit[e] = Digit[d]) <=> e = d
    BY <1>3, <2>1
  <2>. QED  BY <2>2, <2>3
<1>8. Digits \subseteq Byte
  BY RespAssumption DEF Digits
<1>9. DOMAIN DigitValue = Digits
  BY <1>6
<1>. QED  BY <1>4, <1>7, <1>8, <1>9 DEF Digits

\* Numeral[] is the function its definition says.
LEMMA NumeralEquation ==
  \A n \in Nat : Numeral[n] = IF n < 10 THEN <<Digit[n]>>
                              ELSE Append(Numeral[n \div 10], Digit[n % 10])
<1>. DEFINE V == Seq(Digits)
            Base == 0..9
            base == [n \in Nat |-> IF n < 10 THEN <<Digit[n]>> ELSE <<>>]
            next == [n \in Nat |-> n \div 10]
            step == [p \in Nat \X V |-> Append(p[2], Digit[p[1] % 10])]
            size == [n \in Nat |-> n]
<1>1. \A n \in Nat : /\ n \in Base <=> n < 10
                     /\ n \div 10 \in Nat /\ n % 10 \in 0..9
                     /\ n >= 10 => n \div 10 < n
  OBVIOUS
<1>2. base \in [Nat -> V] /\ \A n \in Nat : n < 10 => base[n] = <<Digit[n]>>
  <2>1. ASSUME NEW n \in Nat PROVE (IF n < 10 THEN <<Digit[n]>> ELSE <<>>) \in V
    <3>1. n < 10 => Digit[n] \in Digits
      BY DigitProps
    <3>. QED  BY <3>1, EmptySeq
  <2>. QED  BY <2>1
<1>3. step \in [Nat \X V -> V]
  <2>. SUFFICES ASSUME NEW p \in Nat \X V PROVE Append(p[2], Digit[p[1] % 10]) \in V
    OBVIOUS
  <2>1. p[2] \in Seq(Digits) /\ Digit[p[1] % 10] \in Digits
    BY <1>1, DigitProps
  <2>. QED  BY <2>1, AppendProperties
<1>4. IsScheme(Nat, V, Base, base, next, step, size)
  <2>1. /\ next \in [Nat -> Nat] /\ size \in [Nat -> Nat]
        /\ \A n \in Nat : n \in Base \/ size[next[n]] < size[n]
    BY <1>1
  <2>. HIDE DEF V, Base, base, next, step, size
  <2>. QED  BY <1>2, <1>3, <2>1 DEF IsScheme
<1>5. PICK f \in [Nat -> V] : Solves(f, Nat, Base, base, next, step)
  <2>. HIDE DEF V, Base, base, next, step, size
  <2>. QED  BY <1>4, RecursionExists
<1>6. ASSUME NEW n \in Nat
      PROVE  f[n] = IF n < 10 THEN <<Digit[n]>> ELSE Append(f[n \div 10], Digit[n % 10])
  <2>1. f[n] = IF n \in Base THEN base[n] ELSE step[<<n, f[next[n]]>>]
    <3>. HIDE DEF V, Base, base, next, step
    <3>. QED  BY <1>5 DEF Solves
  <2>2. CASE n < 10
    BY <1>1, <1>2, <2>1, <2>2
  <2>3. CASE ~(n < 10)
    <3>1. next[n] = n \div 10 /\ f[n \div 10] \in V
      BY <1>1
    <3>2. step[<<n, f[n \div 10]>>] = Append(f[n \div 10], Digit[n % 10])
      BY <3>1
    <3>. QED  BY <1>1, <2>1, <2>3, <3>1, <3>2
  <2>. QED  BY <2>2, <2>3
<1>7. f = [n \in Nat |-> IF n < 10 THEN <<Digit[n]>> ELSE Append(f[n \div 10], Digit[n % 10])]
  <2>. HIDE DEF V
  <2>. QED  BY <1>6
<1>8. Numeral = [n \in Nat |-> IF n < 10 THEN <<Digit[n]>>
                               ELSE Append(Numeral[n \div 10], Digit[n % 10])]
  BY <1>7 DEF Numeral
<1>. HIDE DEF V, base, next, step, size
<1>. QED  BY <1>8

\* So is Value[].
LEMMA ValueEquation ==
  \A s \in Seq(Digits) :
    Value[s] = IF s = <<>> THEN 0 ELSE 10 * Value[Front(s)] + DigitValue[Last(s)]
<1>. DEFINE D == Seq(Digits)
            V == Nat
            Base == {<<>>}
            base == [s \in D |-> 0]
            next == [s \in D |-> IF s = <<>> THEN <<>> ELSE Front(s)]
            step == [p \in D \X V |-> IF p[1] = <<>> THEN 0
                                     ELSE 10 * p[2] + DigitValue[Last(p[1])]]
            size == [s \in D |-> Len(s)]
<1>1. \A s \in D : /\ Len(s) \in Nat
                   /\ s # <<>> => /\ Front(s) \in D /\ Len(Front(s)) < Len(s)
                                  /\ DigitValue[Last(s)] \in Nat
  <2>. TAKE s \in D
  <2>1. Len(s) \in Nat /\ (s # <<>> => Len(s) \in Nat \ {0})
    BY LenProperties, EmptySeq
  <2>. SUFFICES ASSUME s # <<>>
                PROVE  /\ Front(s) \in D /\ Len(Front(s)) < Len(s)
                       /\ DigitValue[Last(s)] \in Nat
    BY <2>1
  <2>2. Last(s) \in Digits
    <3>1. Len(s) \in 1..Len(s)
      BY <2>1
    <3>. QED  BY <3>1, ElementOfSeq DEF Last
  <2>3. DigitValue[Last(s)] \in Nat
    <3>1. PICK d \in 0..9 : Last(s) = Digit[d]
      BY <2>2 DEF Digits
    <3>. QED  BY <3>1, DigitProps
  <2>4. PICK k \in 0..Len(s) : k = Len(s) - 1
    BY <2>1
  <2>5. SubSeq(s, 1, k) \in Seq(Digits) /\ Len(SubSeq(s, 1, k)) = k
    BY CutSeq
  <2>. QED  BY <2>1, <2>3, <2>4, <2>5 DEF Front
<1>2. base \in [D -> V] /\ next \in [D -> D] /\ size \in [D -> Nat]
  <2>1. <<>> \in D
    BY EmptySeq
  <2>. QED  BY <1>1, <2>1
<1>3. step \in [D \X V -> V]
  <2>. SUFFICES ASSUME NEW p \in D \X V
                PROVE  (IF p[1] = <<>> THEN 0 ELSE 10 * p[2] + DigitValue[Last(p[1])]) \in V
    OBVIOUS
  <2>1. p[1] \in D /\ p[2] \in Nat
    OBVIOUS
  <2>2. PICK s \in D, m \in Nat : s = p[1] /\ m = p[2]
    BY <2>1
  <2>3. CASE s = <<>>
    BY <2>2, <2>3
  <2>4. CASE s # <<>>
    <3>1. PICK d \in Nat : d = DigitValue[Last(s)]
      BY <1>1, <2>4
    <3>2. 10 * m + d \in Nat
      OBVIOUS
    <3>. QED  BY <2>2, <2>4, <3>1, <3>2
  <2>. QED  BY <2>3, <2>4
<1>4. \A s \in D : s \in Base \/ size[next[s]] < size[s]
  <2>. TAKE s \in D
  <2>. SUFFICES ASSUME s # <<>> PROVE size[next[s]] < size[s]
    OBVIOUS
  <2>1. PICK t \in D : t = Front(s) /\ Len(t) < Len(s)
    BY <1>1
  <2>. QED  BY <2>1
<1>5. IsScheme(D, V, Base, base, next, step, size)
  <2>. HIDE DEF D, V, Base, base, next, step, size
  <2>. QED  BY <1>2, <1>3, <1>4 DEF IsScheme
<1>6. PICK f \in [D -> V] : Solves(f, D, Base, base, next, step)
  <2>. HIDE DEF D, V, Base, base, next, step, size
  <2>. QED  BY <1>5, RecursionExists
<1>7. ASSUME NEW s \in D
      PROVE  f[s] = IF s = <<>> THEN 0 ELSE 10 * f[Front(s)] + DigitValue[Last(s)]
  <2>1. f[s] = IF s \in Base THEN base[s] ELSE step[<<s, f[next[s]]>>]
    <3>. HIDE DEF D, V, Base, base, next, step
    <3>. QED  BY <1>6 DEF Solves
  <2>2. CASE s = <<>>
    BY <2>1, <2>2
  <2>3. CASE s # <<>>
    <3>1. PICK t \in D : t = Front(s) /\ next[s] = t
      BY <1>1, <2>3
    <3>2. PICK m \in Nat : m = f[t]
      OBVIOUS
    <3>3. PICK p : p = <<s, m>>
      OBVIOUS
    <3>4. p \in D \X V /\ p[1] = s /\ p[2] = m
      BY <3>3
    <3>5. step[p] = 10 * m + DigitValue[Last(s)]
      BY <2>3, <3>4
    <3>. HIDE DEF step, base, next
    <3>. QED  BY <2>1, <2>3, <3>1, <3>2, <3>3, <3>5
  <2>. QED  BY <2>2, <2>3
<1>8. f = [s \in D |-> IF s = <<>> THEN 0 ELSE 10 * f[Front(s)] + DigitValue[Last(s)]]
  <2>. HIDE DEF D, V
  <2>. QED  BY <1>7
<1>9. Value = [s \in D |-> IF s = <<>> THEN 0 ELSE 10 * Value[Front(s)] + DigitValue[Last(s)]]
  <2>1. D = Seq(DOMAIN DigitValue)
    BY DigitProps
  <2>. HIDE DEF D, V
  <2>. QED  BY <1>8, <2>1 DEF Value
<1>. QED  BY <1>9

\* The value of a numeral is a natural number.
LEMMA ValueType == \A s \in Seq(Digits) : Value[s] \in Nat
<1>. DEFINE D == Seq(Digits)
            size == [s \in D |-> Len(s)]
            Q == {s \in D : Value[s] \in Nat}
<1>1. size \in [D -> Nat] /\ Q \in SUBSET D
  BY LenProperties
<1>2. ASSUME NEW s \in D, \A t \in D : size[t] < size[s] => t \in Q
      PROVE  s \in Q
  <2>1. CASE s = <<>>
    <3>1. s \in Seq(Digits) /\ Value[s] = 0
      BY <2>1, ValueEquation
    <3>. QED  BY <3>1
  <2>2. CASE s # <<>>
    <3>1. PICK k \in Nat : k + 1 = Len(s)
      <4>1. Len(s) \in Nat \ {0}
        BY <2>2, EmptySeq
      <4>2. Len(s) - 1 \in Nat /\ (Len(s) - 1) + 1 = Len(s)
        BY <4>1
      <4>. QED  BY <4>2
    <3>2. PICK t \in D : t = Front(s) /\ Len(t) = k
      <4>1. k \in 0..Len(s) /\ k = Len(s) - 1
        BY <3>1
      <4>2. SubSeq(s, 1, k) \in Seq(Digits) /\ Len(SubSeq(s, 1, k)) = k
        BY <4>1, CutSeq
      <4>. QED  BY <4>1, <4>2 DEF Front
    <3>3. t \in Q
      <4>1. size[t] = k /\ size[s] = k + 1 /\ k < k + 1
        BY <3>1, <3>2
      <4>. HIDE DEF Q, size, D
      <4>. QED  BY <1>2, <4>1
    <3>4. PICK d \in 0..9 : Last(s) = Digit[d]
      <4>1. Len(s) \in 1..Len(s)
        BY <3>1
      <4>. QED  BY <4>1, ElementOfSeq DEF Last, Digits
    <3>5. DigitValue[Last(s)] = d
      BY <3>4, DigitProps
    <3>6. Value[s] = 10 * Value[t] + d
      BY <2>2, <3>2, <3>5, ValueEquation
    <3>7. \A m \in Nat : 10 * m + d \in Nat
      OBVIOUS
    <3>. QED  BY <3>3, <3>6, <3>7
  <2>. QED  BY <2>1, <2>2
<1>3. \A s \in D : (\A t \in D : size[t] < size[s] => t \in Q) => s \in Q
  <2>. HIDE DEF Q, size, D
  <2>. QED  BY <1>2
<1>4. Q = D
  <2>. HIDE DEF Q, size, D
  <2>. QED  BY <1>1, <1>3, SizeInduction
<1>. QED  BY <1>4

\* The decimal representation of a number is a numeral, and its value is the
\* number.
LEMMA NumeralProps ==
  \A n \in Nat : /\ Numeral[n] \in Seq(Digits) /\ Numeral[n] # <<>>
                 /\ Value[Numeral[n]] = n
<1>. DEFINE Good(n) == /\ Numeral[n] \in Seq(Digits) /\ Numeral[n] # <<>>
                      /\ Value[Numeral[n]] = n
            D == Nat
            Q == {n \in D : Good(n)}
            size == [n \in D |-> n]
<1>1. \A s \in Seq(Digits), d \in 0..9 :
        /\ Append(s, Digit[d]) \in Seq(Digits) /\ Append(s, Digit[d]) # <<>>
        /\ Value[Append(s, Digit[d])] = 10 * Value[s] + d
  <2>. TAKE s \in Seq(Digits), d \in 0..9
  <2>1. PICK t : t = Append(s, Digit[d])
    OBVIOUS
  <2>2. Digit[d] \in Digits /\ DigitValue[Digit[d]] = d
    BY DigitProps
  <2>3. /\ t \in Seq(Digits) /\ t # <<>> /\ Len(t) = Len(s) + 1
        /\ \A i \in 1..Len(s) : t[i] = s[i]
        /\ t[Len(s) + 1] = Digit[d]
    BY <2>1, <2>2, AppendProperties
  <2>4. PICK k \in Nat : k = Len(s)
    BY LenProperties
  <2>5. Last(t) = Digit[d]
    BY <2>3 DEF Last
  <2>6. Front(t) = s
    <3>1. k \in 0..Len(t) /\ Len(t) - 1 = k
      BY <2>3, <2>4
    <3>2. PICK u : u = SubSeq(t, 1, k)
      OBVIOUS
    <3>3. u \in Seq(Digits) /\ Len(u) = k /\ \A i \in 1..k : u[i] = t[i]
      BY <2>3, <3>1, <3>2, CutSeq
    <3>4. u = s
      BY <2>3, <2>4, <3>3, SeqEqual
    <3>. QED  BY <3>1, <3>2, <3>4 DEF Front
  <2>7. Value[t] = 10 * Value[s] + d
    BY <2>2, <2>3, <2>5, <2>6, ValueEquation
  <2>. QED  BY <2>1, <2>3, <2>7
<1>2. ASSUME NEW n \in Nat, \A k \in Nat : size[k] < size[n] => k \in Q
      PROVE  n \in Q
  <2>1. Numeral[n] = IF n < 10 THEN <<Digit[n]>> ELSE Append(Numeral[n \div 10], Digit[n % 10])
    BY NumeralEquation
  <2>2. CASE n < 10
    <3>1. n \in 0..9 /\ 10 * 0 + n = n
      BY <2>2
    <3>2. PICK s \in Seq(Digits) : s = <<>>
      BY EmptySeq
    <3>3. Value[s] = 0
      BY <3>2, ValueEquation
    <3>4. Append(s, Digit[n]) = Numeral[n]
      BY <2>1, <2>2, <3>2
    <3>5. Good(n)
      <4>1. PICK d \in 0..9 : d = n
        BY <3>1
      <4>2. PICK t : t = Append(s, Digit[d])
        OBVIOUS
      <4>3. /\ t \in Seq(Digits) /\ t # <<>>
            /\ Value[t] = 10 * Value[s] + d
        BY <1>1, <4>2
      <4>4. Value[t] = n
        BY <3>1, <3>3, <4>1, <4>3
      <4>. QED  BY <3>4, <4>1, <4>2, <4>3, <4>4
    <3>. HIDE DEF Good
    <3>. QED  BY <3>5
  <2>3. CASE ~(n < 10)
    <3>1. PICK k \in Nat, d \in 0..9 : k = n \div 10 /\ d = n % 10 /\ k < n /\ n = 10 * k + d
      BY <2>3
    <3>2. k \in Q
      <4>1. size[k] < size[n]
        BY <3>1
      <4>. QED  BY <1>2, <4>1
    <3>3. Numeral[k] \in Seq(Digits) /\ Value[Numeral[k]] = k
      BY <3>2
    <3>4. Numeral[n] = Append(Numeral[k], Digit[d])
      BY <2>1, <2>3, <3>1
    <3>. QED  BY <1>1, <3>1, <3>3, <3>4
  <2>. QED  BY <2>2, <2>3
<1>3. size \in [D -> Nat] /\ Q \in SUBSET D
  OBVIOUS
<1>4. \A n \in D : (\A k \in D : size[k] < size[n] => k \in Q) => n \in Q
  <2>. HIDE DEF Good, Q, size
  <2>. QED  BY <1>2
<1>5. Q = D
  <2>. HIDE DEF Good, Q, size, D
  <2>. QED  BY <1>3, <1>4, SizeInduction
<1>. QED  BY <1>5

-----------------------------------------------------------------------------
(* A text of which there is a part.                                        *)

\* What an input buffer may hold.
Buffers == {b \in Seq(Byte) : Len(b) < SizeMod}

\* One of the two is the beginning of the other.
Alike(s, b) == \A i \in Nat : i >= 1 /\ i <= Len(s) /\ i <= Len(b) => s[i] = b[i]

\* Sizes are smaller than the numbers a size_t can hold.
LEMMA Sizes == SizeMod \in Nat /\ LongMax \in Nat /\ LongMax >= 4 /\ LongMax + 1 < SizeMod
<1>1. \A m \in Nat : m >= 16 => m \div 2 \in Nat /\ m \div 2 < m /\ m \div 2 >= 8
  OBVIOUS
<1>2. PICK m \in Nat : m = SizeMod /\ m >= 16
  BY RespAssumption
<1>3. PICK k \in Nat : k = m \div 2 /\ k < m /\ k >= 8
  BY <1>1, <1>2
<1>4. LongMax = k - 1
  BY <1>2, <1>3 DEF LongMax
<1>. QED  BY <1>2, <1>3, <1>4

\* The end of a line of s is found in what there is of s.
LEMMA LineEndAlike ==
  ASSUME NEW s \in Seq(Byte), NEW b \in Seq(Byte), Alike(s, b), NEW p \in Nat,
         LineEnd(s, p) # NotFound
  PROVE  LineEnd(b, p) = IF LineEnd(s, p) + 2 <= Len(b) THEN LineEnd(s, p) ELSE NotFound
<1>1. PICK e \in Nat : /\ e = LineEnd(s, p) /\ e >= p /\ EndsAt(s, e)
                       /\ \A i \in Nat : i >= p /\ i < e => ~EndsAt(s, i)
  BY LineEndProps
<1>2. PICK l, k \in Nat : l = Len(s) /\ k = Len(b)
  BY LenProperties
<1>3. ASSUME NEW i \in Nat, i + 2 <= l, i + 2 <= k
      PROVE  EndsAt(s, i) <=> EndsAt(b, i)
  <2>1. s[i + 1] = b[i + 1] /\ s[i + 2] = b[i + 2]
    <3>1. i + 1 \in Nat /\ i + 2 \in Nat
      OBVIOUS
    <3>. QED  BY <1>2, <1>3, <3>1 DEF Alike
  <2>. QED  BY <1>2, <1>3, <2>1 DEF EndsAt
<1>4. CASE e + 2 <= k
  <2>1. EndsAt(b, e)
    BY <1>1, <1>2, <1>3, <1>4 DEF EndsAt
  <2>2. \A i \in Nat : i >= p /\ i < e => ~EndsAt(b, i)
    <3>. TAKE i \in Nat
    <3>1. i < e => i + 2 <= l /\ i + 2 <= k
      BY <1>1, <1>2, <1>4 DEF EndsAt
    <3>. QED  BY <1>1, <1>3, <3>1
  <2>3. PICK d : d = LineEnd(b, p)
    OBVIOUS
  <2>4. d \in Nat /\ d >= p /\ EndsAt(b, d) /\ \A i \in Nat : i >= p /\ i < d => ~EndsAt(b, i)
    BY <1>1, <2>1, <2>3, LineEndProps
  <2>5. d = e
    <3>1. ~(d < e) /\ ~(e < d)
      BY <1>1, <2>1, <2>2, <2>4
    <3>. QED  BY <2>4, <3>1
  <2>. QED  BY <1>1, <1>2, <1>4, <2>3, <2>5
<1>5. CASE ~(e + 2 <= k)
  <2>1. \A i \in Nat : i >= p => ~EndsAt(b, i)
    <3>. SUFFICES ASSUME NEW i \in Nat, i >= p, EndsAt(b, i) PROVE FALSE
      OBVIOUS
    <3>1. i + 2 <= k /\ i < e /\ i + 2 <= l
      BY <1>1, <1>2, <1>5 DEF EndsAt
    <3>. QED  BY <1>1, <1>3, <3>1
  <2>2. PICK d : d = LineEnd(b, p)
    OBVIOUS
  <2>3. d = NotFound
    BY <2>1, <2>2, LineEndProps
  <2>. QED  BY <1>1, <1>2, <1>5, <2>2, <2>3
<1>. QED  BY <1>4, <1>5

\* So is every other piece of it.
LEMMA PieceAlike ==
  ASSUME NEW s \in Seq(Byte), NEW b \in Seq(Byte), Alike(s, b),
         NEW m \in Nat \ {0}, NEW n \in Nat, n <= Len(s), n <= Len(b)
  PROVE  SubSeq(s, m, n) = SubSeq(b, m, n) /\ SubSeq(s, m, n) \in Seq(Byte)
<1>1. PICK l, k \in Nat : l = Len(s) /\ k = Len(b)
  BY LenProperties
<1>2. (\A i \in m..n : s[i] \in Byte) /\ (\A i \in m..n : b[i] \in Byte)
  <2>1. \A i \in m..n : i \in 1..l /\ i \in 1..k
    BY <1>1
  <2>. QED  BY <1>1, <2>1, ElementOfSeq
<1>3. PICK t : t = SubSeq(s, m, n)
  OBVIOUS
<1>4. PICK u : u = SubSeq(b, m, n)
  OBVIOUS
<1>5. /\ t \in Seq(Byte) /\ Len(t) = (IF m <= n THEN n - m + 1 ELSE 0)
      /\ \A i \in 1..(n - m + 1) : t[i] = s[m + i - 1]
  BY <1>2, <1>3, SubSeqProperties
<1>6. /\ u \in Seq(Byte) /\ Len(u) = (IF m <= n THEN n - m + 1 ELSE 0)
      /\ \A i \in 1..(n - m + 1) : u[i] = b[m + i - 1]
  BY <1>2, <1>4, SubSeqProperties
<1>7. \A i \in 1..Len(t) : t[i] = u[i]
  <2>. TAKE i \in 1..Len(t)
  <2>1. i \in 1..(n - m + 1)
    BY <1>5
  <2>2. PICK j \in Nat : j = m + i - 1 /\ j >= 1 /\ j <= l /\ j <= k
    BY <1>1, <2>1
  <2>3. s[j] = b[j]
    BY <1>1, <2>2 DEF Alike
  <2>. QED  BY <1>5, <1>6, <2>1, <2>2, <2>3
<1>8. t = u
  BY <1>5, <1>6, <1>7, SeqEqual
<1>. QED  BY <1>3, <1>4, <1>5, <1>8

\* Two bytes inside of a text.
LEMMA HasCrlfIs ==
  ASSUME NEW s \in Seq(Byte), NEW p \in Nat, p + 2 <= Len(s), p + 1 < SizeMod
  PROVE  HasCrlf(s, p) <=> EndsAt(s, p)
<1>1. PICK m \in Nat : m = SizeMod /\ p + 1 < m
  BY Sizes
<1>2. (p + 1) % m = p + 1
  BY <1>1
<1>3. p + 1 < Len(s)
  <2>1. Len(s) \in Nat
    BY LenProperties
  <2>. QED  BY <2>1
<1>4. SubSeq(s, p + 1, p + 2) = CRLF <=> EndsAt(s, p)
  BY TwoBytes
<1>. QED  BY <1>1, <1>2, <1>3, <1>4 DEF HasCrlf

-----------------------------------------------------------------------------
(* Reading an array of bulk strings.                                       *)

\* What has been read, and what reading one argument more means.
IsBulk(s, number, lengths, x, y) ==
  LET e == LineEnd(s, x.pos)
      length == number[SubSeq(s, x.pos + 2, e)]
  IN /\ x.pos \in Nat /\ e \in Nat /\ e >= x.pos /\ EndsAt(s, e)
     /\ s[x.pos + 1] = "$"
     /\ length \in Nat /\ length \in lengths
     /\ y.pos = e + 2 + length + 2
     /\ y.pos <= Len(s) /\ EndsAt(s, e + 2 + length)
     /\ y.parts = Append(x.parts, SubSeq(s, e + 3, e + 2 + length))

\* ReadBulk() reads one argument, or fails and there is none.
LEMMA ReadBulkProps ==
  ASSUME NEW s \in Buffers, NEW number, NEW lengths \in SUBSET Nat, NEW x \in Reading
  PROVE  \/ /\ ReadBulk(s, number, lengths, x) = Failed
            /\ \A y : ~IsBulk(s, number, lengths, x, y)
         \/ /\ IsBulk(s, number, lengths, x, ReadBulk(s, number, lengths, x))
            /\ ReadBulk(s, number, lengths, x) \in [pos : Nat, parts : Seq(Seq(Byte))]
<1>. DEFINE p == x.pos
            e == LineEnd(s, p)
            length == number[SubSeq(s, p + 2, e)]
            end == e + 2 + length
            y == [pos |-> end + 2, parts |-> Append(x.parts, SubSeq(s, e + 3, end))]
            C == /\ x.pos # NotFound /\ e # NotFound /\ s[x.pos + 1] = "$"
                 /\ length \in lengths /\ end + 2 <= Len(s) /\ HasCrlf(s, end)
<1>1. ReadBulk(s, number, lengths, x) = IF C THEN y ELSE Failed
  BY DEF ReadBulk
<1>2. PICK l \in Nat : l = Len(s) /\ l < SizeMod /\ s \in Seq(Byte)
  BY LenProperties DEF Buffers
<1>3. x.parts \in Seq(Seq(Byte)) /\ (x.pos # NotFound <=> x.pos \in Nat)
  BY DEF Reading, NotFound
<1>4. SizeMod \in Nat
  BY Sizes
<1>5. ASSUME C PROVE IsBulk(s, number, lengths, x, y) /\ y \in [pos : Nat, parts : Seq(Seq(Byte))]
  <2>1. PICK q \in Nat : q = x.pos
    BY <1>3, <1>5
  <2>2. PICK d \in Nat : d = LineEnd(s, q) /\ d >= q /\ EndsAt(s, d)
    BY <1>2, <1>5, <2>1, LineEndProps
  <2>3. PICK n \in Nat : n = number[SubSeq(s, q + 2, d)] /\ n \in lengths
    BY <1>5, <2>1, <2>2
  <2>4. (d + 2 + n) + 2 <= l /\ d + 2 + n \in Nat
    BY <1>2, <1>5, <2>1, <2>2, <2>3
  <2>5. EndsAt(s, d + 2 + n)
    <3>1. PICK m \in Nat : m = d + 2 + n
      BY <2>4
    <3>2. HasCrlf(s, m)
      BY <1>5, <2>1, <2>2, <2>3, <3>1
    <3>3. m + 2 <= Len(s) /\ m + 1 < SizeMod
      BY <1>2, <1>4, <2>4, <3>1
    <3>. QED  BY <1>2, <3>1, <3>2, <3>3, HasCrlfIs
  <2>6. SubSeq(s, d + 3, d + 2 + n) \in Seq(Byte)
    <3>1. \A i \in (d + 3)..(d + 2 + n) : s[i] \in Byte
      <4>1. \A i \in (d + 3)..(d + 2 + n) : i \in 1..l
        BY <2>4
      <4>. QED  BY <1>2, <4>1, ElementOfSeq
    <3>. QED  BY <3>1, SubSeqProperties
  <2>7. Append(x.parts, SubSeq(s, d + 3, d + 2 + n)) \in Seq(Seq(Byte))
    BY <1>3, <2>6, AppendProperties
  <2>8. y.pos = d + 2 + n + 2 /\ y.parts = Append(x.parts, SubSeq(s, d + 3, d + 2 + n))
    BY <2>1, <2>2, <2>3
  <2>9. y.pos \in Nat /\ y.pos <= Len(s)
    BY <1>2, <2>4, <2>8
  <2>10. y \in [pos : Nat, parts : Seq(Seq(Byte))]
    BY <2>7, <2>8, <2>9
  <2>. HIDE DEF y
  <2>11. IsBulk(s, number, lengths, x, y)
    BY <1>5, <2>1, <2>2, <2>3, <2>5, <2>8, <2>9 DEF IsBulk
  <2>. QED  BY <2>10, <2>11
<1>6. ASSUME NEW z, IsBulk(s, number, lengths, x, z) PROVE C
  <2>1. PICK q \in Nat : q = x.pos
    BY <1>6 DEF IsBulk
  <2>2. PICK d \in Nat : d = LineEnd(s, q)
    BY <1>6, <2>1 DEF IsBulk
  <2>3. PICK n \in Nat : n = number[SubSeq(s, q + 2, d)] /\ n \in lengths
    BY <1>6, <2>1, <2>2 DEF IsBulk
  <2>4. (d + 2 + n) + 2 <= l /\ EndsAt(s, d + 2 + n) /\ s[q + 1] = "$"
    BY <1>2, <1>6, <2>1, <2>2, <2>3 DEF IsBulk
  <2>5. HasCrlf(s, d + 2 + n)
    <3>1. PICK m \in Nat : m = d + 2 + n
      OBVIOUS
    <3>2. m + 2 <= Len(s) /\ m + 1 < SizeMod
      BY <1>2, <1>4, <2>4, <3>1
    <3>. QED  BY <1>2, <2>4, <3>1, <3>2, HasCrlfIs
  <2>6. q # NotFound /\ d # NotFound
    BY DEF NotFound
  <2>. QED  BY <1>2, <2>1, <2>2, <2>3, <2>4, <2>5, <2>6
<1>7. CASE C
  BY <1>1, <1>5, <1>7
<1>8. CASE ~C
  BY <1>1, <1>6, <1>8
<1>. QED  BY <1>7, <1>8

\* What extract_requests() makes of an argument of s, having as much of s as b: it
\* is complete or more bytes are needed.
LEMMA BulkScan ==
  ASSUME NEW s \in Seq(Byte), Len(s) <= LongMax, NEW b \in Buffers, Alike(s, b),
         NEW x, NEW y, IsBulk(s, Decimal, 0..LongMax, x, y)
  PROVE  /\ y.pos \in Nat /\ y.pos > x.pos
         /\ ScanBulk(b, [status |-> "complete", pos |-> x.pos]) =
              IF y.pos <= Len(b) THEN [status |-> "complete", pos |-> y.pos]
              ELSE [status |-> "incomplete", pos |-> 0]
<1>1. PICK p \in Nat, e \in Nat : p = x.pos /\ e = LineEnd(s, p) /\ e >= p /\ EndsAt(s, e)
                                /\ s[p + 1] = "$"
  BY DEF IsBulk
<1>2. PICK n \in Nat : n = Decimal[SubSeq(s, p + 2, e)] /\ n <= LongMax
  <2>1. Decimal[SubSeq(s, p + 2, e)] \in 0..LongMax
    BY <1>1 DEF IsBulk
  <2>. QED  BY <2>1, Sizes
<1>3. PICK l, k \in Nat : l = Len(s) /\ k = Len(b) /\ b \in Seq(Byte)
  BY LenProperties DEF Buffers
<1>4. PICK m \in Nat : m = SizeMod /\ l + 1 < m /\ k < m /\ n + 1 < m
  <2>1. SizeMod \in Nat /\ LongMax \in Int /\ LongMax + 1 < SizeMod
    BY Sizes
  <2>. QED  BY <1>2, <1>3, <2>1 DEF Buffers
<1>5. /\ e + 2 <= l /\ s[e + 1] = "\r" /\ y.pos = e + 2 + n + 2 /\ e + 2 + n + 2 <= l
      /\ EndsAt(s, e + 2 + n)
  BY <1>1, <1>2, <1>3 DEF IsBulk, EndsAt
<1>6. y.pos \in Nat /\ y.pos > p /\ y.pos >= e + 2
  BY SMTT(30), <1>1, <1>5
<1>. DEFINE d == LineEnd(b, p)
            length == parse_decimal(SubSeq(b, p + 2, d))
            end == (d + 2 + length) % SizeMod
            before == [status |-> "complete", pos |-> p]
            Is(status, position) == [status |-> status, pos |-> position]
<1>7. ScanBulk(b, before) =
        IF p >= Len(b) THEN Is("incomplete", 0)
        ELSE IF b[p + 1] # "$" THEN Is("malformed", SkipLine(b, p))
        ELSE IF d = NotFound THEN Is("incomplete", 0)
        ELSE IF length = Invalid THEN Is("malformed", d + 2)
        ELSE IF Missing(b, end) THEN Is("incomplete", 0)
        ELSE IF ~HasCrlf(b, end) THEN Is("malformed", end)
        ELSE Is("complete", (end + 2) % SizeMod)
  BY DEF ScanBulk
<1>8. d = IF e + 2 <= k THEN e ELSE NotFound
  <2>1. LineEnd(s, p) # NotFound
    BY <1>1 DEF NotFound
  <2>. QED  BY <1>1, <1>3, <2>1, LineEndAlike
<1>9. CASE p >= k
  <2>1. ScanBulk(b, before) = Is("incomplete", 0)
    BY <1>3, <1>7, <1>9
  <2>2. ~(y.pos <= Len(b))
    BY <1>3, <1>6, <1>9
  <2>. QED  BY <1>1, <1>6, <2>1, <2>2
<1>10. CASE p < k
  <2>1. b[p + 1] = "$" /\ ~(p >= Len(b))
    <3>1. p + 1 \in Nat /\ p + 1 >= 1 /\ p + 1 <= l /\ p + 1 <= k
      BY SMTT(30), <1>1, <1>5, <1>10
    <3>. QED  BY <1>1, <1>3, <1>10, <3>1 DEF Alike
  <2>2. CASE ~(e + 2 <= k)
    <3>1. ScanBulk(b, before) = Is("incomplete", 0)
      BY <1>7, <1>8, <2>1, <2>2
    <3>2. ~(y.pos <= Len(b))
      BY <1>3, <1>6, <2>2
    <3>. QED  BY <1>1, <1>6, <3>1, <3>2
  <2>3. CASE e + 2 <= k
    <3>1. d = e /\ d # NotFound
      BY <1>8, <2>3 DEF NotFound
    <3>2. PICK text \in Seq(Byte) : text = SubSeq(s, p + 2, e) /\ text = SubSeq(b, p + 2, e)
      <4>1. PICK j \in Nat \ {0} : j = p + 2
        OBVIOUS
      <4>2. e <= Len(s) /\ e <= Len(b)
        BY <1>3, <1>5, <2>3
      <4>3. SubSeq(s, j, e) = SubSeq(b, j, e) /\ SubSeq(s, j, e) \in Seq(Byte)
        BY <1>3, <4>2, PieceAlike
      <4>. QED  BY <4>1, <4>3
    <3>3. length = n /\ length # Invalid
      <4>1. n = IF IsNumeral(text) THEN Value[text] ELSE Invalid
        BY <1>2, <3>2 DEF Decimal
      <4>2. n # Invalid
        BY <1>4 DEF Invalid
      <4>3. n % m = n
        BY <1>4
      <4>4. parse_decimal(text) = n
        BY <1>4, <4>1, <4>2, <4>3 DEF parse_decimal
      <4>. QED  BY <3>1, <3>2, <4>2, <4>4
    <3>4. PICK q \in Nat : q = e + 2 + n /\ q + 2 <= l /\ EndsAt(s, q) /\ y.pos = q + 2
      BY <1>5
    <3>5. end = q /\ (q + 2) % SizeMod = q + 2
      <4>1. q % m = q /\ (q + 2) % m = q + 2
        BY <1>4, <3>4
      <4>. QED  BY <1>4, <3>1, <3>3, <3>4, <4>1
    <3>6. Missing(b, end) <=> q + 2 > k
      BY <1>3, <3>5 DEF Missing
    <3>7. ScanBulk(b, before) = IF q + 2 > k THEN Is("incomplete", 0)
                                ELSE IF ~HasCrlf(b, q) THEN Is("malformed", q)
                                ELSE Is("complete", q + 2)
      <4>. HIDE DEF d, length, end
      <4>. QED  BY <1>7, <2>1, <3>1, <3>3, <3>5, <3>6
    <3>8. CASE q + 2 > k
      BY <1>1, <1>3, <1>6, <3>4, <3>7, <3>8
    <3>9. CASE ~(q + 2 > k)
      <4>1. EndsAt(b, q)
        <5>1. s[q + 1] = b[q + 1] /\ s[q + 2] = b[q + 2]
          <6>1. q + 1 \in Nat /\ q + 2 \in Nat
            OBVIOUS
          <6>. QED  BY <1>3, <3>4, <3>9, <6>1 DEF Alike
        <5>. QED  BY <1>3, <3>4, <3>9, <5>1 DEF EndsAt
      <4>2. HasCrlf(b, q)
        <5>1. q + 2 <= Len(b) /\ q + 1 < SizeMod
          BY <1>3, <1>4, <3>4, <3>9
        <5>. QED  BY <1>3, <4>1, <5>1, HasCrlfIs
      <4>3. y.pos <= Len(b)
        BY <1>3, <3>4, <3>9
      <4>. QED  BY <1>1, <1>6, <3>4, <3>7, <3>9, <4>2, <4>3
    <3>. QED  BY <3>8, <3>9
  <2>. QED  BY <2>2, <2>3
<1>. QED  BY <1>3, <1>9, <1>10

\* The line in front of an array says that it has n elements.
Heads(s, number, n) ==
  /\ LineEnd(s, 0) \in Nat /\ EndsAt(s, LineEnd(s, 0))
  /\ s[1] = "*"
  /\ n \in Nat /\ n = number[SubSeq(s, 2, LineEnd(s, 0))]

\* h[i] is what has been read of s after i arguments, and s ends behind the n-th.
IsFrame(s, number, lengths, h, n) ==
  /\ h \in [0..n -> Reading]
  /\ h[0] = [pos |-> LineEnd(s, 0) + 2, parts |-> <<>>]
  /\ \A i \in 1..n : IsBulk(s, number, lengths, h[i - 1], h[i])
  /\ h[n].pos = Len(s)

\* ReadArray() reads such arrays, and no others.
LEMMA ReadArrayFrame ==
  ASSUME NEW s \in Buffers, NEW number, NEW counts \in SUBSET Nat, NEW lengths \in SUBSET Nat
  PROVE  /\ ReadArray(s, number, counts, lengths) # Failed =>
              \E n \in counts : \E h :
                /\ Heads(s, number, n) /\ IsFrame(s, number, lengths, h, n)
                /\ ReadArray(s, number, counts, lengths) = h[n]
         /\ \A n \in counts : \A h :
              Heads(s, number, n) /\ IsFrame(s, number, lengths, h, n) =>
                ReadArray(s, number, counts, lengths) = h[n]
<1>. DEFINE e == LineEnd(s, 0)
            count == number[SubSeq(s, 2, e)]
            step == [p \in Reading \X Nat |-> ReadBulk(s, number, lengths, p[1])]
            start == [pos |-> e + 2, parts |-> <<>>]
            last == Loop(step, start, count)
            C == e # NotFound /\ s[1] = "*" /\ count \in counts /\ last.pos = Len(s)
<1>1. ReadArray(s, number, counts, lengths) = IF C THEN last ELSE Failed
  BY DEF ReadArray
<1>2. PICK l \in Nat : l = Len(s) /\ s \in Seq(Byte)
  BY LenProperties DEF Buffers
<1>3. Failed \in Reading /\ [pos : Nat, parts : Seq(Seq(Byte))] \subseteq Reading
  <2>1. <<>> \in Seq(Seq(Byte))
    BY EmptySeq
  <2>. QED  BY <2>1 DEF Failed, Reading
<1>4. \A x \in Reading : ReadBulk(s, number, lengths, x) \in Reading
  BY <1>3, ReadBulkProps
<1>5. \A x \in Reading, i \in Nat : step[<<x, i>>] = ReadBulk(s, number, lengths, x)
  <2>. TAKE x \in Reading, i \in Nat
  <2>1. PICK p : p = <<x, i>>
    OBVIOUS
  <2>2. p \in Reading \X Nat /\ p[1] = x
    BY <2>1
  <2>3. step[p] = ReadBulk(s, number, lengths, p[1])
    BY <2>2
  <2>. HIDE DEF step
  <2>. QED  BY <2>1, <2>2, <2>3
<1>6. \A n \in Nat : StaysIn(Reading, step, n)
  <2>. TAKE n \in Nat
  <2>1. \A x \in Reading, i \in 1..n : step[<<x, i>>] \in Reading
    <3>1. \A i \in 1..n : i \in Nat
      OBVIOUS
    <3>. HIDE DEF step
    <3>. QED  BY <1>4, <1>5, <3>1
  <2>. HIDE DEF step
  <2>. QED  BY <2>1 DEF StaysIn
<1>7. ASSUME C
      PROVE  \E n \in counts : \E h :
               Heads(s, number, n) /\ IsFrame(s, number, lengths, h, n) /\ last = h[n]
  <2>1. PICK n \in counts : n = count /\ n \in Nat
    BY <1>7
  <2>2. e \in Nat /\ EndsAt(s, e)
    BY <1>2, <1>7, LineEndProps
  <2>3. Heads(s, number, n)
    BY <1>7, <2>1, <2>2 DEF Heads
  <2>4. start \in Reading
    <3>1. <<>> \in Seq(Seq(Byte)) /\ e + 2 \in Nat
      BY <2>2, EmptySeq
    <3>. QED  BY <3>1 DEF Reading
  <2>5. PICK h : Rounds(h, Reading, step, start, n) /\ Loop(step, start, n) = h[n]
    <3>. HIDE DEF step, start
    <3>. QED  BY <1>6, <2>1, <2>4, LoopProps
  <2>6. /\ h \in [0..n -> Reading] /\ h[0] = start
        /\ \A i \in 1..n : h[i] = ReadBulk(s, number, lengths, h[i - 1])
    <3>1. /\ h \in [0..n -> Reading] /\ h[0] = start
          /\ \A i \in 1..n : h[i] = step[<<h[i - 1], i>>]
      <4>. HIDE DEF step, start
      <4>. QED  BY <2>5 DEF Rounds
    <3>2. \A i \in 1..n : h[i] = ReadBulk(s, number, lengths, h[i - 1])
      <4>. TAKE i \in 1..n
      <4>1. i - 1 \in 0..n /\ i \in Nat
        BY <2>1
      <4>2. h[i - 1] \in Reading
        BY <3>1, <4>1
      <4>. HIDE DEF step
      <4>. QED  BY <1>5, <3>1, <4>1, <4>2
    <3>. QED  BY <3>1, <3>2
  <2>7. h[n].pos = l /\ last = h[n]
    BY <1>2, <1>7, <2>1, <2>5
  <2>8. \A i \in 0..n : h[i] # Failed
    <3>. DEFINE P == {i \in 0..n : h[n - i] # Failed}
    <3>1. P \in SUBSET (0..n) /\ 0 \in P
      <4>1. h[n] # Failed /\ 0 \in 0..n /\ n - 0 = n
        BY <2>1, <2>7 DEF Failed, NotFound
      <4>. QED  BY <4>1
    <3>2. \A i \in 1..n : i - 1 \in P => i \in P
      <4>. SUFFICES ASSUME NEW i \in 1..n, i - 1 \in P PROVE i \in P
        OBVIOUS
      <4>1. PICK j \in 1..n : j = n - (i - 1) /\ j - 1 = n - i /\ h[j] # Failed
        BY <2>1
      <4>2. j - 1 \in 0..n /\ h[j - 1] \in Reading
        <5>1. n \in Nat /\ h \in [0..n -> Reading]
          BY <2>1, <2>6
        <5>2. j - 1 \in 0..n
          BY <5>1
        <5>. HIDE DEF step, start, last
        <5>. QED  BY <5>1, <5>2
      <4>3. h[j] = ReadBulk(s, number, lengths, h[j - 1])
        BY <2>6
      <4>4. \E y : IsBulk(s, number, lengths, h[j - 1], y)
        BY <4>1, <4>2, <4>3, ReadBulkProps
      <4>5. h[j - 1].pos \in Nat
        BY <4>4 DEF IsBulk
      <4>6. h[j - 1] # Failed
        BY <4>5 DEF Failed, NotFound
      <4>. QED  BY <4>1, <4>6
    <3>3. P = 0..n
      <4>. HIDE DEF P
      <4>. QED  BY <2>1, <3>1, <3>2, UpToInduction
    <3>4. \A i \in 0..n : n - i \in 0..n /\ n - (n - i) = i
      BY <2>1
    <3>. QED  BY <3>3, <3>4
  <2>9. \A i \in 1..n : IsBulk(s, number, lengths, h[i - 1], h[i])
    <3>. TAKE i \in 1..n
    <3>1. i \in 0..n /\ i - 1 \in 0..n
      BY <2>1
    <3>. QED  BY <2>6, <2>8, <3>1, ReadBulkProps
  <2>10. IsFrame(s, number, lengths, h, n)
    BY <1>2, <2>6, <2>7, <2>9 DEF IsFrame
  <2>. QED  BY <2>3, <2>7, <2>10
<1>8. ASSUME NEW n \in counts, NEW h, Heads(s, number, n), IsFrame(s, number, lengths, h, n)
      PROVE  C /\ last = h[n]
  <2>1. /\ n \in Nat /\ n = count /\ e \in Nat /\ s[1] = "*" /\ e # NotFound
    BY <1>8 DEF Heads, NotFound
  <2>2. /\ h \in [0..n -> Reading] /\ h[0] = start /\ h[n].pos = Len(s)
        /\ \A i \in 1..n : IsBulk(s, number, lengths, h[i - 1], h[i])
    BY <1>8 DEF IsFrame
  <2>3. start \in Reading
    <3>1. 0 \in 0..n
      BY <2>1
    <3>. QED  BY <2>2, <3>1
  <2>4. PICK f : Rounds(f, Reading, step, start, n) /\ Loop(step, start, n) = f[n]
    <3>. HIDE DEF step, start
    <3>. QED  BY <1>6, <2>1, <2>3, LoopProps
  <2>5. /\ f \in [0..n -> Reading] /\ f[0] = start
        /\ \A i \in 1..n : f[i] = step[<<f[i - 1], i>>]
    <3>. HIDE DEF step, start
    <3>. QED  BY <2>4 DEF Rounds
  <2>. DEFINE P == {i \in 0..n : f[i] = h[i]}
  <2>6. P \in SUBSET (0..n) /\ 0 \in P
    BY <2>1, <2>2, <2>5
  <2>7. \A i \in 1..n : i - 1 \in P => i \in P
    <3>. SUFFICES ASSUME NEW i \in 1..n, f[i - 1] = h[i - 1] PROVE f[i] = h[i]
      BY <2>1
    <3>1. PICK x \in Reading : x = h[i - 1] /\ x = f[i - 1]
      <4>1. i - 1 \in 0..n
        BY <2>1
      <4>. QED  BY <2>2, <4>1
    <3>2. PICK y \in Reading : y = h[i]
      BY <2>1, <2>2
    <3>3. PICK z \in Reading : z = f[i]
      BY <2>1, <2>5
    <3>4. z = ReadBulk(s, number, lengths, x)
      <4>1. i \in Nat
        OBVIOUS
      <4>. HIDE DEF step
      <4>. QED  BY <1>5, <2>5, <3>1, <3>3, <4>1
    <3>5. IsBulk(s, number, lengths, x, y)
      BY <2>2, <3>1, <3>2
    <3>6. IsBulk(s, number, lengths, x, z)
      BY <3>4, <3>5, ReadBulkProps
    <3>7. y.pos = z.pos /\ y.parts = z.parts
      BY <3>5, <3>6 DEF IsBulk
    <3>8. y = z
      BY <3>7 DEF Reading
    <3>. QED  BY <3>2, <3>3, <3>8
  <2>8. P = 0..n
    <3>. HIDE DEF P
    <3>. QED  BY <2>1, <2>6, <2>7, UpToInduction
  <2>9. f[n] = h[n]
    <3>1. n \in 0..n
      BY <2>1
    <3>. QED  BY <2>8, <3>1
  <2>. HIDE DEF step, start
  <2>. QED  BY <2>1, <2>2, <2>4, <2>9
<1>9. CASE C
  <2>. HIDE DEF C, last
  <2>. QED  BY <1>1, <1>7, <1>8, <1>9
<1>10. CASE ~C
  <2>. HIDE DEF C, last
  <2>. QED  BY <1>1, <1>8, <1>10
<1>. QED  BY <1>9, <1>10

-----------------------------------------------------------------------------
(* Cutting one request out of a buffer.                                    *)

\* What a line of digits says is a number.
LEMMA DecimalProps ==
  ASSUME NEW text
  PROVE  /\ parse_decimal(text) \in Nat
         /\ IsNumeral(text) => /\ Value[text] \in Nat
                               /\ parse_decimal(text) < SizeMod
<1>1. DOMAIN DigitValue = Digits
  BY DigitProps
<1>2. PICK m \in Nat : m = SizeMod /\ m >= 16
  BY RespAssumption
<1>3. \A v \in Nat : v % m \in Nat /\ v % m < m
  BY <1>2
<1>4. IsNumeral(text) => Value[text] \in Nat
  BY <1>1, ValueType DEF IsNumeral
<1>. QED  BY <1>2, <1>3, <1>4 DEF parse_decimal, Invalid

\* What scanning part of the buffer b may come to.
ScansOf(b) == {x \in Scanning : x.status = "complete" => x.pos \in 1..Len(b)}

\* One argument more.
LEMMA ScanBulkType ==
  ASSUME NEW b \in Buffers, NEW x \in ScansOf(b)
  PROVE  ScanBulk(b, x) \in ScansOf(b)
<1>. DEFINE pos == x.pos
            e == LineEnd(b, pos)
            length == parse_decimal(SubSeq(b, pos + 2, e))
            end == (e + 2 + length) % SizeMod
            Is(status, position) == [status |-> status, pos |-> position]
<1>1. PICK k \in Nat, m \in Nat : k = Len(b) /\ m = SizeMod /\ k < m /\ b \in Seq(Byte) /\ m >= 16
  BY LenProperties, RespAssumption DEF Buffers
<1>2. /\ pos \in Nat /\ x \in Scanning
      /\ \A p \in Nat : Is("incomplete", p) \in ScansOf(b) /\ Is("malformed", p) \in ScansOf(b)
  BY DEF ScansOf, Scanning
<1>3. e = NotFound \/ (e \in Nat /\ e + 2 <= k)
  <2>1. PICK q \in Nat : q = pos
    BY <1>2
  <2>2. LineEnd(b, q) = NotFound \/ (LineEnd(b, q) \in Nat /\ EndsAt(b, LineEnd(b, q)))
    BY <1>1, LineEndProps
  <2>. QED  BY <1>1, <2>1, <2>2 DEF EndsAt
<1>4. SkipLine(b, pos) \in Nat
  <2>1. e # NotFound => e + 2 \in Nat
    BY <1>3
  <2>. QED  BY <1>1, <2>1 DEF SkipLine
<1>5. length \in Nat
  BY DecimalProps
<1>. HIDE DEF length
<1>6. e # NotFound => e + 2 \in Nat /\ end \in Nat /\ end < m
  <2>. SUFFICES ASSUME e # NotFound PROVE e + 2 \in Nat /\ end \in Nat /\ end < m
    OBVIOUS
  <2>1. PICK v \in Nat : v = e + 2 + length
    BY <1>3, <1>5
  <2>2. v % m \in Nat /\ v % m < m
    BY <1>1
  <2>. QED  BY <1>1, <1>3, <2>1, <2>2
<1>. HIDE DEF end
<1>7. ASSUME e # NotFound, ~Missing(b, end), HasCrlf(b, end)
      PROVE  (end + 2) % SizeMod \in 1..k
  <2>1. PICK q \in Nat : q = end /\ q < m
    BY <1>6, <1>7
  <2>2. (q + 2) % m <= k /\ (q + 1) % m < k
    BY <1>1, <1>7, <2>1 DEF Missing, HasCrlf
  <2>3. CASE q + 2 < m
    <3>1. (q + 2) % m = q + 2
      BY <2>3, <1>1
    <3>. QED  BY <1>1, <2>1, <2>2, <3>1
  <2>4. CASE q + 2 = m
    <3>1. (q + 1) % m = q + 1
      BY <2>4, <1>1
    <3>. QED  BY <1>1, <2>2, <2>4, <3>1
  <2>5. CASE q + 2 > m
    <3>1. q + 2 = m + 1
      BY <2>1, <2>5
    <3>2. (m + 1) % m = 1
      BY <1>1
    <3>. QED  BY <1>1, <2>1, <2>2, <3>1, <3>2
  <2>. QED  BY <1>1, <2>1, <2>3, <2>4, <2>5
<1>8. ScanBulk(b, x) =
        IF x.status # "complete" THEN x
        ELSE IF pos >= Len(b) THEN Is("incomplete", 0)
        ELSE IF b[pos + 1] # "$" THEN Is("malformed", SkipLine(b, pos))
        ELSE IF e = NotFound THEN Is("incomplete", 0)
        ELSE IF length = Invalid THEN Is("malformed", e + 2)
        ELSE IF Missing(b, end) THEN Is("incomplete", 0)
        ELSE IF ~HasCrlf(b, end) THEN Is("malformed", end)
        ELSE Is("complete", (end + 2) % SizeMod)
  BY DEF ScanBulk, length, end
<1>9. (end + 2) % SizeMod \in 1..k => Is("complete", (end + 2) % SizeMod) \in ScansOf(b)
  BY <1>1 DEF ScansOf, Scanning
<1>. HIDE DEF e, pos, Is
<1>. QED  BY <1>2, <1>4, <1>6, <1>7, <1>8, <1>9

\* f[i] is what scanning the first i arguments from pos on comes to.
IsScan(f, b, pos, count) ==
  /\ f \in [0..count -> ScansOf(b)]
  /\ f[0] = [status |-> "complete", pos |-> pos]
  /\ \A i \in 1..count : f[i] = ScanBulk(b, f[i - 1])
  /\ ScanBulks(b, pos, count) = f[count]

\* There is such a function.
LEMMA ScanRounds ==
  ASSUME NEW b \in Buffers, NEW pos \in 1..Len(b), NEW count \in Nat
  PROVE  \E f : IsScan(f, b, pos, count)
<1>. DEFINE V == ScansOf(b)
            step == [p \in Scanning \X Nat |-> ScanBulk(b, p[1])]
            start == [status |-> "complete", pos |-> pos]
<1>1. ScanBulks(b, pos, count) = Loop(step, start, count)
  BY DEF ScanBulks
<1>2. start \in V
  BY LenProperties DEF ScansOf, Scanning, Buffers
<1>3. \A x \in V, i \in Nat : step[<<x, i>>] = ScanBulk(b, x)
  <2>. TAKE x \in V, i \in Nat
  <2>1. PICK p : p = <<x, i>>
    OBVIOUS
  <2>2. p \in Scanning \X Nat /\ p[1] = x
    BY <2>1 DEF ScansOf
  <2>3. step[p] = ScanBulk(b, p[1])
    BY <2>2
  <2>. HIDE DEF step
  <2>. QED  BY <2>1, <2>2, <2>3
<1>4. StaysIn(V, step, count)
  <2>1. \A x \in V, i \in 1..count : step[<<x, i>>] \in V
    <3>1. \A i \in 1..count : i \in Nat
      OBVIOUS
    <3>. HIDE DEF step
    <3>. QED  BY <1>3, <3>1, ScanBulkType
  <2>. HIDE DEF step
  <2>. QED  BY <2>1 DEF StaysIn
<1>. HIDE DEF step, start, V
<1>5. PICK f : Rounds(f, V, step, start, count) /\ Loop(step, start, count) = f[count]
  BY <1>2, <1>4, LoopProps
<1>6. /\ f \in [0..count -> V] /\ f[0] = start
      /\ \A i \in 1..count : f[i] = step[<<f[i - 1], i>>]
  BY <1>5 DEF Rounds
<1>7. \A i \in 1..count : f[i] = ScanBulk(b, f[i - 1])
  <2>. TAKE i \in 1..count
  <2>1. i - 1 \in 0..count /\ i \in Nat
    OBVIOUS
  <2>. QED  BY <1>3, <1>6, <2>1
<1>. QED  BY <1>1, <1>5, <1>6, <1>7 DEF V, start, IsScan

\* What extract_requests() makes of the arguments of s, having as much of s as b:
\* they are complete or more bytes are needed.
LEMMA ScanFrame ==
  ASSUME NEW s \in Seq(Byte), Len(s) <= LongMax, NEW b \in Buffers, Alike(s, b),
         NEW n \in Nat, NEW h, IsFrame(s, Decimal, 0..LongMax, h, n),
         NEW pos \in 1..Len(b), pos = h[0].pos
  PROVE  ScanBulks(b, pos, n) = IF Len(s) <= Len(b) THEN [status |-> "complete", pos |-> Len(s)]
                                ELSE [status |-> "incomplete", pos |-> 0]
<1>. DEFINE Reached(i) == IF h[i].pos <= Len(b) THEN [status |-> "complete", pos |-> h[i].pos]
                          ELSE [status |-> "incomplete", pos |-> 0]
<1>1. PICK k \in Nat, l \in Nat : k = Len(b) /\ l = Len(s)
  BY LenProperties DEF Buffers
<1>2. PICK f : /\ f \in [0..n -> ScansOf(b)]
               /\ f[0] = [status |-> "complete", pos |-> pos]
               /\ \A i \in 1..n : f[i] = ScanBulk(b, f[i - 1])
               /\ ScanBulks(b, pos, n) = f[n]
  <2>1. \E f : IsScan(f, b, pos, n)
    BY ScanRounds
  <2>. QED  BY <2>1 DEF IsScan
<1>3. /\ \A i \in 1..n : IsBulk(s, Decimal, 0..LongMax, h[i - 1], h[i])
      /\ h[n].pos = l
  BY <1>1 DEF IsFrame
<1>. DEFINE P == {i \in 0..n : f[i] = Reached(i)}
<1>4. P \in SUBSET (0..n) /\ 0 \in P
  <2>1. h[0].pos <= Len(b)
    BY <1>1
  <2>2. Reached(0) = [status |-> "complete", pos |-> pos]
    BY <2>1
  <2>. HIDE DEF Reached
  <2>. QED  BY <1>2, <2>2
<1>5. \A i \in 1..n : i - 1 \in P => i \in P
  <2>. SUFFICES ASSUME NEW i \in 1..n, f[i - 1] = Reached(i - 1) PROVE f[i] = Reached(i)
    <3>1. \A i \in 1..n : i \in 0..n
      OBVIOUS
    <3>. HIDE DEF Reached
    <3>. QED  BY <3>1
  <2>1. PICK x : x = h[i - 1]
    OBVIOUS
  <2>2. PICK y : y = h[i]
    OBVIOUS
  <2>3. IsBulk(s, Decimal, 0..LongMax, x, y)
    BY <1>3, <2>1, <2>2
  <2>4. /\ y.pos \in Nat /\ y.pos > x.pos /\ x.pos \in Nat
        /\ ScanBulk(b, [status |-> "complete", pos |-> x.pos]) =
             IF y.pos <= Len(b) THEN [status |-> "complete", pos |-> y.pos]
             ELSE [status |-> "incomplete", pos |-> 0]
    <3>1. x.pos \in Nat
      BY <2>3 DEF IsBulk
    <3>. QED  BY <2>3, <3>1, BulkScan
  <2>5. Reached(i) = IF y.pos <= k THEN [status |-> "complete", pos |-> y.pos]
                     ELSE [status |-> "incomplete", pos |-> 0]
    BY <1>1, <2>2
  <2>6. f[i - 1] = IF x.pos <= k THEN [status |-> "complete", pos |-> x.pos]
                   ELSE [status |-> "incomplete", pos |-> 0]
    BY <1>1, <2>1
  <2>7. f[i] = ScanBulk(b, f[i - 1])
    BY <1>2
  <2>. HIDE DEF Reached
  <2>8. CASE x.pos <= k
    BY <1>1, <2>4, <2>5, <2>6, <2>7, <2>8
  <2>9. CASE ~(x.pos <= k)
    <3>1. ~(y.pos <= k)
      BY <2>4, <2>9
    <3>2. \A z : z.status = "incomplete" => ScanBulk(b, z) = z
      BY DEF ScanBulk
    <3>. QED  BY <2>5, <2>6, <2>7, <2>9, <3>1, <3>2
  <2>. QED  BY <2>8, <2>9
<1>6. P = 0..n
  <2>. HIDE DEF P
  <2>. QED  BY <1>4, <1>5, UpToInduction
<1>7. f[n] = Reached(n)
  <2>1. n \in 0..n
    OBVIOUS
  <2>. HIDE DEF Reached
  <2>. QED  BY <1>6, <2>1
<1>. QED  BY <1>1, <1>2, <1>3, <1>7

-----------------------------------------------------------------------------
(* The loop of extract_requests().                                         *)

\* What follows the first k bytes of a buffer is a buffer.
LEMMA RestOf ==
  ASSUME NEW b \in Buffers, NEW k \in Nat
  PROVE  /\ SubSeq(b, k + 1, Len(b)) \in Buffers
         /\ Len(SubSeq(b, k + 1, Len(b))) = IF k <= Len(b) THEN Len(b) - k ELSE 0
<1>1. PICK l \in Nat : l = Len(b) /\ b \in Seq(Byte) /\ l < SizeMod
  BY LenProperties DEF Buffers
<1>2. PICK j \in Nat \ {0} : j = k + 1
  OBVIOUS
<1>3. /\ SubSeq(b, j, l) \in Seq(Byte)
      /\ Len(SubSeq(b, j, l)) = IF j <= l THEN l - j + 1 ELSE 0
  BY <1>1, Piece
<1>4. SizeMod \in Nat
  BY Sizes
<1>. QED  BY <1>1, <1>2, <1>3, <1>4 DEF Buffers

\* What a round may come to.
Rounding == [requests : Seq(Buffers), erased : Nat, again : BOOLEAN]

\* A round takes something out of the buffer when there is to be another one.
LEMMA RoundType ==
  ASSUME NEW b \in Buffers
  PROVE  Round(b) \in Rounding /\ (Round(b).again => Round(b).erased \in 1..Len(b))
<1>. DEFINE e == LineEnd(b, 0)
            count == parse_decimal(SubSeq(b, 2, e))
            scan == ScanBulks(b, e + 2, count)
            Is(found, erased, again) == [requests |-> found, erased |-> erased, again |-> again]
<1>1. PICK k \in Nat : k = Len(b) /\ k < SizeMod /\ b \in Seq(Byte)
  BY LenProperties DEF Buffers
<1>2. e = NotFound \/ (e \in Nat /\ e + 2 \in 1..k)
  <2>1. e = NotFound \/ (e \in Nat /\ EndsAt(b, e))
    BY <1>1, LineEndProps
  <2>. QED  BY <1>1, <2>1 DEF EndsAt
<1>3. count \in Nat
  BY DecimalProps
<1>. HIDE DEF count
<1>4. e # NotFound => scan \in ScansOf(b)
  <2>. SUFFICES ASSUME e # NotFound PROVE scan \in ScansOf(b)
    OBVIOUS
  <2>1. PICK q \in 1..k : q = e + 2
    BY <1>2
  <2>2. PICK f : IsScan(f, b, q, count)
    BY <1>1, <1>3, ScanRounds
  <2>3. count \in 0..count
    BY <1>3
  <2>. QED  BY <2>1, <2>2, <2>3 DEF IsScan
<1>. HIDE DEF scan
<1>5. Round(b) =
        IF e = NotFound THEN Is(<<>>, 0, FALSE)
        ELSE IF b[1] # "*" THEN Is(<<SubSeq(b, 1, e + 2)>>, e + 2, TRUE)
        ELSE IF count = Invalid THEN Is(<<MalformedRequest>>, e + 2, TRUE)
        ELSE IF scan.status = "incomplete" THEN Is(<<>>, 0, FALSE)
        ELSE IF scan.status = "malformed" THEN Is(<<MalformedRequest>>, scan.pos, FALSE)
        ELSE Is(<<SubSeq(b, 1, scan.pos)>>, scan.pos, TRUE)
  BY DEF Round, count, scan
<1>6. \A r \in Buffers : <<r>> \in Seq(Buffers)
  OBVIOUS
<1>7. <<>> \in Seq(Buffers)
  BY EmptySeq
<1>8. MalformedRequest \in Buffers
  <2>1. PICK s \in Seq(Byte), t \in Seq(Byte) :
          s = <<"-", "e">> /\ Len(s) = 2 /\ t = CRLF /\ Len(t) = 2
    <3>1. {"-", "e", "\r", "\n"} \subseteq Byte
      BY RespAssumption
    <3>2. <<"-", "e">> \in Seq(Byte) /\ Len(<<"-", "e">>) = 2
      BY <3>1
    <3>3. CRLF \in Seq(Byte) /\ Len(CRLF) = 2
      BY <3>1 DEF CRLF
    <3>. QED  BY <3>2, <3>3
  <2>2. s \o t \in Seq(Byte) /\ Len(s \o t) = Len(s) + Len(t)
    BY JoinSeq
  <2>3. 4 < SizeMod
    BY Sizes
  <2>. QED  BY <2>1, <2>2, <2>3 DEF Buffers, MalformedRequest
<1>9. \A n \in 1..k : SubSeq(b, 1, n) \in Buffers
  <2>. TAKE n \in 1..k
  <2>1. n \in Int /\ 1 \in Nat \ {0} /\ 1 <= n
    OBVIOUS
  <2>2. SubSeq(b, 1, n) \in Seq(Byte) /\ Len(SubSeq(b, 1, n)) = n
    BY <1>1, <2>1, Piece
  <2>3. SizeMod \in Nat
    BY Sizes
  <2>. QED  BY <1>1, <2>2, <2>3 DEF Buffers
<1>10. \A found \in Seq(Buffers), n \in Nat, again \in BOOLEAN :
         /\ Is(found, n, again) \in Rounding
         /\ Is(found, n, again).again = again /\ Is(found, n, again).erased = n
  BY DEF Rounding
<1>11. e # NotFound =>
         /\ scan.pos \in Nat /\ scan.status \in {"complete", "incomplete", "malformed"}
         /\ scan.status = "complete" => scan.pos \in 1..k
  BY <1>1, <1>4 DEF ScansOf, Scanning
<1>. HIDE DEF Is, e
<1>12. CASE e = NotFound
  BY <1>5, <1>7, <1>10, <1>12
<1>13. CASE e # NotFound
  <2>1. PICK q \in 1..k : q = e + 2 /\ q \in Nat
    BY <1>2, <1>13
  <2>2. Is(<<SubSeq(b, 1, q)>>, q, TRUE) \in Rounding /\ Is(<<SubSeq(b, 1, q)>>, q, TRUE).erased = q
    BY <1>6, <1>9, <1>10, <2>1
  <2>3. /\ Is(<<MalformedRequest>>, q, TRUE) \in Rounding
        /\ Is(<<MalformedRequest>>, q, TRUE).erased = q
    BY <1>6, <1>8, <1>10, <2>1
  <2>4. Is(<<>>, 0, FALSE) \in Rounding /\ ~Is(<<>>, 0, FALSE).again
    BY <1>7, <1>10
  <2>5. /\ Is(<<MalformedRequest>>, scan.pos, FALSE) \in Rounding
        /\ ~Is(<<MalformedRequest>>, scan.pos, FALSE).again
    BY <1>6, <1>8, <1>10, <1>11, <1>13
  <2>6. scan.status = "complete" =>
          /\ Is(<<SubSeq(b, 1, scan.pos)>>, scan.pos, TRUE) \in Rounding
          /\ Is(<<SubSeq(b, 1, scan.pos)>>, scan.pos, TRUE).erased \in 1..k
    BY <1>6, <1>9, <1>10, <1>11, <1>13
  <2>. QED  BY <1>1, <1>5, <1>11, <1>13, <2>1, <2>2, <2>3, <2>4, <2>5, <2>6
<1>. QED  BY <1>12, <1>13

\* A round takes nothing, or the bytes of the request it returns, or some of a
\* malformed one.
LEMMA RoundParts ==
  ASSUME NEW b \in Buffers
  PROVE  \/ Round(b).requests = <<>> /\ Round(b).erased = 0 /\ ~Round(b).again
         \/ Round(b).requests = <<MalformedRequest>>
         \/ /\ Round(b).erased \in 1..Len(b)
            /\ Round(b).requests = <<SubSeq(b, 1, Round(b).erased)>>
<1>1. \/ Round(b) = [requests |-> <<>>, erased |-> 0, again |-> FALSE]
      \/ \E n : Round(b) = [requests |-> <<SubSeq(b, 1, n)>>, erased |-> n, again |-> TRUE]
      \/ \E n, a : Round(b) = [requests |-> <<MalformedRequest>>, erased |-> n, again |-> a]
  BY DEF Round
<1>2. CASE Round(b) = [requests |-> <<>>, erased |-> 0, again |-> FALSE]
  <2>1. Round(b).requests = <<>> /\ Round(b).erased = 0
    BY <1>2
  <2>2. Round(b).again = FALSE
    BY <1>2
  <2>. QED  BY <2>1, <2>2
<1>3. ASSUME NEW n, Round(b) = [requests |-> <<SubSeq(b, 1, n)>>, erased |-> n, again |-> TRUE]
      PROVE  Round(b).erased \in 1..Len(b) /\ Round(b).requests = <<SubSeq(b, 1, Round(b).erased)>>
  <2>1. Round(b).again = TRUE
    BY <1>3
  <2>2. Round(b).erased \in 1..Len(b)
    BY <2>1, RoundType
  <2>3. Round(b).requests = <<SubSeq(b, 1, n)>> /\ Round(b).erased = n
    BY <1>3
  <2>. QED  BY <2>2, <2>3
<1>4. ASSUME NEW n, NEW a,
             Round(b) = [requests |-> <<MalformedRequest>>, erased |-> n, again |-> a]
      PROVE  Round(b).requests = <<MalformedRequest>>
  BY <1>4
<1>. QED  BY <1>1, <1>2, <1>3, <1>4

\* What a round leaves.
RestOfRound(b) == SubSeq(b, Round(b).erased + 1, Len(b))

\* What is extracted from b when later is extracted from the rest.
Extracted(b, later) ==
  IF Round(b).again
  THEN [rest |-> later.rest, requests |-> Round(b).requests \o later.requests]
  ELSE [rest |-> RestOfRound(b), requests |-> Round(b).requests]

\* extract_requests[] is the function its definition says.
LEMMA ExtractEquation ==
  \A b \in Buffers :
    /\ extract_requests[b] = Extracted(b, extract_requests[RestOfRound(b)])
    /\ extract_requests[b] \in [rest : Buffers, requests : Seq(Buffers)]
    /\ RestOfRound(b) \in Buffers
    /\ Len(RestOfRound(b)) <= Len(b) /\ (Round(b).again => Len(RestOfRound(b)) < Len(b))
<1>. DEFINE D == Buffers
            V == [rest : Buffers, requests : Seq(Buffers)]
            Base == {b \in D : ~Round(b).again}
            base == [b \in D |-> [rest |-> RestOfRound(b), requests |-> Round(b).requests \o <<>>]]
            next == [b \in D |-> RestOfRound(b)]
            step == [p \in D \X V |-> [rest |-> p[2].rest,
                                       requests |-> Round(p[1]).requests \o p[2].requests]]
            size == [b \in D |-> Len(b)]
<1>1. \A b \in D : /\ Len(b) \in Nat /\ RestOfRound(b) \in Buffers
                   /\ Round(b).requests \in Seq(Buffers) /\ Round(b).again \in BOOLEAN
                   /\ Len(RestOfRound(b)) \in Nat
                   /\ Len(RestOfRound(b)) <= Len(b) /\ (Round(b).again => Len(RestOfRound(b)) < Len(b))
  <2>. TAKE b \in D
  <2>1. PICK l \in Nat : l = Len(b)
    BY LenProperties DEF Buffers
  <2>2. PICK r \in Rounding : r = Round(b) /\ (r.again => r.erased \in 1..l)
    BY <2>1, RoundType
  <2>3. PICK n \in Nat : n = r.erased
    BY DEF Rounding
  <2>4. RestOfRound(b) \in Buffers /\ Len(RestOfRound(b)) = IF n <= l THEN l - n ELSE 0
    BY <2>1, <2>2, <2>3, RestOf DEF RestOfRound
  <2>. QED  BY <2>1, <2>2, <2>3, <2>4 DEF Rounding
<1>2. /\ base \in [D -> V] /\ next \in [D -> D] /\ size \in [D -> Nat]
      /\ \A b \in D : b \in Base \/ size[next[b]] < size[b]
  <2>1. \A b \in D : [rest |-> RestOfRound(b), requests |-> Round(b).requests \o <<>>] \in V
    <3>. TAKE b \in D
    <3>1. Round(b).requests \o <<>> \in Seq(Buffers)
      BY <1>1, ConcatEmptySeq
    <3>. QED  BY <1>1, <3>1
  <2>2. base \in [D -> V]
    <3>. HIDE DEF V, D
    <3>. QED  BY <2>1
  <2>. QED  BY <1>1, <2>2
<1>3. step \in [D \X V -> V]
  <2>. SUFFICES ASSUME NEW p \in D \X V
                PROVE  [rest |-> p[2].rest, requests |-> Round(p[1]).requests \o p[2].requests] \in V
    OBVIOUS
  <2>1. p[1] \in D /\ p[2].rest \in Buffers /\ p[2].requests \in Seq(Buffers)
    OBVIOUS
  <2>2. Round(p[1]).requests \in Seq(Buffers)
    BY <1>1, <2>1
  <2>3. Round(p[1]).requests \o p[2].requests \in Seq(Buffers)
    BY <2>1, <2>2, ConcatProperties
  <2>. QED  BY <2>1, <2>3
<1>4. IsScheme(D, V, Base, base, next, step, size)
  <2>. HIDE DEF D, V, Base, base, next, step, size
  <2>. QED  BY <1>2, <1>3 DEF IsScheme
<1>5. PICK f \in [D -> V] : Solves(f, D, Base, base, next, step)
  <2>. HIDE DEF D, V, Base, base, next, step, size
  <2>. QED  BY <1>4, RecursionExists
<1>6. ASSUME NEW b \in D
      PROVE  f[b] = LET round == Round(b)
                        rest == SubSeq(b, round.erased + 1, Len(b))
                        later == IF round.again THEN f[rest] ELSE [rest |-> rest, requests |-> <<>>]
                    IN [rest |-> later.rest, requests |-> round.requests \o later.requests]
  <2>1. f[b] = IF b \in Base THEN base[b] ELSE step[<<b, f[next[b]]>>]
    <3>. HIDE DEF D, V, Base, base, next, step
    <3>. QED  BY <1>5 DEF Solves
  <2>2. CASE ~Round(b).again
    BY <2>1, <2>2 DEF RestOfRound
  <2>3. CASE Round(b).again
    <3>1. PICK v \in V : v = f[next[b]] /\ v = f[RestOfRound(b)]
      BY <1>1
    <3>2. PICK p : p = <<b, v>>
      OBVIOUS
    <3>3. p \in D \X V /\ p[1] = b /\ p[2] = v
      BY <3>2
    <3>4. step[p] = [rest |-> v.rest, requests |-> Round(b).requests \o v.requests]
      <4>. HIDE DEF D, V
      <4>. QED  BY <3>3
    <3>5. f[b] = step[p]
      BY <2>1, <2>3, <3>1, <3>2
    <3>. HIDE DEF step, next
    <3>. QED  BY <2>3, <3>1, <3>4, <3>5 DEF RestOfRound
  <2>. QED  BY <2>2, <2>3
<1>7. f = [buffer \in {b \in Seq(Byte) : Len(b) < SizeMod} |->
             LET round == Round(buffer)
                 rest == SubSeq(buffer, round.erased + 1, Len(buffer))
                 later == IF round.again THEN f[rest] ELSE [rest |-> rest, requests |-> <<>>]
             IN [rest |-> later.rest, requests |-> round.requests \o later.requests]]
  <2>. HIDE DEF V
  <2>. QED  BY <1>6 DEF Buffers
<1>8. extract_requests =
        [buffer \in {b \in Seq(Byte) : Len(b) < SizeMod} |->
             LET round == Round(buffer)
                 rest == SubSeq(buffer, round.erased + 1, Len(buffer))
                 later == IF round.again THEN extract_requests[rest]
                          ELSE [rest |-> rest, requests |-> <<>>]
             IN [rest |-> later.rest, requests |-> round.requests \o later.requests]]
  <2>. HIDE DEF base, next, step, size, V, Base
  <2>. QED  BY <1>7 DEF extract_requests, Erase
<1>9. ASSUME NEW b \in D
      PROVE  extract_requests[b] = Extracted(b, extract_requests[RestOfRound(b)])
  <2>1. b \in {c \in Seq(Byte) : Len(c) < SizeMod}
    BY DEF Buffers
  <2>2. extract_requests[b] =
             LET round == Round(b)
                 rest == SubSeq(b, round.erased + 1, Len(b))
                 later == IF round.again THEN extract_requests[rest]
                          ELSE [rest |-> rest, requests |-> <<>>]
             IN [rest |-> later.rest, requests |-> round.requests \o later.requests]
    <3>. HIDE DEF D
    <3>. QED  BY <1>8, <2>1
  <2>3. Round(b).requests \o <<>> = Round(b).requests
    BY <1>1, ConcatEmptySeq
  <2>. QED  BY <2>2, <2>3 DEF RestOfRound, Extracted
<1>. DEFINE Q == {b \in D : extract_requests[b] \in V}
<1>10. ASSUME NEW b \in D, \A c \in D : size[c] < size[b] => c \in Q
       PROVE  b \in Q
  <2>0. extract_requests[b] = Extracted(b, extract_requests[RestOfRound(b)])
    BY <1>9
  <2>1. CASE ~Round(b).again
    <3>1. extract_requests[b] = [rest |-> RestOfRound(b), requests |-> Round(b).requests]
      BY <2>0, <2>1 DEF Extracted
    <3>2. extract_requests[b] \in V
      BY <1>1, <3>1
    <3>. HIDE DEF V
    <3>. QED  BY <3>2
  <2>2. CASE Round(b).again
    <3>1. RestOfRound(b) \in D /\ size[RestOfRound(b)] < size[b]
      BY <1>1, <2>2
    <3>2. PICK v \in V : v = extract_requests[RestOfRound(b)]
      BY <1>10, <3>1
    <3>3. Round(b).requests \o v.requests \in Seq(Buffers)
      BY <1>1, ConcatProperties
    <3>4. extract_requests[b] = [rest |-> v.rest, requests |-> Round(b).requests \o v.requests]
      BY <2>0, <2>2, <3>2 DEF Extracted
    <3>5. extract_requests[b] \in V
      BY <3>3, <3>4
    <3>. HIDE DEF V
    <3>. QED  BY <3>5
  <2>. QED  BY <2>1, <2>2
<1>11. Q = D
  <2>1. Q \in SUBSET D /\ size \in [D -> Nat]
    BY <1>2
  <2>2. \A b \in D : (\A c \in D : size[c] < size[b] => c \in Q) => b \in Q
    <3>. HIDE DEF Q, size, D
    <3>. QED  BY <1>10
  <2>. HIDE DEF Q, size, D, V, Base, base, next, step
  <2>. QED  BY <2>1, <2>2, SizeInduction
<1>. HIDE DEF size, base, next, step, Base
<1>. QED  BY <1>1, <1>9, <1>11

\* Nothing is left that was not in the buffer.
LEMMA ExtractRest == \A b \in Buffers : Len(extract_requests[b].rest) <= Len(b)
<1>. DEFINE D == Buffers
            size == [b \in D |-> Len(b)]
            Q == {b \in D : Len(extract_requests[b].rest) <= Len(b)}
<1>1. size \in [D -> Nat] /\ Q \in SUBSET D
  BY LenProperties DEF Buffers
<1>2. ASSUME NEW b \in D, \A c \in D : size[c] < size[b] => c \in Q
      PROVE  b \in Q
  <2>1. CASE ~Round(b).again
    <3>1. extract_requests[b] = Extracted(b, extract_requests[RestOfRound(b)]) /\ Len(RestOfRound(b)) <= Len(b)
      BY ExtractEquation
    <3>. QED  BY <2>1, <3>1 DEF Extracted
  <2>2. CASE Round(b).again
    <3>1. PICK c \in Buffers : c = RestOfRound(b) /\ Len(c) < Len(b) /\ Len(c) \in Nat /\ Len(b) \in Nat
      BY <2>2, ExtractEquation, LenProperties DEF Buffers
    <3>2. Len(extract_requests[c].rest) <= Len(c) /\ Len(extract_requests[c].rest) \in Nat
      BY <1>2, <3>1, ExtractEquation, LenProperties DEF Buffers
    <3>3. extract_requests[b].rest = extract_requests[c].rest
      <4>1. extract_requests[b] = Extracted(b, extract_requests[c])
        BY <3>1, ExtractEquation
      <4>. QED  BY <2>2, <4>1 DEF Extracted
    <3>. QED  BY <3>1, <3>2, <3>3
  <2>. QED  BY <2>1, <2>2
<1>3. Q = D
  <2>1. \A b \in D : (\A c \in D : size[c] < size[b] => c \in Q) => b \in Q
    <3>. HIDE DEF Q, size, D
    <3>. QED  BY <1>2
  <2>. HIDE DEF Q, size, D
  <2>. QED  BY <1>1, <2>1, SizeInduction
<1>. QED  BY <1>3

\* What extract_requests() makes of a buffer alike the request s: nothing yet, or s
\* and what follows it.
LEMMA ExtractFirst ==
  ASSUME NEW s \in Seq(Byte), Len(s) <= LongMax,
         ReadArray(s, Decimal, 0..LongMax, 0..LongMax) # Failed,
         NEW b \in Buffers, Alike(s, b)
  PROVE  /\ Len(b) < Len(s) => extract_requests[b] = [rest |-> b, requests |-> <<>>]
         /\ Len(s) <= Len(b) =>
              /\ Len(s) > 0
              /\ SubSeq(b, Len(s) + 1, Len(b)) \in Buffers
              /\ extract_requests[b] =
                   [rest |-> extract_requests[SubSeq(b, Len(s) + 1, Len(b))].rest,
                    requests |-> <<s>> \o extract_requests[SubSeq(b, Len(s) + 1, Len(b))].requests]
<1>1. PICK k \in Nat, l \in Nat : k = Len(b) /\ l = Len(s) /\ b \in Seq(Byte)
  BY LenProperties DEF Buffers
<1>2. s \in Buffers
  BY <1>1, Sizes DEF Buffers
<1>3. PICK n \in 0..LongMax : \E h : /\ Heads(s, Decimal, n) /\ IsFrame(s, Decimal, 0..LongMax, h, n)
  <2>1. 0..LongMax \in SUBSET Nat
    OBVIOUS
  <2>. QED  BY <1>2, <2>1, ReadArrayFrame
<1>4. PICK h : Heads(s, Decimal, n) /\ IsFrame(s, Decimal, 0..LongMax, h, n)
  BY <1>3
<1>5. PICK e \in Nat : /\ e = LineEnd(s, 0) /\ EndsAt(s, e) /\ s[1] = "*"
                       /\ n = Decimal[SubSeq(s, 2, e)] /\ h[0].pos = e + 2
  BY <1>4 DEF Heads, IsFrame
<1>6. e + 2 <= l /\ n \in Nat /\ n < SizeMod
  <2>1. LongMax \in Nat /\ LongMax + 1 < SizeMod /\ SizeMod \in Nat
    BY Sizes
  <2>. QED  BY <1>1, <1>5, <2>1 DEF EndsAt
<1>. DEFINE d == LineEnd(b, 0)
            count == parse_decimal(SubSeq(b, 2, d))
            scan == ScanBulks(b, d + 2, count)
            Is(found, erased, again) == [requests |-> found, erased |-> erased, again |-> again]
<1>7. Round(b) =
        IF d = NotFound THEN Is(<<>>, 0, FALSE)
        ELSE IF b[1] # "*" THEN Is(<<SubSeq(b, 1, d + 2)>>, d + 2, TRUE)
        ELSE IF count = Invalid THEN Is(<<MalformedRequest>>, d + 2, TRUE)
        ELSE IF scan.status = "incomplete" THEN Is(<<>>, 0, FALSE)
        ELSE IF scan.status = "malformed" THEN Is(<<MalformedRequest>>, scan.pos, FALSE)
        ELSE Is(<<SubSeq(b, 1, scan.pos)>>, scan.pos, TRUE)
  BY DEF Round
<1>8. d = IF e + 2 <= k THEN e ELSE NotFound
  <2>1. LineEnd(s, 0) # NotFound
    BY <1>5 DEF NotFound
  <2>. QED  BY <1>1, <1>5, <2>1, LineEndAlike
<1>9. ASSUME e + 2 <= k
      PROVE  Round(b) = IF l <= k THEN Is(<<SubSeq(b, 1, l)>>, l, TRUE) ELSE Is(<<>>, 0, FALSE)
  <2>1. d = e /\ d # NotFound
    BY <1>8, <1>9 DEF NotFound
  <2>2. b[1] = "*"
    <3>1. 1 \in Nat /\ 1 <= l /\ 1 <= k
      BY <1>6, <1>9
    <3>. QED  BY <1>1, <1>5, <3>1 DEF Alike
  <2>3. PICK text \in Seq(Byte) : text = SubSeq(s, 2, e) /\ text = SubSeq(b, 2, e)
    <3>1. e <= Len(s) /\ e <= Len(b) /\ 2 \in Nat \ {0}
      BY <1>1, <1>6, <1>9
    <3>2. SubSeq(s, 2, e) = SubSeq(b, 2, e) /\ SubSeq(s, 2, e) \in Seq(Byte)
      BY <1>1, <3>1, PieceAlike
    <3>. QED  BY <3>2
  <2>4. count = n /\ count # Invalid
    <3>1. n = IF IsNumeral(text) THEN Value[text] ELSE Invalid
      BY <1>5, <2>3 DEF Decimal
    <3>2. n # Invalid
      BY <1>6, Sizes DEF Invalid
    <3>3. n % SizeMod = n
      <4>1. PICK m \in Nat : m = SizeMod /\ n < m
        BY <1>6, Sizes
      <4>2. n % m = n
        BY <1>6, <4>1
      <4>. QED  BY <4>1, <4>2
    <3>4. parse_decimal(text) = n
      BY <3>1, <3>2, <3>3 DEF parse_decimal
    <3>. QED  BY <2>1, <2>3, <3>2, <3>4
  <2>5. scan = IF l <= k THEN [status |-> "complete", pos |-> l]
               ELSE [status |-> "incomplete", pos |-> 0]
    <3>1. PICK p \in 1..Len(b) : p = e + 2 /\ p = h[0].pos
      BY <1>1, <1>5, <1>9
    <3>2. ScanBulks(b, p, n) = IF Len(s) <= Len(b) THEN [status |-> "complete", pos |-> Len(s)]
                               ELSE [status |-> "incomplete", pos |-> 0]
      BY <1>4, <1>6, <3>1, ScanFrame
    <3>3. scan = ScanBulks(b, p, n)
      BY <2>1, <2>4, <3>1
    <3>. HIDE DEF scan
    <3>. QED  BY <1>1, <3>2, <3>3
  <2>. HIDE DEF scan, count, d, Is
  <2>. QED  BY <1>7, <2>1, <2>2, <2>4, <2>5
<1>10. Round(b) = IF l <= k THEN Is(<<SubSeq(b, 1, l)>>, l, TRUE) ELSE Is(<<>>, 0, FALSE)
  <2>1. CASE e + 2 <= k
    BY <1>9, <2>1
  <2>2. CASE ~(e + 2 <= k)
    <3>1. d = NotFound /\ ~(l <= k)
      BY <1>6, <1>8, <2>2
    <3>. HIDE DEF scan, count, d, Is
    <3>. QED  BY <1>7, <3>1
  <2>. QED  BY <2>1, <2>2
<1>. HIDE DEF scan, count, d
<1>11. extract_requests[b] = Extracted(b, extract_requests[RestOfRound(b)])
  BY ExtractEquation
<1>12. ASSUME k < l PROVE extract_requests[b] = [rest |-> b, requests |-> <<>>]
  <2>1. Round(b) = Is(<<>>, 0, FALSE)
    BY <1>10, <1>12
  <2>2. SubSeq(b, 1, k) = b
    BY <1>1, SubSeqFull
  <2>3. RestOfRound(b) = b
    BY <1>1, <2>1, <2>2 DEF RestOfRound
  <2>. QED  BY <1>11, <2>1, <2>3 DEF Extracted
<1>13. ASSUME l <= k
       PROVE  /\ l > 0 /\ SubSeq(b, l + 1, k) \in Buffers
              /\ extract_requests[b] =
                   [rest |-> extract_requests[SubSeq(b, l + 1, k)].rest,
                    requests |-> <<s>> \o extract_requests[SubSeq(b, l + 1, k)].requests]
  <2>1. Round(b) = Is(<<SubSeq(b, 1, l)>>, l, TRUE)
    BY <1>10, <1>13
  <2>2. SubSeq(b, 1, l) = s
    <3>1. l <= Len(s) /\ l <= Len(b) /\ 1 \in Nat \ {0}
      BY <1>1, <1>13
    <3>2. SubSeq(s, 1, l) = SubSeq(b, 1, l)
      BY <1>1, <3>1, PieceAlike
    <3>3. SubSeq(s, 1, l) = s
      BY <1>1, SubSeqFull
    <3>. QED  BY <3>2, <3>3
  <2>3. RestOfRound(b) = SubSeq(b, l + 1, k)
    BY <1>1, <2>1 DEF RestOfRound
  <2>4. SubSeq(b, l + 1, k) \in Buffers
    BY <1>1, RestOf
  <2>5. Round(b).again /\ Round(b).requests = <<s>>
    BY <2>1, <2>2
  <2>6. PICK later : later = extract_requests[SubSeq(b, l + 1, k)]
    OBVIOUS
  <2>7. extract_requests[b] = [rest |-> later.rest, requests |-> <<s>> \o later.requests]
    BY <1>11, <2>3, <2>5, <2>6 DEF Extracted
  <2>8. l > 0
    BY <1>6
  <2>. QED  BY <2>4, <2>6, <2>7, <2>8
<1>. QED  BY <1>1, <1>12, <1>13

-----------------------------------------------------------------------------
(* Cutting a stream of requests.                                           *)

\* Requests whose size is that of a string.
AreRequests(lead) ==
  \A i \in 1..Len(lead) : /\ Len(lead[i]) <= LongMax
                          /\ ReadArray(lead[i], Decimal, 0..LongMax, 0..LongMax) # Failed

\* x is what is extracted from the stream between the first c requests of lead and
\* offset r: the requests of lead that are whole, and what is behind them; and
\* something more if the stream goes on behind lead.
IsCutAt(stream, lead, h, c, r, x, d) ==
  /\ Len(h[d]) <= r
  /\ \E more : x.requests = SubSeq(lead, c + 1, d) \o more /\ more \in Seq(Buffers)
               /\ (r <= Len(h[Len(lead)]) => more = <<>>)
  /\ d < Len(lead) => r < Len(h[d + 1])
  /\ r <= Len(h[Len(lead)]) => x.rest = SubSeq(stream, Len(h[d]) + 1, r)

\* For some number of requests.
IsCut(stream, lead, h, c, r, x) ==
  \E d \in c..Len(lead) : IsCutAt(stream, lead, h, c, r, x, d)

\* What is extracted from nothing.
LEMMA ExtractNothing == <<>> \in Buffers /\ extract_requests[<<>>] = [rest |-> <<>>, requests |-> <<>>]
<1>1. <<>> \in Seq(Byte) /\ Len(<<>>) = 0 /\ <<>> \in Buffers
  BY EmptySeq, Sizes DEF Buffers
<1>2. LineEnd(<<>>, 0) = NotFound
  <2>1. \A i \in Nat : ~EndsAt(<<>>, i)
    BY <1>1 DEF EndsAt
  <2>. QED  BY <1>1, <2>1, LineEndProps
<1>3. Round(<<>>) = [requests |-> <<>>, erased |-> 0, again |-> FALSE]
  BY <1>2 DEF Round
<1>4. RestOfRound(<<>>) = <<>>
  <2>1. SubSeq(<<>>, 1, 0) = <<>>
    BY SubSeqEmpty
  <2>. QED  BY <1>1, <1>3, <2>1 DEF RestOfRound
<1>5. extract_requests[<<>>] = Extracted(<<>>, extract_requests[RestOfRound(<<>>)])
  BY <1>1, ExtractEquation
<1>. QED  BY <1>1, <1>3, <1>4, <1>5 DEF Extracted

\* A request more in front.
LEMMA CutsMore ==
  ASSUME NEW stream, NEW lead \in Seq(Seq(Byte)), NEW h, NEW r, NEW x, NEW y,
         NEW c \in Nat, c < Len(lead), NEW d \in (c + 1)..Len(lead),
         lead[c + 1] \in Buffers, lead \in Seq(Buffers),
         x.rest = y.rest, x.requests = <<lead[c + 1]>> \o y.requests,
         IsCutAt(stream, lead, h, c + 1, r, y, d)
  PROVE  IsCutAt(stream, lead, h, c, r, x, d)
<1>1. PICK k \in Nat : k = Len(lead)
  BY LenProperties
<1>2. PICK more \in Seq(Buffers) :
        y.requests = SubSeq(lead, c + 2, d) \o more /\ (r <= Len(h[Len(lead)]) => more = <<>>)
  <2>1. PICK more : /\ y.requests = SubSeq(lead, (c + 1) + 1, d) \o more /\ more \in Seq(Buffers)
                    /\ r <= Len(h[Len(lead)]) => more = <<>>
    BY DEF IsCutAt
  <2>2. (c + 1) + 1 = c + 2
    OBVIOUS
  <2>. QED  BY <2>1, <2>2
<1>3. PICK m \in 1..Len(lead) : m = c + 1 /\ d \in m..Len(lead) /\ c + 2 = m + 1
  BY <1>1
<1>4. SubSeq(lead, m, d) = <<lead[m]>> \o SubSeq(lead, m + 1, d)
  BY <1>3, SubSeqRecursiveFirst
<1>5. PICK s \in Seq(Buffers), t \in Seq(Buffers) : s = <<lead[m]>> /\ t = SubSeq(lead, m + 1, d)
  <2>1. <<lead[m]>> \in Seq(Buffers)
    BY <1>3
  <2>2. SubSeq(lead, m + 1, d) \in Seq(Buffers)
    <3>1. m + 1 \in Nat \ {0} /\ d \in Int /\ d <= Len(lead)
      BY <1>1, <1>3
    <3>. QED  BY <3>1, Piece
  <2>. QED  BY <2>1, <2>2
<1>6. s \o (t \o more) = (s \o t) \o more
  <2>1. Associates(s, t, more)
    BY JoinAssociates
  <2>. QED  BY <2>1 DEF Associates
<1>7. x.requests = SubSeq(lead, c + 1, d) \o more
  BY <1>2, <1>3, <1>4, <1>5, <1>6
<1>. QED  BY <1>2, <1>7 DEF IsCutAt

\* Requests are taken out of the stream one by one, however far it has been read.
LEMMA ExtractMany ==
  ASSUME NEW stream \in Seq(Byte), NEW lead \in Seq(Seq(Byte)), AreRequests(lead),
         NEW h, Joins(h, Byte, lead), Placed(stream, 0, h[Len(lead)]),
         NEW c \in 0..Len(lead), NEW r \in 0..Len(stream),
         Len(h[c]) <= r, r - Len(h[c]) < SizeMod
  PROVE  IsCut(stream, lead, h, c, r, extract_requests[SubSeq(stream, Len(h[c]) + 1, r)])
<1>. DEFINE Between(i) == SubSeq(stream, Len(h[i]) + 1, r)
            Holds(i) == Len(h[i]) <= r /\ r - Len(h[i]) < SizeMod =>
                          IsCut(stream, lead, h, i, r, extract_requests[Between(i)])
<1>1. PICK k \in Nat, l \in Nat : k = Len(lead) /\ l = Len(stream)
  BY LenProperties
<1>2. \A i \in 0..k : h[i] \in Seq(Byte) /\ Len(h[i]) \in Nat
  BY <1>1, LenProperties DEF Joins
<1>3. lead \in Seq(Buffers) /\ \A i \in 1..k : lead[i] \in Buffers /\ lead[i] \in Seq(Byte)
  <2>1. \A i \in 1..k : lead[i] \in Buffers /\ lead[i] \in Seq(Byte)
    <3>. TAKE i \in 1..k
    <3>1. lead[i] \in Seq(Byte) /\ Len(lead[i]) \in Nat
      BY <1>1, ElementOfSeq, LenProperties
    <3>2. Len(lead[i]) <= LongMax
      BY <1>1 DEF AreRequests
    <3>. QED  BY <3>1, <3>2, Sizes DEF Buffers
  <2>2. lead \in [1..k -> Buffers]
    BY <1>1, <2>1, LenProperties
  <2>3. lead \in Seq(Buffers)
    BY <2>2, SeqDef
  <2>. QED  BY <2>1, <2>3
<1>4. SizeMod \in Nat
  BY Sizes
<1>5. r \in Nat /\ r <= l
  BY <1>1
<1>6. ASSUME NEW i \in 0..k, Len(h[i]) <= r, r - Len(h[i]) < SizeMod
      PROVE  /\ Between(i) \in Buffers /\ Len(Between(i)) = r - Len(h[i])
             /\ \A j \in 1..(r - Len(h[i])) : Between(i)[j] = stream[Len(h[i]) + j]
  <2>0. PICK v \in Nat : v = Len(h[i]) /\ v <= r
    BY <1>2, <1>6
  <2>1. PICK q \in Nat \ {0} : q = v + 1 /\ q = Len(h[i]) + 1
    BY <2>0
  <2>2. /\ SubSeq(stream, q, r) \in Seq(Byte)
        /\ Len(SubSeq(stream, q, r)) = IF q <= r THEN r - q + 1 ELSE 0
        /\ \A j \in 1..(r - q + 1) : SubSeq(stream, q, r)[j] = stream[q + j - 1]
    BY SMTT(30), <1>1, <1>5, Piece
  <2>3. Len(SubSeq(stream, q, r)) = r - Len(h[i])
    <3>1. (IF q <= r THEN r - q + 1 ELSE 0) = r - v
      <4>1. q = v + 1 /\ v <= r /\ r \in Nat /\ v \in Nat
        BY <1>5, <2>0, <2>1
      <4>2. \A a, d \in Nat : d <= a => (IF d + 1 <= a THEN a - (d + 1) + 1 ELSE 0) = a - d
        OBVIOUS
      <4>. QED  BY <4>1, <4>2
    <3>2. PICK n : n = Len(SubSeq(stream, q, r)) /\ n = IF q <= r THEN r - q + 1 ELSE 0
      BY <2>2
    <3>. QED  BY <2>0, <3>1, <3>2
  <2>4. \A j \in 1..(r - Len(h[i])) : j \in 1..(r - q + 1) /\ q + j - 1 = Len(h[i]) + j
    <3>1. q = v + 1 /\ r \in Nat
      BY <1>5, <2>0, <2>1
    <3>2. \A j \in 1..(r - v) : j \in 1..(r - q + 1) /\ q + j - 1 = v + j
      BY <3>1
    <3>. QED  BY <2>0, <3>2
  <2>. QED  BY <1>2, <1>4, <1>5, <1>6, <2>1, <2>2, <2>3, <2>4 DEF Buffers
<1>7. Holds(k)
  <2>. SUFFICES ASSUME Len(h[k]) <= r, r - Len(h[k]) < SizeMod
                PROVE  IsCut(stream, lead, h, k, r, extract_requests[Between(k)])
    OBVIOUS
  <2>1. k \in 0..k /\ k \in k..k /\ Len(h[k]) \in Nat
    BY <1>2
  <2>2. PICK b \in Buffers : b = Between(k) /\ Len(b) = r - Len(h[k])
    BY <1>6, <2>1
  <2>3. PICK x : x = extract_requests[b] /\ x.requests \in Seq(Buffers)
    BY ExtractEquation
  <2>4. SubSeq(lead, k + 1, k) = <<>>
    BY SubSeqEmpty
  <2>5. <<>> \o x.requests = x.requests
    BY <2>3, ConcatEmptySeq
  <2>6. r <= Len(h[k]) => x.requests = <<>> /\ x.rest = b
    <3>. SUFFICES ASSUME r <= Len(h[k]) PROVE x.requests = <<>> /\ x.rest = b
      OBVIOUS
    <3>1. Len(b) = 0
      BY <1>5, <2>1, <2>2
    <3>2. b = <<>>
      BY <3>1, EmptySeq DEF Buffers
    <3>. QED  BY <2>3, <3>2, ExtractNothing
  <2>7. IsCutAt(stream, lead, h, k, r, x, k)
    <3>1. PICK more \in Seq(Buffers) : more = x.requests
      BY <2>3
    <3>2. x.requests = SubSeq(lead, k + 1, k) \o more
      BY <2>4, <2>5, <3>1
    <3>3. r <= Len(h[Len(lead)]) => more = <<>> /\ x.rest = SubSeq(stream, Len(h[k]) + 1, r)
      BY <1>1, <2>2, <2>6, <3>1
    <3>4. ~(k < Len(lead))
      BY <1>1
    <3>. QED  BY <3>2, <3>3, <3>4 DEF IsCutAt
  <2>. QED  BY <1>1, <2>1, <2>2, <2>3, <2>7 DEF IsCut
<1>8. ASSUME NEW i \in 1..k, Holds(i) PROVE Holds(i - 1)
  <2>. SUFFICES ASSUME Len(h[i - 1]) <= r, r - Len(h[i - 1]) < SizeMod
                PROVE  IsCut(stream, lead, h, i - 1, r, extract_requests[Between(i - 1)])
    OBVIOUS
  <2>1. PICK j \in 0..k : j = i - 1 /\ j + 1 = i /\ j < k
    BY <1>1
  <2>2. PICK b \in Buffers : /\ b = Between(j) /\ Len(b) = r - Len(h[j])
                             /\ \A m \in 1..(r - Len(h[j])) : b[m] = stream[Len(h[j]) + m]
    BY <1>6, <2>1
  <2>3. PICK p \in Nat, q \in Nat, s \in Seq(Byte) :
          /\ p = Len(h[j]) /\ s = lead[i] /\ q = Len(s) /\ Len(h[i]) = p + q
          /\ Placed(h[k], p, s)
    <3>1. i \in 1..Len(lead)
      BY <1>1
    <3>2. /\ h[i] = h[i - 1] \o lead[i] /\ lead[i] \in Seq(Byte)
          /\ Len(h[i - 1]) \in Nat /\ Len(lead[i]) \in Nat
          /\ Len(h[i]) = Len(h[i - 1]) + Len(lead[i])
          /\ Placed(h[Len(lead)], Len(h[i - 1]), lead[i])
      BY <3>1, JoinsPlaced
    <3>. QED  BY <1>1, <2>1, <3>2
  <2>4. b \in Seq(Byte) /\ Len(b) = r - p /\ r >= p /\ r - p < SizeMod
    BY <2>1, <2>2, <2>3 DEF Buffers
  <2>5. /\ p + q <= l
        /\ \A m \in 1..q : s[m] = stream[p + m]
    <3>1. PICK z \in Nat : z = Len(h[k])
      <4>1. k \in 0..k
        OBVIOUS
      <4>. QED  BY <1>2, <4>1
    <3>2. p + q <= z /\ \A m \in 1..q : h[k][p + m] = s[m]
      BY <2>3, <3>1 DEF Placed
    <3>3. z <= l /\ \A m \in 1..z : stream[0 + m] = h[k][m]
      BY SMTT(30), <1>1, <3>1 DEF Placed
    <3>4. \A m \in 1..q : p + m \in 1..z /\ 0 + (p + m) = p + m
      BY SMTT(30), <3>2
    <3>5. \A m \in 1..q : stream[p + m] = h[k][p + m]
      BY <3>3, <3>4
    <3>. QED  BY <3>2, <3>3, <3>5
  <2>6. Alike(s, b)
    <3>. SUFFICES ASSUME NEW m \in Nat, m >= 1, m <= Len(s), m <= Len(b) PROVE s[m] = b[m]
      BY DEF Alike
    <3>1. m \in 1..q /\ m \in 1..(r - p)
      BY <1>5, <2>3, <2>4
    <3>. QED  BY <2>2, <2>3, <2>5, <3>1
  <2>7. Len(s) <= LongMax /\ ReadArray(s, Decimal, 0..LongMax, 0..LongMax) # Failed
    BY <1>1, <2>3 DEF AreRequests
  <2>8. PICK x : x = extract_requests[b]
    OBVIOUS
  <2>9. CASE r - p < q
    <3>1. x = [rest |-> b, requests |-> <<>>]
      BY <2>3, <2>4, <2>6, <2>7, <2>8, <2>9, ExtractFirst
    <3>2. SubSeq(lead, j + 1, j) = <<>> /\ <<>> \in Seq(Buffers)
      BY SubSeqEmpty, EmptySeq
    <3>3. <<>> \o <<>> = <<>>
      BY <3>2, ConcatEmptySeq
    <3>4. Len(h[j + 1]) = p + q /\ r < p + q
      <4>1. h[j + 1] = h[i]
        BY <2>1
      <4>2. r < p + q
        BY <1>5, <2>9
      <4>. QED  BY <2>3, <4>1, <4>2
    <3>5. IsCutAt(stream, lead, h, j, r, x, j)
      BY <1>1, <2>1, <2>2, <2>3, <2>4, <3>1, <3>2, <3>3, <3>4 DEF IsCutAt
    <3>. QED  BY <1>1, <2>1, <2>2, <2>8, <3>5 DEF IsCut
  <2>10. CASE q <= r - p
    <3>1. SubSeq(b, q + 1, Len(b)) \in Buffers
      BY <2>3, <2>4, <2>6, <2>7, <2>10, ExtractFirst
    <3>2. Len(h[i]) <= r /\ r - Len(h[i]) < SizeMod /\ q > 0 /\ p + q <= r
      <4>1. q > 0
        BY <2>3, <2>4, <2>6, <2>7, <2>10, ExtractFirst
      <4>2. p + q <= r /\ r - (p + q) < SizeMod
        BY <1>4, <1>5, <2>4, <2>10
      <4>. QED  BY <2>3, <4>1, <4>2
    <3>3. PICK a \in Buffers : /\ a = Between(i) /\ Len(a) = r - (p + q)
                               /\ \A m \in 1..(r - (p + q)) : a[m] = stream[(p + q) + m]
      <4>1. i \in 0..k /\ Len(h[i]) = p + q
        BY <2>3
      <4>2. /\ Between(i) \in Buffers /\ Len(Between(i)) = r - Len(h[i])
            /\ \A m \in 1..(r - Len(h[i])) : Between(i)[m] = stream[Len(h[i]) + m]
        BY <1>6, <3>2, <4>1
      <4>. HIDE DEF Between
      <4>. QED  BY <4>1, <4>2
    <3>4. SubSeq(b, q + 1, Len(b)) = a
      <4>1. PICK t : t = SubSeq(b, q + 1, r - p)
        OBVIOUS
      <4>2. PICK n \in Nat \ {0}, u \in Nat : n = q + 1 /\ u = r - p
        BY <1>5, <2>4
      <4>3. /\ t \in Seq(Byte) /\ Len(t) = (IF n <= u THEN u - n + 1 ELSE 0)
            /\ \A m \in 1..(u - n + 1) : t[m] = b[n + m - 1]
        BY SMTT(30), <2>4, <4>1, <4>2, Piece
      <4>4. Len(t) = Len(a)
        <5>1. (IF n <= u THEN u - n + 1 ELSE 0) = r - (p + q)
          BY <1>5, <2>10, <3>2, <4>2
        <5>. QED  BY <3>3, <4>3, <5>1
      <4>5. \A m \in 1..Len(t) : t[m] = a[m]
        <5>. TAKE m \in 1..Len(t)
        <5>0. u - n + 1 = r - (p + q) /\ r - (p + q) \in Nat
          BY <1>5, <3>2, <4>2
        <5>1. m \in 1..(u - n + 1) /\ m \in 1..(r - (p + q)) /\ n + m - 1 = q + m
          BY <3>3, <4>2, <4>4, <5>0
        <5>2. q + m \in 1..(r - p) /\ p + (q + m) = (p + q) + m
          BY <1>5, <5>1
        <5>3. t[m] = b[q + m] /\ a[m] = stream[(p + q) + m]
          BY <3>3, <4>3, <5>1
        <5>4. PICK v \in 1..(r - p) : v = q + m /\ p + v = (p + q) + m
          BY <5>2
        <5>5. b[v] = stream[p + v]
          BY <2>2, <2>3, <5>4
        <5>. QED  BY <5>3, <5>4, <5>5
      <4>6. a \in Seq(Byte)
        BY DEF Buffers
      <4>7. t = a
        BY <4>3, <4>4, <4>5, <4>6, SeqEqual
      <4>. QED  BY <2>4, <4>1, <4>7
    <3>5. PICK y : y = extract_requests[a]
      OBVIOUS
    <3>6. x = [rest |-> y.rest, requests |-> <<s>> \o y.requests]
      BY ZenonT(30), <2>3, <2>4, <2>6, <2>7, <2>8, <2>10, <3>4, <3>5, ExtractFirst
    <3>7. PICK d \in i..k : IsCutAt(stream, lead, h, i, r, y, d)
      BY <1>1, <1>8, <3>2, <3>3, <3>5 DEF IsCut
    <3>8. IsCutAt(stream, lead, h, j, r, x, d)
      <4>1. /\ j \in Nat /\ j < Len(lead) /\ d \in (j + 1)..Len(lead) /\ lead[j + 1] \in Buffers
            /\ x.rest = y.rest /\ x.requests = <<lead[j + 1]>> \o y.requests
            /\ IsCutAt(stream, lead, h, j + 1, r, y, d)
        BY SMTT(30), <1>1, <1>3, <2>1, <2>3, <3>6, <3>7
      <4>. QED  BY <1>3, <4>1, CutsMore
    <3>9. d \in j..k
      BY <2>1
    <3>. QED  BY <1>1, <2>1, <2>2, <2>8, <3>8, <3>9 DEF IsCut
  <2>11. r - p < q \/ q <= r - p
    BY <1>5
  <2>. QED  BY <2>9, <2>10, <2>11
<1>. HIDE DEF Holds
<1>. DEFINE P == {i \in 0..k : Holds(k - i)}
<1>9. P \in SUBSET (0..k) /\ 0 \in P
  BY <1>7
<1>10. \A i \in 1..k : i - 1 \in P => i \in P
  <2>. SUFFICES ASSUME NEW i \in 1..k, Holds(k - (i - 1)) PROVE Holds(k - i)
    OBVIOUS
  <2>1. PICK j \in 1..k : j = k - (i - 1) /\ j - 1 = k - i
    OBVIOUS
  <2>. QED  BY <1>8, <2>1
<1>11. P = 0..k
  <2>. HIDE DEF P
  <2>. QED  BY <1>9, <1>10, UpToInduction
<1>12. Holds(c)
  <2>1. k - c \in 0..k /\ k - (k - c) = c
    BY <1>1
  <2>2. k - c \in P
    BY <1>11, <2>1
  <2>. QED  BY <2>1, <2>2
<1>. QED  BY <1>12 DEF Holds

-----------------------------------------------------------------------------
(* What is written is read.                                                *)

\* A line with no "\r" in it ends where the text does.
LEMMA LineOf ==
  ASSUME NEW s \in Seq(Byte), NEW p \in Nat, NEW text \in Seq(Byte),
         Placed(s, p, text), Placed(s, p + Len(text), CRLF),
         \A i \in 1..Len(text) : text[i] # "\r"
  PROVE  LineEnd(s, p) = p + Len(text) /\ EndsAt(s, p + Len(text))
<1>1. PICK n \in Nat, m \in Nat, e \in Nat : n = Len(s) /\ m = Len(text) /\ e = p + m
  BY LenProperties
<1>2. EndsAt(s, e)
  <2>1. Len(CRLF) = 2 /\ CRLF[1] = "\r" /\ CRLF[2] = "\n"
    BY RespAssumption DEF CRLF
  <2>2. s[e + 1] = CRLF[1] /\ s[e + 2] = CRLF[2] /\ e + 2 <= Len(s)
    <3>1. Placed(s, e, CRLF) /\ Len(s) \in Nat
      BY <1>1
    <3>. HIDE DEF CRLF
    <3>. QED  BY <2>1, <3>1, PlacedTwo
  <2>. QED  BY <2>1, <2>2 DEF EndsAt
<1>3. \A i \in Nat : i >= p /\ i < e => ~EndsAt(s, i)
  <2>. SUFFICES ASSUME NEW i \in Nat, i >= p, i < e PROVE ~EndsAt(s, i)
    OBVIOUS
  <2>1. PICK j \in 1..m : j = i - p + 1 /\ p + j = i + 1
    BY <1>1
  <2>2. s[p + j] = text[j]
    BY <1>1 DEF Placed
  <2>3. s[i + 1] # "\r"
    BY <1>1, <2>1, <2>2
  <2>. QED  BY <2>3 DEF EndsAt
<1>4. LineEnd(s, p) = e
  <2>1. e >= p
    BY <1>1
  <2>2. PICK l : l = LineEnd(s, p)
    OBVIOUS
  <2>3. \/ /\ l = NotFound
           /\ \A i \in Nat : i >= p => ~EndsAt(s, i)
        \/ /\ l \in Nat /\ l >= p
           /\ EndsAt(s, l)
           /\ \A i \in Nat : i >= p /\ i < l => ~EndsAt(s, i)
    BY <2>2, LineEndProps
  <2>. QED  BY <1>2, <1>3, <2>1, <2>2, <2>3
<1>. QED  BY <1>1, <1>2, <1>4

\* A number that is written in decimal and how it is read.
LEMMA NumberRead ==
  ASSUME NEW n \in Nat
  PROVE  /\ Decimal[Numeral[n]] = n
         /\ from_chars[Numeral[n]] = IF n <= LongMax THEN n ELSE Invalid
<1>1. PICK text : text = Numeral[n]
  OBVIOUS
<1>2. text \in Seq(Digits) /\ text # <<>> /\ Value[text] = n /\ text \in Seq(Byte)
  BY <1>1, NumeralProps, NumeralType
<1>3. IsNumeral(text)
  BY <1>2, DigitProps DEF IsNumeral
<1>4. Unsigned(text) = text /\ Head(text) # "-"
  <2>1. text[1] \in Digits
    <3>1. Len(text) \in Nat /\ Len(text) # 0
      BY <1>2, EmptySeq, LenProperties
    <3>2. 1 \in 1..Len(text)
      BY <3>1
    <3>. QED  BY <1>2, <3>2, ElementOfSeq
  <2>2. Head(text) = text[1]
    BY <1>2, HeadTailProperties
  <2>. QED  BY <2>1, <2>2, DigitProps DEF Unsigned
<1>5. Signed(text, text) = IF n <= LongMax THEN n ELSE Invalid
  <2>1. Value[text] > LongMax <=> ~(n <= LongMax)
    BY <1>2, Sizes
  <2>. QED  BY <1>2, <1>4, <2>1 DEF Signed
<1>6. Decimal[text] = n
  BY <1>2, <1>3 DEF Decimal
<1>7. from_chars[text] = Signed(text, text)
  BY <1>2, <1>3, <1>4 DEF from_chars
<1>. QED  BY <1>1, <1>5, <1>6, <1>7

\* Functions that read a decimal number up to LongMax.
Reads(number) == \A n \in 0..LongMax : number[Numeral[n]] = n

\* Both parsers of requests use such functions.
LEMMA BothRead == Reads(Decimal) /\ Reads(from_chars)
<1>1. \A n \in 0..LongMax : n \in Nat /\ n <= LongMax
  BY Sizes
<1>. QED  BY <1>1, NumberRead DEF Reads

\* A marker and the number n.
IsHead(head, mark, n) ==
  /\ head \in Seq(Byte) /\ Len(head) = 1 + Len(Numeral[n]) /\ head[1] = mark
  /\ Placed(head, 1, Numeral[n])
  /\ \A i \in 1..Len(head) : head[i] # "\r"

\* That is how the first line of a bulk string or an array begins.
LEMMA HeadIs ==
  ASSUME NEW mark \in Byte, mark # "\r", NEW n \in Nat
  PROVE  IsHead(<<mark>> \o Numeral[n], mark, n)
<1>1. PICK num \in Seq(Byte), first \in Seq(Byte) :
        num = Numeral[n] /\ first = <<mark>> /\ Len(first) = 1 /\ first[1] = mark
  BY NumeralType, OneElement
<1>2. PICK head \in Seq(Byte), m \in Nat :
        head = first \o num /\ m = Len(num) /\ Len(head) = 1 + m
        /\ IsJoin(head, first, num) /\ Placed(head, Len(first), num)
  <2>1. first \o num \in Seq(Byte) /\ IsJoin(first \o num, first, num)
        /\ Len(first \o num) = Len(first) + Len(num) /\ Placed(first \o num, Len(first), num)
    BY JoinIs, JoinPlaced
  <2>2. Len(num) \in Nat
    BY LenProperties
  <2>. QED  BY <1>1, <2>1, <2>2
<1>3. head[1] = mark
  <2>1. 1 \in 1..Len(first)
    BY <1>1
  <2>. QED  BY <1>1, <1>2, <2>1 DEF IsJoin
<1>4. \A i \in 1..Len(head) : head[i] # "\r"
  <2>. SUFFICES ASSUME NEW i \in 1..Len(head) PROVE head[i] # "\r"
    OBVIOUS
  <2>1. CASE i = 1
    BY <1>3, <2>1
  <2>2. CASE i # 1
    <3>1. PICK j \in 1..m : i = 1 + j
      BY <1>2, <2>2
    <3>2. head[1 + j] = num[j]
      BY <1>1, <1>2, <3>1 DEF IsJoin
    <3>3. num[j] \in Digits
      <4>1. num \in Seq(Digits)
        BY <1>1, NumeralProps
      <4>. QED  BY <1>2, <4>1, ElementOfSeq
    <3>. QED  BY <3>1, <3>2, <3>3, DigitProps
  <2>. QED  BY <2>1, <2>2
<1>. QED  BY <1>1, <1>2, <1>3, <1>4 DEF IsHead

\* How such a line is read at offset p.
HeadAt(s, p, head, mark, n) ==
  /\ s[p + 1] = mark /\ Len(head) \in Nat /\ Len(head) >= 1
  /\ LineEnd(s, p) = p + Len(head) /\ EndsAt(s, p + Len(head))
  /\ SubSeq(s, p + 2, p + Len(head)) = Numeral[n]

\* The head of a bulk string or an array inside of a text is read as its number.
LEMMA HeadRead ==
  ASSUME NEW s \in Seq(Byte), NEW p \in Nat, NEW mark, NEW n \in Nat, NEW head,
         IsHead(head, mark, n), Placed(s, p, head), Placed(s, p + Len(head), CRLF)
  PROVE  HeadAt(s, p, head, mark, n)
<1>1. PICK num \in Seq(Byte) : num = Numeral[n]
  BY NumeralType
<1>2. PICK m \in Nat, l \in Nat, k \in Nat :
        m = Len(num) /\ l = Len(head) /\ l = 1 + m /\ k = Len(s) /\ Len(head) \in Nat
        /\ Len(num) \in Nat
  <2>1. Len(num) \in Nat /\ Len(s) \in Nat
    BY LenProperties
  <2>2. Len(head) = 1 + Len(num)
    BY <1>1 DEF IsHead
  <2>. QED  BY <2>1, <2>2
<1>3. s[p + 1] = head[1]
  <2>1. 1 \in 1..Len(head)
    BY <1>2
  <2>. QED  BY <2>1 DEF Placed
<1>4. LineEnd(s, p) = p + Len(head) /\ EndsAt(s, p + Len(head))
  BY LineOf DEF IsHead
<1>5. Placed(s, p + 1, num)
  <2>1. Placed(head, 1, num)
    BY <1>1 DEF IsHead
  <2>2. Len(s) \in Nat
    BY <1>2
  <2>. QED  BY <1>2, <2>1, <2>2, PlacedInside
<1>6. SubSeq(s, (p + 1) + 1, (p + 1) + Len(num)) = num
  <2>1. PICK q \in Nat : q = p + 1
    OBVIOUS
  <2>2. SubSeq(s, q + 1, q + Len(num)) = num
    BY <1>5, <2>1, PlacedPiece
  <2>. QED  BY <2>1, <2>2
<1>7. (p + 1) + 1 = p + 2 /\ (p + 1) + Len(num) = p + Len(head)
  BY <1>2
<1>8. SubSeq(s, p + 2, p + Len(head)) = num
  BY <1>6, <1>7
<1>. QED  BY <1>1, <1>2, <1>3, <1>4, <1>8 DEF IsHead, HeadAt

\* The parts of a bulk string.
IsBulkText(text, head, value) ==
  /\ text \in Seq(Byte) /\ IsHead(head, "$", Len(value))
  /\ Len(text) = Len(head) + 2 + Len(value) + 2
  /\ Placed(text, 0, head) /\ Placed(text, Len(head), CRLF)
  /\ Placed(text, Len(head) + 2, value) /\ Placed(text, Len(head) + 2 + Len(value), CRLF)

\* resp_bulk_string() writes these parts.
LEMMA BulkParts ==
  ASSUME NEW value \in Seq(Byte)
  PROVE  \E head : IsBulkText(resp_bulk_string(value), head, value)
<1>1. PICK v \in Nat : v = Len(value)
  BY LenProperties
<1>2. PICK end \in Seq(Byte) : end = CRLF /\ Len(end) = 2
  <2>1. "\r" \in Byte /\ "\n" \in Byte
    BY RespAssumption
  <2>2. <<"\r", "\n">> \in Seq(Byte) /\ Len(<<"\r", "\n">>) = 2
    BY <2>1, TwoElements
  <2>3. CRLF \in Seq(Byte) /\ Len(CRLF) = 2
    BY <2>2 DEF CRLF
  <2>. QED  BY <2>3
<1>3. PICK head \in Seq(Byte) : head = <<"$">> \o Numeral[v] /\ IsHead(head, "$", v)
  <2>1. "$" \in Byte /\ "$" # "\r"
    BY RespAssumption
  <2>2. IsHead(<<"$">> \o Numeral[v], "$", v)
    BY <2>1, HeadIs
  <2>3. <<"$">> \o Numeral[v] \in Seq(Byte)
    BY <2>2 DEF IsHead
  <2>. QED  BY <2>2, <2>3
<1>4. PICK l \in Nat : l = Len(head)
  BY LenProperties
<1>5. PICK a \in Seq(Byte) : a = head \o end /\ Len(a) = l + 2
                             /\ Placed(a, 0, head) /\ Placed(a, l, end)
  BY <1>2, <1>4, JoinPlaced
<1>6. PICK b \in Seq(Byte) : b = a \o value /\ Len(b) = (l + 2) + v
                             /\ Placed(b, 0, a) /\ Placed(b, l + 2, value)
  BY ZenonT(30), <1>1, <1>5, JoinPlaced
<1>7. PICK c \in Seq(Byte) : c = b \o end /\ Len(c) = ((l + 2) + v) + 2
                             /\ Placed(c, 0, b) /\ Placed(c, (l + 2) + v, end)
  BY ZenonT(30), <1>2, <1>6, JoinPlaced
<1>8. c = resp_bulk_string(value)
  BY <1>1, <1>2, <1>3, <1>5, <1>6, <1>7 DEF resp_bulk_string
<1>9. Len(a) \in Nat /\ Len(b) \in Nat /\ Len(c) \in Nat /\ Len(head) \in Nat
      /\ Len(end) \in Nat /\ Len(value) \in Nat
  BY LenProperties
<1>10. Placed(c, 0, a)
  <2>1. Placed(c, 0 + 0, a)
    BY <1>6, <1>7, <1>9, PlacedInside
  <2>. QED  BY <2>1
<1>11. Placed(c, 0, head) /\ Placed(c, l, end)
  <2>1. Placed(c, 0 + 0, head) /\ Placed(c, 0 + l, end)
    BY <1>5, <1>9, <1>10, PlacedInside
  <2>2. 0 + l = l
    OBVIOUS
  <2>. QED  BY <2>1, <2>2
<1>12. Placed(c, l + 2, value)
  <2>1. PICK q \in Nat : q = l + 2
    OBVIOUS
  <2>2. Placed(c, 0 + q, value)
    BY <1>6, <1>7, <1>9, <2>1, PlacedInside
  <2>3. 0 + q = q
    OBVIOUS
  <2>. QED  BY <2>1, <2>2, <2>3
<1>. QED  BY <1>1, <1>2, <1>3, <1>4, <1>7, <1>8, <1>11, <1>12 DEF IsBulkText

\* How a bulk string inside of a request is read.
LEMMA BulkRead ==
  ASSUME NEW s \in Seq(Byte), Len(s) <= LongMax, NEW p \in Nat,
         NEW value \in Seq(Byte), NEW text, NEW head, IsBulkText(text, head, value),
         Placed(s, p, text), NEW number, Reads(number),
         NEW x, x.pos = p, NEW y, y.pos = p + Len(text), y.parts = Append(x.parts, value)
  PROVE  IsBulk(s, number, 0..LongMax, x, y)
<1>1. PICK v \in Nat, l \in Nat, n \in Nat, k \in Nat :
        /\ v = Len(value) /\ l = Len(head) /\ n = Len(s) /\ k = Len(text)
        /\ k = ((l + 2) + v) + 2 /\ l + 1 >= 2
  <2>1. Len(value) \in Nat /\ Len(s) \in Nat
    BY LenProperties
  <2>2. head \in Seq(Byte) /\ text \in Seq(Byte) /\ Len(text) = Len(head) + 2 + Len(value) + 2
        /\ IsHead(head, "$", Len(value))
    BY DEF IsBulkText, IsHead
  <2>3. Len(head) \in Nat /\ Len(text) \in Nat
    BY <2>2, LenProperties
  <2>4. Len(head) >= 1
    <3>1. Len(Numeral[Len(value)]) \in Nat
      BY <2>1, NumeralType, LenProperties
    <3>. QED  BY <2>2, <2>3, <3>1 DEF IsHead
  <2>. QED  BY <2>1, <2>2, <2>3, <2>4
<1>2. p + k <= n /\ n <= LongMax /\ v \in 0..LongMax
  <2>1. p + k <= n
    BY <1>1 DEF Placed
  <2>. QED  BY <1>1, <2>1, Sizes
<1>3. /\ Placed(text, 0, head) /\ Placed(text, l, CRLF)
      /\ Placed(text, l + 2, value) /\ Placed(text, (l + 2) + v, CRLF)
  BY <1>1 DEF IsBulkText
<1>4. Len(CRLF) = 2
  BY RespAssumption DEF CRLF
<1>5. Len(s) \in Nat /\ Len(text) \in Nat /\ Len(head) \in Nat /\ Len(value) \in Nat
  BY <1>1
<1>6. Placed(s, p, head)
  <2>1. Placed(s, p + 0, head)
    BY <1>3, <1>5, PlacedInside
  <2>. QED  BY <2>1
<1>7. PICK e \in Nat : e = p + l /\ Placed(s, e, CRLF)
  <2>1. Placed(s, p + l, CRLF)
    BY <1>3, <1>4, <1>5, PlacedInside
  <2>. QED  BY <2>1
<1>8. PICK q \in Nat : q = e + 2 /\ Placed(s, q, value)
  <2>1. PICK d \in Nat : d = l + 2
    OBVIOUS
  <2>2. Placed(s, p + d, value)
    BY <1>3, <1>5, <2>1, PlacedInside
  <2>3. p + d = e + 2
    BY <1>7, <2>1
  <2>. QED  BY <2>2, <2>3
<1>9. PICK z \in Nat : z = q + v /\ Placed(s, z, CRLF)
  <2>1. PICK d \in Nat : d = (l + 2) + v
    OBVIOUS
  <2>2. Placed(s, p + d, CRLF)
    BY <1>3, <1>4, <1>5, <2>1, PlacedInside
  <2>3. PICK z \in Nat : z = p + d /\ z = q + v
    BY <1>7, <1>8, <2>1
  <2>. QED  BY <2>2, <2>3
<1>10. /\ s[p + 1] = "$" /\ LineEnd(s, p) = e /\ EndsAt(s, e)
       /\ SubSeq(s, p + 2, e) = Numeral[v]
  <2>1. Placed(s, p + Len(head), CRLF)
    BY <1>1, <1>7
  <2>2. PICK mark : mark = "$"
    OBVIOUS
  <2>3. IsHead(head, mark, v)
    BY <1>1, <2>2 DEF IsBulkText
  <2>4. HeadAt(s, p, head, mark, v)
    BY <1>6, <2>1, <2>3, HeadRead
  <2>. QED  BY <1>1, <1>7, <2>2, <2>4 DEF HeadAt
<1>11. number[Numeral[v]] = v
  BY <1>2 DEF Reads
<1>12. EndsAt(s, z) /\ z + 2 = p + k
  <2>1. s[z + 1] = CRLF[1] /\ s[z + 2] = CRLF[2] /\ z + 2 <= Len(s)
    <3>. HIDE DEF CRLF
    <3>. QED  BY <1>4, <1>5, <1>9, PlacedTwo
  <2>2. CRLF[1] = "\r" /\ CRLF[2] = "\n"
    BY DEF CRLF
  <2>3. z + 2 = p + k
    BY <1>1, <1>7, <1>8, <1>9
  <2>. QED  BY <2>1, <2>2, <2>3 DEF EndsAt
<1>13. SubSeq(s, e + 3, z) = value
  <2>1. SubSeq(s, q + 1, q + Len(value)) = value
    BY <1>8, PlacedPiece
  <2>2. q + 1 = e + 3 /\ q + Len(value) = z
    BY <1>1, <1>8, <1>9
  <2>. QED  BY <2>1, <2>2
<1>14. z = e + 2 + v /\ e >= p /\ y.pos = z + 2 /\ y.pos <= Len(s)
  BY <1>1, <1>2, <1>7, <1>8, <1>9, <1>12
<1>. QED  BY <1>2, <1>10, <1>11, <1>12, <1>13, <1>14 DEF IsBulk

\* A request for the arguments is read as them.
LEMMA RequestFrame ==
  ASSUME NEW arguments \in Seq(Seq(Byte)), Len(encode_resp(arguments)) <= LongMax,
         NEW number, Reads(number)
  PROVE  /\ Len(arguments) \in 0..LongMax
         /\ Heads(encode_resp(arguments), number, Len(arguments))
         /\ \E h : /\ IsFrame(encode_resp(arguments), number, 0..LongMax, h, Len(arguments))
                   /\ h[Len(arguments)].parts = arguments
         /\ \A i \in 1..Len(arguments) : Len(arguments[i]) <= LongMax
<1>. DEFINE bulks == [i \in DOMAIN arguments |-> resp_bulk_string(arguments[i])]
<1>1. PICK n \in Nat : n = Len(arguments) /\ DOMAIN arguments = 1..n
  BY LenProperties
<1>2. \A i \in 1..n : arguments[i] \in Seq(Byte) /\ resp_bulk_string(arguments[i]) \in Seq(Byte)
  <2>. TAKE i \in 1..n
  <2>1. arguments[i] \in Seq(Byte)
    BY <1>1, ElementOfSeq
  <2>. QED  BY <2>1, BulkText
<1>3. bulks \in Seq(Seq(Byte)) /\ Len(bulks) = n
  <2>1. bulks \in [DOMAIN arguments -> Seq(Byte)]
    BY <1>1, <1>2
  <2>. HIDE DEF bulks
  <2>. QED  BY <1>1, <2>1, MapSeq
<1>4. \A i \in 1..n : bulks[i] = resp_bulk_string(arguments[i])
  BY <1>1
<1>5. encode_resp(arguments) = ((<<"*">> \o Numeral[n]) \o CRLF) \o FlattenSeq(bulks)
  BY <1>1 DEF encode_resp
<1>. HIDE DEF bulks
<1>6. PICK g : Joins(g, Byte, bulks) /\ FlattenSeq(bulks) = g[n]
  BY <1>3, FlattenJoins
<1>7. PICK body \in Seq(Byte) : body = g[n]
  <2>1. n \in 0..n
    OBVIOUS
  <2>. QED  BY <1>3, <1>6, <2>1, JoinsPrefix
<1>8. PICK end \in Seq(Byte) : end = CRLF /\ Len(end) = 2
  <2>1. "\r" \in Byte /\ "\n" \in Byte
    BY RespAssumption
  <2>2. <<"\r", "\n">> \in Seq(Byte) /\ Len(<<"\r", "\n">>) = 2
    BY <2>1, TwoElements
  <2>3. CRLF \in Seq(Byte) /\ Len(CRLF) = 2
    BY <2>2 DEF CRLF
  <2>. QED  BY <2>3
<1>9. PICK mark \in Byte : mark = "*" /\ mark # "\r"
  BY RespAssumption
<1>10. PICK head \in Seq(Byte) : head = <<mark>> \o Numeral[n] /\ IsHead(head, mark, n)
  <2>1. IsHead(<<mark>> \o Numeral[n], mark, n)
    BY <1>9, HeadIs
  <2>2. <<mark>> \o Numeral[n] \in Seq(Byte)
    BY <2>1 DEF IsHead
  <2>. QED  BY <2>1, <2>2
<1>11. PICK l \in Nat, q \in Nat : l = Len(head) /\ q = l + 2
  BY LenProperties
<1>12. PICK a \in Seq(Byte) : a = head \o end /\ Len(a) = q
                              /\ Placed(a, 0, head) /\ Placed(a, l, end)
  BY <1>8, <1>11, JoinPlaced
<1>13. PICK s \in Seq(Byte) : s = a \o body /\ Len(s) = q + Len(body)
                              /\ Placed(s, 0, a) /\ Placed(s, q, body)
  BY <1>12, JoinPlaced
<1>14. s = encode_resp(arguments) /\ Len(s) <= LongMax
  <2>1. s = encode_resp(arguments)
    BY <1>5, <1>6, <1>7, <1>8, <1>9, <1>10, <1>12, <1>13
  <2>. QED  BY <2>1
<1>15. Len(a) \in Nat /\ Len(s) \in Nat /\ Len(body) \in Nat /\ Len(head) \in Nat /\ Len(end) \in Nat
  BY LenProperties
<1>16. Placed(s, 0, head) /\ Placed(s, l, end)
  <2>1. Placed(s, 0 + 0, head) /\ Placed(s, 0 + l, end)
    BY <1>12, <1>13, <1>15, PlacedInside
  <2>2. 0 + l = l
    OBVIOUS
  <2>. QED  BY <2>1, <2>2
<1>17. /\ s[1] = "*" /\ LineEnd(s, 0) = l /\ EndsAt(s, l) /\ SubSeq(s, 2, l) = Numeral[n]
       /\ l >= 1
  <2>1. Placed(s, 0 + Len(head), CRLF)
    <3>1. 0 + Len(head) = l
      BY <1>11
    <3>. QED  BY <1>8, <1>16, <3>1
  <2>2. HeadAt(s, 0, head, mark, n)
    BY <1>10, <1>16, <2>1, HeadRead
  <2>3. 0 + Len(head) = l /\ 0 + 1 = 1 /\ 0 + 2 = 2
    BY <1>11
  <2>. QED  BY <1>9, <1>11, <2>2, <2>3 DEF HeadAt
<1>18. \A i \in 1..n :
         /\ bulks[i] = resp_bulk_string(arguments[i]) /\ arguments[i] \in Seq(Byte)
         /\ \E head_ : IsBulkText(bulks[i], head_, arguments[i])
         /\ Len(g[i - 1]) \in Nat /\ Len(bulks[i]) \in Nat /\ Len(bulks[i]) >= 1
         /\ Len(g[i]) = Len(g[i - 1]) + Len(bulks[i])
         /\ Placed(body, Len(g[i - 1]), bulks[i])
  <2>. TAKE i \in 1..n
  <2>1. i \in 1..Len(bulks)
    BY <1>3
  <2>2. /\ bulks[i] \in Seq(Byte) /\ Len(g[i - 1]) \in Nat /\ Len(bulks[i]) \in Nat
        /\ Len(g[i]) = Len(g[i - 1]) + Len(bulks[i])
        /\ Placed(g[Len(bulks)], Len(g[i - 1]), bulks[i])
    BY ZenonT(30), <1>3, <1>6, <2>1, JoinsPlaced
  <2>3. arguments[i] \in Seq(Byte) /\ bulks[i] = resp_bulk_string(arguments[i])
    BY <1>2, <1>4
  <2>4. PICK value \in Seq(Byte), text \in Seq(Byte) :
          value = arguments[i] /\ text = bulks[i] /\ text = resp_bulk_string(value)
    BY <2>2, <2>3
  <2>5. PICK head_ : IsBulkText(text, head_, value)
    BY <2>4, BulkParts
  <2>6. Len(text) >= 1
    <3>1. Len(value) \in Nat
      BY LenProperties
    <3>2. head_ \in Seq(Byte) /\ Len(text) = Len(head_) + 2 + Len(value) + 2
      BY <2>5 DEF IsBulkText, IsHead
    <3>3. Len(head_) \in Nat
      BY <3>2, LenProperties
    <3>. QED  BY <3>1, <3>2, <3>3
  <2>. QED  BY <1>3, <1>7, <2>2, <2>3, <2>4, <2>5, <2>6
<1>19. n \in 0..LongMax
  <2>. DEFINE P == {i \in 0..n : Len(g[i]) \in Nat /\ Len(g[i]) >= i}
  <2>1. P \in SUBSET (0..n) /\ 0 \in P
    <3>1. Len(g[0]) = 0
      BY <1>6, EmptySeq DEF Joins
    <3>2. 0 \in 0..n
      OBVIOUS
    <3>. QED  BY <3>1, <3>2
  <2>2. \A i \in 1..n : i - 1 \in P => i \in P
    <3>. SUFFICES ASSUME NEW i \in 1..n, i - 1 \in P PROVE i \in P
      OBVIOUS
    <3>1. PICK x \in Nat, y \in Nat : x = Len(g[i - 1]) /\ y = Len(bulks[i]) /\ y >= 1
                                      /\ Len(g[i]) = x + y /\ x >= i - 1
      BY <1>18
    <3>2. x >= i - 1 /\ y >= 1
      BY <3>1
    <3>3. x + y >= i /\ x + y \in Nat /\ i \in 0..n
      BY <3>2
    <3>. QED  BY <3>1, <3>3
  <2>3. P = 0..n
    <3>. HIDE DEF P
    <3>. QED  BY <2>1, <2>2, UpToInduction
  <2>4. n \in P
    <3>1. n \in 0..n
      OBVIOUS
    <3>. HIDE DEF P
    <3>. QED  BY <2>3, <3>1
  <2>5. PICK k \in Nat : k = Len(body) /\ k >= n
    BY <1>7, <2>4
  <2>. QED  BY <1>13, <1>14, <2>5, Sizes
<1>20. Heads(s, number, n)
  BY <1>11, <1>17, <1>19 DEF Heads, Reads
<1>. DEFINE h == [i \in 0..n |-> [pos |-> q + Len(g[i]), parts |-> SubSeq(arguments, 1, i)]]
<1>21. \A i \in 0..n : Len(g[i]) \in Nat /\ SubSeq(arguments, 1, i) \in Seq(Seq(Byte))
  <2>. TAKE i \in 0..n
  <2>1. g[i] \in Seq(Byte)
    BY <1>3, <1>6, JoinsPrefix
  <2>2. i \in Int /\ i <= Len(arguments)
    BY <1>1
  <2>. QED  BY <2>1, <2>2, LenProperties, Piece
<1>22. h \in [0..n -> Reading]
  BY <1>21 DEF Reading
<1>23. h[0] = [pos |-> LineEnd(s, 0) + 2, parts |-> <<>>]
  <2>1. Len(g[0]) = 0 /\ SubSeq(arguments, 1, 0) = <<>>
    BY <1>6, SubSeqEmpty, EmptySeq DEF Joins
  <2>2. q + 0 = l + 2 /\ 0 \in 0..n
    BY <1>11
  <2>. QED  BY <1>17, <2>1, <2>2
<1>24. \A i \in 1..n : IsBulk(s, number, 0..LongMax, h[i - 1], h[i])
  <2>. TAKE i \in 1..n
  <2>1. PICK x \in Nat, y \in Nat, value \in Seq(Byte), text \in Seq(Byte), head_ \in Seq(Byte) :
          /\ x = Len(g[i - 1]) /\ text = bulks[i] /\ value = arguments[i] /\ y = Len(text)
          /\ Len(g[i]) = x + y /\ IsBulkText(text, head_, value) /\ Placed(body, x, text)
    BY ZenonT(30), <1>18 DEF IsBulkText, IsHead
  <2>2. PICK p \in Nat : p = q + x
    OBVIOUS
  <2>3. Placed(s, q + x, text)
    BY <1>13, <1>15, <2>1, PlacedInside
  <2>4. i \in 0..n /\ i - 1 \in 0..n
    OBVIOUS
  <2>5. h[i - 1].pos = q + x /\ h[i - 1].parts = SubSeq(arguments, 1, i - 1)
    BY <2>1, <2>4
  <2>6. h[i].pos = q + (x + y) /\ h[i].parts = SubSeq(arguments, 1, i)
    BY <2>1, <2>4
  <2>7. h[i].parts = Append(h[i - 1].parts, value)
    <3>1. SubSeq(arguments, 1, i) = SubSeq(arguments, 1, i - 1) \o <<arguments[i]>>
      <4>1. 1 \in 1..Len(arguments) /\ i \in 1..Len(arguments)
        BY <1>1
      <4>. QED  BY <4>1, SubSeqRecursiveSecond
    <3>2. PICK before \in Seq(Seq(Byte)) : before = SubSeq(arguments, 1, i - 1)
      BY <1>21, <2>4
    <3>3. Append(before, value) = before \o <<value>>
      BY AppendIsConcat
    <3>. HIDE DEF h
    <3>. QED  BY <2>1, <2>5, <2>6, <3>1, <3>2, <3>3
  <2>. HIDE DEF h
  <2>8. PICK b, c : b = h[i - 1] /\ c = h[i] /\ b.pos = p /\ c.pos = p + Len(text)
                    /\ c.parts = Append(b.parts, value)
    <3>1. q + (x + y) = p + y
      BY <2>2
    <3>. QED  BY <2>1, <2>2, <2>5, <2>6, <2>7, <3>1
  <2>9. Placed(s, p, text)
    BY <2>2, <2>3
  <2>10. IsBulk(s, number, 0..LongMax, b, c)
    BY <1>14, <2>1, <2>8, <2>9, BulkRead
  <2>. QED  BY <2>8, <2>10
<1>25. h[n].pos = Len(s) /\ h[n].parts = arguments
  <2>1. n \in 0..n
    OBVIOUS
  <2>2. SubSeq(arguments, 1, n) = arguments
    BY <1>1, SubSeqFull
  <2>. QED  BY <1>7, <1>13, <2>1, <2>2
<1>26. IsFrame(s, number, 0..LongMax, h, n)
  <2>. HIDE DEF h
  <2>. QED  BY <1>22, <1>23, <1>24, <1>25 DEF IsFrame
<1>27. \A i \in 1..n : Len(arguments[i]) <= LongMax
  <2>. TAKE i \in 1..n
  <2>1. PICK x \in Nat, value \in Seq(Byte), text \in Seq(Byte), head_ \in Seq(Byte) :
          /\ x = Len(g[i - 1]) /\ value = arguments[i] /\ IsBulkText(text, head_, value)
          /\ Placed(body, x, text)
    BY <1>18 DEF IsBulkText, IsHead
  <2>2. PICK v \in Nat, y \in Nat, z \in Nat, k \in Nat :
          v = Len(value) /\ y = Len(text) /\ z = Len(head_) /\ k = Len(body)
    BY LenProperties
  <2>3. y = z + 2 + v + 2 /\ x + y <= k
    BY <2>1, <2>2 DEF IsBulkText, Placed
  <2>4. q + k <= LongMax
    BY <1>13, <1>14, <2>2
  <2>5. v <= LongMax
    BY <2>3, <2>4, Sizes
  <2>. QED  BY <2>1, <2>2, <2>5
<1>. HIDE DEF h
<1>. QED  BY <1>1, <1>14, <1>19, <1>20, <1>25, <1>26, <1>27

-----------------------------------------------------------------------------
(* Executing.                                                              *)

\* to_upper() of a text is a text and makes no line end.
LEMMA UpperType ==
  ASSUME NEW text \in Seq(Byte)
  PROVE  /\ to_upper(text) \in Seq(Byte) /\ Len(to_upper(text)) = Len(text)
         /\ \A i \in 1..Len(text) : text[i] # "\n" => to_upper(text)[i] # "\n"
<1>1. PICK n \in Nat : n = Len(text) /\ DOMAIN text = 1..n
  BY LenProperties
<1>2. \A i \in 1..n : text[i] \in Byte
  BY <1>1, ElementOfSeq
<1>. DEFINE up_ == [i \in DOMAIN text |->
               IF text[i] \in DOMAIN UpperCase THEN UpperCase[text[i]] ELSE text[i]]
<1>3. \A i \in 1..n : IF text[i] \in DOMAIN UpperCase
                      THEN UpperCase[text[i]] \in {"P", "S", "G", "D", "E"} ELSE TRUE
  BY DEF UpperCase
<1>4. {"P", "S", "G", "D", "E"} \subseteq Byte /\ "\n" \notin {"P", "S", "G", "D", "E"}
  BY RespAssumption
<1>5. up_ \in [DOMAIN text -> Byte]
  BY <1>1, <1>2, <1>3, <1>4
<1>6. up_ \in Seq(Byte) /\ Len(up_) = n
  <2>. HIDE DEF up_
  <2>. QED  BY <1>1, <1>5, MapSeq
<1>7. \A i \in 1..n : text[i] # "\n" => up_[i] # "\n"
  BY <1>1, <1>3, <1>4
<1>. QED  BY <1>1, <1>6, <1>7 DEF to_upper

\* What the dispatcher answers.
LEMMA ResultCases ==
  ASSUME NEW parts, NEW database
  PROVE  \/ Result(parts, database) \in
              {Pong, Ok, Nil, Error(<<>>), Error(to_upper(parts[1])), Bool(TRUE), Bool(FALSE)}
         \/ Len(parts) = 2 /\ Result(parts, database) = Bulk(parts[2])
         \/ /\ parts[2] \in DOMAIN database
            /\ Result(parts, database) = Bulk(database[parts[2]])
<1>. DEFINE name == to_upper(parts[1])
            present == Len(parts) > 1 /\ parts[2] \in DOMAIN database
            ping == name = <<"P">> /\ Len(parts) = 1
            echo == name = <<"P">> /\ Len(parts) = 2
            set == name = <<"S">> /\ Len(parts) = 3
            get == name = <<"G">> /\ Len(parts) = 2
            ask == (name = <<"D">> /\ Len(parts) = 2) \/ (name = <<"E">> /\ Len(parts) = 2)
            text == IF name \in {<<c>> : c \in {"P", "S", "G", "D", "E"}} THEN <<>> ELSE name
            found == IF present THEN Bulk(database[parts[2]]) ELSE Nil
            R == Result(parts, database)
<1>1. R = CASE ping -> Pong
            [] echo -> Bulk(parts[2])
            [] set -> Ok
            [] get -> found
            [] ask -> Bool(present)
            [] OTHER -> Error(text)
  BY DEF Result
<1>2. present \in BOOLEAN /\ (present => parts[2] \in DOMAIN database)
  OBVIOUS
<1>3. echo => Len(parts) = 2
  OBVIOUS
<1>4. text = <<>> \/ text = name
  OBVIOUS
<1>. HIDE DEF present, name, ping, echo, set, get, ask, text, R, found
<1>5. \/ R = Pong \/ (echo /\ R = Bulk(parts[2])) \/ R = Ok \/ R = found \/ R = Bool(present)
      \/ R = Error(text)
  BY <1>1
<1>6. found = Nil \/ (present /\ found = Bulk(database[parts[2]]))
  BY DEF found
<1>. QED  BY <1>2, <1>3, <1>4, <1>5, <1>6 DEF name, R

\* There is no "\n" in t.
NoBreak(t) == \A i \in 1..Len(t) : t[i] # "\n"

\* Joining makes no line end.
LEMMA NoBreakJoin ==
  ASSUME NEW s \in Seq(Byte), NEW t \in Seq(Byte), NoBreak(s), NoBreak(t)
  PROVE  NoBreak(s \o t)
<1>1. PICK w : w = s \o t /\ IsJoin(w, s, t)
  BY JoinIs
<1>2. PICK m \in Nat, n \in Nat : m = Len(s) /\ n = Len(t) /\ Len(w) = m + n
  BY <1>1 DEF IsJoin
<1>3. \A i \in 1..Len(w) : w[i] # "\n"
  <2>. SUFFICES ASSUME NEW i \in 1..(m + n) PROVE w[i] # "\n"
    BY <1>2
  <2>1. CASE i <= m
    <3>1. i \in 1..m
      BY <2>1
    <3>. QED  BY <1>1, <1>2, <3>1 DEF IsJoin, NoBreak
  <2>2. CASE ~(i <= m)
    <3>1. PICK j \in 1..n : i = m + j
      BY <2>2
    <3>2. w[m + j] = t[j]
      BY <1>1, <1>2, <3>1 DEF IsJoin
    <3>. QED  BY <1>2, <3>1, <3>2 DEF NoBreak
  <2>. QED  BY <2>1, <2>2
<1>. QED  BY <1>1, <1>3 DEF NoBreak

\* Two bytes without a line end.
LEMMA NoBreakPair ==
  ASSUME NEW b \in Byte, NEW c \in Byte, b # "\n", c # "\n"
  PROVE  <<b, c>> \in Seq(Byte) /\ NoBreak(<<b, c>>)
<1>1. <<b, c>> \in Seq(Byte) /\ Len(<<b, c>>) = 2 /\ <<b, c>>[1] = b /\ <<b, c>>[2] = c
  OBVIOUS
<1>2. PICK t : t = <<b, c>>
  OBVIOUS
<1>3. Len(t) = 2 /\ t[1] = b /\ t[2] = c
  BY <1>1, <1>2
<1>4. \A i \in 1..2 : i = 1 \/ i = 2
  OBVIOUS
<1>5. NoBreak(t)
  BY <1>3, <1>4 DEF NoBreak
<1>. QED  BY <1>1, <1>2, <1>5

\* The two bytes of a line end.
LEMMA CrlfIs == CRLF \in Seq(Byte) /\ Len(CRLF) = 2 /\ CRLF[1] = "\r" /\ CRLF[2] = "\n"
<1>1. "\r" \in Byte /\ "\n" \in Byte
  BY RespAssumption
<1>2. /\ <<"\r", "\n">> \in Seq(Byte) /\ Len(<<"\r", "\n">>) = 2
      /\ <<"\r", "\n">>[1] = "\r" /\ <<"\r", "\n">>[2] = "\n"
  BY <1>1, TwoElements
<1>. QED  BY <1>2 DEF CRLF
=============================================================================
