---------------------------- MODULE SessionProofs ----------------------------
(***************************************************************************)
(* Proofs about Session, for all commands, streams, limits and ways in     *)
(* which TCP cuts what is sent.                                            *)
(***************************************************************************)
EXTENDS Session, RespProofs

-----------------------------------------------------------------------------
(* The command line.                                                       *)

\* What the tokens and the open token of the loop are, outside of an escape.
Tokens(tokens, current, quote) ==
  [tokens |-> tokens, current |-> current, quote |-> quote, escaping |-> FALSE]

\* The quote that is open inside an argument typed in the style.
QuoteOf(style) == IF style = "quoted" THEN "\"" ELSE NoQuote

\* Special characters are bytes.
LEMMA SpecialBytes == {" ", "\t", "\r", "\"", "'", "\\"} \subseteq Byte
  BY RespAssumption, SessionAssumption

\* The loop of tokenize() keeps its types.
LEMMA TokenizeStepType ==
  ASSUME NEW st \in Tokenizing, NEW c \in Byte
  PROVE  TokenizeStep(st, c) \in Tokenizing
<1>. DEFINE Grow == [st EXCEPT !.current = Append(@, c), !.escaping = FALSE]
<1>1. st.tokens \in Seq(Seq(Byte)) /\ st.current \in Seq(Byte) /\ st.escaping \in BOOLEAN
      /\ st.quote \in Quotes \cup {NoQuote}
  BY DEF Tokenizing
<1>2. Grow \in Tokenizing
  <2>1. Append(st.current, c) \in Seq(Byte)
    BY <1>1, AppendProperties
  <2>. QED  BY <1>1, <2>1 DEF Tokenizing
<1>3. [st EXCEPT !.tokens = @ \o Kept(st.current), !.current = <<>>] \in Tokenizing
  <2>1. Kept(st.current) \in Seq(Seq(Byte))
    BY <1>1, EmptySeq DEF Kept
  <2>2. st.tokens \o Kept(st.current) \in Seq(Seq(Byte)) /\ <<>> \in Seq(Byte)
    BY <1>1, <2>1, ConcatProperties, EmptySeq
  <2>. QED  BY <1>1, <2>2 DEF Tokenizing
<1>4. /\ [st EXCEPT !.escaping = TRUE] \in Tokenizing
      /\ [st EXCEPT !.quote = NoQuote] \in Tokenizing
      /\ c \in Quotes => [st EXCEPT !.quote = c] \in Tokenizing
  BY <1>1 DEF Tokenizing
<1>. HIDE DEF Grow
<1>5. \/ TokenizeStep(st, c) = Grow
      \/ TokenizeStep(st, c) = [st EXCEPT !.escaping = TRUE]
      \/ TokenizeStep(st, c) = [st EXCEPT !.quote = NoQuote]
      \/ c \in Quotes /\ TokenizeStep(st, c) = [st EXCEPT !.quote = c]
      \/ TokenizeStep(st, c) = [st EXCEPT !.tokens = @ \o Kept(st.current), !.current = <<>>]
  BY DEF TokenizeStep, Grow
<1>. QED  BY <1>2, <1>3, <1>4, <1>5

\* f[i] is what the loop keeps after i characters of the line.
IsTokenizing(f, line) ==
  /\ f \in [0..Len(line) -> Tokenizing] /\ f[0] = Tokens(<<>>, <<>>, NoQuote)
  /\ \A i \in 1..Len(line) : f[i] = TokenizeStep(f[i - 1], line[i])

\* What tokenize() makes of the end of the loop.
Tokenized(end) ==
  IF end.quote # NoQuote THEN Unterminated
  ELSE end.tokens \o Kept(IF end.escaping THEN Append(end.current, "\\") ELSE end.current)

\* There is such a function, and its last value is what tokenize() looks at.
LEMMA TokenizeRounds ==
  ASSUME NEW line \in Seq(Byte)
  PROVE  \E f : IsTokenizing(f, line) /\ tokenize(line) = Tokenized(f[Len(line)])
<1>. DEFINE step == [p \in Tokenizing \X Nat |-> TokenizeStep(p[1], line[p[2]])]
            start == Tokens(<<>>, <<>>, NoQuote)
<1>1. PICK n \in Nat : n = Len(line)
  BY LenProperties
<1>2. start \in Tokenizing
  <2>1. <<>> \in Seq(Seq(Byte)) /\ <<>> \in Seq(Byte)
    BY EmptySeq
  <2>. QED  BY <2>1 DEF Tokenizing, Tokens
<1>3. \A x \in Tokenizing, i \in Nat : step[<<x, i>>] = TokenizeStep(x, line[i])
  <2>. TAKE x \in Tokenizing, i \in Nat
  <2>1. PICK p : p = <<x, i>>
    OBVIOUS
  <2>2. p \in Tokenizing \X Nat /\ p[1] = x /\ p[2] = i
    BY <2>1
  <2>3. step[p] = TokenizeStep(p[1], line[p[2]])
    BY <2>2
  <2>. HIDE DEF step
  <2>. QED  BY <2>1, <2>2, <2>3
<1>4. StaysIn(Tokenizing, step, n)
  <2>1. \A x \in Tokenizing, i \in 1..n : step[<<x, i>>] \in Tokenizing
    <3>. TAKE x \in Tokenizing, i \in 1..n
    <3>1. i \in Nat /\ line[i] \in Byte
      BY <1>1, ElementOfSeq
    <3>2. TokenizeStep(x, line[i]) \in Tokenizing
      BY <3>1, TokenizeStepType
    <3>. HIDE DEF step
    <3>. QED  BY <1>3, <3>1, <3>2
  <2>. HIDE DEF step
  <2>. QED  BY <2>1 DEF StaysIn
<1>5. tokenize(line) = Tokenized(Loop(step, start, n))
  BY <1>1 DEF tokenize, Tokenized, Tokens
<1>. HIDE DEF step, start
<1>6. PICK f : Rounds(f, Tokenizing, step, start, n) /\ Loop(step, start, n) = f[n]
  BY <1>2, <1>4, LoopProps
<1>7. /\ f \in [0..n -> Tokenizing] /\ f[0] = start
      /\ \A i \in 1..n : f[i] = step[<<f[i - 1], i>>]
  BY <1>6 DEF Rounds
<1>8. \A i \in 1..n : f[i] = TokenizeStep(f[i - 1], line[i])
  <2>. TAKE i \in 1..n
  <2>1. i - 1 \in 0..n /\ i \in Nat
    OBVIOUS
  <2>. QED  BY <1>3, <1>7, <2>1
<1>9. IsTokenizing(f, line)
  BY <1>1, <1>7, <1>8 DEF IsTokenizing, start
<1>. QED  BY <1>1, <1>5, <1>6, <1>9

\* What is written for c leads from one state of the loop to the other.
Adds(written, c, st, after) ==
  \/ written = <<c>> /\ TokenizeStep(st, c) = after
  \/ written = <<"\\", c>> /\ TokenizeStep(TokenizeStep(st, "\\"), c) = after

\* A character that is typed ends up in the token.
LEMMA WrittenProps ==
  ASSUME NEW c \in Byte, NEW style \in Styles,
         NEW ts \in Seq(Seq(Byte)), NEW cur \in Seq(Byte)
  PROVE  /\ Written(c, style) \in Seq(Byte)
         /\ Adds(Written(c, style), c, Tokens(ts, cur, QuoteOf(style)),
                 Tokens(ts, Append(cur, c), QuoteOf(style)))
<1>. DEFINE st == Tokens(ts, cur, QuoteOf(style))
            esc == [tokens |-> ts, current |-> cur, quote |-> QuoteOf(style), escaping |-> TRUE]
            after == Tokens(ts, Append(cur, c), QuoteOf(style))
<1>1. Written(c, style) \in {<<c>>, <<"\\", c>>} /\ <<c>> \in Seq(Byte) /\ <<"\\", c>> \in Seq(Byte)
  <2>1. {"\\", c} \subseteq Byte
    BY SpecialBytes
  <2>2. <<"\\", c>> \in Seq(Byte)
    BY <2>1
  <2>. QED  BY <2>2 DEF Written, Escaped
<1>2. TokenizeStep(st, "\\") = esc /\ TokenizeStep(esc, c) = after
  BY DEF TokenizeStep, Tokens
<1>3. CASE Written(c, style) = <<"\\", c>>
  BY <1>1, <1>2, <1>3 DEF Adds
<1>4. CASE Written(c, style) = <<c>>
  <2>1. <<c>> # Escaped(c)
    <3>1. PICK s, t : s = <<c>> /\ t = <<"\\", c>> /\ Len(s) = 1 /\ Len(t) = 2
      <4>1. {"\\", c} \subseteq Byte
        BY SpecialBytes
      <4>2. <<c>> \in Seq(Byte) /\ Len(<<c>>) = 1
        OBVIOUS
      <4>3. <<"\\", c>> \in Seq(Byte) /\ Len(<<"\\", c>>) = 2
        BY <4>1
      <4>. QED  BY <4>2, <4>3
    <3>2. s # t
      BY <3>1
    <3>. QED  BY <3>1, <3>2 DEF Escaped
  <2>2. c # "\\" /\ (style = "quoted" => c # "\"") /\ (style = "bare" => c \notin Special)
        /\ style \in {"bare", "quoted"}
    BY <1>4, <2>1 DEF Written, Special, Styles
  <2>3. TokenizeStep(st, c) = after
    <3>1. CASE style = "bare"
      <4>1. QuoteOf(style) = NoQuote /\ c \notin Quotes /\ c \notin Blank
        BY <2>2, <3>1 DEF QuoteOf, Special
      <4>. QED  BY <2>2, <4>1 DEF TokenizeStep, Tokens
    <3>2. CASE style = "quoted"
      <4>1. QuoteOf(style) = "\"" /\ QuoteOf(style) # NoQuote /\ c # QuoteOf(style)
        BY <2>2, <3>2 DEF QuoteOf, NoQuote
      <4>. QED  BY <2>2, <4>1 DEF TokenizeStep, Tokens
    <3>. QED  BY <2>2, <3>1, <3>2
  <2>. QED  BY <1>1, <1>4, <2>3 DEF Adds
<1>. QED  BY <1>1, <1>3, <1>4

\* Quotation marks and blanks.
LEMMA MarkProps ==
  ASSUME NEW ts, NEW cur
  PROVE  /\ TokenizeStep(Tokens(ts, cur, NoQuote), "\"") = Tokens(ts, cur, "\"")
         /\ TokenizeStep(Tokens(ts, cur, "\""), "\"") = Tokens(ts, cur, NoQuote)
         /\ TokenizeStep(Tokens(ts, cur, NoQuote), " ") = Tokens(ts \o Kept(cur), <<>>, NoQuote)
  BY DEF TokenizeStep, Tokens, Quotes, Blank, NoQuote

\* What is typed around an argument.
MarkOf(style) == IF style = "quoted" THEN <<"\"">> ELSE <<>>

\* written is what is typed for each character.
IsWritten(written, argument, style) ==
  /\ written \in Seq(Seq(Byte)) /\ Len(written) = Len(argument)
  /\ \A i \in 1..Len(argument) : written[i] = Written(argument[i], style)

\* What is typed for an argument: the characters between the marks.
LEMMA ArgumentText ==
  ASSUME NEW argument \in Seq(Byte), NEW style \in Styles
  PROVE  /\ MarkOf(style) \in Seq(Byte)
         /\ \E written : \E g :
              /\ IsWritten(written, argument, style) /\ Joins(g, Byte, written)
              /\ TypedArgument(argument, style) = (MarkOf(style) \o g[Len(argument)]) \o MarkOf(style)
<1>. DEFINE written == [i \in DOMAIN argument |-> Written(argument[i], style)]
<1>1. \A i \in DOMAIN argument : Written(argument[i], style) \in Seq(Byte)
  <2>. TAKE i \in DOMAIN argument
  <2>1. argument[i] \in Byte
    BY ElementOfSeq, LenProperties
  <2>2. <<>> \in Seq(Seq(Byte)) /\ <<>> \in Seq(Byte)
    BY EmptySeq
  <2>. QED  BY <2>1, <2>2, WrittenProps
<1>2. written \in [DOMAIN argument -> Seq(Byte)]
  BY <1>1
<1>3. written \in Seq(Seq(Byte)) /\ Len(written) = Len(argument) /\ DOMAIN argument = 1..Len(argument)
  <2>. HIDE DEF written
  <2>. QED  BY <1>2, MapSeq
<1>4. \A i \in 1..Len(argument) : written[i] = Written(argument[i], style)
  BY <1>3
<1>5. TypedArgument(argument, style) = (MarkOf(style) \o FlattenSeq(written)) \o MarkOf(style)
  BY DEF TypedArgument, MarkOf
<1>. HIDE DEF written
<1>6. PICK g : Joins(g, Byte, written) /\ FlattenSeq(written) = g[Len(written)]
  BY <1>3, FlattenJoins
<1>7. MarkOf(style) \in Seq(Byte)
  <2>1. "\"" \in Byte
    BY SpecialBytes
  <2>2. <<"\"">> \in Seq(Byte) /\ <<>> \in Seq(Byte)
    BY <2>1, OneElement, EmptySeq
  <2>. QED  BY <2>2 DEF MarkOf
<1>8. IsWritten(written, argument, style)
  BY <1>3, <1>4 DEF IsWritten
<1>. QED  BY <1>3, <1>5, <1>6, <1>7, <1>8

\* One character more.
LEMMA TokenizeNext ==
  ASSUME NEW line \in Seq(Byte), NEW f, IsTokenizing(f, line),
         NEW p \in Nat, p + 1 <= Len(line)
  PROVE  f[p + 1] = TokenizeStep(f[p], line[p + 1])
<1>1. PICK n \in Nat : n = Len(line)
  BY LenProperties
<1>2. PICK i \in 1..n : i = p + 1 /\ i - 1 = p
  BY <1>1
<1>3. f[i] = TokenizeStep(f[i - 1], line[i])
  BY <1>1 DEF IsTokenizing
<1>. QED  BY <1>2, <1>3

\* An argument that is typed ends up in the token.
LEMMA ArgumentTokenized ==
  ASSUME NEW line \in Seq(Byte), NEW f, IsTokenizing(f, line),
         NEW argument \in Seq(Byte), NEW style \in Styles, NEW p \in Nat,
         NEW ts \in Seq(Seq(Byte)), f[p] = Tokens(ts, <<>>, NoQuote),
         Placed(line, p, TypedArgument(argument, style))
  PROVE  /\ TypedArgument(argument, style) \in Seq(Byte)
         /\ f[p + Len(TypedArgument(argument, style))] = Tokens(ts, argument, NoQuote)
<1>1. PICK written, g :
        /\ IsWritten(written, argument, style) /\ Joins(g, Byte, written)
        /\ TypedArgument(argument, style) = (MarkOf(style) \o g[Len(argument)]) \o MarkOf(style)
  BY ArgumentText
<1>2. PICK m \in Nat : m = Len(argument) /\ m = Len(written) /\ written \in Seq(Seq(Byte))
  BY <1>1, LenProperties DEF IsWritten
<1>3. PICK mark \in Seq(Byte), text \in Seq(Byte) : mark = MarkOf(style) /\ text = g[m]
  <2>1. m \in 0..m
    OBVIOUS
  <2>. QED  BY <1>1, <1>2, <2>1, ArgumentText, JoinsPrefix
<1>4. PICK u \in Seq(Byte) : u = mark \o text /\ Placed(u, 0, mark) /\ Placed(u, Len(mark), text)
                             /\ Len(u) = Len(mark) + Len(text)
  BY JoinPlaced
<1>5. PICK v \in Seq(Byte) : v = u \o mark /\ Placed(v, 0, u) /\ Placed(v, Len(u), mark)
                             /\ Len(v) = Len(u) + Len(mark)
  BY JoinPlaced
<1>6. v = TypedArgument(argument, style)
  BY <1>1, <1>2, <1>3, <1>4, <1>5
<1>7. PICK q \in Nat, t \in Nat, n \in Nat :
        q = Len(mark) /\ t = Len(text) /\ n = Len(line) /\ Len(line) \in Nat
  BY LenProperties
<1>8. Len(u) = q + t /\ Len(v) = (q + t) + q /\ Len(u) \in Nat /\ Len(v) \in Nat
  BY <1>4, <1>5, <1>7
<1>9. /\ Placed(line, p, v) /\ Placed(line, p, u) /\ Placed(line, p, mark)
      /\ Placed(line, p + q, text) /\ Placed(line, p + (q + t), mark)
  <2>1. Placed(line, p, v)
    BY <1>6
  <2>2. Placed(line, p + 0, u)
    BY <1>5, <1>7, <1>8, <2>1, PlacedInside
  <2>3. Placed(line, p, u)
    BY <2>2
  <2>4. Placed(line, p + 0, mark)
    BY <1>4, <1>7, <1>8, <2>3, PlacedInside
  <2>5. Placed(line, p + q, text)
    BY <1>4, <1>7, <1>8, <2>3, PlacedInside
  <2>6. Placed(line, p + (q + t), mark)
    <3>1. PICK w \in Nat : w = q + t
      OBVIOUS
    <3>2. Placed(v, w, mark)
      BY <1>5, <1>8, <3>1
    <3>. QED  BY <1>7, <1>8, <2>1, <3>1, <3>2, PlacedInside
  <2>. QED  BY <2>1, <2>3, <2>4, <2>5, <2>6
<1>10. PICK z \in Nat : z = p + q
  OBVIOUS
<1>. DEFINE P == {j \in 0..m : f[z + Len(g[j])] = Tokens(ts, SubSeq(argument, 1, j), QuoteOf(style))}
<1>11. P \in SUBSET (0..m) /\ 0 \in P
  <2>1. Len(g[0]) = 0 /\ SubSeq(argument, 1, 0) = <<>>
    BY <1>1, SubSeqEmpty, EmptySeq DEF Joins
  <2>2. f[z] = Tokens(ts, <<>>, QuoteOf(style))
    <3>1. CASE style = "quoted"
      <4>1. mark = <<"\"">> /\ q = 1 /\ mark[1] = "\""
        <5>1. Len(<<"\"">>) = 1 /\ <<"\"">>[1] = "\""
          <6>1. "\"" \in Byte
            BY SpecialBytes
          <6>. QED  BY <6>1, OneElement
        <5>. QED  BY <1>3, <1>7, <3>1, <5>1 DEF MarkOf
      <4>2. line[p + 1] = "\"" /\ p + 1 <= Len(line)
        BY <1>7, <1>9, <4>1, PlacedOne
      <4>3. f[p + 1] = TokenizeStep(f[p], "\"")
        <5>1. f[p + 1] = TokenizeStep(f[p], line[p + 1])
          BY <4>2, TokenizeNext
        <5>. QED  BY <4>2, <5>1
      <4>4. TokenizeStep(Tokens(ts, <<>>, NoQuote), "\"") = Tokens(ts, <<>>, "\"")
        BY MarkProps
      <4>. QED  BY <1>10, <3>1, <4>1, <4>3, <4>4 DEF QuoteOf
    <3>2. CASE style # "quoted"
      <4>1. q = 0
        BY <1>3, <1>7, <3>2, EmptySeq DEF MarkOf
      <4>. QED  BY <1>10, <3>2, <4>1 DEF QuoteOf
    <3>. QED  BY <3>1, <3>2
  <2>3. z + 0 = z /\ 0 \in 0..m
    OBVIOUS
  <2>. QED  BY <2>1, <2>2, <2>3
<1>12. \A j \in 1..m : j - 1 \in P => j \in P
  <2>. SUFFICES ASSUME NEW j \in 1..m, j - 1 \in P PROVE j \in P
    OBVIOUS
  <2>1. PICK x \in Nat, y \in Nat, w \in Seq(Byte) :
          /\ x = Len(g[j - 1]) /\ w = written[j] /\ y = Len(w) /\ Len(g[j]) = x + y
          /\ Placed(text, x, w)
    <3>1. j \in 1..Len(written)
      BY <1>2
    <3>2. /\ g[j] = g[j - 1] \o written[j] /\ written[j] \in Seq(Byte)
          /\ Len(g[j - 1]) \in Nat /\ Len(written[j]) \in Nat
          /\ Len(g[j]) = Len(g[j - 1]) + Len(written[j])
          /\ Placed(g[Len(written)], Len(g[j - 1]), written[j])
      BY <1>1, <1>2, <3>1, JoinsPlaced
    <3>. QED  BY <1>2, <1>3, <3>2
  <2>2. Placed(line, z + x, w)
    BY <1>7, <1>9, <1>10, <2>1, PlacedInside
  <2>3. PICK c \in Byte, cur \in Seq(Byte) :
          c = argument[j] /\ cur = SubSeq(argument, 1, j - 1) /\ w = Written(c, style)
          /\ Append(cur, c) = SubSeq(argument, 1, j)
    <3>1. argument[j] \in Byte
      BY <1>2, ElementOfSeq
    <3>2. PICK k \in Nat : k = j - 1 /\ k <= Len(argument)
      BY <1>2
    <3>3. SubSeq(argument, 1, k) \in Seq(Byte)
      BY <3>2, Piece
    <3>4. SubSeq(argument, 1, j) = SubSeq(argument, 1, j - 1) \o <<argument[j]>>
      <4>1. 1 \in 1..Len(argument) /\ j \in 1..Len(argument)
        BY <1>2
      <4>. QED  BY <4>1, SubSeqRecursiveSecond
    <3>5. Append(SubSeq(argument, 1, k), argument[j]) = SubSeq(argument, 1, k) \o <<argument[j]>>
      BY <3>1, <3>3, AppendIsConcat
    <3>6. w = Written(argument[j], style)
      BY <1>1, <1>2, <2>1 DEF IsWritten
    <3>. QED  BY <3>1, <3>2, <3>3, <3>4, <3>5, <3>6
  <2>4. PICK st : st = Tokens(ts, cur, QuoteOf(style)) /\ f[z + x] = st
    BY <2>1, <2>3
  <2>5. PICK after : after = Tokens(ts, Append(cur, c), QuoteOf(style))
    OBVIOUS
  <2>6. Adds(w, c, st, after)
    <3>1. Adds(Written(c, style), c, Tokens(ts, cur, QuoteOf(style)),
                 Tokens(ts, Append(cur, c), QuoteOf(style)))
      BY WrittenProps
    <3>. QED  BY <2>3, <2>4, <2>5, <3>1
  <2>7. PICK a \in Nat : a = z + x /\ Placed(line, a, w)
    BY <2>2
  <2>8. f[a + y] = after
    <3>1. CASE w = <<c>> /\ TokenizeStep(st, c) = after
      <4>1. y = 1 /\ w[1] = c /\ Len(w) = 1
        <5>1. <<c>> \in Seq(Byte) /\ Len(<<c>>) = 1 /\ <<c>>[1] = c
          OBVIOUS
        <5>. QED  BY <2>1, <3>1, <5>1
      <4>2. line[a + 1] = c /\ a + 1 <= Len(line)
        BY <1>7, <2>7, <4>1, PlacedOne
      <4>3. f[a + 1] = TokenizeStep(f[a], c)
        BY <4>2, TokenizeNext
      <4>. QED  BY <2>4, <2>7, <3>1, <4>1, <4>3
    <3>2. CASE w = <<"\\", c>> /\ TokenizeStep(TokenizeStep(st, "\\"), c) = after
      <4>1. y = 2 /\ w[1] = "\\" /\ w[2] = c /\ Len(w) = 2
        <5>1. {"\\", c} \subseteq Byte
          BY SpecialBytes
        <5>2. /\ <<"\\", c>> \in Seq(Byte) /\ Len(<<"\\", c>>) = 2
              /\ <<"\\", c>>[1] = "\\" /\ <<"\\", c>>[2] = c
          BY <5>1
        <5>. QED  BY <2>1, <3>2, <5>2
      <4>2. line[a + 1] = "\\" /\ line[a + 2] = c /\ a + 2 <= Len(line)
        BY SMTT(30), <1>7, <2>7, <4>1, PlacedTwo
      <4>3. f[a + 1] = TokenizeStep(f[a], "\\")
        <5>1. a + 1 <= Len(line)
          BY <1>7, <4>2
        <5>. QED  BY <4>2, <5>1, TokenizeNext
      <4>4. PICK d \in Nat : d = a + 1 /\ d + 1 = a + 2
        OBVIOUS
      <4>5. f[d + 1] = TokenizeStep(f[d], c)
        BY <4>2, <4>4, TokenizeNext
      <4>. QED  BY <2>4, <2>7, <3>2, <4>1, <4>3, <4>4, <4>5
    <3>. QED  BY <2>6, <3>1, <3>2 DEF Adds
  <2>9. z + Len(g[j]) = a + y
    <3>1. PICK b \in Nat : b = x + y
      OBVIOUS
    <3>2. Len(g[j]) = b
      BY <2>1, <3>1
    <3>. QED  BY <2>7, <3>1, <3>2
  <2>10. j \in 0..m
    OBVIOUS
  <2>. QED  BY <2>3, <2>5, <2>8, <2>9, <2>10
<1>13. P = 0..m
  <2>. HIDE DEF P
  <2>. QED  BY <1>2, <1>11, <1>12, UpToInduction
<1>14. f[z + t] = Tokens(ts, argument, QuoteOf(style))
  <2>1. m \in P
    <3>1. m \in 0..m
      OBVIOUS
    <3>. HIDE DEF P
    <3>. QED  BY <1>13, <3>1
  <2>2. SubSeq(argument, 1, m) = argument
    BY <1>2, SubSeqFull
  <2>3. Len(g[m]) = t
    BY <1>3, <1>7
  <2>. QED  BY <2>1, <2>2, <2>3
<1>15. f[(z + t) + q] = Tokens(ts, argument, NoQuote)
  <2>1. CASE style = "quoted"
    <3>1. mark = <<"\"">> /\ q = 1 /\ mark[1] = "\""
      <4>1. Len(<<"\"">>) = 1 /\ <<"\"">>[1] = "\""
        <5>1. "\"" \in Byte
          BY SpecialBytes
        <5>. QED  BY <5>1, OneElement
      <4>. QED  BY <1>3, <1>7, <2>1, <4>1 DEF MarkOf
    <3>2. PICK a \in Nat : a = z + t /\ a = p + (q + t) /\ Placed(line, a, mark)
      BY <1>9, <1>10
    <3>3. line[a + 1] = "\"" /\ a + 1 <= Len(line)
      BY <1>7, <3>1, <3>2, PlacedOne
    <3>4. f[a + 1] = TokenizeStep(f[a], "\"")
      <4>1. f[a + 1] = TokenizeStep(f[a], line[a + 1])
        BY <3>3, TokenizeNext
      <4>. QED  BY <3>3, <4>1
    <3>5. TokenizeStep(Tokens(ts, argument, "\""), "\"") = Tokens(ts, argument, NoQuote)
      BY MarkProps
    <3>. QED  BY <1>14, <2>1, <3>1, <3>2, <3>4, <3>5 DEF QuoteOf
  <2>2. CASE style # "quoted"
    <3>1. q = 0 /\ (z + t) + 0 = z + t
      BY <1>3, <1>7, <2>2, EmptySeq DEF MarkOf
    <3>. QED  BY <1>14, <2>2, <3>1 DEF QuoteOf
  <2>. QED  BY <2>1, <2>2
<1>16. (z + t) + q = p + Len(v)
  BY <1>8, <1>10
<1>. QED  BY <1>6, <1>15, <1>16

\* It is a text.
LEMMA TypedArgumentType ==
  ASSUME NEW argument \in Seq(Byte), NEW style \in Styles
  PROVE  TypedArgument(argument, style) \in Seq(Byte)
<1>1. PICK written, g :
        /\ IsWritten(written, argument, style) /\ Joins(g, Byte, written)
        /\ TypedArgument(argument, style) = (MarkOf(style) \o g[Len(argument)]) \o MarkOf(style)
  BY ArgumentText
<1>2. PICK m \in Nat : m = Len(argument) /\ m = Len(written) /\ written \in Seq(Seq(Byte))
  BY <1>1, LenProperties DEF IsWritten
<1>3. PICK mark \in Seq(Byte), text \in Seq(Byte) : mark = MarkOf(style) /\ text = g[m]
  <2>1. m \in 0..m
    OBVIOUS
  <2>. QED  BY <1>1, <1>2, <2>1, ArgumentText, JoinsPrefix
<1>4. (mark \o text) \o mark \in Seq(Byte)
  BY ConcatProperties
<1>. QED  BY <1>1, <1>2, <1>3, <1>4

\* A line that the user types for a command is cut into its arguments.
LEMMA LineTokenized ==
  ASSUME NEW arguments \in Seq(Seq(Byte) \ {<<>>}), NEW style \in Styles
  PROVE  tokenize(TypedLine(arguments, style)) = arguments
<1>. DEFINE typedPieces == [i \in DOMAIN arguments |-> TypedArgument(arguments[i], style) \o <<" ">>]
<1>1. PICK n \in Nat : n = Len(arguments)
  BY LenProperties
<1>2. arguments \in Seq(Seq(Byte)) /\ \A i \in 1..n : arguments[i] \in Seq(Byte) /\ arguments[i] # <<>>
  <2>1. \A i \in 1..n : arguments[i] \in Seq(Byte) \ {<<>>}
    BY <1>1, ElementOfSeq
  <2>2. arguments \in Seq(Seq(Byte))
    <3>1. arguments \in [1..n -> Seq(Byte)]
      BY <1>1, <2>1, LenProperties
    <3>. QED  BY <3>1, SeqDef
  <2>. QED  BY <2>1, <2>2
<1>3. <<" ">> \in Seq(Byte) /\ Len(<<" ">>) = 1 /\ <<" ">>[1] = " "
  <2>1. " " \in Byte
    BY SpecialBytes
  <2>. QED  BY <2>1, OneElement
<1>4. DOMAIN arguments = 1..n
  BY <1>1, LenProperties
<1>5. \A i \in 1..n : /\ TypedArgument(arguments[i], style) \in Seq(Byte)
                      /\ TypedArgument(arguments[i], style) \o <<" ">> \in Seq(Byte)
  <2>. TAKE i \in 1..n
  <2>1. TypedArgument(arguments[i], style) \in Seq(Byte)
    BY <1>2, TypedArgumentType
  <2>. QED  BY <1>3, <2>1, ConcatProperties
<1>6. typedPieces \in Seq(Seq(Byte)) /\ Len(typedPieces) = n
  <2>1. typedPieces \in [DOMAIN arguments -> Seq(Byte)]
    BY <1>4, <1>5
  <2>. HIDE DEF typedPieces
  <2>. QED  BY <1>1, <1>2, <2>1, MapSeq
<1>7. \A i \in 1..n : typedPieces[i] = TypedArgument(arguments[i], style) \o <<" ">>
  BY <1>4
<1>8. TypedLine(arguments, style) = FlattenSeq(typedPieces)
  BY DEF TypedLine
<1>. HIDE DEF typedPieces
<1>9. PICK h : Joins(h, Byte, typedPieces) /\ FlattenSeq(typedPieces) = h[n]
  BY <1>6, FlattenJoins
<1>10. PICK line \in Seq(Byte) : line = h[n] /\ line = TypedLine(arguments, style)
  <2>1. n \in 0..n
    OBVIOUS
  <2>. QED  BY <1>6, <1>8, <1>9, <2>1, JoinsPrefix
<1>11. PICK f : IsTokenizing(f, line) /\ tokenize(line) = Tokenized(f[Len(line)])
  BY TokenizeRounds
<1>12. Len(line) \in Nat
  BY LenProperties
<1>. DEFINE P == {i \in 0..n : f[Len(h[i])] = Tokens(SubSeq(arguments, 1, i), <<>>, NoQuote)}
<1>13. P \in SUBSET (0..n) /\ 0 \in P
  <2>1. Len(h[0]) = 0 /\ SubSeq(arguments, 1, 0) = <<>>
    BY <1>9, SubSeqEmpty, EmptySeq DEF Joins
  <2>2. f[0] = Tokens(<<>>, <<>>, NoQuote)
    BY <1>11 DEF IsTokenizing
  <2>3. 0 \in 0..n
    OBVIOUS
  <2>. QED  BY <2>1, <2>2, <2>3
<1>14. \A i \in 1..n : i - 1 \in P => i \in P
  <2>. SUFFICES ASSUME NEW i \in 1..n, i - 1 \in P PROVE i \in P
    OBVIOUS
  <2>1. PICK x \in Nat, y \in Nat, a \in Seq(Byte), w \in Seq(Byte), piece \in Seq(Byte) :
          /\ a = arguments[i] /\ a # <<>> /\ w = TypedArgument(a, style) /\ y = Len(w)
          /\ piece = w \o <<" ">> /\ x = Len(h[i - 1]) /\ Len(h[i]) = x + Len(piece)
          /\ Placed(line, x, piece)
    <3>1. i \in 1..Len(typedPieces)
      BY <1>6
    <3>2. /\ typedPieces[i] \in Seq(Byte) /\ Len(h[i - 1]) \in Nat
          /\ Len(h[i]) = Len(h[i - 1]) + Len(typedPieces[i])
          /\ Placed(h[Len(typedPieces)], Len(h[i - 1]), typedPieces[i])
      BY ZenonT(30), <1>6, <1>9, <3>1, JoinsPlaced
    <3>3. arguments[i] \in Seq(Byte) /\ arguments[i] # <<>>
      BY <1>2
    <3>4. TypedArgument(arguments[i], style) \in Seq(Byte)
      BY <1>5
    <3>5. Len(TypedArgument(arguments[i], style)) \in Nat
      BY <3>4, LenProperties
    <3>. QED  BY <1>6, <1>7, <1>10, <3>2, <3>3, <3>4, <3>5
  <2>2. /\ Len(piece) = y + 1 /\ Placed(piece, 0, w) /\ Placed(piece, y, <<" ">>)
        /\ Len(piece) \in Nat /\ Len(<<" ">>) \in Nat /\ Len(w) \in Nat
    <3>1. PICK blank \in Seq(Byte) : blank = <<" ">> /\ Len(blank) = 1
      BY <1>3
    <3>2. Len(w \o blank) = Len(w) + Len(blank) /\ Placed(w \o blank, 0, w)
          /\ Placed(w \o blank, Len(w), blank)
      BY JoinPlaced
    <3>3. Len(w) \in Nat /\ Len(piece) \in Nat
      BY LenProperties
    <3>. QED  BY <2>1, <3>1, <3>2, <3>3
  <2>3. Placed(line, x, w)
    <3>1. Placed(line, x + 0, w)
      BY <1>12, <2>1, <2>2, PlacedInside
    <3>. QED  BY <3>1
  <2>4. PICK z \in Nat : z = x + y
    OBVIOUS
  <2>5. Placed(line, z, <<" ">>)
    <3>1. Placed(line, x + y, <<" ">>)
      BY <1>12, <2>1, <2>2, PlacedInside
    <3>. QED  BY <2>4, <3>1
  <2>6. PICK ts \in Seq(Seq(Byte)) : ts = SubSeq(arguments, 1, i - 1)
    <3>1. PICK k \in Nat : k = i - 1 /\ k <= Len(arguments)
      BY <1>1
    <3>2. SubSeq(arguments, 1, k) \in Seq(Seq(Byte))
      BY <1>2, <3>1, Piece
    <3>. QED  BY <3>1, <3>2
  <2>7. f[z] = Tokens(ts, a, NoQuote)
    <3>1. f[x] = Tokens(ts, <<>>, NoQuote)
      BY <2>1, <2>6
    <3>2. Placed(line, x, TypedArgument(a, style))
      BY <2>1, <2>3
    <3>3. f[x + Len(TypedArgument(a, style))] = Tokens(ts, a, NoQuote)
      BY <1>11, <3>1, <3>2, ArgumentTokenized
    <3>. QED  BY <2>1, <2>4, <3>3
  <2>8. f[z + 1] = Tokens(ts \o Kept(a), <<>>, NoQuote)
    <3>1. line[z + 1] = <<" ">>[1] /\ z + 1 <= Len(line)
      BY <1>3, <1>12, <2>5, PlacedOne
    <3>2. f[z + 1] = TokenizeStep(f[z], line[z + 1])
      BY <1>11, <3>1, TokenizeNext
    <3>3. TokenizeStep(Tokens(ts, a, NoQuote), " ") = Tokens(ts \o Kept(a), <<>>, NoQuote)
      BY MarkProps
    <3>4. line[z + 1] = " "
      BY <1>3, <3>1
    <3>. QED  BY <2>7, <3>2, <3>3, <3>4
  <2>9. ts \o Kept(a) = SubSeq(arguments, 1, i)
    <3>1. SubSeq(arguments, 1, i) = SubSeq(arguments, 1, i - 1) \o <<arguments[i]>>
      <4>1. 1 \in 1..Len(arguments) /\ i \in 1..Len(arguments)
        BY <1>1
      <4>. QED  BY <1>2, <4>1, SubSeqRecursiveSecond
    <3>2. Kept(a) = <<a>>
      BY <2>1 DEF Kept
    <3>. QED  BY <2>1, <2>6, <3>1, <3>2
  <2>10. Len(h[i]) = z + 1
    <3>1. Len(h[i]) = x + (y + 1)
      BY <2>1, <2>2
    <3>2. x + (y + 1) = z + 1
      BY <2>4
    <3>. QED  BY <3>1, <3>2
  <2>11. i \in 0..n
    OBVIOUS
  <2>. QED  BY <2>8, <2>9, <2>10, <2>11
<1>15. P = 0..n
  <2>. HIDE DEF P
  <2>. QED  BY <1>13, <1>14, UpToInduction
<1>16. f[Len(line)] = Tokens(arguments, <<>>, NoQuote)
  <2>1. n \in P
    <3>1. n \in 0..n
      OBVIOUS
    <3>. HIDE DEF P
    <3>. QED  BY <1>15, <3>1
  <2>2. SubSeq(arguments, 1, n) = arguments
    BY <1>1, <1>2, SubSeqFull
  <2>. QED  BY <1>10, <2>1, <2>2
<1>17. Tokenized(Tokens(arguments, <<>>, NoQuote)) = arguments
  <2>1. arguments \o <<>> = arguments
    BY <1>2, ConcatEmptySeq
  <2>. QED  BY <2>1 DEF Tokenized, Tokens, Kept
<1>. QED  BY <1>10, <1>11, <1>16, <1>17

-----------------------------------------------------------------------------
(* Requests.                                                               *)

\* A text that fits in a string fits in an input buffer.
LEMMA TextIsBuffer == Text \subseteq Buffers /\ \A s \in Text : Len(s) <= LongMax /\ s \in Seq(Byte)
  BY Sizes, LenProperties DEF Text, Buffers

\* What the client sends for a command is a request, and the server reads the
\* command from it if it does not have too many arguments.
LEMMA RequestRead ==
  ASSUME NEW arguments \in Seq(Seq(Byte)), arguments # <<>>, encode_resp(arguments) \in Text
  PROVE  /\ IsRequest(encode_resp(arguments))
         /\ Parse(encode_resp(arguments)).parts =
              IF Len(arguments) <= MaxParts THEN arguments ELSE <<>>
<1>1. PICK s \in Text, n \in Nat : s = encode_resp(arguments) /\ n = Len(arguments)
  BY LenProperties
<1>2. s \in Buffers /\ Len(s) <= LongMax /\ s \in Seq(Byte)
  BY TextIsBuffer
<1>3. \A number : Reads(number) =>
        /\ n \in 0..LongMax /\ Heads(s, number, n)
        /\ \E h : IsFrame(s, number, 0..LongMax, h, n) /\ h[n].parts = arguments
  BY <1>1, <1>2, RequestFrame
<1>4. PICK lengths \in SUBSET Nat, counts \in SUBSET Nat :
        lengths = 0..LongMax /\ counts = 1..MaxParts
  BY Sizes, RespAssumption
<1>5. n \in 0..LongMax /\ n # 0
  <2>1. n # 0
    BY <1>1, EmptySeq
  <2>. QED  BY <1>3, <2>1, BothRead
<1>6. IsRequest(s)
  <2>1. PICK h : IsFrame(s, Decimal, 0..LongMax, h, n)
    BY <1>3, BothRead
  <2>2. Heads(s, Decimal, n)
    BY <1>3, BothRead
  <2>3. ReadArray(s, Decimal, 0..LongMax, 0..LongMax) = h[n]
    <3>1. IsFrame(s, Decimal, lengths, h, n) /\ n \in lengths
      BY <1>4, <1>5, <2>1
    <3>2. ReadArray(s, Decimal, lengths, lengths) = h[n]
      BY <1>2, <2>2, <3>1, ReadArrayFrame
    <3>. QED  BY <1>4, <3>2
  <2>4. h[n].pos = Len(s) /\ Len(s) \in Nat
    BY <1>2, <2>1, LenProperties DEF IsFrame
  <2>5. h[n] # Failed
    BY <2>4 DEF Failed, NotFound
  <2>. QED  BY <2>3, <2>5 DEF IsRequest
<1>7. CASE n <= MaxParts
  <2>1. PICK h : IsFrame(s, from_chars, 0..LongMax, h, n) /\ h[n].parts = arguments
    BY <1>3, BothRead
  <2>2. Heads(s, from_chars, n) /\ n \in 1..MaxParts
    BY <1>3, <1>5, <1>7, BothRead
  <2>3. ReadArray(s, from_chars, 1..MaxParts, 0..LongMax) = h[n]
    <3>1. IsFrame(s, from_chars, lengths, h, n) /\ n \in counts
      BY <1>4, <2>1, <2>2
    <3>2. ReadArray(s, from_chars, counts, lengths) = h[n]
      BY <1>2, <2>2, <3>1, ReadArrayFrame
    <3>. QED  BY <1>4, <3>2
  <2>. QED  BY <1>1, <1>6, <1>7, <2>1, <2>3 DEF Parse
<1>8. CASE ~(n <= MaxParts)
  <2>1. Heads(s, from_chars, n)
    BY <1>3, BothRead
  <2>2. \A k \in 1..MaxParts : ~Heads(s, from_chars, k)
    BY <1>8, <2>1 DEF Heads
  <2>3. ReadArray(s, from_chars, 1..MaxParts, 0..LongMax) = Failed
    BY <1>2, <1>4, <2>2, ReadArrayFrame
  <2>. QED  BY <1>1, <1>6, <1>8, <2>3 DEF Parse, Failed
<1>. QED  BY <1>7, <1>8

\* What RespParser reads are arguments that fit in a string.
LEMMA ParseType ==
  ASSUME NEW s \in Buffers
  PROVE  Parse(s).parts \in Seq(Text)
<1>1. PICK lengths \in SUBSET Nat, counts \in SUBSET Nat :
        lengths = 0..LongMax /\ counts = 1..MaxParts
  BY Sizes, RespAssumption
<1>2. s \in Seq(Byte)
  BY DEF Buffers
<1>3. CASE Parse(s) = Failed
  BY <1>3, EmptySeq DEF Failed
<1>4. CASE Parse(s) # Failed
  <2>1. PICK n \in 1..MaxParts : \E h : IsFrame(s, from_chars, 0..LongMax, h, n) /\ Parse(s) = h[n]
    <3>1. Parse(s) = ReadArray(s, from_chars, counts, lengths)
      BY <1>1 DEF Parse
    <3>2. \E n \in counts : \E h :
            IsFrame(s, from_chars, lengths, h, n) /\ ReadArray(s, from_chars, counts, lengths) = h[n]
      BY <1>4, <3>1, ReadArrayFrame
    <3>. QED  BY <1>1, <3>1, <3>2
  <2>2. PICK h : IsFrame(s, from_chars, 0..LongMax, h, n) /\ Parse(s) = h[n]
    BY <2>1
  <2>3. n \in Nat /\ n \in 0..n
    BY <2>1, RespAssumption
  <2>. DEFINE P == {i \in 0..n : h[i].parts \in Seq(Text)}
  <2>4. P \in SUBSET (0..n) /\ 0 \in P
    <3>1. h[0].parts = <<>> /\ <<>> \in Seq(Text)
      BY <2>2, EmptySeq DEF IsFrame
    <3>2. 0 \in 0..n
      BY <2>3
    <3>. QED  BY <3>1, <3>2
  <2>5. \A i \in 1..n : i - 1 \in P => i \in P
    <3>. SUFFICES ASSUME NEW i \in 1..n, i - 1 \in P PROVE i \in P
      OBVIOUS
    <3>1. PICK x, y, e, length :
            /\ x = h[i - 1] /\ y = h[i] /\ e = LineEnd(s, x.pos)
            /\ length = from_chars[SubSeq(s, x.pos + 2, e)]
      OBVIOUS
    <3>2. IsBulk(s, from_chars, 0..LongMax, x, y)
      BY <2>2, <3>1 DEF IsFrame
    <3>3. /\ e \in Nat /\ length \in Nat /\ length \in 0..LongMax
          /\ y.pos = e + 2 + length + 2 /\ y.pos <= Len(s)
          /\ y.parts = Append(x.parts, SubSeq(s, e + 3, e + 2 + length))
      BY <3>1, <3>2 DEF IsBulk
    <3>4. SubSeq(s, e + 3, e + 2 + length) \in Text
      <4>1. PICK a \in Nat \ {0}, b \in Int : a = e + 3 /\ b = e + 2 + length /\ b <= Len(s)
                                             /\ b - a + 1 = length
        BY <1>2, <3>3, LenProperties
      <4>2. /\ SubSeq(s, a, b) \in Seq(Byte)
            /\ Len(SubSeq(s, a, b)) = IF a <= b THEN b - a + 1 ELSE 0
        BY <1>2, <4>1, Piece
      <4>3. Len(SubSeq(s, a, b)) <= LongMax
        BY <3>3, <4>1, <4>2, Sizes
      <4>. QED  BY <4>1, <4>2, <4>3 DEF Text
    <3>5. x.parts \in Seq(Text)
      BY <3>1
    <3>6. y.parts \in Seq(Text)
      BY <3>3, <3>4, <3>5, AppendProperties
    <3>7. i \in 0..n
      BY <2>3
    <3>. QED  BY <3>1, <3>6, <3>7
  <2>6. P = 0..n
    <3>. HIDE DEF P
    <3>. QED  BY <2>3, <2>4, <2>5, UpToInduction
  <2>7. h[n].parts \in Seq(Text)
    BY <2>3, <2>6
  <2>. QED  BY <2>2, <2>7
<1>. QED  BY <1>3, <1>4

-----------------------------------------------------------------------------
(* Executing.                                                              *)

\* What a store may be.
Stores == UNION {[D -> Text] : D \in SUBSET Seq(Byte)}

\* It is what the type invariant says of the database.
LEMMA StoreIs ==
  ASSUME NEW s
  PROVE  s \in Stores <=> DOMAIN s \subseteq Seq(Byte) /\ s \in [DOMAIN s -> Text]
  BY DEF Stores

\* A result that the client can read: what is written as a line has no line end in
\* it.
Readable(r) ==
  /\ r \in Replies
  /\ r.type = "nil" => r.text = <<>>
  /\ r.type = "$" => r.text \in Text
  /\ r.type \in {"+", "-", ":"} => NoBreak(r.text)

\* The texts that do not depend on the command.
LEMMA FixedReplies ==
  /\ Readable(Pong) /\ Readable(Ok) /\ Readable(Nil)
  /\ Readable(Error(<<>>)) /\ Readable(Bool(TRUE)) /\ Readable(Bool(FALSE))
<1>1. "\n" \notin {"O", "K", "P", "e", "r"} /\ {"O", "K", "P", "e", "r"} \subseteq Byte
  BY RespAssumption
<1>2. \A b \in {"O", "K", "P", "e", "r"}, c \in {"O", "K", "P", "e", "r"} :
        <<b, c>> \in Seq(Byte) /\ NoBreak(<<b, c>>)
  <2>. TAKE b \in {"O", "K", "P", "e", "r"}, c \in {"O", "K", "P", "e", "r"}
  <2>1. b \in Byte /\ c \in Byte /\ b # "\n" /\ c # "\n"
    BY <1>1
  <2>. QED  BY <2>1, NoBreakPair
<1>3. Readable(Pong) /\ Readable(Ok)
  <2>1. \A t \in Seq(Byte) : NoBreak(t) => Readable([type |-> "+", text |-> t])
    BY DEF Readable, Replies
  <2>2. <<"P", "O">> \in Seq(Byte) /\ NoBreak(<<"P", "O">>)
        /\ <<"O", "K">> \in Seq(Byte) /\ NoBreak(<<"O", "K">>)
    BY <1>2
  <2>. QED  BY <2>1, <2>2 DEF Pong, Ok
<1>4. Readable(Nil)
  BY EmptySeq DEF Nil, Readable, Replies
<1>5. Readable(Error(<<>>))
  <2>1. \A t \in Seq(Byte) : NoBreak(t) => Readable([type |-> "-", text |-> t])
    BY DEF Readable, Replies
  <2>2. <<"e", "r">> \o <<>> = <<"e", "r">> /\ <<"e", "r">> \in Seq(Byte) /\ NoBreak(<<"e", "r">>)
    BY <1>2, ConcatEmptySeq
  <2>. QED  BY <2>1, <2>2 DEF Error
<1>6. \A n \in 0..9 : Readable([type |-> ":", text |-> Numeral[n]])
  <2>. TAKE n \in 0..9
  <2>1. PICK t : t = Numeral[n] /\ t \in Seq(Digits) /\ t \in Seq(Byte)
    BY NumeralProps, NumeralType
  <2>2. NoBreak(t)
    <3>1. \A i \in 1..Len(t) : t[i] \in Digits
      BY <2>1, ElementOfSeq
    <3>. QED  BY <3>1, DigitProps DEF NoBreak
  <2>3. Readable([type |-> ":", text |-> t])
    BY <2>1, <2>2 DEF Readable, Replies
  <2>. QED  BY <2>1, <2>3
<1>7. Readable(Bool(TRUE)) /\ Readable(Bool(FALSE))
  BY <1>6 DEF Bool
<1>. QED  BY <1>3, <1>4, <1>5, <1>7

\* An error is a reply, readable if its text is.
LEMMA ErrorType ==
  ASSUME NEW text \in Seq(Byte)
  PROVE  Error(text) \in Replies /\ (NoBreak(text) => Readable(Error(text)))
<1>1. PICK t \in Seq(Byte) : t = <<"e", "r">> /\ NoBreak(t)
  <2>1. "e" \in Byte /\ "r" \in Byte /\ "e" # "\n" /\ "r" # "\n"
    BY RespAssumption
  <2>. QED  BY <2>1, NoBreakPair
<1>2. PICK w \in Seq(Byte) : w = t \o text /\ (NoBreak(text) => NoBreak(w))
  BY <1>1, NoBreakJoin, ConcatProperties
<1>3. Error(text) = [type |-> "-", text |-> w]
  BY <1>1, <1>2 DEF Error
<1>. QED  BY <1>2, <1>3 DEF Readable, Replies

\* Arguments that fit in a string.
Arguments(parts) == parts \in Seq(Text) /\ parts # <<>>

\* The result of a command is a reply, and one the client can read if there is no
\* line end in the name.
LEMMA ResultType ==
  ASSUME NEW parts, Arguments(parts), NEW database \in Stores
  PROVE  /\ Result(parts, database) \in Replies
         /\ NoBreak(parts[1]) => Readable(Result(parts, database))
<1>1. Len(parts) \in Nat /\ Len(parts) >= 1 /\ \A i \in 1..Len(parts) : parts[i] \in Text
  <2>1. Len(parts) # 0 /\ Len(parts) \in Nat
    BY EmptySeq, LenProperties DEF Arguments
  <2>2. \A i \in 1..Len(parts) : parts[i] \in Text
    BY ElementOfSeq DEF Arguments
  <2>. QED  BY <2>1, <2>2
<1>2. parts[1] \in Seq(Byte)
  <2>1. 1 \in 1..Len(parts)
    BY <1>1
  <2>. QED  BY <1>1, <2>1 DEF Text
<1>3. \A t \in Text : Readable(Bulk(t))
  BY DEF Readable, Replies, Bulk, Text
<1>4. \A r : Readable(r) => r \in Replies
  BY DEF Readable
<1>5. PICK name \in Seq(Byte) : name = to_upper(parts[1]) /\ (NoBreak(parts[1]) => NoBreak(name))
  BY <1>2, UpperType DEF NoBreak
<1>6. Error(name) \in Replies /\ (NoBreak(name) => Readable(Error(name)))
  BY ErrorType
<1>7. Len(parts) = 2 => Readable(Bulk(parts[2]))
  <2>1. Len(parts) = 2 => 2 \in 1..Len(parts)
    OBVIOUS
  <2>. QED  BY <1>1, <1>3, <2>1
<1>8. parts[2] \in DOMAIN database => Readable(Bulk(database[parts[2]]))
  <2>1. database \in [DOMAIN database -> Text]
    BY StoreIs
  <2>. QED  BY <1>3, <2>1
<1>9. PICK r : r = Result(parts, database)
  OBVIOUS
<1>10. \/ r \in {Pong, Ok, Nil, Error(<<>>), Error(name), Bool(TRUE), Bool(FALSE)}
       \/ Len(parts) = 2 /\ r = Bulk(parts[2])
       \/ parts[2] \in DOMAIN database /\ r = Bulk(database[parts[2]])
  BY <1>5, <1>9, ResultCases
<1>11. Readable(r) \/ r = Error(name)
  BY <1>7, <1>8, <1>10, FixedReplies
<1>. QED  BY <1>4, <1>5, <1>6, <1>9, <1>11

\* A command makes a store of a store.
LEMMA EffectType ==
  ASSUME NEW parts, Arguments(parts), NEW database \in Stores
  PROVE  Effect(parts, database) \in Stores
<1>. DEFINE name == to_upper(parts[1])
            stored == [k \in DOMAIN database \cup {parts[2]} |->
                         IF k = parts[2] THEN parts[3] ELSE database[k]]
            removed == [k \in DOMAIN database \ {parts[2]} |-> database[k]]
            set == name = <<"S">> /\ Len(parts) = 3
            del == name = <<"D">> /\ Len(parts) = 2
            E == Effect(parts, database)
<1>1. E = CASE set -> stored [] del -> removed [] OTHER -> database
  BY DEF Effect
<1>2. DOMAIN database \subseteq Seq(Byte) /\ database \in [DOMAIN database -> Text]
  BY StoreIs
<1>3. set => stored \in Stores
  <2>. SUFFICES ASSUME set PROVE stored \in Stores
    OBVIOUS
  <2>1. 2 \in 1..Len(parts) /\ 3 \in 1..Len(parts)
    OBVIOUS
  <2>2. parts[2] \in Text /\ parts[3] \in Text
    BY <2>1, ElementOfSeq DEF Arguments
  <2>3. parts[2] \in Seq(Byte)
    BY <2>2 DEF Text
  <2>4. stored \in [DOMAIN database \cup {parts[2]} -> Text]
    BY <1>2, <2>2
  <2>5. DOMAIN database \cup {parts[2]} \subseteq Seq(Byte)
    BY <1>2, <2>3
  <2>. HIDE DEF stored
  <2>. QED  BY <2>4, <2>5 DEF Stores
<1>4. removed \in Stores
  <2>1. removed \in [DOMAIN database \ {parts[2]} -> Text]
    BY <1>2
  <2>2. DOMAIN database \ {parts[2]} \subseteq Seq(Byte)
    BY <1>2
  <2>. HIDE DEF removed
  <2>. QED  BY <2>1, <2>2 DEF Stores
<1>. HIDE DEF set, del, stored, removed, E
<1>5. (set /\ E = stored) \/ E = removed \/ E = database
  BY <1>1
<1>. QED  BY <1>3, <1>4, <1>5 DEF E

\* What executing requests may come to.
Executed == [store : Stores, results : Seq(Replies)]

\* One request more, and one that the client has sent.
LEMMA ExecuteStep ==
  ASSUME NEW st \in Executed, NEW s \in Buffers
  PROVE  /\ execute(st, s) \in Executed
         /\ Len(execute(st, s).results) = Len(st.results) + 1
<1>1. PICK parts \in Seq(Text) : parts = Parse(s).parts
  BY ParseType
<1>2. st.store \in Stores /\ st.results \in Seq(Replies)
  BY DEF Executed
<1>3. \A r \in Replies : Append(st.results, r) \in Seq(Replies)
                         /\ Len(Append(st.results, r)) = Len(st.results) + 1
  BY <1>2, AppendProperties
<1>4. CASE parts = <<>>
  <2>1. PICK r \in Replies : r = Error(<<>>)
    BY FixedReplies DEF Readable
  <2>2. execute(st, s) = [st EXCEPT !.results = Append(@, r)]
    BY <1>1, <1>4, <2>1 DEF execute
  <2>. QED  BY <1>2, <1>3, <2>2 DEF Executed
<1>5. CASE parts # <<>>
  <2>1. Arguments(parts)
    BY <1>5 DEF Arguments
  <2>2. PICK r \in Replies, d \in Stores : r = Result(parts, st.store) /\ d = Effect(parts, st.store)
    BY <1>2, <2>1, ResultType, EffectType
  <2>3. execute(st, s) = [store |-> d, results |-> Append(st.results, r)]
    BY <1>1, <1>5, <2>2 DEF execute
  <2>. QED  BY <1>3, <2>3 DEF Executed
<1>. QED  BY <1>4, <1>5

\* f[i] is what executing the first i requests comes to.
IsExecution(f, database, sent) ==
  f = [i \in 0..Len(sent) |-> IF i = 0 THEN [store |-> database, results |-> <<>>]
                              ELSE execute(f[i - 1], sent[i])]

\* What that means for the values of f.
Executions(f, database, sent) ==
  /\ f \in [0..Len(sent) -> Executed] /\ f[0] = [store |-> database, results |-> <<>>]
  /\ \A i \in 1..Len(sent) : f[i] = execute(f[i - 1], sent[i])

\* There is such a function, and Execute() is its last value.
LEMMA ExecuteRounds ==
  ASSUME NEW database \in Stores, NEW sent \in Seq(Buffers)
  PROVE  \E f : Executions(f, database, sent) /\ Execute(database, sent) = f[Len(sent)]
<1>. DEFINE start == [store |-> database, results |-> <<>>]
            step == [p \in Executed \X Nat |-> execute(p[1], sent[p[2]])]
            h == CHOOSE g : g = [i \in 0..Len(sent) |->
                                   IF i = 0 THEN [store |-> database, results |-> <<>>]
                                   ELSE execute(g[i - 1], sent[i])]
<1>1. PICK n \in Nat : n = Len(sent)
  BY LenProperties
<1>2. start \in Executed
  BY EmptySeq DEF Executed
<1>3. \A x \in Executed, i \in 1..n :
        step[<<x, i>>] = execute(x, sent[i]) /\ execute(x, sent[i]) \in Executed
  <2>. TAKE x \in Executed, i \in 1..n
  <2>1. PICK p : p = <<x, i>>
    OBVIOUS
  <2>2. p \in Executed \X Nat /\ p[1] = x /\ p[2] = i
    BY <2>1
  <2>3. step[p] = execute(p[1], sent[p[2]])
    BY <2>2
  <2>4. sent[i] \in Buffers
    BY <1>1, ElementOfSeq
  <2>5. execute(x, sent[i]) \in Executed
    BY <2>4, ExecuteStep
  <2>. HIDE DEF step
  <2>. QED  BY <2>1, <2>2, <2>3, <2>5
<1>4. StaysIn(Executed, step, n)
  <2>. HIDE DEF step
  <2>. QED  BY <1>3 DEF StaysIn
<1>5. PICK f : IsLoop(f, step, start, n)
  <2>. HIDE DEF step, start
  <2>. QED  BY <1>2, <1>4, StepsExist
<1>6. Rounds(f, Executed, step, start, n)
  <2>. HIDE DEF step, start
  <2>. QED  BY <1>2, <1>4, <1>5, LoopType
<1>7. f = [i \in 0..n |-> IF i = 0 THEN start ELSE execute(f[i - 1], sent[i])]
  <2>1. f = [i \in 0..n |-> IF i = 0 THEN start ELSE step[<<f[i - 1], i>>]]
    <3>. HIDE DEF step, start
    <3>. QED  BY <1>5 DEF IsLoop
  <2>2. \A i \in 1..n : f[i - 1] \in Executed
    <3>. HIDE DEF step, start
    <3>1. \A i \in 1..n : i - 1 \in 0..n
      OBVIOUS
    <3>. QED  BY <1>6, <3>1 DEF Rounds
  <2>3. \A i \in 0..n : i = 0 \/ step[<<f[i - 1], i>>] = execute(f[i - 1], sent[i])
    <3>. HIDE DEF step, start
    <3>1. \A i \in 0..n : i = 0 \/ i \in 1..n
      OBVIOUS
    <3>. QED  BY <1>3, <2>2, <3>1
  <2>. HIDE DEF step, start
  <2>. QED  BY <2>1, <2>3
<1>8. IsExecution(h, database, sent)
  <2>1. IsExecution(f, database, sent)
    BY <1>1, <1>7 DEF IsExecution
  <2>. QED  BY <2>1 DEF IsExecution
<1>9. Execute(database, sent) = h[n]
  BY <1>1 DEF Execute
<1>. HIDE DEF h
<1>10. h = [i \in 0..n |-> IF i = 0 THEN start ELSE execute(h[i - 1], sent[i])]
  BY <1>1, <1>8 DEF IsExecution
<1>11. \A i \in 0..n : h[i] \in Executed
  <2>. DEFINE P == {i \in 0..n : h[i] \in Executed}
  <2>1. P \in SUBSET (0..n) /\ 0 \in P
    <3>1. 0 \in 0..n
      OBVIOUS
    <3>. HIDE DEF start
    <3>. QED  BY <1>2, <1>10, <3>1
  <2>2. \A i \in 1..n : i - 1 \in P => i \in P
    <3>. TAKE i \in 1..n
    <3>1. i \in 0..n /\ i # 0
      OBVIOUS
    <3>2. h[i] = execute(h[i - 1], sent[i])
      <4>. HIDE DEF start
      <4>. QED  BY <1>10, <3>1
    <3>3. h[i - 1] \in Executed => execute(h[i - 1], sent[i]) \in Executed
      BY <1>3
    <3>. QED  BY <3>1, <3>2, <3>3
  <2>3. P = 0..n
    <3>. HIDE DEF P
    <3>. QED  BY <2>1, <2>2, UpToInduction
  <2>. QED  BY <2>3
<1>12. \A i \in 1..n : h[i] = execute(h[i - 1], sent[i])
  <2>1. \A i \in 1..n : i \in 0..n /\ i # 0
    OBVIOUS
  <2>. HIDE DEF start
  <2>. QED  BY <1>10, <2>1
<1>13. h \in [0..n -> Executed] /\ h[0] = start
  <2>1. 0 \in 0..n
    OBVIOUS
  <2>. HIDE DEF start
  <2>. QED  BY <1>10, <1>11, <2>1
<1>14. Executions(h, database, sent)
  BY <1>1, <1>12, <1>13 DEF Executions
<1>. QED  BY <1>1, <1>9, <1>14

\* What executing requests leads to; and nothing, and one.
LEMMA ExecuteType ==
  ASSUME NEW database \in Stores, NEW sent \in Seq(Buffers)
  PROVE  /\ Execute(database, sent) \in Executed
         /\ sent = <<>> => Execute(database, sent) = [store |-> database, results |-> <<>>]
         /\ Len(sent) = 1 =>
              Execute(database, sent) = execute([store |-> database, results |-> <<>>], sent[1])
<1>1. PICK n \in Nat : n = Len(sent)
  BY LenProperties
<1>2. PICK f : Executions(f, database, sent) /\ Execute(database, sent) = f[n]
  BY <1>1, ExecuteRounds
<1>3. f \in [0..n -> Executed] /\ n \in 0..n /\ f[0] = [store |-> database, results |-> <<>>]
  BY <1>1, <1>2 DEF Executions
<1>4. sent = <<>> => n = 0
  BY <1>1, EmptySeq
<1>5. n = 1 => f[1] = execute(f[0], sent[1])
  <2>1. n = 1 => 1 \in 1..n /\ 1 - 1 = 0
    OBVIOUS
  <2>. QED  BY <1>1, <1>2, <2>1 DEF Executions
<1>. QED  BY <1>1, <1>2, <1>3, <1>4, <1>5

-----------------------------------------------------------------------------
(* Replies.                                                                *)

\* The last two bytes.
LEMMA EndsLineIs ==
  ASSUME NEW b \in Seq(Byte)
  PROVE  EndsLine(b) <=> Len(b) >= 2 /\ EndsAt(b, Len(b) - 2)
<1>1. PICK n \in Nat : n = Len(b)
  BY LenProperties
<1>2. CASE n < 2
  BY <1>1, <1>2 DEF EndsLine
<1>3. CASE n >= 2
  <2>1. PICK p \in Nat : p = n - 2 /\ p + 2 = n
    BY <1>3
  <2>2. SubSeq(b, p + 1, p + 2) = CRLF <=> EndsAt(b, p)
    BY <1>1, <2>1, TwoBytes
  <2>3. Drop(b, p) = SubSeq(b, p + 1, p + 2)
    BY <1>1, <2>1 DEF Drop
  <2>. QED  BY <1>1, <1>3, <2>1, <2>2, <2>3 DEF EndsLine
<1>. QED  BY <1>1, <1>2, <1>3

\* The client waits for all of w and then shows r.
ReadsAs(w, r) ==
  /\ w \in Seq(Byte) /\ Len(w) >= 1
  /\ \A b \in Seq(Byte) : Len(b) >= 1 /\ Placed(w, 0, b) =>
       ReplySize(b) = IF Len(b) = Len(w) THEN Len(w) ELSE NotFound
  /\ decode_resp(w) = r

\* A reply that is one line.
LEMMA LineReply ==
  ASSUME NEW t \in {"+", "-", ":"}, NEW text \in Seq(Byte), NoBreak(text)
  PROVE  ReadsAs((<<t>> \o text) \o CRLF, [type |-> t, text |-> text])
<1>1. PICK first \in Seq(Byte) : first = <<t>> /\ Len(first) = 1 /\ first[1] = t
  <2>1. t \in Byte
    BY RespAssumption
  <2>. QED  BY <2>1, OneElement
<1>2. PICK end \in Seq(Byte) : end = CRLF /\ Len(end) = 2 /\ end[1] = "\r" /\ end[2] = "\n"
  BY CrlfIs
<1>3. PICK m \in Nat : m = Len(text)
  BY LenProperties
<1>4. PICK l \in Nat : l = 1 + m
  OBVIOUS
<1>5. PICK a \in Seq(Byte) : a = first \o text /\ Len(a) = l /\ IsJoin(a, first, text)
                             /\ Placed(a, 0, first) /\ Placed(a, 1, text)
  BY <1>1, <1>3, <1>4, JoinIs, JoinPlaced
<1>6. PICK w \in Seq(Byte) : w = a \o end /\ Len(w) = l + 2 /\ IsJoin(w, a, end)
                             /\ Placed(w, 0, a) /\ Placed(w, l, end)
  BY <1>2, <1>5, JoinIs, JoinPlaced
<1>7. NoBreak(a)
  <2>1. NoBreak(first)
    <3>1. \A i \in 1..1 : i = 1
      OBVIOUS
    <3>. QED  BY <1>1, <3>1 DEF NoBreak
  <2>. QED  BY <1>5, <2>1, NoBreakJoin
<1>8. w[1] = t /\ Placed(w, 1, text)
  <2>1. Len(w) \in Nat /\ Len(a) \in Nat /\ Len(first) \in Nat /\ Len(text) \in Nat
    BY LenProperties
  <2>2. Placed(w, 0 + 0, first) /\ Placed(w, 0 + 1, text)
    BY <1>5, <1>6, <2>1, PlacedInside
  <2>3. w[0 + 1] = first[1]
    <3>1. Placed(w, 0, first)
      BY <2>2
    <3>. QED  BY <1>1, <2>1, <3>1, PlacedOne
  <2>. QED  BY <1>1, <2>2, <2>3
<1>9. \A i \in 1..(l + 1) : w[i] # "\n"
  <2>. SUFFICES ASSUME NEW i \in 1..(l + 1) PROVE w[i] # "\n"
    OBVIOUS
  <2>1. CASE i <= l
    <3>1. i \in 1..Len(a)
      BY <1>5, <2>1
    <3>. QED  BY <1>6, <1>7, <3>1 DEF IsJoin, NoBreak
  <2>2. CASE ~(i <= l)
    <3>1. i = l + 1 /\ 1 \in 1..Len(end)
      BY <1>2, <2>2
    <3>2. w[l + 1] = end[1]
      BY <1>5, <1>6, <3>1 DEF IsJoin
    <3>. QED  BY <1>2, <3>1, <3>2
  <2>. QED  BY <2>1, <2>2
<1>10. EndsAt(w, l)
  <2>1. w[l + 1] = end[1] /\ w[l + 2] = end[2]
    <3>1. Len(w) \in Nat
      BY LenProperties
    <3>. QED  BY <1>2, <1>6, <3>1, PlacedTwo
  <2>. QED  BY <1>2, <1>6, <2>1 DEF EndsAt
<1>11. ASSUME NEW b \in Seq(Byte), Len(b) >= 1, Placed(w, 0, b)
       PROVE  ReplySize(b) = IF Len(b) = Len(w) THEN Len(w) ELSE NotFound
  <2>1. PICK n \in Nat : n = Len(b) /\ n >= 1 /\ n <= l + 2
    BY <1>6, <1>11, LenProperties DEF Placed
  <2>2. \A i \in 1..n : b[i] = w[i]
    BY <1>11, <2>1 DEF Placed
  <2>3. b[1] = t
    BY <1>8, <2>1, <2>2
  <2>4. ReplySize(b) = IF EndsLine(b) THEN Len(b) ELSE NotFound
    BY <2>3 DEF ReplySize
  <2>5. CASE n = l + 2
    <3>1. EndsAt(b, l)
      <4>1. b[l + 1] = w[l + 1] /\ b[l + 2] = w[l + 2]
        BY <2>2, <2>5
      <4>. QED  BY <1>10, <2>1, <2>5, <4>1 DEF EndsAt
    <3>2. n - 2 = l /\ n >= 2
      BY <2>5
    <3>3. EndsLine(b)
      BY <2>1, <3>1, <3>2, EndsLineIs
    <3>. QED  BY <1>6, <2>1, <2>4, <2>5, <3>3
  <2>6. CASE n # l + 2
    <3>1. n \in 1..(l + 1)
      BY <2>1, <2>6
    <3>2. b[n] # "\n"
      BY <1>9, <2>2, <3>1
    <3>3. ~EndsLine(b)
      <4>1. n >= 2 => (n - 2) + 2 = n
        OBVIOUS
      <4>2. n >= 2 /\ EndsAt(b, n - 2) => b[n] = "\n"
        BY <4>1 DEF EndsAt
      <4>. QED  BY <2>1, <3>2, <4>2, EndsLineIs
    <3>. QED  BY <1>6, <2>1, <2>4, <2>6, <3>3
  <2>. QED  BY <2>5, <2>6
<1>12. decode_resp(w) = [type |-> t, text |-> text]
  <2>1. SubSeq(w, 1 + 1, 1 + Len(text)) = text
    BY <1>8, PlacedPiece
  <2>2. 1 + 1 = 2 /\ 1 + Len(text) = Len(w) - 2
    BY <1>3, <1>4, <1>6
  <2>3. w[1] # "$"
    BY <1>8
  <2>. QED  BY <1>8, <2>1, <2>2, <2>3 DEF decode_resp
<1>13. w = (<<t>> \o text) \o CRLF
  BY <1>1, <1>2, <1>5, <1>6
<1>14. Len(w) >= 1
  BY <1>6
<1>. QED  BY <1>11, <1>12, <1>13, <1>14 DEF ReadsAs

\* The first line of a bulk string, as far as there is something of it.
LEMMA FirstLine ==
  ASSUME NEW w \in Seq(Byte), NEW e \in Nat, LineEnd(w, 0) = e, EndsAt(w, e),
         NEW b \in Seq(Byte), Len(b) >= 1, Placed(w, 0, b)
  PROVE  /\ b[1] = w[1]
         /\ LineEnd(b, 0) = IF e + 2 <= Len(b) THEN e ELSE NotFound
         /\ e + 2 <= Len(b) => SubSeq(b, 2, e) = SubSeq(w, 2, e)
<1>1. PICK n \in Nat, k \in Nat : n = Len(b) /\ k = Len(w) /\ n <= k /\ n >= 1
  BY LenProperties DEF Placed
<1>2. \A i \in 1..n : b[i] = w[i]
  BY <1>1 DEF Placed
<1>3. Alike(w, b)
  BY <1>1, <1>2 DEF Alike
<1>4. b[1] = w[1]
  BY <1>1, <1>2
<1>5. LineEnd(w, 0) # NotFound
  BY DEF NotFound
<1>6. LineEnd(b, 0) = IF e + 2 <= Len(b) THEN e ELSE NotFound
  BY <1>3, <1>5, LineEndAlike
<1>7. ASSUME e + 2 <= Len(b) PROVE SubSeq(b, 2, e) = SubSeq(w, 2, e)
  <2>1. PICK m \in Nat \ {0} : m = 2
    OBVIOUS
  <2>2. e <= Len(b) /\ e <= Len(w)
    BY <1>1, <1>7
  <2>3. SubSeq(w, m, e) = SubSeq(b, m, e)
    BY <1>3, <2>2, PieceAlike
  <2>. QED  BY <2>1, <2>3
<1>. QED  BY <1>4, <1>6, <1>7

\* Two numbers as text: that of a bulk string is not the one of a nil.
LEMMA NilNumber ==
  /\ from_chars[<<"-", "1">>] = -1
  /\ \A n \in Nat : Numeral[n] # <<"-", "1">>
<1>1. PICK t : t = <<"-", "1">>
  OBVIOUS
<1>2. "-" \in Byte /\ "1" \in Byte
  <2>1. Digit[1] \in Digits /\ Digit[1] \in Byte
    BY DigitProps
  <2>2. Digit[1] = "1"
    BY DEF Digit
  <2>. QED  BY <2>1, <2>2, RespAssumption
<1>3. t \in Seq(Byte) /\ Len(t) = 2 /\ t[1] = "-" /\ t[2] = "1"
  <2>1. /\ <<"-", "1">> \in Seq(Byte) /\ Len(<<"-", "1">>) = 2
        /\ <<"-", "1">>[1] = "-" /\ <<"-", "1">>[2] = "1"
    BY <1>2, TwoElements
  <2>. QED  BY <1>1, <2>1
<1>4. PICK one : one = Numeral[1] /\ one \in Seq(Digits) /\ one # <<>> /\ Value[one] = 1
  BY NumeralProps
<1>5. Tail(t) = one
  <2>1. one = <<Digit[1]>>
    <3>1. Numeral[1] = IF 1 < 10 THEN <<Digit[1]>> ELSE Append(Numeral[1 \div 10], Digit[1 % 10])
      BY NumeralEquation
    <3>. QED  BY <1>4, <3>1
  <2>2. Digit[1] = "1"
    BY DEF Digit
  <2>3. Tail(<<"-", "1">>) = <<"1">>
    OBVIOUS
  <2>. QED  BY <1>1, <2>1, <2>2, <2>3
<1>6. Head(t) = "-" /\ t # <<>>
  <2>1. t # <<>>
    <3>1. PICK u \in Seq(Byte) : u = t /\ Len(u) # 0
      BY <1>3
    <3>2. u # <<>>
      BY <3>1, EmptySeq
    <3>. QED  BY <3>1, <3>2
  <2>. QED  BY <1>3, <2>1, HeadTailProperties
<1>7. Unsigned(t) = one
  BY <1>5, <1>6 DEF Unsigned
<1>8. IsNumeral(one)
  BY <1>4, DigitProps DEF IsNumeral
<1>9. Signed(t, one) = -1
  <2>1. ~(Value[one] > LongMax)
    BY <1>4, Sizes
  <2>. QED  BY <1>4, <1>6, <2>1 DEF Signed
<1>10. from_chars[t] = -1
  BY <1>3, <1>7, <1>8, <1>9 DEF from_chars
<1>11. \A n \in Nat : Numeral[n] # t
  <2>. TAKE n \in Nat
  <2>1. PICK num : num = Numeral[n] /\ num \in Seq(Digits)
    BY NumeralProps
  <2>2. num = t => t[1] \in Digits
    <3>1. 1 \in 1..Len(t)
      BY <1>3
    <3>. QED  BY <2>1, <3>1, ElementOfSeq
  <2>. QED  BY <1>3, <2>1, <2>2, DigitProps
<1>. QED  BY <1>1, <1>10, <1>11

\* A reply that is no value.
LEMMA NilReply == ReadsAs(<<"$", "-", "1">> \o CRLF, Nil)
<1>1. "-" \in Byte /\ "1" \in Byte /\ "$" \in Byte
  <2>1. Digit[1] \in Digits /\ Digit[1] \in Byte
    BY DigitProps
  <2>2. Digit[1] = "1"
    BY DEF Digit
  <2>. QED  BY <2>1, <2>2, RespAssumption
<1>2. PICK text \in Seq(Byte) : text = <<"$", "-", "1">> /\ Len(text) = 3
        /\ text[1] = "$" /\ text[2] = "-" /\ text[3] = "1"
  <2>1. /\ <<"$", "-", "1">> \in Seq(Byte) /\ Len(<<"$", "-", "1">>) = 3
        /\ <<"$", "-", "1">>[1] = "$" /\ <<"$", "-", "1">>[2] = "-" /\ <<"$", "-", "1">>[3] = "1"
    BY <1>1, ThreeElements
  <2>. QED  BY <2>1
<1>3. PICK end \in Seq(Byte) : end = CRLF /\ Len(end) = 2 /\ end[1] = "\r" /\ end[2] = "\n"
  BY CrlfIs
<1>4. PICK w \in Seq(Byte) : w = text \o end /\ Len(w) = 5
                             /\ Placed(w, 0, text) /\ Placed(w, 3, end)
  <2>1. PICK l \in Nat : l = 3 /\ Len(text) = l
    BY <1>2
  <2>2. PICK w \in Seq(Byte) : w = text \o end /\ Len(w) = l + 2
                               /\ Placed(w, 0, text) /\ Placed(w, l, end)
    BY ZenonT(30), <1>3, <2>1, JoinPlaced
  <2>3. Len(w) = 5
    BY <2>1, <2>2
  <2>4. Placed(w, 3, end)
    BY <2>1, <2>2
  <2>. QED  BY <2>2, <2>3, <2>4
<1>5. LineEnd(w, 0) = 3 /\ EndsAt(w, 3)
  <2>1. \A i \in 1..3 : i = 1 \/ i = 2 \/ i = 3
    OBVIOUS
  <2>2. \A i \in 1..Len(text) : text[i] # "\r"
    BY <1>2, <2>1
  <2>3. Placed(w, 0 + Len(text), CRLF)
    BY <1>2, <1>3, <1>4
  <2>4. LineEnd(w, 0) = 0 + Len(text) /\ EndsAt(w, 0 + Len(text))
    BY <1>4, <2>2, <2>3, LineOf
  <2>. QED  BY <1>2, <2>4
<1>6. w[1] = "$" /\ SubSeq(w, 2, 3) = <<"-", "1">>
  <2>1. /\ <<"-", "1">> \in Seq(Byte) /\ Len(<<"-", "1">>) = 2
        /\ <<"-", "1">>[1] = "-" /\ <<"-", "1">>[2] = "1"
    BY <1>1, TwoElements
  <2>2. PICK t \in Seq(Byte) : t = <<"-", "1">> /\ Len(t) = 2 /\ t[1] = "-" /\ t[2] = "1"
    BY <2>1
  <2>3. w[1] = text[1] /\ w[2] = text[2] /\ w[3] = text[3]
    <3>1. 1 \in 1..3 /\ 2 \in 1..3 /\ 3 \in 1..3
      OBVIOUS
    <3>2. \A i \in 1..3 : w[0 + i] = text[i]
      BY <1>2, <1>4 DEF Placed
    <3>3. w[0 + 1] = text[1] /\ w[0 + 2] = text[2] /\ w[0 + 3] = text[3]
      BY <3>1, <3>2
    <3>. QED  BY <3>3
  <2>4. Placed(w, 1, t)
    <3>1. \A i \in 1..2 : i = 1 \/ i = 2
      OBVIOUS
    <3>2. w[1 + 1] = t[1] /\ w[1 + 2] = t[2]
      BY <1>2, <2>2, <2>3
    <3>3. \A i \in 1..2 : w[1 + i] = t[i]
      BY <3>1, <3>2
    <3>. QED  BY <1>4, <2>2, <3>3 DEF Placed
  <2>5. SubSeq(w, 1 + 1, 1 + Len(t)) = t
    BY <2>4, PlacedPiece
  <2>. QED  BY <1>2, <2>2, <2>3, <2>5
<1>7. ASSUME NEW b \in Seq(Byte), Len(b) >= 1, Placed(w, 0, b)
      PROVE  ReplySize(b) = IF Len(b) = Len(w) THEN Len(w) ELSE NotFound
  <2>1. PICK n \in Nat : n = Len(b) /\ n <= 5
    BY <1>4, <1>7, LenProperties DEF Placed
  <2>2. PICK e \in Nat : e = 3
    OBVIOUS
  <2>3. /\ b[1] = "$" /\ LineEnd(b, 0) = IF e + 2 <= Len(b) THEN e ELSE NotFound
        /\ e + 2 <= Len(b) => SubSeq(b, 2, e) = SubSeq(w, 2, e)
    BY <1>5, <1>6, <1>7, <2>2, FirstLine
  <2>4. CASE n = 5
    <3>1. LineEnd(b, 0) = 3 /\ SubSeq(b, 2, 3) = <<"-", "1">>
      <4>1. e + 2 <= Len(b)
        BY <2>1, <2>2, <2>4
      <4>2. LineEnd(b, 0) = e /\ SubSeq(b, 2, e) = SubSeq(w, 2, e)
        BY <2>3, <4>1
      <4>. QED  BY <1>6, <2>2, <4>2
    <3>2. from_chars[SubSeq(b, 2, LineEnd(b, 0))] = -1
      BY <3>1, NilNumber
    <3>3. LineEnd(b, 0) # NotFound
      BY <3>1 DEF NotFound
    <3>4. -1 \notin 0..LongMax
      BY Sizes
    <3>5. ReplySize(b) = Len(b)
      BY <2>3, <3>2, <3>3, <3>4 DEF ReplySize
    <3>. QED  BY <1>4, <2>1, <2>4, <3>5
  <2>5. CASE n # 5
    <3>1. LineEnd(b, 0) = NotFound
      BY <2>1, <2>2, <2>3, <2>5
    <3>2. ReplySize(b) = NotFound
      BY <2>3, <3>1 DEF ReplySize
    <3>. QED  BY <1>4, <2>1, <2>5, <3>2
  <2>. QED  BY <2>4, <2>5
<1>8. decode_resp(w) = Nil
  BY <1>5, <1>6 DEF decode_resp
<1>9. w = <<"$", "-", "1">> \o CRLF
  BY <1>2, <1>3, <1>4
<1>10. ReadsAs(w, Nil)
  <2>1. Len(w) >= 1
    BY <1>4
  <2>. QED  BY <1>7, <1>8, <2>1 DEF ReadsAs
<1>. QED  BY <1>9, <1>10

\* A reply that is a value.
LEMMA BulkReply ==
  ASSUME NEW value \in Text
  PROVE  ReadsAs(resp_bulk_string(value), Bulk(value))
<1>1. PICK v \in Nat : v = Len(value) /\ v <= LongMax /\ value \in Seq(Byte)
  BY LenProperties DEF Text
<1>2. PICK w \in Seq(Byte), head \in Seq(Byte) :
        w = resp_bulk_string(value) /\ IsBulkText(w, head, value)
  BY <1>1, BulkParts DEF IsBulkText, IsHead
<1>3. PICK e \in Nat, k \in Nat : e = Len(head) /\ k = Len(w)
  BY LenProperties
<1>4. k = ((e + 2) + v) + 2
  BY <1>1, <1>2, <1>3 DEF IsBulkText
<1>5. /\ w[1] = "$" /\ LineEnd(w, 0) = e /\ EndsAt(w, e) /\ SubSeq(w, 2, e) = Numeral[v]
      /\ e >= 1
  <2>1. PICK mark : mark = "$"
    OBVIOUS
  <2>2. IsHead(head, mark, v) /\ Placed(w, 0, head) /\ Placed(w, e, CRLF)
    BY <1>1, <1>2, <1>3, <2>1 DEF IsBulkText
  <2>3. 0 + Len(head) = e /\ 0 + 1 = 1 /\ 0 + 2 = 2
    BY <1>3
  <2>4. Placed(w, 0 + Len(head), CRLF)
    BY <2>2, <2>3
  <2>5. HeadAt(w, 0, head, mark, v)
    BY <2>2, <2>4, HeadRead
  <2>. QED  BY <1>3, <2>1, <2>3, <2>5 DEF HeadAt
<1>6. v \in 0..LongMax /\ v # -1 /\ from_chars[Numeral[v]] = v
  <2>1. v \in 0..LongMax
    BY <1>1, Sizes
  <2>. QED  BY <2>1, BothRead DEF Reads
<1>7. ASSUME NEW b \in Seq(Byte), Len(b) >= 1, Placed(w, 0, b)
      PROVE  ReplySize(b) = IF Len(b) = Len(w) THEN Len(w) ELSE NotFound
  <2>1. PICK n \in Nat : n = Len(b) /\ n <= k
    BY <1>3, <1>7, LenProperties DEF Placed
  <2>2. /\ b[1] = "$" /\ LineEnd(b, 0) = IF e + 2 <= Len(b) THEN e ELSE NotFound
        /\ e + 2 <= Len(b) => SubSeq(b, 2, e) = SubSeq(w, 2, e)
    BY <1>5, <1>7, FirstLine
  <2>3. CASE e + 2 <= n
    <3>1. LineEnd(b, 0) = e /\ from_chars[SubSeq(b, 2, LineEnd(b, 0))] = v
      BY <1>5, <1>6, <2>1, <2>2, <2>3
    <3>2. LineEnd(b, 0) # NotFound
      BY <3>1 DEF NotFound
    <3>3. ReplySize(b) = IF Len(b) >= e + 2 + v + 2 THEN e + 2 + v + 2 ELSE NotFound
      BY <1>6, <2>2, <3>1, <3>2 DEF ReplySize
    <3>. QED  BY <1>3, <1>4, <2>1, <3>3
  <2>4. CASE ~(e + 2 <= n)
    <3>1. LineEnd(b, 0) = NotFound
      BY <2>1, <2>2, <2>4
    <3>2. ReplySize(b) = NotFound
      BY <2>2, <3>1 DEF ReplySize
    <3>3. n # k
      BY <1>4, <2>4
    <3>. QED  BY <1>3, <2>1, <3>2, <3>3
  <2>. QED  BY <2>3, <2>4
<1>8. decode_resp(w) = Bulk(value)
  <2>1. SubSeq(w, 2, e) # <<"-", "1">>
    BY <1>5, NilNumber
  <2>2. PICK p \in Nat, q \in Nat : p = e + 2 /\ q = p + v /\ q = k - 2 /\ q + 2 = k
    BY <1>4
  <2>3. Placed(w, p, value) /\ Placed(w, q, CRLF)
    BY <1>1, <1>2, <1>3, <2>2 DEF IsBulkText
  <2>4. SubSeq(w, p + 1, p + Len(value)) = value
    BY <1>1, <2>3, PlacedPiece
  <2>5. p + 1 = e + 3 /\ p + Len(value) = Len(w) - 2
    BY <1>1, <1>3, <2>2
  <2>6. EndsLine(w)
    <3>1. w[q + 1] = CRLF[1] /\ w[q + 2] = CRLF[2] /\ Len(w) \in Nat
      <4>. HIDE DEF CRLF
      <4>. QED  BY <1>3, <2>3, CrlfIs, PlacedTwo
    <3>2. EndsAt(w, q) /\ Len(w) >= 2 /\ Len(w) - 2 = q
      BY <1>3, <2>2, <3>1, CrlfIs DEF EndsAt
    <3>. QED  BY <3>2, EndsLineIs
  <2>. QED  BY <1>5, <2>1, <2>4, <2>5, <2>6 DEF decode_resp
<1>9. Len(w) >= 1
  BY <1>3, <1>4
<1>. QED  BY <1>2, <1>7, <1>8, <1>9 DEF ReadsAs

\* The client waits for the whole reply and shows the result.
LEMMA ReplyRead ==
  ASSUME NEW r, Readable(r)
  PROVE  ReadsAs(Reply(r), r)
<1>1. r \in Replies /\ r = [type |-> r.type, text |-> r.text]
      /\ r.type \in {"+", "-", ":", "$", "nil"} /\ r.text \in Seq(Byte)
  BY DEF Readable, Replies
<1>2. CASE r.type \in {"+", "-", ":"}
  <2>1. PICK t \in {"+", "-", ":"}, text \in Seq(Byte) : t = r.type /\ text = r.text /\ NoBreak(text)
    BY <1>1, <1>2 DEF Readable
  <2>2. Reply(r) = (<<t>> \o text) \o CRLF
    BY <2>1 DEF Reply
  <2>3. r = [type |-> t, text |-> text]
    BY <1>1, <2>1
  <2>4. ReadsAs((<<t>> \o text) \o CRLF, [type |-> t, text |-> text])
    BY <2>1, LineReply
  <2>. QED  BY <2>2, <2>3, <2>4
<1>3. CASE r.type = "$"
  <2>1. PICK value \in Text : value = r.text
    BY <1>3 DEF Readable
  <2>2. Reply(r) = resp_bulk_string(value)
    BY <1>3, <2>1 DEF Reply
  <2>3. r = Bulk(value)
    BY <1>1, <1>3, <2>1 DEF Bulk
  <2>. QED  BY <2>2, <2>3, BulkReply
<1>4. CASE r.type = "nil"
  <2>1. Reply(r) = <<"$", "-", "1">> \o CRLF
    BY <1>4 DEF Reply
  <2>2. r = Nil
    BY <1>1, <1>4 DEF Readable, Nil
  <2>. QED  BY <2>1, <2>2, NilReply
<1>. QED  BY <1>1, <1>2, <1>3, <1>4

\* A reply is a sequence of bytes.
LEMMA ReplyType ==
  ASSUME NEW r \in Replies
  PROVE  Reply(r) \in Seq(Byte)
<1>1. r.type \in {"+", "-", ":", "$", "nil"} /\ r.text \in Seq(Byte)
  BY DEF Replies
<1>2. CASE r.type = "$"
  BY <1>1, <1>2, BulkText DEF Reply
<1>3. CASE r.type = "nil"
  <2>1. <<"$", "-", "1">> \o CRLF \in Seq(Byte)
    BY NilReply DEF ReadsAs
  <2>. QED  BY <1>3, <2>1 DEF Reply
<1>4. CASE r.type \in {"+", "-", ":"}
  <2>1. PICK t \in Byte : t = r.type
    BY <1>4, RespAssumption
  <2>2. <<t>> \in Seq(Byte)
    BY OneElement
  <2>3. PICK a \in Seq(Byte) : a = <<t>> \o r.text
    BY <1>1, <2>2, ConcatProperties
  <2>4. a \o CRLF \in Seq(Byte)
    BY CrlfIs, ConcatProperties
  <2>5. Reply(r) = a \o CRLF
    BY <1>4, <2>1, <2>3 DEF Reply
  <2>. QED  BY <2>4, <2>5
<1>. QED  BY <1>1, <1>2, <1>3, <1>4

\* What is put into the output buffer.
Output(results) == FlattenSeq([i \in DOMAIN results |-> Reply(results[i])])

\* It is a text; that of no reply and that of one.
LEMMA RepliesText ==
  ASSUME NEW results \in Seq(Replies)
  PROVE  /\ Output(results) \in Seq(Byte)
         /\ results = <<>> => Output(results) = <<>>
         /\ Len(results) = 1 => Output(results) = Reply(results[1])
<1>. DEFINE texts == [i \in DOMAIN results |-> Reply(results[i])]
<1>1. PICK n \in Nat : n = Len(results) /\ DOMAIN results = 1..n
  BY LenProperties
<1>2. \A i \in 1..n : Reply(results[i]) \in Seq(Byte)
  <2>1. \A i \in 1..n : results[i] \in Replies
    BY <1>1, ElementOfSeq
  <2>. QED  BY <2>1, ReplyType
<1>3. texts \in Seq(Seq(Byte)) /\ Len(texts) = n
  <2>1. texts \in [DOMAIN results -> Seq(Byte)]
    BY <1>1, <1>2
  <2>. HIDE DEF texts
  <2>. QED  BY <1>1, <2>1, MapSeq
<1>4. n = 1 => texts[1] = Reply(results[1])
  <2>1. n = 1 => 1 \in 1..n
    OBVIOUS
  <2>. QED  BY <1>1, <2>1
<1>5. Output(results) = FlattenSeq(texts)
  BY DEF Output
<1>. HIDE DEF texts
<1>6. results = <<>> => n = 0
  BY <1>1, EmptySeq
<1>. QED  BY <1>1, <1>3, <1>4, <1>5, <1>6, FlattenFew

\* What the client shows is a reply.
LEMMA DecodeType ==
  ASSUME NEW b \in Seq(Byte), Len(b) >= 1, ReplySize(b) # NotFound
  PROVE  /\ ReplySize(b) \in 1..Len(b)
         /\ decode_resp(Take(b, ReplySize(b))) \in Replies
<1>1. PICK z, e, length, n :
        n = Len(b) /\ z = ReplySize(b) /\ e = LineEnd(b, 0) /\ length = from_chars[SubSeq(b, 2, e)]
        /\ n \in Nat
  BY LenProperties
<1>2. e \in Nat \/ e = NotFound
  <2>1. PICK p \in Nat : p = 0
    OBVIOUS
  <2>2. LineEnd(b, p) \in Nat \/ LineEnd(b, p) = NotFound
    BY LineEndProps
  <2>. QED  BY <1>1, <2>1, <2>2
<1>. DEFINE line == b[1] \in {"+", "-", ":"}
            nil == b[1] = "$" /\ e # NotFound /\ length = -1
            value == b[1] = "$" /\ e # NotFound /\ length \in 0..LongMax
            expected == e + 2 + length + 2
<1>3. z = CASE line -> IF EndsLine(b) THEN n ELSE NotFound
            [] nil -> n
            [] value -> IF n >= expected THEN expected ELSE NotFound
            [] OTHER -> NotFound
  BY <1>1 DEF ReplySize
<1>4. value => e \in Nat /\ length \in Nat /\ expected >= 1 /\ expected \in Nat
  BY <1>2, Sizes
<1>5. b[1] \in {"+", "-", ":", "$"} /\ (z = n \/ (value /\ n >= expected /\ z = expected))
  <2>. HIDE DEF expected
  <2>. QED  BY <1>1, <1>3
<1>6. z \in 1..n
  BY <1>1, <1>4, <1>5
<1>7. PICK t \in Seq(Byte) : t = Take(b, z) /\ Len(t) = z /\ t[1] = b[1]
  <2>1. PICK one \in Nat \ {0} : one = 1
    OBVIOUS
  <2>2. z \in Int /\ z <= Len(b) /\ one <= z /\ z - one + 1 = z
    BY <1>1, <1>6, <2>1
  <2>3. SubSeq(b, one, z) \in Seq(Byte) /\ Len(SubSeq(b, one, z)) = z
    BY <2>2, Piece
  <2>4. SubSeq(b, one, z)[1] = b[one + 1 - 1]
    <3>1. 1 \in 1..(z - one + 1)
      BY <2>1, <2>2
    <3>. QED  BY <2>2, <3>1, Piece
  <2>5. one + 1 - 1 = 1
    BY <2>1
  <2>6. Take(b, z) = SubSeq(b, one, z)
    BY <2>1 DEF Take
  <2>. QED  BY <2>3, <2>4, <2>5, <2>6
<1>8. decode_resp(t) \in Replies
  <2>1. CASE t[1] # "$"
    <3>1. t[1] \in {"+", "-", ":"}
      BY <1>5, <1>7, <2>1
    <3>2. SubSeq(t, 2, Len(t) - 2) \in Seq(Byte)
      <4>1. PICK m \in Nat \ {0}, k \in Int : m = 2 /\ k = Len(t) - 2 /\ k <= Len(t)
        BY LenProperties
      <4>2. SubSeq(t, m, k) \in Seq(Byte)
        BY <4>1, Piece
      <4>. QED  BY <4>1, <4>2
    <3>. QED  BY <2>1, <3>1, <3>2 DEF decode_resp, Replies
  <2>2. CASE t[1] = "$"
    <3>1. PICK d : d = LineEnd(t, 0) /\ (d \in Nat \/ d = -1)
      <4>1. PICK p \in Nat : p = 0
        OBVIOUS
      <4>2. LineEnd(t, p) \in Nat \/ LineEnd(t, p) = NotFound
        BY LineEndProps
      <4>. QED  BY <4>1, <4>2 DEF NotFound
    <3>2. \A k \in Int : k <= Len(t) => SubSeq(t, d + 3, k) \in Seq(Byte)
      <4>1. PICK m \in Nat \ {0} : m = d + 3
        BY <3>1
      <4>2. \A k \in Int : k <= Len(t) => SubSeq(t, m, k) \in Seq(Byte)
        BY Piece
      <4>. QED  BY <4>1, <4>2
    <3>3. SubSeq(t, d + 3, IF EndsLine(t) THEN Len(t) - 2 ELSE Len(t)) \in Seq(Byte)
      <4>1. PICK l \in Nat : l = Len(t)
        BY LenProperties
      <4>2. l - 2 \in Int /\ l - 2 <= l /\ l \in Int /\ l <= l
        OBVIOUS
      <4>3. SubSeq(t, d + 3, l - 2) \in Seq(Byte) /\ SubSeq(t, d + 3, l) \in Seq(Byte)
        BY <3>2, <4>1, <4>2
      <4>. QED  BY <4>1, <4>3
    <3>4. Nil \in Replies
      BY FixedReplies DEF Readable
    <3>. QED  BY <2>2, <3>1, <3>3, <3>4 DEF decode_resp, Bulk, Replies
  <2>. QED  BY <2>1, <2>2
<1>. QED  BY <1>1, <1>6, <1>7, <1>8

\* What executing the request for a command does.
LEMMA ExecuteRequest ==
  ASSUME NEW arguments, Arguments(arguments), encode_resp(arguments) \in Text,
         NEW database \in Stores
  PROVE  Execute(database, <<encode_resp(arguments)>>) =
           [store |-> Effect(arguments, database), results |-> <<Answer(arguments, database)>>]
<1>1. PICK s \in Buffers : s = encode_resp(arguments)
  BY TextIsBuffer
<1>2. PICK sent \in Seq(Buffers) : sent = <<s>> /\ Len(sent) = 1 /\ sent[1] = s
  BY OneElement
<1>3. PICK st : st = [store |-> database, results |-> <<>>]
  OBVIOUS
<1>4. Execute(database, sent) = execute(st, s)
  BY <1>2, <1>3, ExecuteType
<1>5. arguments \in Seq(Seq(Byte)) /\ arguments # <<>>
  <2>1. Text \subseteq Seq(Byte)
    BY DEF Text
  <2>2. arguments \in Seq(Text)
    BY DEF Arguments
  <2>3. \A i \in 1..Len(arguments) : arguments[i] \in Seq(Byte)
    BY <2>1, <2>2, ElementOfSeq
  <2>4. arguments \in [1..Len(arguments) -> Seq(Byte)] /\ Len(arguments) \in Nat
    BY <2>2, <2>3, LenProperties
  <2>. QED  BY <2>4, SeqDef DEF Arguments
<1>6. Parse(s).parts = IF Len(arguments) <= MaxParts THEN arguments ELSE <<>>
  BY <1>1, <1>5, RequestRead
<1>7. \A r : Append(<<>>, r) = <<r>>
  OBVIOUS
<1>8. CASE Len(arguments) <= MaxParts
  <2>1. execute(st, s) = [store |-> Effect(arguments, database),
                          results |-> Append(<<>>, Result(arguments, database))]
    BY <1>3, <1>5, <1>6, <1>8 DEF execute
  <2>2. Answer(arguments, database) = Result(arguments, database)
    <3>1. ~(Len(arguments) > MaxParts)
      <4>1. Len(arguments) \in Nat /\ MaxParts \in Nat
        BY <1>5, LenProperties, RespAssumption
      <4>. QED  BY <1>8, <4>1
    <3>. QED  BY <3>1 DEF Answer
  <2>. QED  BY <1>1, <1>2, <1>4, <1>7, <2>1, <2>2
<1>9. CASE ~(Len(arguments) <= MaxParts)
  <2>1. Len(arguments) > MaxParts /\ Len(arguments) # 2 /\ Len(arguments) # 3
    <3>1. Len(arguments) \in Nat /\ MaxParts \in Nat /\ MaxParts >= 3
      BY <1>5, LenProperties, RespAssumption
    <3>2. PICK k \in Nat, m \in Nat : k = Len(arguments) /\ m = MaxParts /\ m >= 3 /\ ~(k <= m)
      BY <1>9, <3>1
    <3>3. m >= 3 /\ ~(k <= m)
      BY <3>2
    <3>4. k > m /\ k # 2 /\ k # 3
      BY <3>3
    <3>. QED  BY <3>2, <3>4
  <2>2. execute(st, s) = [store |-> database, results |-> Append(<<>>, Error(<<>>))]
    BY <1>3, <1>6, <1>9 DEF execute
  <2>3. Answer(arguments, database) = Error(<<>>)
    BY <2>1 DEF Answer
  <2>4. Effect(arguments, database) = database
    BY <2>1 DEF Effect
  <2>. QED  BY <1>1, <1>2, <1>4, <1>7, <2>2, <2>3, <2>4
<1>. QED  BY <1>8, <1>9

-----------------------------------------------------------------------------
(* The type invariant.                                                     *)

\* What is taken from the front and what is left.
LEMMA TakeDrop ==
  ASSUME NEW S, NEW b \in Seq(S), NEW n \in Nat, n <= Len(b)
  PROVE  /\ Take(b, n) \in Seq(S) /\ Len(Take(b, n)) = n
         /\ Drop(b, n) \in Seq(S) /\ Len(Drop(b, n)) = Len(b) - n
         /\ Take(b, n) \o Drop(b, n) = b
<1>1. PICK k \in Nat : k = Len(b)
  BY LenProperties
<1>2. n \in 0..Len(b)
  BY <1>1
<1>3. PICK s \in Seq(S), t \in Seq(S) : s = Take(b, n) /\ t = Drop(b, n)
        /\ Len(s) = n /\ Len(t) = k - n
        /\ (\A i \in 1..n : s[i] = b[i]) /\ (\A i \in 1..(k - n) : t[i] = b[n + i])
  <2>1. /\ SubSeq(b, 1, n) \in Seq(S) /\ Len(SubSeq(b, 1, n)) = n
        /\ \A i \in 1..n : SubSeq(b, 1, n)[i] = b[i]
        /\ SubSeq(b, n + 1, Len(b)) \in Seq(S) /\ Len(SubSeq(b, n + 1, Len(b))) = Len(b) - n
        /\ \A i \in 1..(Len(b) - n) : SubSeq(b, n + 1, Len(b))[i] = b[n + i]
    BY <1>2, CutSeq
  <2>. QED  BY <1>1, <2>1 DEF Take, Drop
<1>4. PICK w \in Seq(S) : w = s \o t /\ IsJoin(w, s, t)
  BY JoinIs
<1>5. Len(w) = k /\ \A i \in 1..k : w[i] = b[i]
  <2>1. Len(w) = k
    BY <1>1, <1>3, <1>4 DEF IsJoin
  <2>2. ASSUME NEW i \in 1..k PROVE w[i] = b[i]
    <3>1. CASE i <= n
      <4>1. i \in 1..n
        BY <3>1
      <4>. QED  BY <1>3, <1>4, <4>1 DEF IsJoin
    <3>2. CASE ~(i <= n)
      <4>1. PICK j \in 1..(k - n) : i = n + j
        BY <1>1, <3>2
      <4>2. w[n + j] = t[j]
        BY <1>3, <1>4, <4>1 DEF IsJoin
      <4>. QED  BY <1>3, <4>1, <4>2
    <3>. QED  BY <3>1, <3>2
  <2>. QED  BY <2>1, <2>2
<1>6. w = b
  BY <1>1, <1>5, SeqEqual
<1>. QED  BY <1>1, <1>3, <1>4, <1>6

\* The limits are positive, and a buffer below 1 MiB is shorter than a size_t can count.
LEMMA Limits ==
  /\ Room \in Nat \ {0} /\ MaxRequest \in Nat \ {0} /\ MaxResponse \in Nat \ {0}
  /\ MaxRequest <= LongMax /\ MaxRequest < SizeMod
<1>1. Room \in Nat \ {0} /\ MaxRequest \in Nat \ {0} /\ MaxResponse \in Nat \ {0}
      /\ MaxRequest <= LongMax
  BY SessionAssumption
<1>2. PICK l \in Nat, m \in Nat, z \in Nat :
        l = LongMax /\ m = MaxRequest /\ z = SizeMod /\ m <= l /\ l + 1 < z
  BY <1>1, Sizes
<1>3. m < z
  <2>1. m <= l /\ l + 1 < z
    BY <1>2
  <2>. QED  BY <2>1
<1>. QED  BY <1>1, <1>2, <1>3

\* The commands that are typed and those of others.
LEMMA CommandTypes ==
  /\ \A arguments \in Typeable :
       /\ Arguments(arguments) /\ encode_resp(arguments) \in Text
       /\ arguments \in Seq(Seq(Byte) \ {<<>>}) /\ NoBreak(arguments[1])
       /\ arguments \in Seq(Seq(Byte)) /\ arguments # <<>>
  /\ \A arguments \in OthersCall : Arguments(arguments)
<1>1. ASSUME NEW arguments \in Typeable
      PROVE  /\ Arguments(arguments) /\ encode_resp(arguments) \in Text
             /\ arguments \in Seq(Seq(Byte) \ {<<>>}) /\ NoBreak(arguments[1])
             /\ arguments \in Seq(Seq(Byte)) /\ arguments # <<>>
  <2>1. /\ arguments \in Seq(Seq(Byte \ {"\n"}) \ {<<>>}) /\ arguments # <<>>
        /\ encode_resp(arguments) \in Text
    BY SessionAssumption
  <2>2. PICK n \in Nat : n = Len(arguments) /\ n # 0
    BY <2>1, EmptySeq, LenProperties
  <2>3. \A i \in 1..n : arguments[i] \in Seq(Byte \ {"\n"}) /\ arguments[i] # <<>>
    <3>1. \A i \in 1..n : arguments[i] \in Seq(Byte \ {"\n"}) \ {<<>>}
      BY <2>1, <2>2, ElementOfSeq
    <3>. QED  BY <3>1
  <2>4. ASSUME NEW s \in Seq(Byte \ {"\n"})
        PROVE  s \in Seq(Byte) /\ NoBreak(s)
    <3>1. \A i \in 1..Len(s) : s[i] \in Byte \ {"\n"}
      BY ElementOfSeq
    <3>2. s \in [1..Len(s) -> Byte] /\ Len(s) \in Nat
      BY <3>1, LenProperties
    <3>. QED  BY <3>1, <3>2, SeqDef DEF NoBreak
  <2>5. \A i \in 1..n : arguments[i] \in Seq(Byte) \ {<<>>}
    BY <2>3, <2>4
  <2>6. arguments \in Seq(Seq(Byte) \ {<<>>}) /\ arguments \in Seq(Seq(Byte))
    <3>1. arguments \in [1..n -> Seq(Byte) \ {<<>>}] /\ arguments \in [1..n -> Seq(Byte)]
      BY <2>1, <2>2, <2>5, LenProperties
    <3>. QED  BY <3>1, SeqDef
  <2>7. NoBreak(arguments[1])
    <3>1. 1 \in 1..n
      BY <2>2
    <3>. QED  BY <2>3, <2>4, <3>1
  <2>8. \A i \in 1..n : Len(arguments[i]) <= LongMax
    <3>1. Len(encode_resp(arguments)) <= LongMax
      BY <2>1 DEF Text
    <3>. QED  BY <2>2, <2>6, <3>1, BothRead, RequestFrame
  <2>9. arguments \in [1..n -> Text]
    <3>1. \A i \in 1..n : arguments[i] \in Text
      BY <2>5, <2>8 DEF Text
    <3>. QED  BY <2>1, <2>2, <3>1, LenProperties
  <2>10. Arguments(arguments)
    BY <2>1, <2>9, SeqDef DEF Arguments
  <2>. QED  BY <2>1, <2>6, <2>7, <2>10
<1>2. \A arguments \in OthersCall : Arguments(arguments)
  BY SessionAssumption DEF Arguments
<1>. QED  BY <1>1, <1>2

\* What a read leaves for extract_requests() is a buffer.
LEMMA ReadBuffer ==
  ASSUME NEW i \in Seq(Byte), NEW u \in Seq(Byte), NEW n \in Nat, n <= Len(u),
         Len(i) + n <= MaxRequest
  PROVE  i \o Take(u, n) \in Buffers /\ Len(i \o Take(u, n)) = Len(i) + n
<1>1. Take(u, n) \in Seq(Byte) /\ Len(Take(u, n)) = n
  BY TakeDrop
<1>2. PICK b \in Seq(Byte), k \in Nat, m \in Nat, z \in Nat :
        b = i \o Take(u, n) /\ k = Len(i) /\ Len(b) = k + n /\ m = MaxRequest /\ z = SizeMod /\ m < z
  BY ZenonT(30), <1>1, JoinPlaced, LenProperties, Limits, Sizes
<1>3. k + n < z
  <2>1. k + n <= m
    BY <1>2
  <2>. QED  BY <1>2, <2>1
<1>4. Len(b) < SizeMod
  BY <1>2, <1>3
<1>. QED  BY <1>2, <1>4 DEF Buffers

\* The types, with the store in its set.
Typed ==
  /\ pc \in {"prompt", "send", "receive", "exited", "raw"}
  /\ typed \in Typeable \cup {None}
  /\ out \in Seq(Byte) /\ resp \in Seq(Byte) /\ up \in Seq(Byte) /\ down \in Seq(Byte)
  /\ inbuf \in Seq(Byte) /\ outbuf \in Seq(Byte)
  /\ closed \in BOOLEAN
  /\ Len(down) <= Room /\ (pc # "raw" => Len(up) <= Room)
  /\ Len(inbuf) <= MaxRequest /\ Len(resp) <= MaxResponse
  /\ store \in Stores
  /\ result \in Replies \cup {None} /\ shown \in Replies \cup {None}
  /\ pieces \in Seq(Seq(Byte)) /\ requests \in Seq(Seq(Byte))

\* That is the type invariant.
LEMMA TypedIs == TypeOK <=> Typed
<1>1. store \in Stores <=> DOMAIN store \subseteq Seq(Byte) /\ store \in [DOMAIN store -> Text]
  BY StoreIs
<1>. QED  BY <1>1 DEF TypeOK, Typed

\* Nothing has no bytes.
LEMMA Nothing == <<>> \in Seq(Byte) /\ Len(<<>>) = 0 /\ <<>> \in Seq(Seq(Byte))
BY EmptySeq

\* Types hold at the start.
LEMMA TypeInit == Init => Typed
<1>. SUFFICES ASSUME Init PROVE Typed
  OBVIOUS
<1>1. pieces \in Seq(Seq(Byte)) /\ (pc # "raw" => pieces = <<>>) /\ pc \in {"prompt", "raw"}
  <2>1. CASE pc = "prompt" /\ pieces = <<>>
    BY <2>1, Nothing
  <2>2. CASE pc = "raw" /\ pieces \in Streams
    BY <2>2, SessionAssumption
  <2>. QED  BY <2>1, <2>2 DEF Init
<1>2. up \in Seq(Byte) /\ (pc # "raw" => up = <<>>)
  <2>1. up = FlattenSeq(pieces)
    BY DEF Init
  <2>2. up \in Seq(Byte) /\ (Len(pieces) = 0 => up = <<>>)
    BY <1>1, <2>1, FlattenFew
  <2>3. pc # "raw" => Len(pieces) = 0
    BY <1>1, Nothing
  <2>. QED  BY <2>2, <2>3
<1>3. 0 <= Room /\ 0 <= MaxRequest /\ 0 <= MaxResponse
  BY Limits
<1>4. InitialStore \in Stores
  BY SessionAssumption, StoreIs
<1>. QED  BY <1>1, <1>2, <1>3, <1>4, Nothing DEF Init, Typed

\* They hold after a command is typed, and what is sent is the request for it.
LEMMA TypeCommandTyped ==
  ASSUME Typed, NEW arguments \in Typeable, NEW style \in Styles, TypeCommand(arguments, style)
  PROVE  Typed' /\ out' = encode_resp(arguments)
<1>1. tokenize(TypedLine(arguments, style)) = arguments
  BY CommandTypes, LineTokenized
<1>2. out' = encode_resp(arguments) /\ encode_resp(arguments) \in Seq(Byte)
  BY <1>1, CommandTypes, TextIsBuffer DEF TypeCommand
<1>. QED  BY <1>2 DEF Typed, TypeCommand, serverVars

\* After a send().
LEMMA SendTyped ==
  ASSUME Typed, NEW n \in 1..Len(out), Send(n)
  PROVE  Typed'
<1>1. n \in Nat /\ n <= Len(out) /\ Len(up) + n <= Room
  BY DEF Send
<1>2. /\ Take(out, n) \in Seq(Byte) /\ Len(Take(out, n)) = n /\ Drop(out, n) \in Seq(Byte)
  BY <1>1, TakeDrop DEF Typed
<1>3. up' \in Seq(Byte) /\ Len(up') = Len(up) + n
  BY <1>2, JoinPlaced DEF Typed, Send
<1>4. out' \in Seq(Byte) /\ pc' \in {"send", "receive"} /\ pc = "send"
  BY <1>2 DEF Send
<1>5. UNCHANGED <<typed, resp, shown, down, closed, inbuf, outbuf, store, result, requests, pieces>>
  BY DEF Send, serverVars
<1>. QED  BY <1>1, <1>3, <1>4, <1>5 DEF Typed

\* After a recv() of the client.
LEMMA ReceiveTyped ==
  ASSUME Typed, NEW n \in 1..Len(down), Receive(n)
  PROVE  Typed'
<1>. DEFINE bytes == resp \o Take(down, n)
<1>1. n \in Nat /\ n >= 1 /\ n <= Len(down)
  OBVIOUS
<1>2. Take(down, n) \in Seq(Byte) /\ Len(Take(down, n)) = n /\ Drop(down, n) \in Seq(Byte)
      /\ Len(Drop(down, n)) = Len(down) - n
  BY <1>1, TakeDrop DEF Typed
<1>3. bytes \in Seq(Byte) /\ Len(bytes) = Len(resp) + n
  BY <1>2, JoinPlaced DEF Typed
<1>4. Len(bytes) \in Nat /\ Len(bytes) >= 1
  <2>1. PICK k \in Nat : k = Len(resp)
    BY LenProperties DEF Typed
  <2>2. Len(bytes) = k + n
    BY <1>3, <2>1
  <2>. QED  BY <1>1, <2>2
<1>5. down' \in Seq(Byte) /\ Len(down') <= Room
  <2>1. PICK k \in Nat, m \in Nat : k = Len(down) /\ m = Room /\ k <= m
    BY LenProperties, Limits DEF Typed
  <2>2. k - n <= m
    BY <1>1, <2>1
  <2>. QED  BY <1>2, <2>1, <2>2 DEF Receive
<1>6. UNCHANGED <<out, up, inbuf, outbuf, store, requests, pieces>> /\ pc = "receive"
  BY DEF Receive
<1>7. CASE TooLarge(bytes) /\ Exit /\ UNCHANGED <<typed, resp, shown, result>>
  BY <1>5, <1>6, <1>7 DEF Typed, Exit
<1>8. CASE ~TooLarge(bytes) /\ resp' = bytes /\ UNCHANGED <<pc, typed, shown, closed, result>>
  <2>1. Len(resp') <= MaxResponse
    BY <1>4, <1>8, Limits DEF TooLarge
  <2>. QED  BY <1>3, <1>5, <1>6, <1>8, <2>1 DEF Typed
<1>9. CASE /\ ReplySize(bytes) # NotFound
           /\ shown' = decode_resp(Take(bytes, ReplySize(bytes)))
           /\ pc' = "prompt" /\ resp' = <<>> /\ typed' = None /\ result' = None /\ UNCHANGED closed
  <2>1. shown' \in Replies
    BY <1>3, <1>4, <1>9, DecodeType
  <2>2. Len(resp') <= MaxResponse /\ resp' \in Seq(Byte)
    BY <1>9, Nothing, Limits
  <2>. QED  BY <1>5, <1>6, <1>9, <2>1, <2>2 DEF Typed
<1>. HIDE DEF bytes
<1>10. \/ TooLarge(bytes) /\ Exit /\ UNCHANGED <<typed, resp, shown, result>>
       \/ ~TooLarge(bytes) /\ resp' = bytes /\ UNCHANGED <<pc, typed, shown, closed, result>>
       \/ /\ ReplySize(bytes) # NotFound
          /\ shown' = decode_resp(Take(bytes, ReplySize(bytes)))
          /\ pc' = "prompt" /\ resp' = <<>> /\ typed' = None /\ result' = None /\ UNCHANGED closed
  BY DEF Receive, bytes
<1>. QED  BY <1>7, <1>8, <1>9, <1>10

\* After a recv() of the server, with all that is executed for it.
LEMMA ServerReadTyped ==
  ASSUME Typed, NEW n \in 1..Len(up), ServerRead(n)
  PROVE  Typed'
<1>1. n \in Nat /\ n <= Len(up) /\ Len(inbuf) + n <= MaxRequest /\ up' = Drop(up, n)
  BY DEF ServerRead
<1>2. PICK b \in Buffers : b = inbuf \o Take(up, n) /\ Len(b) = Len(inbuf) + n
  BY <1>1, ReadBuffer DEF Typed
<1>3. PICK cut \in [rest : Buffers, requests : Seq(Buffers)] :
        cut = extract_requests[b] /\ Len(cut.rest) <= Len(b)
  BY <1>2, ExtractEquation, ExtractRest
<1>4. PICK done \in Executed : done = Execute(store, cut.requests)
  BY <1>3, ExecuteType DEF Typed
<1>5. /\ inbuf' = cut.rest
      /\ requests' = IF pc = "raw" THEN requests \o cut.requests ELSE requests
      /\ store' = done.store
      /\ outbuf' = outbuf \o Output(done.results)
      /\ result' = IF pc = "raw" \/ done.results = <<>> THEN result ELSE Last(done.results)
  BY <1>2, <1>3, <1>4 DEF ServerRead, Output
<1>6. inbuf' \in Seq(Byte) /\ Len(inbuf') <= MaxRequest
  <2>1. PICK j \in Nat, k \in Nat, m \in Nat : j = Len(cut.rest) /\ k = Len(b) /\ m = MaxRequest
    BY <1>2, <1>3, LenProperties, Limits DEF Buffers
  <2>2. j <= k /\ k <= m
    BY <1>1, <1>2, <1>3, <2>1
  <2>3. j <= m
    BY <2>2
  <2>. QED  BY <1>3, <1>5, <2>1, <2>3 DEF Buffers
<1>7. requests' \in Seq(Seq(Byte))
  <2>1. cut.requests \in Seq(Seq(Byte))
    <3>1. PICK t : t = cut.requests /\ t \in Seq(Buffers)
      BY <1>3
    <3>2. t \in [1..Len(t) -> Seq(Byte)] /\ Len(t) \in Nat
      BY <3>1, LenProperties, ElementOfSeq DEF Buffers
    <3>. QED  BY <3>1, <3>2, SeqDef
  <2>2. requests \o cut.requests \in Seq(Seq(Byte))
    BY <2>1, JoinPlaced DEF Typed
  <2>. QED  BY <1>5, <2>2 DEF Typed
<1>8. store' \in Stores
  BY <1>4, <1>5 DEF Executed
<1>9. outbuf' \in Seq(Byte)
  <2>1. Output(done.results) \in Seq(Byte)
    BY <1>4, RepliesText DEF Executed
  <2>. QED  BY <1>5, <2>1, JoinPlaced DEF Typed
<1>10. result' \in Replies \cup {None}
  <2>1. CASE done.results = <<>> \/ pc = "raw"
    BY <1>5, <2>1 DEF Typed
  <2>2. CASE ~(done.results = <<>> \/ pc = "raw")
    <3>1. PICK s \in Seq(Replies) : s = done.results
      BY <1>4 DEF Executed
    <3>2. Last(s) \in Replies
      <4>1. Len(s) \in Nat /\ Len(s) # 0
        BY <2>2, <3>1, LenProperties, EmptySeq
      <4>2. Len(s) \in 1..Len(s)
        BY <4>1
      <4>3. s[Len(s)] \in Replies
        BY <4>2, ElementOfSeq
      <4>. QED  BY <4>3 DEF Last
    <3>. QED  BY <1>5, <2>2, <3>1, <3>2
  <2>. QED  BY <2>1, <2>2
<1>11. up' \in Seq(Byte) /\ (pc # "raw" => Len(up') <= Room)
  <2>1. up' \in Seq(Byte) /\ Len(up') = Len(up) - n
    BY <1>1, TakeDrop DEF Typed
  <2>2. PICK k \in Nat, m \in Nat : k = Len(up) /\ m = Room
    BY LenProperties, Limits DEF Typed
  <2>3. k <= m => k - n <= m
    BY <1>1
  <2>. QED  BY <2>1, <2>2, <2>3 DEF Typed
<1>12. UNCHANGED <<pc, typed, out, resp, shown, down, closed, pieces>>
  BY DEF ServerRead, clientVars
<1>. QED  BY <1>6, <1>7, <1>8, <1>9, <1>10, <1>11, <1>12 DEF Typed

\* After a send() of the server.
LEMMA ServerWriteTyped ==
  ASSUME Typed, ServerWrite
  PROVE  Typed'
<1>1. PICK k \in Nat, d \in Nat, m \in Nat : k = Len(outbuf) /\ d = Len(down) /\ m = Room
  BY LenProperties, Limits DEF Typed
<1>2. PICK n \in Int : n = Min({k, m - d}) /\ n <= k /\ n <= m - d
  BY <1>1, MinIs
<1>3. /\ n > 0 /\ down' = down \o Take(outbuf, n) /\ outbuf' = Drop(outbuf, n)
      /\ UNCHANGED <<pc, typed, out, resp, shown, up, closed, inbuf, store, result, requests, pieces>>
  BY <1>1, <1>2 DEF ServerWrite, clientVars
<1>4. n \in Nat /\ n <= k /\ d + n <= m
  BY <1>2, <1>3
<1>5. Take(outbuf, n) \in Seq(Byte) /\ Len(Take(outbuf, n)) = n /\ Drop(outbuf, n) \in Seq(Byte)
  BY <1>1, <1>4, TakeDrop DEF Typed
<1>6. down' \in Seq(Byte) /\ Len(down') = d + n
  BY <1>1, <1>3, <1>5, JoinPlaced DEF Typed
<1>7. Len(down') <= Room
  BY <1>1, <1>4, <1>6
<1>. QED  BY <1>3, <1>5, <1>6, <1>7 DEF Typed

\* Every step keeps the types.
LEMMA TypeNext == Typed /\ [Next]_vars => Typed'
<1>. SUFFICES ASSUME Typed, [Next]_vars PROVE Typed'
  OBVIOUS
<1>1. ASSUME NEW arguments \in Typeable, NEW style \in Styles, TypeCommand(arguments, style)
      PROVE  Typed'
  BY <1>1, TypeCommandTyped
<1>2. ASSUME NEW line \in OtherLines, TypeOther(line)
      PROVE  Typed'
  BY <1>2 DEF Typed, TypeOther, Exit, serverVars
<1>3. CASE ClientSends
  BY <1>3, SendTyped DEF ClientSends
<1>4. CASE ClientReceives
  BY <1>4, ReceiveTyped DEF ClientReceives
<1>5. CASE ConnectionLost
  BY <1>5 DEF Typed, ConnectionLost, Exit, serverVars
<1>6. CASE ServerReads
  <2>1. ASSUME NEW n \in 1..Len(up), ServerRead(n) PROVE Typed'
    BY <2>1, ServerReadTyped
  <2>2. ASSUME NEW n \in 1..Len(up), ServerRefuses(n) PROVE Typed'
    <3>1. 0 <= MaxRequest
      BY Limits
    <3>. QED  BY <2>2, <3>1, Nothing DEF Typed, ServerRefuses, Close, clientVars
  <2>. QED  BY <1>6, <2>1, <2>2 DEF ServerReads
<1>7. CASE ServerWrite
  BY <1>7, ServerWriteTyped
<1>8. CASE ServerCloses
  <2>1. 0 <= MaxRequest
    BY Limits
  <2>. QED  BY <1>8, <2>1, Nothing DEF Typed, ServerCloses, Close, clientVars
<1>9. ASSUME NEW arguments \in OthersCall, Other(arguments)
      PROVE  Typed'
  <2>1. store' \in Stores
    BY <1>9, CommandTypes, EffectType DEF Typed, Other
  <2>. QED  BY <1>9, <2>1 DEF Typed, Other, clientVars
<1>10. CASE UNCHANGED vars
  BY <1>10 DEF Typed, vars, clientVars, serverVars
<1>. QED  BY <1>1, <1>2, <1>3, <1>4, <1>5, <1>6, <1>7, <1>8, <1>9, <1>10 DEF Next

\* The types are an invariant.
LEMMA TypedInvariant == Spec => []Typed
<1>. QED  BY TypeInit, TypeNext, PTL DEF Spec

\* Every variable has its type, whatever the client types, the peers send and TCP
\* does with it.
THEOREM TypeCorrect == Spec => []TypeOK
<1>. QED  BY TypedIs, TypedInvariant, PTL

-----------------------------------------------------------------------------
(* One command, one reply: the inductive invariant about the client.       *)

\* What the server makes of a beginning of the request for a command: nothing,
\* before all of it has been read.
LEMMA BeginningRead ==
  ASSUME NEW arguments \in Typeable, NEW b \in Buffers,
         Placed(encode_resp(arguments), 0, b)
  PROVE  /\ encode_resp(arguments) # <<>>
         /\ Len(b) < Len(encode_resp(arguments)) =>
              extract_requests[b] = [rest |-> b, requests |-> <<>>]
         /\ Len(b) = Len(encode_resp(arguments)) =>
              extract_requests[b] = [rest |-> <<>>, requests |-> <<encode_resp(arguments)>>]
<1>1. PICK s \in Text : s = encode_resp(arguments) /\ IsRequest(s)
  BY CommandTypes, RequestRead
<1>2. /\ s \in Seq(Byte) /\ s \in Buffers /\ Len(s) <= LongMax
      /\ ReadArray(s, Decimal, 0..LongMax, 0..LongMax) # Failed
      /\ Placed(s, 0, b) /\ b \in Seq(Byte)
  BY <1>1, TextIsBuffer DEF IsRequest, Buffers
<1>3. Alike(s, s)
  BY DEF Alike
<1>4. Len(s) \in Nat /\ Len(s) > 0
  <2>1. PICK k \in Nat : k = Len(s)
    BY <1>2, LenProperties
  <2>2. Len(s) <= Len(s)
    BY <2>1
  <2>. QED  BY <1>2, <1>3, <2>1, <2>2, ExtractFirst
<1>5. s # <<>>
  BY <1>4, Nothing
<1>6. Alike(s, b)
  <2>1. \A i \in 1..Len(b) : s[0 + i] = b[i]
    BY <1>2 DEF Placed
  <2>2. ASSUME NEW i \in Nat, i >= 1, i <= Len(s), i <= Len(b) PROVE s[i] = b[i]
    <3>1. i \in 1..Len(b) /\ 0 + i = i
      BY <1>2, <2>2, LenProperties
    <3>. QED  BY <2>1, <3>1
  <2>. QED  BY <2>2 DEF Alike
<1>7. Len(b) < Len(s) => extract_requests[b] = [rest |-> b, requests |-> <<>>]
  BY <1>2, <1>6, ExtractFirst
<1>8. ASSUME Len(b) = Len(s)
      PROVE  extract_requests[b] = [rest |-> <<>>, requests |-> <<s>>]
  <2>1. b = s
    BY <1>2, <1>8, PlacedWhole
  <2>2. Len(s) <= Len(s)
    BY <1>4
  <2>3. extract_requests[s] =
          [rest |-> extract_requests[SubSeq(s, Len(s) + 1, Len(s))].rest,
           requests |-> <<s>> \o extract_requests[SubSeq(s, Len(s) + 1, Len(s))].requests]
    BY <1>2, <1>3, <2>2, ExtractFirst
  <2>4. SubSeq(s, Len(s) + 1, Len(s)) = <<>>
    <3>1. PICK k \in Nat : k = Len(s)
      BY <1>4
    <3>2. SubSeq(s, k + 1, k) \in Seq(Byte) /\ Len(SubSeq(s, k + 1, k)) = 0
      <4>1. k + 1 \in Nat \ {0} /\ k \in Int /\ k <= Len(s) /\ ~(k + 1 <= k)
        BY <3>1
      <4>. QED  BY <1>2, <4>1, Piece
    <3>. QED  BY <3>1, <3>2, EmptySeq
  <2>5. <<s>> \o <<>> = <<s>>
    <3>1. <<s>> \in Seq(Seq(Byte))
      BY <1>2, OneElement
    <3>. QED  BY <3>1, ConcatEmptySeq
  <2>6. extract_requests[s] =
          [rest |-> extract_requests[<<>>].rest,
           requests |-> <<s>> \o extract_requests[<<>>].requests]
    BY <2>3, <2>4
  <2>7. extract_requests[<<>>].rest = <<>> /\ extract_requests[<<>>].requests = <<>>
    BY ExtractNothing
  <2>8. extract_requests[s] = [rest |-> <<>>, requests |-> <<s>> \o <<>>]
    BY <2>6, <2>7
  <2>. QED  BY <2>1, <2>5, <2>8
<1>. QED  BY <1>1, <1>5, <1>7, <1>8

\* The answer to a command that is typed can be read.
LEMMA AnswerReadable ==
  ASSUME NEW arguments \in Typeable, NEW database \in Stores
  PROVE  Readable(Answer(arguments, database)) /\ Answer(arguments, database) # None
<1>1. Readable(Answer(arguments, database))
  BY CommandTypes, ResultType, FixedReplies DEF Answer
<1>2. Answer(arguments, database) \in Replies
  BY <1>1 DEF Readable
<1>. QED  BY <1>1, <1>2, SessionAssumption

\* Nothing is on its way.
Prompting ==
  /\ typed = None /\ result = None
  /\ out = <<>> /\ resp = <<>> /\ down = <<>>
  /\ ~closed => up = <<>> /\ inbuf = <<>> /\ outbuf = <<>>

\* A command is on its way and has not been executed.
Sending ==
  /\ typed \in Typeable /\ result = None
  /\ resp = <<>> /\ down = <<>>
  /\ ~closed => /\ outbuf = <<>>
                /\ (inbuf \o up) \o out = encode_resp(typed)

\* It has been executed, and the reply is on its way.
Answering ==
  /\ typed \in Typeable /\ Readable(result) /\ result # None /\ out = <<>>
  /\ Placed(Reply(result), 0, (resp \o down) \o outbuf)
  /\ closed => outbuf = <<>>
  /\ ~closed => /\ up = <<>> /\ inbuf = <<>>
                /\ (resp \o down) \o outbuf = Reply(result)

\* Between the client and the server there is one command or one reply or
\* nothing.
Stream ==
  \/ pc = "raw"
  \/ pc = "prompt" /\ Prompting
  \/ pc = "send" /\ Sending /\ out # <<>>
  \/ pc = "receive" /\ Sending /\ out = <<>>
  \/ pc = "receive" /\ Answering
  \/ pc = "exited" /\ closed

\* Nothing has been executed by the read: more bytes are needed.
Waits ==
  /\ inbuf' \o up' = inbuf \o up /\ inbuf' \in Seq(Byte)
  /\ UNCHANGED <<store, outbuf, result>>

\* The command has been executed.
Executes ==
  /\ pc = "receive" /\ up' = <<>> /\ inbuf' = <<>>
  /\ store' = Effect(typed, store) /\ result' = Answer(typed, store)
  /\ outbuf' = Reply(Answer(typed, store))

\* A read by which the server has not got the whole request, and one by which it
\* has.
LEMMA ReadStep ==
  ASSUME Typed, pc # "raw", Stream, NEW n \in 1..Len(up), ServerRead(n)
  PROVE  /\ Sending /\ pc \in {"send", "receive"} /\ (pc = "receive" => out = <<>>)
         /\ Waits \/ Executes
<1>1. n \in Nat /\ n >= 1 /\ n <= Len(up) /\ Len(inbuf) + n <= MaxRequest /\ up' = Drop(up, n) /\ ~closed
  BY DEF ServerRead
<1>2. up # <<>> /\ pc # "exited" /\ pc # "prompt" /\ ~(pc = "receive" /\ Answering)
  <2>1. up # <<>>
    BY <1>1, Nothing
  <2>. QED  BY <1>1, <2>1 DEF Stream, Prompting, Answering
<1>3. Sending /\ pc \in {"send", "receive"} /\ (pc = "receive" => out = <<>>)
      /\ (pc = "send" => out # <<>>)
  BY <1>2 DEF Stream
<1>4. PICK b \in Buffers : b = inbuf \o Take(up, n) /\ Len(b) = Len(inbuf) + n
  BY <1>1, ReadBuffer DEF Typed
<1>5. PICK s \in Seq(Byte) : s = encode_resp(typed) /\ s = (inbuf \o up) \o out
        /\ typed \in Typeable /\ typed # None /\ outbuf = <<>> /\ result = None
  BY <1>1, <1>3, CommandTypes, TextIsBuffer, SessionAssumption DEF Sending
<1>6. /\ Take(up, n) \in Seq(Byte) /\ Drop(up, n) \in Seq(Byte)
      /\ Take(up, n) \o Drop(up, n) = up /\ b \in Seq(Byte)
  BY <1>1, <1>4, TakeDrop DEF Typed, Buffers
<1>7. PICK w \in Seq(Byte) : w = inbuf \o up /\ w = b \o Drop(up, n)
  <2>1. Associates(inbuf, Take(up, n), Drop(up, n))
    BY <1>6, JoinAssociates DEF Typed
  <2>2. inbuf \o up \in Seq(Byte)
    BY JoinPlaced DEF Typed
  <2>. QED  BY <1>4, <1>6, <2>1, <2>2 DEF Associates
<1>8. /\ Placed(w, 0, b) /\ Len(w) = Len(b) + Len(Drop(up, n))
      /\ Placed(s, 0, w) /\ Len(s) = Len(w) + Len(out)
  <2>1. PICK t \in Seq(Byte) : t = Drop(up, n)
    BY <1>6
  <2>2. Placed(b \o t, 0, b) /\ Len(b \o t) = Len(b) + Len(t)
    BY <1>6, <2>1, JoinPlaced
  <2>3. PICK v \in Seq(Byte) : v = out
    BY DEF Typed
  <2>4. Placed(w \o v, 0, w) /\ Len(w \o v) = Len(w) + Len(v)
    BY <1>7, <2>3, JoinPlaced
  <2>. QED  BY <1>5, <1>7, <2>1, <2>2, <2>3, <2>4
<1>9. PICK k \in Nat, l \in Nat, m \in Nat, o \in Nat, d \in Nat :
        /\ k = Len(b) /\ l = Len(w) /\ m = Len(s) /\ o = Len(out) /\ d = Len(Drop(up, n))
        /\ l = k + d /\ m = l + o
  BY <1>5, <1>6, <1>7, <1>8, LenProperties DEF Typed
<1>10. Placed(s, 0, b)
  <2>1. 0 + 0 = 0
    OBVIOUS
  <2>2. Placed(s, 0 + 0, b)
    BY <1>8, <1>9, PlacedInside
  <2>. QED  BY <2>1, <2>2
<1>11. /\ k < m => extract_requests[b] = [rest |-> b, requests |-> <<>>]
       /\ k = m => extract_requests[b] = [rest |-> <<>>, requests |-> <<s>>]
  BY <1>5, <1>9, <1>10, BeginningRead
<1>12. PICK cut, done :
         /\ cut = extract_requests[b] /\ done = Execute(store, cut.requests)
         /\ inbuf' = cut.rest
         /\ store' = done.store
         /\ outbuf' = outbuf \o Output(done.results)
         /\ result' = IF done.results = <<>> THEN result ELSE Last(done.results)
  BY <1>4 DEF ServerRead, Output
<1>13. CASE k < m
  <2>1. cut.rest = b /\ cut.requests = <<>>
    BY <1>11, <1>12, <1>13
  <2>2. done = [store |-> store, results |-> <<>>]
    <3>1. <<>> \in Seq(Buffers)
      BY EmptySeq
    <3>. QED  BY <1>12, <2>1, <3>1, ExecuteType DEF Typed
  <2>3. Output(done.results) = <<>>
    <3>1. done.results = <<>> /\ <<>> \in Seq(Replies)
      BY <2>2, EmptySeq
    <3>. QED  BY <3>1, RepliesText
  <2>4. store' = store /\ outbuf' = outbuf /\ result' = result
    <3>1. <<>> \o <<>> = <<>>
      BY Nothing, ConcatEmptySeq
    <3>. QED  BY <1>5, <1>12, <2>2, <2>3, <3>1
  <2>5. inbuf' \o up' = inbuf \o up /\ inbuf' \in Seq(Byte)
    BY <1>1, <1>6, <1>7, <1>12, <2>1
  <2>. QED  BY <1>3, <2>4, <2>5 DEF Waits
<1>14. CASE ~(k < m)
  <2>1. k = m /\ o = 0 /\ d = 0
    BY <1>9, <1>14
  <2>2. out = <<>> /\ up' = <<>>
    BY <1>1, <1>6, <1>9, <2>1, EmptySeq DEF Typed
  <2>3. cut.rest = <<>> /\ cut.requests = <<encode_resp(typed)>>
    BY <1>5, <1>11, <1>12, <2>1
  <2>4. Arguments(typed) /\ encode_resp(typed) \in Text
    BY <1>5, CommandTypes
  <2>5. done = [store |-> Effect(typed, store), results |-> <<Answer(typed, store)>>]
    BY <1>12, <2>3, <2>4, ExecuteRequest DEF Typed
  <2>6. PICK a \in Replies : a = Answer(typed, store) /\ done.results = <<a>>
          /\ done.store = Effect(typed, store)
    BY <1>5, <2>5, AnswerReadable DEF Typed, Readable
  <2>7. /\ <<a>> \in Seq(Replies) /\ Len(<<a>>) = 1 /\ <<a>>[1] = a /\ <<a>> # <<>>
        /\ Last(<<a>>) = a
    <3>1. <<a>> \in Seq(Replies) /\ Len(<<a>>) = 1 /\ <<a>>[1] = a
      BY OneElement
    <3>2. <<a>> # <<>>
      BY <3>1, Nothing
    <3>. QED  BY <3>1, <3>2 DEF Last
  <2>8. Output(<<a>>) = Reply(a) /\ Reply(a) \in Seq(Byte)
    <3>1. Output(<<a>>) = Reply(<<a>>[1])
      BY <2>7, RepliesText
    <3>. QED  BY <2>7, <3>1, ReplyType
  <2>9. outbuf' = Reply(a) /\ result' = a /\ store' = Effect(typed, store)
    <3>1. <<>> \o Reply(a) = Reply(a)
      BY <2>8, ConcatEmptySeq
    <3>. QED  BY <1>5, <1>12, <2>6, <2>7, <2>8, <3>1
  <2>10. pc = "receive"
    BY <1>3, <2>2
  <2>. QED  BY <1>3, <1>12, <2>2, <2>3, <2>6, <2>9, <2>10 DEF Executes
<1>. QED  BY <1>13, <1>14

\* What the client has got of a reply: not all of it, or all.
Misses(bytes) ==
  /\ ReplySize(bytes) = NotFound /\ bytes \in Seq(Byte) /\ bytes # <<>>
  /\ bytes \o down' = resp \o down

\* The client has all of it, and nothing follows.
HasAll(bytes) ==
  /\ ReplySize(bytes) # NotFound
  /\ decode_resp(Take(bytes, ReplySize(bytes))) = result
  /\ down' = <<>> /\ outbuf = <<>>

\* A recv() of the client can only come across a part of the reply to its command.
LEMMA ReceiveStep ==
  ASSUME Typed, Stream, NEW n \in 1..Len(down), Receive(n)
  PROVE  Answering /\ (Misses(resp \o Take(down, n)) \/ HasAll(resp \o Take(down, n)))
<1>1. n \in Nat /\ n >= 1 /\ n <= Len(down) /\ down' = Drop(down, n) /\ pc = "receive"
  BY DEF Receive
<1>2. Answering
  <2>1. down # <<>>
    BY <1>1, Nothing
  <2>. QED  BY <1>1, <2>1 DEF Stream, Sending
<1>3. /\ Take(down, n) \in Seq(Byte) /\ Len(Take(down, n)) = n /\ Drop(down, n) \in Seq(Byte)
      /\ Take(down, n) \o Drop(down, n) = down
  BY <1>1, TakeDrop DEF Typed
<1>4. PICK b \in Seq(Byte), x \in Seq(Byte), y \in Seq(Byte), w \in Seq(Byte) :
        /\ b = resp \o Take(down, n) /\ x = resp \o down /\ y = x \o outbuf
        /\ w = Reply(result)
  <2>1. resp \o Take(down, n) \in Seq(Byte) /\ resp \o down \in Seq(Byte)
    BY <1>3, JoinPlaced DEF Typed
  <2>2. (resp \o down) \o outbuf \in Seq(Byte)
    BY <2>1, JoinPlaced DEF Typed
  <2>3. Reply(result) \in Seq(Byte)
    BY <1>2, ReplyType DEF Answering, Readable
  <2>. QED  BY <2>1, <2>2, <2>3
<1>5. b \o Drop(down, n) = x
  <2>1. Associates(resp, Take(down, n), Drop(down, n))
    BY <1>3, JoinAssociates DEF Typed
  <2>. QED  BY <1>3, <1>4, <2>1 DEF Associates
<1>6. /\ Placed(x, 0, b) /\ Len(x) = Len(b) + Len(Drop(down, n))
      /\ Placed(y, 0, x) /\ Len(y) = Len(x) + Len(outbuf)
      /\ Len(b) = Len(resp) + n
  <2>1. PICK t \in Seq(Byte) : t = Drop(down, n)
    BY <1>3
  <2>2. Placed(b \o t, 0, b) /\ Len(b \o t) = Len(b) + Len(t)
    BY <1>4, <2>1, JoinPlaced
  <2>3. PICK v \in Seq(Byte) : v = outbuf
    BY DEF Typed
  <2>4. Placed(x \o v, 0, x) /\ Len(x \o v) = Len(x) + Len(v)
    BY <1>4, <2>3, JoinPlaced
  <2>5. PICK f \in Seq(Byte), g \in Seq(Byte) : f = resp /\ g = Take(down, n) /\ Len(g) = n
    BY <1>3 DEF Typed
  <2>6. Len(f \o g) = Len(f) + Len(g)
    BY <2>5, JoinPlaced
  <2>7. Len(b) = Len(resp) + n
    BY <1>4, <2>5, <2>6
  <2>. QED  BY <1>4, <1>5, <2>1, <2>2, <2>3, <2>4, <2>7
<1>7. PICK k \in Nat, l \in Nat, j \in Nat, m \in Nat, d \in Nat, o \in Nat, r \in Nat :
        /\ k = Len(b) /\ l = Len(x) /\ j = Len(y) /\ m = Len(w)
        /\ d = Len(Drop(down, n)) /\ o = Len(outbuf) /\ r = Len(resp)
        /\ l = k + d /\ j = l + o /\ k = r + n
  BY <1>3, <1>4, <1>6, LenProperties DEF Typed
<1>8. Placed(w, 0, y)
  BY <1>2, <1>4 DEF Answering
<1>9. Placed(w, 0, b)
  <2>1. 0 + 0 = 0
    OBVIOUS
  <2>2. Placed(y, 0 + 0, b)
    BY <1>6, <1>7, PlacedInside
  <2>3. Placed(w, 0 + 0, b)
    BY <1>7, <1>8, <2>1, <2>2, PlacedInside
  <2>. QED  BY <2>1, <2>3
<1>10. k >= 1 /\ j <= m
  <2>1. j <= m
    BY <1>4, <1>7, <1>8, PlacedWhole
  <2>. QED  BY <1>1, <1>7, <2>1
<1>11. ReadsAs(w, result)
  BY <1>2, <1>4, ReplyRead DEF Answering
<1>12. ReplySize(b) = IF k = m THEN m ELSE NotFound
  BY <1>4, <1>7, <1>9, <1>10, <1>11 DEF ReadsAs
<1>13. CASE k = m
  <2>1. b = w /\ Take(w, m) = w
    BY <1>4, <1>7, <1>9, <1>13, PlacedWhole DEF Take
  <2>2. decode_resp(Take(b, ReplySize(b))) = result
    <3>1. Take(b, ReplySize(b)) = w
      BY <1>12, <1>13, <2>1
    <3>. QED  BY <1>11, <3>1 DEF ReadsAs
  <2>3. d = 0 /\ o = 0
    BY <1>7, <1>10, <1>13
  <2>4. down' = <<>> /\ outbuf = <<>>
    BY <1>1, <1>3, <1>7, <2>3, EmptySeq DEF Typed
  <2>5. ReplySize(b) # NotFound
    <3>1. m # -1
      OBVIOUS
    <3>. QED  BY <1>12, <1>13, <3>1 DEF NotFound
  <2>. QED  BY <1>2, <1>4, <2>2, <2>4, <2>5 DEF HasAll
<1>14. CASE k # m
  <2>1. b # <<>>
    <3>1. Len(b) # 0
      BY <1>7, <1>10
    <3>. QED  BY <3>1, Nothing
  <2>2. b \o down' = resp \o down
    BY <1>1, <1>4, <1>5
  <2>. QED  BY <1>2, <1>4, <1>12, <1>14, <2>1, <2>2 DEF Misses
<1>. QED  BY <1>13, <1>14

\* It holds at the start.
LEMMA StreamInit == Init => Stream
<1>. SUFFICES ASSUME Init, pc # "raw" PROVE Stream
  BY DEF Stream
<1>1. pc = "prompt" /\ pieces = <<>>
  BY DEF Init
<1>2. FlattenSeq(pieces) = <<>>
  BY <1>1, Nothing, FlattenFew
<1>. QED  BY <1>1, <1>2 DEF Init, Stream, Prompting

\* It holds after a command is typed.
LEMMA TypeCommandStream ==
  ASSUME Typed, Stream, NEW arguments \in Typeable, NEW style \in Styles,
         TypeCommand(arguments, style)
  PROVE  Stream'
<1>1. out' = encode_resp(arguments)
  BY TypeCommandTyped
<1>2. Prompting
  BY DEF Stream, TypeCommand
<1>3. PICK s \in Seq(Byte) : s = encode_resp(arguments) /\ s # <<>>
  <2>1. <<>> \in Buffers /\ Placed(encode_resp(arguments), 0, <<>>)
    <3>1. PICK k \in Nat : k = Len(encode_resp(arguments))
      BY CommandTypes, TextIsBuffer, LenProperties
    <3>2. 0 + 0 <= k /\ \A i \in 1..0 : FALSE
      OBVIOUS
    <3>. QED  BY <3>1, <3>2, Nothing, ExtractNothing DEF Placed
  <2>. QED  BY <2>1, BeginningRead, CommandTypes, TextIsBuffer
<1>4. (<<>> \o <<>>) \o s = s
  BY <1>3, Nothing, ConcatEmptySeq
<1>5. /\ pc' = "send" /\ typed' = arguments
      /\ UNCHANGED <<resp, up, down, closed, inbuf, outbuf, result>>
  BY DEF TypeCommand, serverVars
<1>6. ~closed => (inbuf' \o up') \o out' = encode_resp(typed')
  BY <1>1, <1>2, <1>3, <1>4, <1>5 DEF Prompting
<1>. QED  BY <1>1, <1>2, <1>3, <1>5, <1>6 DEF Stream, Prompting, Sending

\* After a send() of the client.
LEMMA SendStream ==
  ASSUME Typed, Stream, NEW n \in 1..Len(out), Send(n)
  PROVE  Stream'
<1>1. n \in Nat /\ n <= Len(out)
  OBVIOUS
<1>2. /\ pc = "send" /\ up' = up \o Take(out, n) /\ out' = Drop(out, n)
      /\ pc' = (IF out' = <<>> THEN "receive" ELSE "send")
      /\ UNCHANGED <<typed, resp, down, closed, inbuf, outbuf, result>>
  BY DEF Send, serverVars
<1>3. Sending
  BY <1>2 DEF Stream
<1>4. /\ Take(out, n) \in Seq(Byte) /\ Drop(out, n) \in Seq(Byte)
      /\ Take(out, n) \o Drop(out, n) = out
  BY <1>1, TakeDrop DEF Typed
<1>5. (inbuf \o up') \o out' = (inbuf \o up) \o out
  <2>1. PICK x \in Seq(Byte) : x = inbuf \o up
    BY JoinPlaced DEF Typed
  <2>2. Associates(inbuf, up, Take(out, n)) /\ Associates(x, Take(out, n), Drop(out, n))
    BY <1>4, <2>1, JoinAssociates DEF Typed
  <2>. QED  BY <1>2, <1>4, <2>1, <2>2 DEF Associates
<1>6. Sending'
  BY <1>2, <1>3, <1>5 DEF Sending
<1>. QED  BY <1>2, <1>6 DEF Stream

\* After a recv() of the client.
LEMMA ReceiveStream ==
  ASSUME Typed, Stream, NEW n \in 1..Len(down), Receive(n)
  PROVE  Stream'
<1>. DEFINE bytes == resp \o Take(down, n)
<1>1. Answering /\ (Misses(bytes) \/ HasAll(bytes))
  BY ReceiveStep
<1>2. /\ pc = "receive" /\ UNCHANGED <<out, up, inbuf, outbuf>>
      /\ \/ Exit
         \/ /\ ReplySize(bytes) = NotFound /\ resp' = bytes
            /\ UNCHANGED <<pc, typed, closed, result>>
         \/ /\ ReplySize(bytes) # NotFound
            /\ pc' = "prompt" /\ resp' = <<>> /\ typed' = None /\ result' = None
            /\ UNCHANGED closed
  BY DEF Receive
<1>. HIDE DEF bytes
<1>3. CASE Exit
  BY <1>3 DEF Exit, Stream
<1>4. CASE /\ ReplySize(bytes) = NotFound /\ resp' = bytes
           /\ UNCHANGED <<pc, typed, closed, result>>
  <2>1. resp' \o down' = resp \o down
    BY <1>1, <1>4 DEF Misses, HasAll
  <2>2. Answering'
    BY <1>1, <1>2, <1>4, <2>1 DEF Answering
  <2>. QED  BY <1>2, <1>4, <2>2 DEF Stream
<1>5. CASE /\ ReplySize(bytes) # NotFound
           /\ pc' = "prompt" /\ resp' = <<>> /\ typed' = None /\ result' = None
           /\ UNCHANGED closed
  <2>1. down' = <<>> /\ outbuf = <<>>
    BY <1>1, <1>5 DEF Misses, HasAll
  <2>2. Prompting'
    BY <1>1, <1>2, <1>5, <2>1 DEF Answering, Prompting
  <2>. QED  BY <1>5, <2>2 DEF Stream
<1>. QED  BY <1>2, <1>3, <1>4, <1>5

\* After a recv() of the server.
LEMMA ServerReadStream ==
  ASSUME Typed, Stream, NEW n \in 1..Len(up), ServerRead(n)
  PROVE  Stream'
<1>1. UNCHANGED <<pc, typed, out, resp, shown, down, closed, pieces>> /\ ~closed
  BY DEF ServerRead, clientVars
<1>2. CASE pc = "raw"
  BY <1>1, <1>2 DEF Stream
<1>3. CASE pc # "raw"
  <2>1. Sending /\ pc \in {"send", "receive"} /\ (Waits \/ Executes)
    BY <1>3, ReadStep
  <2>2. CASE Waits
    <3>1. Sending'
      BY <1>1, <2>1, <2>2 DEF Sending, Waits
    <3>2. (pc = "send" => out # <<>>) /\ (pc = "receive" => out = <<>>)
      BY <1>3, ReadStep, <2>1 DEF Stream, Answering
    <3>. QED  BY <1>1, <2>1, <3>1, <3>2 DEF Stream
  <2>3. CASE Executes
    <3>1. PICK a \in Replies : a = Answer(typed, store) /\ Readable(a) /\ a # None
      BY <2>1, AnswerReadable DEF Sending, Typed, Readable
    <3>2. PICK w \in Seq(Byte) : w = Reply(a)
      BY <3>1, ReplyType
    <3>3. outbuf' = w /\ result' = a /\ up' = <<>> /\ inbuf' = <<>> /\ pc = "receive"
      BY <2>3, <3>1, <3>2 DEF Executes
    <3>4. (resp' \o down') \o outbuf' = w
      <4>1. (<<>> \o <<>>) \o w = w
        BY <3>2, Nothing, ConcatEmptySeq
      <4>. QED  BY <1>1, <2>1, <3>3, <4>1 DEF Sending
    <3>5. Placed(w, 0, w)
      <4>1. PICK k \in Nat : k = Len(w)
        BY <3>2, LenProperties
      <4>2. 0 + k <= k /\ \A i \in 1..k : 0 + i = i
        OBVIOUS
      <4>. QED  BY <4>1, <4>2 DEF Placed
    <3>6. out' = <<>>
      BY <1>1, <1>3, <3>3, ReadStep
    <3>7. Answering'
      BY <1>1, <2>1, <3>1, <3>2, <3>3, <3>4, <3>5, <3>6 DEF Sending, Answering
    <3>. QED  BY <1>1, <3>3, <3>7 DEF Stream
  <2>. QED  BY <2>1, <2>2, <2>3
<1>. QED  BY <1>2, <1>3

\* After a send() of the server.
LEMMA ServerWriteStream ==
  ASSUME Typed, Stream, ServerWrite
  PROVE  Stream'
<1>1. PICK k \in Nat, d \in Nat, m \in Nat : k = Len(outbuf) /\ d = Len(down) /\ m = Room
  BY LenProperties, Limits DEF Typed
<1>2. PICK n \in Int : n = Min({k, m - d}) /\ n <= k /\ n <= m - d
  BY <1>1, MinIs
<1>3. /\ n > 0 /\ down' = down \o Take(outbuf, n) /\ outbuf' = Drop(outbuf, n) /\ ~closed
      /\ UNCHANGED <<pc, typed, out, resp, shown, up, closed, inbuf, result>>
  BY <1>1, <1>2 DEF ServerWrite, clientVars
<1>4. n \in Nat /\ n <= k /\ k # 0
  BY <1>2, <1>3
<1>5. outbuf # <<>>
  BY <1>1, <1>4, Nothing
<1>6. /\ Take(outbuf, n) \in Seq(Byte) /\ Drop(outbuf, n) \in Seq(Byte)
      /\ Take(outbuf, n) \o Drop(outbuf, n) = outbuf
  BY <1>1, <1>4, TakeDrop DEF Typed
<1>7. CASE pc = "raw"
  BY <1>3, <1>7 DEF Stream
<1>8. CASE pc = "receive" /\ Answering
  <2>1. PICK x \in Seq(Byte) : x = resp \o down
    BY JoinPlaced DEF Typed
  <2>2. Associates(resp, down, Take(outbuf, n)) /\ Associates(x, Take(outbuf, n), Drop(outbuf, n))
    BY <1>6, <2>1, JoinAssociates DEF Typed
  <2>3. (resp \o down') \o outbuf' = (resp \o down) \o outbuf
    BY <1>3, <1>6, <2>1, <2>2 DEF Associates
  <2>4. Answering'
    BY <1>3, <1>8, <2>3 DEF Answering
  <2>. QED  BY <1>3, <1>8, <2>4 DEF Stream
<1>. QED  BY <1>3, <1>5, <1>7, <1>8 DEF Stream, Prompting, Sending

\* After the connection is closed.
LEMMA CloseStream ==
  ASSUME Typed, Stream, Close, ~closed
  PROVE  Stream'
<1>1. /\ closed' /\ inbuf' = <<>> /\ outbuf' = <<>>
      /\ UNCHANGED <<pc, typed, out, resp, shown, up, down, result>>
  BY DEF Close, clientVars
<1>2. CASE pc = "receive" /\ Answering
  <2>1. PICK x \in Seq(Byte) : x = resp \o down
    BY JoinPlaced DEF Typed
  <2>2. Reply(result) = x \o outbuf /\ x \o <<>> = x
    BY <1>2, <2>1, ConcatEmptySeq DEF Answering
  <2>3. Placed(x \o outbuf, 0, x)
    BY <2>1, JoinPlaced DEF Typed
  <2>4. Placed(Reply(result), 0, (resp \o down) \o <<>>)
    BY <2>1, <2>2, <2>3
  <2>5. Answering'
    BY <1>1, <1>2, <2>4 DEF Answering
  <2>. QED  BY <1>1, <1>2, <2>5 DEF Stream
<1>. QED  BY <1>1, <1>2 DEF Stream, Prompting, Sending

\* Every step keeps it.
LEMMA StreamNext == Typed /\ Stream /\ [Next]_vars => Stream'
<1>. SUFFICES ASSUME Typed, Stream, [Next]_vars PROVE Stream'
  OBVIOUS
<1>1. ASSUME NEW arguments \in Typeable, NEW style \in Styles, TypeCommand(arguments, style)
      PROVE  Stream'
  BY <1>1, TypeCommandStream
<1>2. ASSUME NEW line \in OtherLines, TypeOther(line)
      PROVE  Stream'
  BY <1>2 DEF TypeOther, Exit, Stream
<1>3. CASE ClientSends
  BY <1>3, SendStream DEF ClientSends
<1>4. CASE ClientReceives
  BY <1>4, ReceiveStream DEF ClientReceives
<1>5. CASE ConnectionLost
  BY <1>5 DEF ConnectionLost, Exit, Stream
<1>6. CASE ServerReads
  BY <1>6, ServerReadStream, CloseStream DEF ServerReads, ServerRefuses
<1>7. CASE ServerWrite
  BY <1>7, ServerWriteStream
<1>8. CASE ServerCloses
  BY <1>8, CloseStream DEF ServerCloses
<1>9. ASSUME NEW arguments \in OthersCall, Other(arguments)
      PROVE  Stream'
  BY <1>9 DEF Other, clientVars, Stream, Prompting, Sending, Answering
<1>10. CASE UNCHANGED vars
  BY <1>10 DEF vars, clientVars, serverVars, Stream, Prompting, Sending, Answering
<1>. QED  BY <1>1, <1>2, <1>3, <1>4, <1>5, <1>6, <1>7, <1>8, <1>9, <1>10 DEF Next

\* It is an invariant.
LEMMA StreamInvariant == Spec => []Stream
<1>. QED  BY TypedInvariant, StreamInit, StreamNext, PTL DEF Spec

\* When the client prompts for a command nothing of an earlier one is left anywhere
\* on the way.
THEOREM NothingLeft == Spec => []InStep
<1>1. Stream => InStep
  BY DEF Stream, Prompting, InStep
<1>. QED  BY <1>1, StreamInvariant, PTL

-----------------------------------------------------------------------------
(* The refinement.                                                         *)

\* The connection begins as the remote store does.
LEMMA RemoteInit == Init => Remote!Init
BY DEF Init, Remote!Init

\* What the user sees of a step.
Seen == [Remote!Next]_(Remote!vars)

\* Every step is one of the remote store or changes nothing of it.
LEMMA RemoteNext == Typed /\ Stream /\ pc # "raw" /\ [Next]_vars => Seen /\ pc' # "raw"
<1>. SUFFICES ASSUME Typed, Stream, pc # "raw", [Next]_vars PROVE Seen /\ pc' # "raw"
  OBVIOUS
<1>1. ASSUME NEW arguments \in Typeable, NEW style \in Styles, TypeCommand(arguments, style)
      PROVE  Seen /\ pc' # "raw"
  <2>1. typed = None
    BY <1>1 DEF TypeCommand, Stream, Prompting
  <2>2. Remote!Call(arguments)
    BY <1>1, <2>1 DEF TypeCommand, serverVars, Remote!Call
  <2>. QED  BY <1>1, <2>2 DEF Seen, Remote!Next, TypeCommand
<1>2. ASSUME Exit, UNCHANGED <<store, typed, result, shown>>
      PROVE  Seen /\ pc' # "raw"
  BY <1>2 DEF Exit, Seen, Remote!Next, Remote!End
<1>3. ASSUME UNCHANGED <<pc, store, typed, result, shown, closed>>
      PROVE  Seen /\ pc' # "raw"
  BY <1>3 DEF Seen, Remote!vars
<1>4. ASSUME NEW line \in OtherLines, TypeOther(line)
      PROVE  Seen /\ pc' # "raw"
  BY <1>2, <1>4 DEF TypeOther, serverVars
<1>5. CASE ClientSends
  <2>1. PICK n \in 1..Len(out) : Send(n)
    BY <1>5 DEF ClientSends
  <2>2. UNCHANGED <<store, typed, result, shown, closed>> /\ pc' # "raw"
    BY <2>1 DEF Send, serverVars
  <2>. QED  BY <2>2 DEF Seen, Remote!vars
<1>6. CASE ClientReceives
  <2>1. PICK n \in 1..Len(down) : Receive(n)
    BY <1>6 DEF ClientReceives
  <2>. DEFINE bytes == resp \o Take(down, n)
  <2>2. Answering /\ (Misses(bytes) \/ HasAll(bytes))
    BY <2>1, ReceiveStep
  <2>3. /\ UNCHANGED store
        /\ \/ Exit /\ UNCHANGED <<typed, result, shown>>
           \/ UNCHANGED <<pc, typed, shown, closed, result>>
           \/ /\ ReplySize(bytes) # NotFound
              /\ shown' = decode_resp(Take(bytes, ReplySize(bytes)))
              /\ pc' = "prompt" /\ typed' = None /\ result' = None
              /\ UNCHANGED closed
    BY <2>1 DEF Receive
  <2>. HIDE DEF bytes
  <2>4. CASE /\ ReplySize(bytes) # NotFound
             /\ shown' = decode_resp(Take(bytes, ReplySize(bytes)))
             /\ pc' = "prompt" /\ typed' = None /\ result' = None
             /\ UNCHANGED closed
    <3>1. shown' = result /\ result # None
      BY <2>2, <2>4 DEF Misses, HasAll, Answering
    <3>2. Remote!Return
      BY <2>3, <2>4, <3>1 DEF Remote!Return
    <3>. QED  BY <2>4, <3>2 DEF Seen, Remote!Next
  <2>. QED  BY <1>2, <1>3, <2>3, <2>4
<1>7. CASE ConnectionLost
  BY <1>2, <1>7 DEF ConnectionLost, serverVars
<1>8. ASSUME Close PROVE Seen /\ pc' # "raw"
  <2>1. Remote!End
    BY <1>8 DEF Close, clientVars, Remote!End
  <2>. QED  BY <1>8, <2>1 DEF Close, clientVars, Seen, Remote!Next
<1>9. CASE ServerReads
  <2>1. ASSUME NEW n \in 1..Len(up), ServerRead(n)
        PROVE  Seen /\ pc' # "raw"
    <3>1. Sending /\ (Waits \/ Executes) /\ UNCHANGED <<pc, typed, shown, closed>>
      BY <2>1, ReadStep DEF ServerRead, clientVars
    <3>2. CASE Waits
      BY <1>3, <3>1, <3>2 DEF Waits
    <3>3. CASE Executes
      <4>1. typed # None /\ result = None
        BY <3>1, SessionAssumption DEF Sending
      <4>2. Remote!TakeEffect
        BY <3>1, <3>3, <4>1 DEF Executes, Remote!TakeEffect
      <4>. QED  BY <3>1, <4>2 DEF Seen, Remote!Next
    <3>. QED  BY <3>1, <3>2, <3>3
  <2>. QED  BY <1>8, <1>9, <2>1 DEF ServerReads, ServerRefuses
<1>10. CASE ServerWrite
  BY <1>3, <1>10 DEF ServerWrite, clientVars
<1>11. CASE ServerCloses
  BY <1>8, <1>11 DEF ServerCloses
<1>12. ASSUME NEW arguments \in OthersCall, Other(arguments)
       PROVE  Seen /\ pc' # "raw"
  <2>1. Remote!Other(arguments)
    BY <1>12 DEF Other, clientVars, Remote!Other
  <2>. QED  BY <1>12, <2>1 DEF Other, clientVars, Seen, Remote!Next
<1>13. CASE UNCHANGED vars
  BY <1>3, <1>13 DEF vars, clientVars, serverVars
<1>. QED  BY <1>1, <1>4, <1>5, <1>6, <1>7, <1>9, <1>10, <1>11, <1>12, <1>13 DEF Next

\* The peer is the client.
Commanding == pc # "raw"

\* The same, for the invariant that there is a client.
LEMMA CommandingNext == Typed /\ Stream /\ Commanding /\ [Next]_vars => Seen /\ Commanding'
<1>. QED  BY RemoteNext DEF Commanding

\* What the user means takes effect once and what is shown is its result: every
\* step of the client, of TCP and of the server is a step of RemoteStore or changes
\* nothing of it.
THEOREM SessionRefinesRemoteStore == Spec /\ pc # "raw" => Remote!SafeSpec
<1>1. Spec /\ Commanding => []Commanding
  BY TypedInvariant, StreamInvariant, CommandingNext, PTL DEF Spec
<1>2. Spec /\ Commanding => [][Remote!Next]_(Remote!vars)
  BY <1>1, TypedInvariant, StreamInvariant, CommandingNext, PTL DEF Spec, Seen
<1>3. (pc # "raw") <=> Commanding
  BY DEF Commanding
<1>. QED  BY <1>2, <1>3, RemoteInit, PTL DEF Spec, Remote!SafeSpec

-----------------------------------------------------------------------------
(* The stream of a raw peer.                                               *)

\* What is taken next of what is left of s behind offset r.
LEMMA TakeOfRest ==
  ASSUME NEW s \in Seq(Byte), NEW r \in 0..Len(s), NEW n \in Nat,
         n <= Len(SubSeq(s, r + 1, Len(s)))
  PROVE  /\ r + n \in 0..Len(s)
         /\ Take(SubSeq(s, r + 1, Len(s)), n) = SubSeq(s, r + 1, r + n)
         /\ Drop(SubSeq(s, r + 1, Len(s)), n) = SubSeq(s, r + n + 1, Len(s))
         /\ Len(SubSeq(s, r + 1, Len(s))) = Len(s) - r
<1>1. PICK l \in Nat, q \in Nat, m \in Nat : l = Len(s) /\ q = r /\ q <= l /\ m = q + n
  BY LenProperties
<1>2. /\ Take(s, q) \in Seq(Byte) /\ Drop(s, q) \in Seq(Byte) /\ Len(Drop(s, q)) = l - q
      /\ Take(s, q) \o Drop(s, q) = s /\ Drop(s, q) = SubSeq(s, q + 1, l)
  BY <1>1, TakeDrop DEF Drop
<1>3. PICK u \in Seq(Byte) : u = SubSeq(s, q + 1, l) /\ Len(u) = l - q /\ n <= l - q
  BY <1>1, <1>2
<1>4. m <= l
  BY <1>1, <1>3
<1>5. PICK t \in Seq(Byte), d \in Seq(Byte) :
        /\ t = Take(u, n) /\ d = Drop(u, n) /\ Len(t) = n /\ Len(d) = (l - q) - n /\ t \o d = u
  <2>1. n <= Len(u)
    BY <1>3
  <2>2. /\ Take(u, n) \in Seq(Byte) /\ Len(Take(u, n)) = n
        /\ Drop(u, n) \in Seq(Byte) /\ Len(Drop(u, n)) = Len(u) - n
        /\ Take(u, n) \o Drop(u, n) = u
    BY <2>1, TakeDrop
  <2>. QED  BY <1>3, <2>2
<1>6. PICK v \in Seq(Byte), w \in Seq(Byte) :
        /\ v = SubSeq(s, q + 1, m) /\ w = SubSeq(s, m + 1, l) /\ v \o w = u
        /\ Len(v) = n /\ Len(w) = l - m
  <2>1. q <= m /\ l <= Len(s)
    BY <1>1
  <2>2. SubSeq(s, q + 1, m) \o SubSeq(s, m + 1, l) = SubSeq(s, q + 1, l)
    <3>1. m <= l
      BY <1>4
    <3>. QED  BY <2>1, <3>1, PiecesJoin
  <2>3. SubSeq(s, q + 1, m) \in Seq(Byte) /\ Len(SubSeq(s, q + 1, m)) = n
    <3>1. q + 1 \in Nat \ {0} /\ m \in Int /\ m <= Len(s)
      BY <1>1, <1>4
    <3>2. (IF q + 1 <= m THEN m - (q + 1) + 1 ELSE 0) = n
      BY <1>1
    <3>. QED  BY <3>1, <3>2, Piece
  <2>4. SubSeq(s, m + 1, l) \in Seq(Byte) /\ Len(SubSeq(s, m + 1, l)) = l - m
    <3>1. Drop(s, m) = SubSeq(s, m + 1, l) /\ m <= Len(s)
      BY <1>1, <1>4 DEF Drop
    <3>2. Drop(s, m) \in Seq(Byte) /\ Len(Drop(s, m)) = Len(s) - m
      BY <3>1, TakeDrop
    <3>. QED  BY <1>1, <3>1, <3>2
  <2>. QED  BY <1>3, <2>2, <2>3, <2>4
<1>7. t = v /\ d = w
  <2>1. IsJoin(u, t, d) /\ IsJoin(u, v, w)
    BY <1>5, <1>6, JoinIs
  <2>2. (l - q) - n = l - m
    BY <1>1
  <2>3. \A i \in 1..n : t[i] = v[i]
    BY SMTT(30), <1>5, <1>6, <2>1 DEF IsJoin
  <2>4. \A i \in 1..(l - m) : d[i] = w[i]
    <3>1. \A i \in 1..(l - m) : d[i] = u[n + i]
      <4>1. Len(d) = l - m
        BY <1>5, <2>2
      <4>2. \A i \in 1..Len(d) : u[Len(t) + i] = d[i]
        BY <2>1 DEF IsJoin
      <4>. QED  BY <1>5, <4>1, <4>2
    <3>2. \A i \in 1..(l - m) : w[i] = u[n + i]
      <4>1. \A i \in 1..Len(w) : u[Len(v) + i] = w[i]
        BY <2>1 DEF IsJoin
      <4>. QED  BY <1>6, <4>1
    <3>. QED  BY <3>1, <3>2
  <2>5. t = v
    BY <1>5, <1>6, <2>3, SeqEqual
  <2>6. d = w
    BY <1>5, <1>6, <2>2, <2>4, SeqEqual
  <2>. QED  BY <2>5, <2>6
<1>8. r + n \in 0..Len(s) /\ Len(SubSeq(s, r + 1, Len(s))) = Len(s) - r
  BY <1>1, <1>3, <1>4
<1>. QED  BY <1>1, <1>3, <1>5, <1>6, <1>7, <1>8

\* How many bytes the first n sequences have.
LEMMA SizeOfFirst ==
  ASSUME NEW seqs \in Seq(Seq(Byte)), NEW h, Joins(h, Byte, seqs), NEW n \in 0..Len(seqs)
  PROVE  SizeOf(Take(seqs, n)) = Len(h[n])
<1>1. PICK k \in Nat, m \in Nat : k = Len(seqs) /\ m = n /\ m <= k
  BY LenProperties
<1>2. PICK t \in Seq(Seq(Byte)) : t = Take(seqs, m) /\ Len(t) = m
  BY <1>1, TakeDrop
<1>3. PICK g : Joins(g, Byte, t) /\ FlattenSeq(t) = g[Len(t)]
  BY FlattenJoins
<1>4. Agree(seqs, t, m)
  <2>1. PICK one \in Nat \ {0} : one = 1
    OBVIOUS
  <2>2. t = SubSeq(seqs, one, m)
    BY <1>2, <2>1 DEF Take
  <2>3. \A i \in 1..(m - one + 1) : SubSeq(seqs, one, m)[i] = seqs[one + i - 1]
    BY <1>1, <2>1, Piece
  <2>4. m - one + 1 = m /\ \A i \in Nat : one + i - 1 = i
    BY <2>1
  <2>5. \A i \in 1..m : i \in Nat
    OBVIOUS
  <2>. QED  BY <2>2, <2>3, <2>4, <2>5 DEF Agree
<1>5. \A i \in 0..m : h[i] = g[i]
  <2>1. m <= Len(seqs) /\ m <= Len(t)
    BY <1>1, <1>2
  <2>. QED  BY <1>3, <1>4, <2>1, JoinsAgree
<1>6. m \in 0..m
  OBVIOUS
<1>. QED  BY <1>1, <1>2, <1>3, <1>5, <1>6 DEF SizeOf

\* lead is the beginning of the pieces of the stream, and h joins it.
IsLead(lead, h) ==
  /\ lead \in Seq(Seq(Byte)) /\ AreRequests(lead)
  /\ Len(lead) <= Len(pieces)
  /\ Joins(h, Byte, lead) /\ Placed(FlattenSeq(pieces), 0, h[Len(lead)])
  /\ FlattenSeq(pieces) \in Seq(Byte)
  /\ \A n \in 0..Len(lead) : SizeOf(Take(pieces, n)) = Len(h[n]) /\ SizeOf(Take(lead, n)) = Len(h[n])
  /\ SizeOf(lead) = Len(h[Len(lead)])

\* The requests in front of the first piece that is none are such a beginning.
LEMMA LeadIs ==
  ASSUME pieces \in Seq(Seq(Byte))
  PROVE  \E h : IsLead(LeadingRequests, h)
<1>1. PICK l \in Nat : l = Len(pieces) /\ DOMAIN pieces = 1..l
  BY LenProperties
<1>2. PICK k \in 0..l : /\ LeadingRequests = Take(pieces, k)
                        /\ \A i \in 1..k : IsRequest(pieces[i])
  <2>. DEFINE bad == {i \in DOMAIN pieces : ~IsRequest(pieces[i])}
  <2>1. CASE bad = {}
    <3>1. LeadingRequests = pieces
      BY <2>1 DEF LeadingRequests
    <3>2. Take(pieces, l) = pieces
      <4>1. 0 + l <= l /\ \A i \in 1..l : 0 + i = i
        OBVIOUS
      <4>2. Placed(pieces, 0, pieces)
        BY <1>1, <4>1 DEF Placed
      <4>. QED  BY <1>1, <4>2, PlacedWhole DEF Take
    <3>3. \A i \in 1..l : IsRequest(pieces[i])
      BY <1>1, <2>1
    <3>4. l \in 0..l
      BY <1>1
    <3>. QED  BY <3>1, <3>2, <3>3, <3>4
  <2>2. CASE bad # {}
    <3>1. bad \subseteq Nat
      BY <1>1
    <3>2. PICK m \in Nat : m = Min(bad) /\ m \in bad /\ \A i \in bad : m <= i
      <4>. HIDE DEF bad
      <4>1. \E m \in bad : \A i \in bad : m <= i
        BY <2>2, <3>1, LeastElement
      <4>2. Min(bad) \in bad /\ \A i \in bad : Min(bad) <= i
        BY <4>1 DEF Min
      <4>. QED  BY <3>1, <4>2
    <3>3. LeadingRequests = Take(pieces, m - 1)
      BY <2>2, <3>2 DEF LeadingRequests
    <3>4. m \in 1..l /\ m - 1 \in 0..l
      BY <1>1, <3>2
    <3>5. ASSUME NEW i \in 1..(m - 1) PROVE IsRequest(pieces[i])
      <4>1. i \in 1..l /\ ~(m <= i)
        BY <3>4
      <4>. QED  BY <1>1, <3>2, <4>1
    <3>. QED  BY <3>3, <3>4, <3>5
  <2>. QED  BY <2>1, <2>2
<1>3. k \in Nat /\ k <= l
  OBVIOUS
<1>4. PICK lead \in Seq(Seq(Byte)) :
        /\ lead = LeadingRequests /\ lead = Take(pieces, k) /\ Len(lead) = k
        /\ \A i \in 1..k : lead[i] = pieces[i]
  <2>1. Take(pieces, k) \in Seq(Seq(Byte)) /\ Len(Take(pieces, k)) = k
    BY <1>1, <1>3, TakeDrop
  <2>2. \A i \in 1..k : Take(pieces, k)[i] = pieces[i]
    <3>1. PICK one \in Nat \ {0} : one = 1
      OBVIOUS
    <3>2. \A i \in 1..(k - one + 1) : SubSeq(pieces, one, k)[i] = pieces[one + i - 1]
      BY <1>1, <1>3, <3>1, Piece
    <3>3. k - one + 1 = k /\ \A i \in Nat : one + i - 1 = i
      BY <3>1
    <3>4. \A i \in 1..k : i \in Nat
      OBVIOUS
    <3>5. Take(pieces, k) = SubSeq(pieces, one, k)
      BY <3>1 DEF Take
    <3>. QED  BY <3>2, <3>3, <3>4, <3>5
  <2>. QED  BY <1>2, <2>1, <2>2
<1>5. PICK h : Joins(h, Byte, lead) /\ FlattenSeq(lead) = h[k]
  BY <1>4, FlattenJoins
<1>6. PICK g : Joins(g, Byte, pieces) /\ FlattenSeq(pieces) = g[l]
  BY <1>1, FlattenJoins
<1>7. \A i \in 0..k : h[i] = g[i]
  <2>1. Agree(lead, pieces, k) /\ k <= Len(lead) /\ k <= Len(pieces)
    BY <1>1, <1>3, <1>4 DEF Agree
  <2>. QED  BY <1>3, <1>4, <1>5, <1>6, <2>1, JoinsAgree
<1>8. k \in 0..k /\ k \in 0..l /\ \A n \in 0..k : n \in 0..l
  BY <1>1, <1>3
<1>9. FlattenSeq(pieces) \in Seq(Byte) /\ Placed(FlattenSeq(pieces), 0, h[k])
  <2>1. \A i \in 0..l : g[i] \in Seq(Byte) /\ Placed(g[l], 0, g[i])
    BY <1>1, <1>6, JoinsPrefix
  <2>2. l \in 0..l
    BY <1>1
  <2>. QED  BY <1>6, <1>7, <1>8, <2>1, <2>2
<1>10. ASSUME NEW n \in 0..k
       PROVE  SizeOf(Take(pieces, n)) = Len(h[n]) /\ SizeOf(Take(lead, n)) = Len(h[n])
  <2>1. SizeOf(Take(lead, n)) = Len(h[n])
    BY <1>4, <1>5, SizeOfFirst
  <2>2. SizeOf(Take(pieces, n)) = Len(g[n])
    BY <1>1, <1>6, <1>8, SizeOfFirst
  <2>. QED  BY <1>7, <2>1, <2>2
<1>11. AreRequests(lead)
  <2>1. ASSUME NEW i \in 1..k
        PROVE  /\ Len(lead[i]) <= LongMax
               /\ ReadArray(lead[i], Decimal, 0..LongMax, 0..LongMax) # Failed
    BY <1>2, <1>4, TextIsBuffer DEF IsRequest
  <2>. QED  BY <1>4, <2>1 DEF AreRequests
<1>12. SizeOf(lead) = Len(h[k])
  BY <1>5 DEF SizeOf
<1>. QED  BY <1>1, <1>3, <1>4, <1>5, <1>9, <1>10, <1>11, <1>12 DEF IsLead

\* What has been read of the stream of a raw peer, which is up to offset r, has
\* been cut as extract_requests() cuts all of it at once.
CutTo(lead, h, r, rest) ==
  IsCut(FlattenSeq(pieces), lead, h, 0, r, [rest |-> rest, requests |-> requests])

\* The raw peer has sent all up to offset r that the server has not read.
ReadTo(r) ==
  /\ up = SubSeq(FlattenSeq(pieces), r + 1, Len(FlattenSeq(pieces)))
  /\ \E h : /\ IsLead(LeadingRequests, h)
            /\ \E rest : (~closed => rest = inbuf) /\ CutTo(LeadingRequests, h, r, rest)

\* The inductive invariant about a raw peer.
RawStream == pc = "raw" => \E r \in 0..Len(FlattenSeq(pieces)) : ReadTo(r)

\* It holds at the start, when nothing has been read.
LEMMA RawInit == Init => RawStream
<1>. SUFFICES ASSUME Init, pc = "raw" PROVE \E r \in 0..Len(FlattenSeq(pieces)) : ReadTo(r)
  BY DEF RawStream
<1>1. Typed
  BY TypeInit
<1>2. PICK h : IsLead(LeadingRequests, h)
  BY <1>1, LeadIs DEF Typed
<1>3. PICK stream \in Seq(Byte), l \in Nat, zero \in Nat :
        stream = FlattenSeq(pieces) /\ l = Len(stream) /\ zero = 0
  BY <1>2, LenProperties DEF IsLead
<1>4. PICK lead \in Seq(Seq(Byte)) : lead = LeadingRequests /\ AreRequests(lead)
        /\ Joins(h, Byte, lead) /\ Placed(stream, 0, h[Len(lead)])
  BY <1>2, <1>3 DEF IsLead
<1>5. up = SubSeq(stream, zero + 1, l)
  <2>1. up = stream
    BY <1>3 DEF Init
  <2>2. 0 + l <= l /\ \A i \in 1..l : 0 + i = i
    OBVIOUS
  <2>3. Placed(stream, 0, stream)
    BY <1>3, <2>2 DEF Placed
  <2>4. SubSeq(stream, 1, l) = stream
    BY <1>3, <2>3, PlacedWhole
  <2>. QED  BY <1>3, <2>1, <2>4
<1>6. SubSeq(stream, Len(h[zero]) + 1, zero) = <<>>
  <2>1. Len(h[zero]) = 0
    BY <1>3, <1>4, Nothing DEF Joins
  <2>2. PICK one \in Nat \ {0} : one = 1 /\ zero \in Int /\ zero <= Len(stream) /\ ~(one <= zero)
    BY <1>3
  <2>3. SubSeq(stream, one, zero) \in Seq(Byte) /\ Len(SubSeq(stream, one, zero)) = 0
    BY <2>2, Piece
  <2>4. Len(h[zero]) + 1 = one
    BY <2>1, <2>2
  <2>. QED  BY <2>3, <2>4, EmptySeq
<1>7. /\ zero \in 0..Len(lead) /\ zero \in 0..Len(stream)
      /\ Len(h[zero]) <= zero /\ zero - Len(h[zero]) < SizeMod
  <2>1. Len(h[zero]) = 0
    BY <1>3, <1>4, Nothing DEF Joins
  <2>. QED  BY <1>3, <1>4, <2>1, LenProperties, Sizes
<1>8. IsCut(stream, lead, h, zero, zero, [rest |-> <<>>, requests |-> <<>>])
  <2>1. IsCut(stream, lead, h, zero, zero,
             extract_requests[SubSeq(stream, Len(h[zero]) + 1, zero)])
    BY <1>4, <1>7, ExtractMany
  <2>. QED  BY <1>6, <2>1, ExtractNothing
<1>9. inbuf = <<>> /\ requests = <<>>
  BY DEF Init
<1>10. CutTo(LeadingRequests, h, zero, inbuf)
  BY <1>3, <1>4, <1>8, <1>9 DEF CutTo
<1>11. ReadTo(zero)
  BY <1>2, <1>3, <1>5, <1>10 DEF ReadTo
<1>. QED  BY <1>3, <1>7, <1>11

\* Two cuts, one after the other.
LEMMA CutsJoin ==
  ASSUME NEW stream, NEW lead \in Seq(Buffers), NEW h, NEW r \in Nat, NEW t \in Nat, r <= t,
         Len(h[Len(lead)]) \in Nat,
         NEW d \in 0..Len(lead), NEW e \in d..Len(lead), NEW x, NEW y, NEW z,
         IsCutAt(stream, lead, h, 0, r, x, d), IsCutAt(stream, lead, h, d, t, y, e),
         r <= Len(h[Len(lead)]), z.rest = y.rest, z.requests = x.requests \o y.requests
  PROVE  IsCutAt(stream, lead, h, 0, t, z, e)
<1>1. PICK k \in Nat, one \in Nat : k = Len(lead) /\ one = 1
  BY LenProperties
<1>2. d \in Nat /\ e \in Nat /\ 0 <= d /\ d <= e /\ e <= k /\ e <= Len(lead) /\ d <= k
  BY <1>1
<1>3. x.requests = SubSeq(lead, 0 + 1, d) \o <<>>
  BY DEF IsCutAt
<1>4. PICK more : y.requests = SubSeq(lead, d + 1, e) \o more /\ more \in Seq(Buffers)
        /\ (t <= Len(h[k]) => more = <<>>)
  BY <1>1 DEF IsCutAt
<1>5. SubSeq(lead, 0 + 1, d) \o SubSeq(lead, d + 1, e) = SubSeq(lead, 0 + 1, e)
  BY <1>2, PiecesJoin
<1>6. PICK u \in Seq(Buffers), v \in Seq(Buffers) : u = SubSeq(lead, 0 + 1, d) /\ v = SubSeq(lead, d + 1, e)
  <2>1. 0 + 1 \in Nat \ {0} /\ d + 1 \in Nat \ {0} /\ d \in Int /\ e \in Int /\ d <= Len(lead)
    BY <1>1, <1>2
  <2>2. SubSeq(lead, 0 + 1, d) \in Seq(Buffers)
    BY <2>1, Piece
  <2>3. SubSeq(lead, d + 1, e) \in Seq(Buffers)
    BY <1>2, <2>1, Piece
  <2>. QED  BY <2>2, <2>3
<1>7. z.requests = SubSeq(lead, 0 + 1, e) \o more
  <2>1. u \o <<>> = u
    BY ConcatEmptySeq
  <2>2. Associates(u, v, more)
    BY <1>4, JoinAssociates
  <2>. QED  BY <1>3, <1>4, <1>5, <1>6, <2>1, <2>2 DEF Associates
<1>8. \E m : z.requests = SubSeq(lead, 0 + 1, e) \o m /\ m \in Seq(Buffers)
             /\ (t <= Len(h[Len(lead)]) => m = <<>>)
  BY <1>1, <1>4, <1>7
<1>9. /\ Len(h[e]) <= t /\ (e < Len(lead) => t < Len(h[e + 1]))
      /\ t <= Len(h[Len(lead)]) => z.rest = SubSeq(stream, Len(h[e]) + 1, t)
  BY DEF IsCutAt
<1>. QED  BY <1>8, <1>9 DEF IsCutAt

\* Behind the leading requests it makes no difference what there is.
LEMMA CutsBehind ==
  ASSUME NEW stream, NEW lead \in Seq(Seq(Byte)), lead \in Seq(Buffers), NEW h, Joins(h, Byte, lead),
         NEW r \in Nat, NEW t \in Nat, r <= t, NEW x, NEW found \in Seq(Buffers), NEW z,
         IsCut(stream, lead, h, 0, r, x),
         ~(r <= Len(h[Len(lead)])), z.requests = x.requests \o found
  PROVE  IsCut(stream, lead, h, 0, t, z)
<1>1. PICK k \in Nat : k = Len(lead)
  BY LenProperties
<1>2. PICK d \in 0..k : IsCutAt(stream, lead, h, 0, r, x, d)
  BY <1>1 DEF IsCut
<1>3. PICK l \in Nat : l = Len(h[k]) /\ l < r
  <2>1. k \in 0..k /\ k \in k..k
    OBVIOUS
  <2>2. Len(h[k]) \in Nat
    BY <1>1, <2>1, JoinsGrow
  <2>. QED  BY <1>1, <2>2
<1>4. d = k
  <2>. SUFFICES ASSUME d # k PROVE FALSE
    OBVIOUS
  <2>1. d + 1 \in 0..k /\ k \in (d + 1)..k /\ d < k
    BY <1>1
  <2>2. r < Len(h[d + 1])
    BY <1>1, <1>2, <2>1 DEF IsCutAt
  <2>3. Len(h[d + 1]) \in Nat /\ Len(h[d + 1]) <= l
    BY <1>1, <1>3, <2>1, JoinsGrow
  <2>4. \A a \in Nat : r < a /\ a <= l => FALSE
    BY <1>3
  <2>. QED  BY <2>2, <2>3, <2>4
<1>5. PICK more \in Seq(Buffers) : x.requests = SubSeq(lead, 0 + 1, k) \o more
  BY <1>2, <1>4 DEF IsCutAt
<1>6. PICK m \in Seq(Buffers) : m = more \o found
  BY JoinIs
<1>7. z.requests = SubSeq(lead, 0 + 1, k) \o m
  <2>1. SubSeq(lead, 0 + 1, k) \in Seq(Buffers)
    <3>1. 0 + 1 \in Nat \ {0} /\ k \in Int /\ k <= Len(lead)
      BY <1>1
    <3>. QED  BY <3>1, Piece
  <2>2. Associates(SubSeq(lead, 0 + 1, k), more, found)
    BY <2>1, JoinAssociates
  <2>. QED  BY <1>5, <1>6, <2>2 DEF Associates
<1>8. Len(h[k]) <= t /\ ~(t <= Len(h[k])) /\ ~(k < Len(lead)) /\ k \in 0..Len(lead)
  BY <1>1, <1>3
<1>9. IsCutAt(stream, lead, h, 0, t, z, k)
  BY <1>1, <1>6, <1>7, <1>8 DEF IsCutAt
<1>. QED  BY <1>8, <1>9 DEF IsCut

\* It holds after a recv() of the server.
LEMMA RawServerRead ==
  ASSUME Typed, pc = "raw", RawStream, NEW n \in 1..Len(up), ServerRead(n)
  PROVE  RawStream'
<1>1. PICK stream \in Seq(Byte), l \in Nat : stream = FlattenSeq(pieces) /\ l = Len(stream)
  <2>1. FlattenSeq(pieces) \in Seq(Byte)
    BY FlattenFew DEF Typed
  <2>. QED  BY <2>1, LenProperties
<1>2. PICK r \in 0..l : ReadTo(r)
  BY <1>1 DEF RawStream
<1>3. PICK h, rest : /\ IsLead(LeadingRequests, h) /\ (~closed => rest = inbuf)
                     /\ CutTo(LeadingRequests, h, r, rest)
  BY <1>2 DEF ReadTo
<1>4. PICK lead \in Seq(Seq(Byte)), k \in Nat :
        /\ lead = LeadingRequests /\ k = Len(lead) /\ AreRequests(lead)
        /\ Joins(h, Byte, lead) /\ Placed(stream, 0, h[Len(lead)])
  BY <1>1, <1>3, LenProperties DEF IsLead
<1>5. lead \in Seq(Buffers)
  <2>1. ASSUME NEW i \in 1..k PROVE lead[i] \in Buffers
    <3>1. lead[i] \in Seq(Byte) /\ Len(lead[i]) <= LongMax
      BY <1>4, ElementOfSeq DEF AreRequests
    <3>2. PICK a \in Nat, b \in Nat, c \in Nat :
            a = Len(lead[i]) /\ b = LongMax /\ c = SizeMod /\ a <= b /\ b + 1 < c
      BY <3>1, LenProperties, Sizes
    <3>3. a < c
      <4>1. a <= b /\ b + 1 < c
        BY <3>2
      <4>. QED  BY <4>1
    <3>. QED  BY <3>1, <3>2, <3>3 DEF Buffers
  <2>2. lead \in [1..k -> Buffers]
    BY <1>4, <2>1, LenProperties
  <2>. QED  BY <2>2, SeqDef
<1>6. /\ ~closed /\ n \in Nat /\ n >= 1 /\ n <= Len(up) /\ Len(inbuf) + n <= MaxRequest
      /\ up' = Drop(up, n) /\ UNCHANGED <<pc, closed, pieces>>
  BY DEF ServerRead, clientVars
<1>7. PICK b \in Buffers : b = inbuf \o Take(up, n)
  BY <1>6, ReadBuffer DEF Typed
<1>8. PICK cut \in [rest : Buffers, requests : Seq(Buffers)] :
        /\ cut = extract_requests[b] /\ inbuf' = cut.rest
        /\ requests' = requests \o cut.requests
  <2>1. extract_requests[b] \in [rest : Buffers, requests : Seq(Buffers)]
    BY ExtractEquation
  <2>. QED  BY <1>7, <2>1 DEF ServerRead
<1>9. PICK t \in 0..l :
        /\ t = r + n /\ Take(up, n) = SubSeq(stream, r + 1, t) /\ up' = SubSeq(stream, t + 1, l)
  <2>1. up = SubSeq(stream, r + 1, l)
    BY <1>1, <1>2 DEF ReadTo
  <2>2. /\ r + n \in 0..Len(stream)
        /\ Take(SubSeq(stream, r + 1, Len(stream)), n) = SubSeq(stream, r + 1, r + n)
        /\ Drop(SubSeq(stream, r + 1, Len(stream)), n) = SubSeq(stream, r + n + 1, Len(stream))
    BY <1>1, <1>6, <2>1, TakeOfRest
  <2>. QED  BY <1>1, <1>6, <2>1, <2>2
<1>. DEFINE x == [rest |-> inbuf, requests |-> requests]
            z == [rest |-> cut.rest, requests |-> requests \o cut.requests]
<1>10. IsCut(stream, lead, h, 0, r, x)
  BY <1>1, <1>3, <1>4, <1>6 DEF CutTo
<1>11. r \in Nat /\ t \in Nat /\ r <= t /\ t <= l
  BY <1>6, <1>9
<1>12. z.rest = cut.rest /\ z.requests = x.requests \o cut.requests /\ x.rest = inbuf
  OBVIOUS
<1>. HIDE DEF x, z
<1>13. IsCut(stream, lead, h, 0, t, z)
  <2>1. CASE ~(r <= Len(h[Len(lead)]))
    BY <1>4, <1>5, <1>8, <1>10, <1>11, <1>12, <2>1, CutsBehind
  <2>2. CASE r <= Len(h[Len(lead)])
    <3>1. PICK d \in 0..Len(lead) : IsCutAt(stream, lead, h, 0, r, x, d)
      BY <1>10 DEF IsCut
    <3>2. PICK p \in Nat : p = Len(h[d]) /\ p <= r /\ inbuf = SubSeq(stream, p + 1, r)
      <4>1. d \in d..Len(lead)
        BY <1>4
      <4>2. Len(h[d]) \in Nat
        BY <1>4, <4>1, JoinsGrow
      <4>. QED  BY <1>12, <2>2, <3>1, <4>2 DEF IsCutAt
    <3>3. b = SubSeq(stream, p + 1, t)
      <4>1. r \in Nat /\ t \in Nat /\ p <= r /\ r <= t /\ t <= Len(stream)
        BY <1>1, <1>11, <3>2
      <4>2. SubSeq(stream, p + 1, r) \o SubSeq(stream, r + 1, t) = SubSeq(stream, p + 1, t)
        BY <4>1, PiecesJoin
      <4>. QED  BY <1>7, <1>9, <3>2, <4>2
    <3>4. t - p < SizeMod
      <4>1. p + 1 \in Nat \ {0} /\ t \in Int /\ t <= Len(stream)
        BY <1>1, <1>11
      <4>2. Len(b) = IF p + 1 <= t THEN t - (p + 1) + 1 ELSE 0
        BY <3>3, <4>1, Piece
      <4>3. Len(b) < SizeMod /\ SizeMod \in Nat /\ 0 < SizeMod
        <5>1. PICK c \in Nat, m \in Nat : c = SizeMod /\ m = LongMax /\ m + 1 < c
          BY Sizes
        <5>. QED  BY <5>1 DEF Buffers
      <4>4. IF p + 1 <= t THEN t - (p + 1) + 1 = t - p ELSE t - p <= 0
        BY <1>11
      <4>. QED  BY <1>11, <4>2, <4>3, <4>4
    <3>5. IsCut(stream, lead, h, d, t, cut)
      <4>1. Len(h[d]) <= t /\ t - Len(h[d]) < SizeMod /\ t \in 0..Len(stream)
        <5>1. p <= t
          BY <1>11, <3>2
        <5>. QED  BY <1>1, <1>11, <3>2, <3>4, <5>1
      <4>2. IsCut(stream, lead, h, d, t, extract_requests[SubSeq(stream, Len(h[d]) + 1, t)])
        BY <1>4, <4>1, ExtractMany
      <4>. QED  BY <1>8, <3>2, <3>3, <4>2
    <3>6. PICK e \in d..Len(lead) : IsCutAt(stream, lead, h, d, t, cut, e)
      BY <3>5 DEF IsCut
    <3>7. Len(h[Len(lead)]) \in Nat
      <4>1. Len(lead) \in 0..Len(lead) /\ Len(lead) \in Len(lead)..Len(lead)
        BY <1>4
      <4>. QED  BY <1>4, <4>1, JoinsGrow
    <3>8. IsCutAt(stream, lead, h, 0, t, z, e)
      BY <1>5, <1>11, <1>12, <2>2, <3>1, <3>6, <3>7, CutsJoin
    <3>9. e \in 0..Len(lead)
      BY <1>4
    <3>. QED  BY <3>8, <3>9 DEF IsCut
  <2>. QED  BY <2>1, <2>2
<1>14. IsLead(LeadingRequests, h)' /\ LeadingRequests' = lead
  BY <1>3, <1>4, <1>6 DEF IsLead, LeadingRequests
<1>15. CutTo(LeadingRequests, h, t, inbuf)'
  BY <1>1, <1>6, <1>8, <1>13, <1>14 DEF CutTo, z
<1>16. ReadTo(t)'
  BY <1>1, <1>6, <1>9, <1>14, <1>15 DEF ReadTo
<1>. QED  BY <1>1, <1>6, <1>9, <1>16 DEF RawStream

\* Every step keeps it.
LEMMA RawNext == Typed /\ RawStream /\ [Next]_vars => RawStream'
<1>. SUFFICES ASSUME Typed, RawStream, [Next]_vars PROVE RawStream'
  OBVIOUS
<1>1. ASSUME pc' # "raw" PROVE RawStream'
  BY <1>1 DEF RawStream
<1>2. ASSUME UNCHANGED <<pc, up, closed, inbuf, requests, pieces>>
      PROVE  RawStream'
  BY <1>2 DEF RawStream, ReadTo, CutTo, IsLead, LeadingRequests
<1>3. ASSUME Close, pc = "raw" PROVE RawStream'
  <2>1. closed' /\ UNCHANGED <<pc, up, requests, pieces>>
    BY <1>3 DEF Close, clientVars
  <2>2. PICK r \in 0..Len(FlattenSeq(pieces)) : ReadTo(r)
    BY <1>3 DEF RawStream
  <2>3. PICK h, rest : IsLead(LeadingRequests, h) /\ CutTo(LeadingRequests, h, r, rest)
    BY <2>2 DEF ReadTo
  <2>4. IsLead(LeadingRequests, h)' /\ CutTo(LeadingRequests, h, r, rest)'
    BY <2>1, <2>3 DEF IsLead, CutTo, LeadingRequests
  <2>5. ReadTo(r)'
    BY <2>1, <2>2, <2>4 DEF ReadTo
  <2>. QED  BY <2>1, <2>5 DEF RawStream
<1>4. ASSUME NEW arguments \in Typeable, NEW style \in Styles, TypeCommand(arguments, style)
      PROVE  RawStream'
  BY <1>1, <1>4 DEF TypeCommand
<1>5. ASSUME NEW line \in OtherLines, TypeOther(line)
      PROVE  RawStream'
  BY <1>1, <1>5 DEF TypeOther, Exit
<1>6. CASE ClientSends
  BY <1>1, <1>6 DEF ClientSends, Send
<1>7. CASE ClientReceives
  <2>1. pc' # "raw"
    BY <1>7 DEF ClientReceives, Receive, Exit
  <2>. QED  BY <1>1, <2>1
<1>8. CASE ConnectionLost
  BY <1>1, <1>8 DEF ConnectionLost, Exit
<1>9. ASSUME Close PROVE RawStream'
  BY <1>1, <1>3, <1>9 DEF Close, clientVars
<1>10. CASE ServerReads
  <2>1. ASSUME NEW n \in 1..Len(up), ServerRead(n)
        PROVE  RawStream'
    <3>1. pc' = pc
      BY <2>1 DEF ServerRead, clientVars
    <3>. QED  BY <1>1, <2>1, <3>1, RawServerRead
  <2>. QED  BY <1>9, <1>10, <2>1 DEF ServerReads, ServerRefuses
<1>11. CASE ServerWrite
  BY <1>2, <1>11 DEF ServerWrite, clientVars
<1>12. CASE ServerCloses
  BY <1>9, <1>12 DEF ServerCloses
<1>13. ASSUME NEW arguments \in OthersCall, Other(arguments)
       PROVE  RawStream'
  BY <1>2, <1>13 DEF Other, clientVars
<1>14. CASE UNCHANGED vars
  BY <1>2, <1>14 DEF vars, clientVars, serverVars
<1>. QED  BY <1>4, <1>5, <1>6, <1>7, <1>8, <1>10, <1>11, <1>12, <1>13, <1>14 DEF Next

\* It is an invariant.
LEMMA RawInvariant == Spec => []RawStream
<1>. QED  BY TypedInvariant, RawInit, RawNext, PTL DEF Spec

\* Where a cut is, there are as many complete requests as fit.
LEMMA CutComplete ==
  ASSUME NEW lead \in Seq(Seq(Byte)), NEW h, Joins(h, Byte, lead), NEW r \in Nat,
         NEW d \in 0..Len(lead), Len(h[d]) <= r,
         d < Len(lead) => r < Len(h[d + 1]),
         \A n \in 0..Len(lead) : SizeOf(Take(lead, n)) = Len(h[n])
  PROVE  Max({n \in 0..Len(lead) : SizeOf(Take(lead, n)) <= r}) = d
<1>1. PICK k \in Nat : k = Len(lead)
  BY LenProperties
<1>. DEFINE T == {n \in 0..Len(lead) : SizeOf(Take(lead, n)) <= r}
<1>2. d \in T
  OBVIOUS
<1>3. ASSUME NEW n \in T PROVE d >= n
  <2>. SUFFICES ASSUME ~(d >= n) PROVE FALSE
    OBVIOUS
  <2>1. n \in 0..k /\ d \in 0..k /\ d + 1 \in 0..k /\ n \in (d + 1)..k /\ d < k
    BY <1>1
  <2>2. Len(h[n]) <= r
    BY <1>1, <2>1
  <2>3. Len(h[d + 1]) \in Nat /\ Len(h[n]) \in Nat /\ Len(h[d + 1]) <= Len(h[n])
    BY <1>1, <2>1, JoinsGrow
  <2>4. r < Len(h[d + 1])
    BY <1>1, <2>1
  <2>5. \A a \in Nat, b \in Nat : r < a /\ a <= b /\ b <= r => FALSE
    OBVIOUS
  <2>. QED  BY <2>2, <2>3, <2>4, <2>5
<1>4. T \subseteq Int /\ d \in Int
  BY <1>1
<1>. HIDE DEF T
<1>5. Max(T) \in T /\ \A n \in T : Max(T) >= n
  BY <1>2, <1>3 DEF Max
<1>6. Max(T) \in Int /\ Max(T) >= d /\ d >= Max(T)
  BY <1>2, <1>3, <1>4, <1>5
<1>7. Max(T) = d
  BY <1>4, <1>6
<1>. QED  BY <1>7 DEF T

\* However the stream is cut, extract_requests() returns the requests of the
\* stream one by one, in order, each when its last byte has been read, as long
\* as nothing malformed has come, and keeps only the bytes behind them.
THEOREM RequestsSurvive == Spec => []FramesSurvive
<1>1. ASSUME Typed, RawStream, pc = "raw" PROVE FramesSurvive
  <2>1. PICK stream \in Seq(Byte), l \in Nat : stream = FlattenSeq(pieces) /\ l = Len(stream)
    <3>1. FlattenSeq(pieces) \in Seq(Byte)
      BY <1>1, FlattenFew DEF Typed
    <3>. QED  BY <3>1, LenProperties
  <2>2. PICK r \in 0..l : ReadTo(r)
    BY <1>1, <2>1 DEF RawStream
  <2>3. PICK h, rest : /\ IsLead(LeadingRequests, h) /\ (~closed => rest = inbuf)
                       /\ CutTo(LeadingRequests, h, r, rest)
    BY <2>2 DEF ReadTo
  <2>4. PICK lead \in Seq(Seq(Byte)), k \in Nat :
          /\ lead = LeadingRequests /\ k = Len(lead) /\ Joins(h, Byte, lead)
          /\ \A n \in 0..k : SizeOf(Take(pieces, n)) = Len(h[n]) /\ SizeOf(Take(lead, n)) = Len(h[n])
          /\ SizeOf(lead) = Len(h[k])
    BY <2>3, LenProperties DEF IsLead
  <2>5. PICK d \in 0..k :
          IsCutAt(stream, lead, h, 0, r, [rest |-> rest, requests |-> requests], d)
    BY <2>1, <2>3, <2>4 DEF CutTo, IsCut
  <2>6. /\ Len(h[d]) <= r /\ (d < k => r < Len(h[d + 1]))
        /\ r <= Len(h[k]) => rest = SubSeq(stream, Len(h[d]) + 1, r)
    BY <2>4, <2>5 DEF IsCutAt
  <2>7. PICK more \in Seq(Buffers) :
          /\ requests = SubSeq(lead, 0 + 1, d) \o more
          /\ r <= Len(h[k]) => more = <<>>
    BY <2>4, <2>5 DEF IsCutAt
  <2>8. PICK u \in Seq(Seq(Byte)) : u = Take(lead, d) /\ Len(u) = d
    <3>1. d \in Nat /\ d <= Len(lead)
      BY <2>4
    <3>. QED  BY <2>4, <3>1, TakeDrop
  <2>9. more \in Seq(Seq(Byte)) /\ requests = u \o more
    <3>1. \A i \in 1..Len(more) : more[i] \in Seq(Byte)
      BY ElementOfSeq DEF Buffers
    <3>2. PICK m \in Nat : more \in [1..m -> Seq(Byte)]
      BY <3>1, LenProperties
    <3>3. more \in Seq(Seq(Byte))
      BY <3>2, SeqDef
    <3>4. SubSeq(lead, 0 + 1, d) = u
      BY <2>8 DEF Take
    <3>. QED  BY <2>7, <3>3, <3>4
  <2>10. SizeOf(pieces) - Len(up) = r
    <3>1. up = SubSeq(stream, r + 1, l)
      BY <2>1, <2>2 DEF ReadTo
    <3>2. Len(up) = l - r
      <4>1. r \in Nat /\ r <= Len(stream) /\ Drop(stream, r) = up
        BY <2>1, <3>1 DEF Drop
      <4>. QED  BY <2>1, <4>1, TakeDrop
    <3>3. SizeOf(pieces) = l
      BY <2>1 DEF SizeOf
    <3>. QED  BY <3>2, <3>3
  <2>11. Max({n \in 0..Len(lead) : SizeOf(Take(lead, n)) <= r}) = d
    <3>1. /\ r \in Nat /\ d \in 0..Len(lead) /\ Len(h[d]) <= r
          /\ (d < Len(lead) => r < Len(h[d + 1]))
          /\ \A n \in 0..Len(lead) : SizeOf(Take(lead, n)) = Len(h[n])
      BY <2>4, <2>6
    <3>. QED  BY <2>4, <3>1, CutComplete
  <2>12. IsPrefix(u, requests)
    <3>1. PICK q \in Seq(Seq(Byte)) : q = requests /\ IsJoin(q, u, more)
      BY <2>9, JoinIs
    <3>2. d \in 0..Len(q) /\ Len(u) <= Len(q) /\ (\A i \in 1..d : q[i] = u[i])
      BY <2>8, <3>1, LenProperties DEF IsJoin
    <3>3. PICK v \in Seq(Seq(Byte)) : v = SubSeq(q, 1, d) /\ Len(v) = d /\ \A i \in 1..d : v[i] = q[i]
      <4>1. /\ SubSeq(q, 1, d) \in Seq(Seq(Byte)) /\ Len(SubSeq(q, 1, d)) = d
            /\ \A i \in 1..d : SubSeq(q, 1, d)[i] = q[i]
        BY <3>2, CutSeq
      <4>. QED  BY <4>1
    <3>4. v = u
      BY <2>8, <3>2, <3>3, SeqEqual
    <3>5. SubSeq(u, 1, Len(u)) = u
      <4>1. Placed(u, 0, u)
        <5>1. 0 + d <= d /\ \A i \in 1..d : 0 + i = i
          OBVIOUS
        <5>. QED  BY <2>8, <5>1 DEF Placed
      <4>. QED  BY <4>1, PlacedWhole
    <3>. QED  BY <2>8, <3>1, <3>2, <3>3, <3>4, <3>5 DEF IsPrefix
  <2>13. ASSUME r <= SizeOf(lead)
         PROVE  /\ Len(requests) = d
                /\ ~closed => Len(inbuf) = r - SizeOf(Take(pieces, d))
    <3>1. r <= Len(h[k]) /\ more = <<>>
      BY <2>4, <2>7, <2>13
    <3>2. requests = u
      BY <2>9, <3>1, ConcatEmptySeq
    <3>3. ASSUME ~closed PROVE Len(inbuf) = r - SizeOf(Take(pieces, d))
      <4>1. PICK p \in Nat : p = Len(h[d]) /\ p <= r
        <5>1. d \in d..Len(lead) /\ d \in 0..Len(lead)
          BY <2>4
        <5>2. Len(h[d]) \in Nat
          BY <2>4, <5>1, JoinsGrow
        <5>. QED  BY <2>6, <5>2
      <4>2. inbuf = SubSeq(stream, p + 1, r)
        BY <2>3, <2>6, <3>1, <3>3, <4>1
      <4>3. p + 1 \in Nat \ {0} /\ r \in Int /\ r <= Len(stream)
        BY <2>1
      <4>4. Len(SubSeq(stream, p + 1, r)) = IF p + 1 <= r THEN r - (p + 1) + 1 ELSE 0
        BY <4>3, Piece
      <4>5. (IF p + 1 <= r THEN r - (p + 1) + 1 ELSE 0) = r - p
        <5>1. \A x \in Nat, y \in Nat : x <= y => (IF x + 1 <= y THEN y - (x + 1) + 1 ELSE 0) = y - x
          OBVIOUS
        <5>2. r \in Nat
          BY <2>1
        <5>. QED  BY <4>1, <5>1, <5>2
      <4>6. Len(inbuf) = r - p /\ SizeOf(Take(pieces, d)) = p
        BY <2>4, <4>1, <4>2, <4>4, <4>5
      <4>. QED  BY <4>6
    <3>. QED  BY <2>8, <3>2, <3>3
  <2>. QED  BY <2>4, <2>8, <2>10, <2>11, <2>12, <2>13 DEF FramesSurvive
<1>2. Typed /\ RawStream => FramesSurvive
  BY <1>1 DEF FramesSurvive
<1>. QED  BY <1>2, TypedInvariant, RawInvariant, PTL

-----------------------------------------------------------------------------
(* The parts of the stream: what extract_requests() returns covers it.     *)

\* The recursion in Ends is well-founded: its equation holds.
LEMMA EndsEquation ==
  ASSUME NEW stream \in Seq(Byte)
  PROVE  \A p \in Seq(Seq(Byte)) :
           /\ Ends(p, stream) \subseteq 0..Len(stream)
           /\ Ends(p, stream) = IF p = <<>> THEN {0}
                                ELSE UNION {EndsOf(Last(p), stream, start) :
                                            start \in Ends(Front(p), stream)}
<1>1. PICK l \in Nat : l = Len(stream)
  BY LenProperties
<1>. DEFINE D == Seq(Seq(Byte))
            V == SUBSET (0..l)
            Base == {<<>>}
            base == [p \in D |-> {0}]
            next == [p \in D |-> IF p = <<>> THEN <<>> ELSE Front(p)]
            All(part, starts) == UNION {EndsOf(part, stream, start) : start \in starts}
            step == [x \in D \X V |-> All(Last(x[1]), x[2])]
            size == [p \in D |-> Len(p)]
<1>2. \A p \in D : /\ Len(p) \in Nat
                   /\ p # <<>> => Front(p) \in D /\ Len(Front(p)) < Len(p)
  <2>. TAKE p \in D
  <2>1. Len(p) \in Nat /\ (p # <<>> => Len(p) \in Nat \ {0})
    BY LenProperties, EmptySeq
  <2>. SUFFICES ASSUME p # <<>> PROVE Front(p) \in D /\ Len(Front(p)) < Len(p)
    BY <2>1
  <2>2. PICK m \in Nat \ {0} : m = Len(p)
    BY <2>1
  <2>3. PICK k \in 0..Len(p) : k = m - 1
    <3>1. m - 1 \in 0..m
      OBVIOUS
    <3>. QED  BY <2>2, <3>1
  <2>4. SubSeq(p, 1, k) \in D /\ Len(SubSeq(p, 1, k)) = k
    BY CutSeq
  <2>. QED  BY <2>2, <2>3, <2>4 DEF Front
<1>3. base \in [D -> V] /\ next \in [D -> D] /\ size \in [D -> Nat]
  <2>1. <<>> \in D /\ {0} \in V
    BY <1>1, EmptySeq
  <2>2. base \in [D -> V]
    <3>. HIDE DEF V, D
    <3>. QED  BY <2>1
  <2>. QED  BY <1>2, <2>1, <2>2
<1>4. \A part, starts : starts \in V => All(part, starts) \in V
  <2>. SUFFICES ASSUME NEW part, NEW starts, starts \in V, NEW q, q \in All(part, starts)
                PROVE  q \in 0..l
    OBVIOUS
  <2>1. PICK start \in starts : q \in EndsOf(part, stream, start)
    OBVIOUS
  <2>2. start \in 0..l /\ q \in start..l
    BY <1>1, <2>1 DEF EndsOf
  <2>. QED  BY <2>2
<1>5. step \in [D \X V -> V]
  <2>. HIDE DEF All, V, D
  <2>. QED  BY <1>4
<1>6. \A p \in D : p \in Base \/ size[next[p]] < size[p]
  <2>. TAKE p \in D
  <2>. SUFFICES ASSUME p # <<>> PROVE size[next[p]] < size[p]
    OBVIOUS
  <2>1. PICK t \in D : t = Front(p) /\ Len(t) < Len(p)
    BY <1>2
  <2>. QED  BY <2>1
<1>7. IsScheme(D, V, Base, base, next, step, size)
  <2>. HIDE DEF D, V, Base, base, next, step, size
  <2>. QED  BY <1>3, <1>5, <1>6 DEF IsScheme
<1>8. PICK f \in [D -> V] : Solves(f, D, Base, base, next, step)
  <2>. HIDE DEF D, V, Base, base, next, step, size
  <2>. QED  BY <1>7, RecursionExists
<1>. DEFINE Step(g, p) == IF p = <<>> THEN {0} ELSE All(Last(p), g[Front(p)])
<1>9. ASSUME NEW p \in D PROVE f[p] = Step(f, p)
  <2>1. f[p] = IF p \in Base THEN base[p] ELSE step[<<p, f[next[p]]>>]
    <3>. HIDE DEF D, V, Base, base, next, step
    <3>. QED  BY <1>8 DEF Solves
  <2>2. CASE p = <<>>
    BY <2>1, <2>2
  <2>3. CASE p # <<>>
    <3>1. PICK t \in D : t = Front(p) /\ next[p] = t
      BY <1>2, <2>3
    <3>2. PICK starts \in V : starts = f[t]
      <4>. HIDE DEF D, V
      <4>. QED  BY <3>1
    <3>3. PICK x : x = <<p, starts>>
      OBVIOUS
    <3>4. x \in D \X V /\ x[1] = p /\ x[2] = starts
      BY <3>3
    <3>5. step[x] = All(Last(p), starts)
      <4>. HIDE DEF D, V, All
      <4>. QED  BY <3>4
    <3>. HIDE DEF step, base, next, All
    <3>. QED  BY <2>1, <2>3, <3>1, <3>2, <3>3, <3>5
  <2>. QED  BY <2>2, <2>3
<1>10. f = [p \in D |-> Step(f, p)]
  <2>. HIDE DEF D, V, Step
  <2>. QED  BY <1>8, <1>9
<1>. DEFINE h == CHOOSE g : g = [p \in Seq(Seq(Byte)) |->
                                    IF p = <<>> THEN {0}
                                    ELSE UNION {EndsOf(Last(p), stream, start) :
                                                start \in g[Front(p)]}]
<1>11. h = [p \in D |-> Step(h, p)]
  BY <1>10
<1>12. \A p \in D : Ends(p, stream) = h[p]
  BY DEF Ends
<1>. DEFINE Q == {p \in D : h[p] \in V}
<1>13. ASSUME NEW p \in D, \A t \in D : size[t] < size[p] => t \in Q PROVE p \in Q
  <2>1. h[p] = Step(h, p)
    <3>. HIDE DEF h, Step, D
    <3>. QED  BY <1>11
  <2>2. CASE p = <<>>
    <3>1. {0} \in V
      BY <1>1
    <3>. HIDE DEF h, V, All
    <3>. QED  BY <2>1, <2>2, <3>1
  <2>3. CASE p # <<>>
    <3>1. PICK t \in D : t = Front(p) /\ Len(t) < Len(p)
      BY <1>2, <2>3
    <3>2. h[t] \in V
      BY <1>13, <3>1
    <3>3. h[p] = All(Last(p), h[t])
      BY <2>1, <2>3, <3>1
    <3>. HIDE DEF h, All, V
    <3>. QED  BY <1>4, <3>2, <3>3
  <2>. QED  BY <2>2, <2>3
<1>14. Q = D
  <2>1. Q \in SUBSET D /\ size \in [D -> Nat]
    <3>. HIDE DEF h, V
    <3>. QED  BY <1>2
  <2>2. \A p \in D : (\A t \in D : size[t] < size[p] => t \in Q) => p \in Q
    <3>. HIDE DEF Q, size, D
    <3>. QED  BY <1>13
  <2>. HIDE DEF Q, size, D
  <2>. QED  BY <2>1, <2>2, SizeInduction
<1>15. ASSUME NEW p \in D
       PROVE  /\ Ends(p, stream) \subseteq 0..l
              /\ Ends(p, stream) = IF p = <<>> THEN {0} ELSE All(Last(p), Ends(Front(p), stream))
  <2>1. Ends(p, stream) = h[p] /\ h[p] = Step(h, p) /\ h[p] \in V
    <3>1. p \in Q
      BY <1>14
    <3>. HIDE DEF h, Step
    <3>. QED  BY <1>11, <1>12, <3>1
  <2>2. p # <<>> => Ends(Front(p), stream) = h[Front(p)]
    <3>. HIDE DEF h
    <3>. QED  BY <1>2, <1>12
  <2>. HIDE DEF h, All
  <2>. QED  BY <2>1, <2>2
<1>. QED  BY <1>1, <1>15

\* A part is added behind the others.
LEMMA EndsAppend ==
  ASSUME NEW stream \in Seq(Byte), NEW parts \in Seq(Seq(Byte)), NEW x \in Seq(Byte),
         NEW p \in Ends(parts, stream), NEW q \in EndsOf(x, stream, p)
  PROVE  q \in Ends(parts \o <<x>>, stream)
<1>1. PICK s : s = Append(parts, x)
  OBVIOUS
<1>2. /\ s \in Seq(Seq(Byte)) /\ s # <<>> /\ Len(s) = Len(parts) + 1
      /\ \A i \in 1..Len(parts) : s[i] = parts[i]
      /\ s[Len(parts) + 1] = x
  BY <1>1, AppendProperties
<1>3. PICK k \in Nat : k = Len(parts)
  BY LenProperties
<1>4. Last(s) = x
  BY <1>2 DEF Last
<1>5. Front(s) = parts
  <2>1. k \in 0..Len(s) /\ Len(s) - 1 = k
    BY <1>2, <1>3
  <2>2. PICK u : u = SubSeq(s, 1, k)
    OBVIOUS
  <2>3. u \in Seq(Seq(Byte)) /\ Len(u) = k /\ \A i \in 1..k : u[i] = s[i]
    BY <1>2, <2>1, <2>2, CutSeq
  <2>4. u = parts
    BY <1>2, <1>3, <2>3, SeqEqual
  <2>. QED  BY <2>1, <2>2, <2>4 DEF Front
<1>6. Ends(s, stream) = UNION {EndsOf(x, stream, start) : start \in Ends(parts, stream)}
  BY <1>2, <1>4, <1>5, EndsEquation
<1>7. s = parts \o <<x>>
  BY <1>1, AppendIsConcat
<1>. QED  BY <1>6, <1>7

\* A piece of a piece.
LEMMA PieceOfPiece ==
  ASSUME NEW s \in Seq(Byte), NEW p \in Nat, NEW r \in Nat, p <= r, r <= Len(s), NEW n \in Nat
  PROVE  LET b == SubSeq(s, p + 1, r) IN
         /\ b \in Seq(Byte) /\ Len(b) = r - p
         /\ n <= r - p => /\ SubSeq(b, 1, n) = SubSeq(s, p + 1, p + n)
                          /\ SubSeq(b, n + 1, Len(b)) = SubSeq(s, p + n + 1, r)
         /\ n > r - p => SubSeq(b, n + 1, Len(b)) = SubSeq(s, r + 1, r)
<1>1. PICK l \in Nat, k \in Nat : l = Len(s) /\ k = r - p /\ r = p + k /\ r <= l
  <2>1. r - p \in Nat /\ r = p + (r - p)
    OBVIOUS
  <2>. QED  BY <2>1, LenProperties
<1>2. PICK b : b = SubSeq(s, p + 1, r)
  OBVIOUS
<1>3. b \in Seq(Byte) /\ Len(b) = k /\ \A i \in 1..k : b[i] = s[p + i]
  <2>1. p + 1 \in Nat \ {0} /\ r \in Int /\ r <= Len(s)
    OBVIOUS
  <2>2. /\ b \in Seq(Byte) /\ Len(b) = IF p + 1 <= r THEN r - (p + 1) + 1 ELSE 0
        /\ \A i \in 1..(r - (p + 1) + 1) : b[i] = s[(p + 1) + i - 1]
    BY <1>2, <2>1, Piece
  <2>3. (IF p + 1 <= r THEN r - (p + 1) + 1 ELSE 0) = k /\ r - (p + 1) + 1 = k
    BY <1>1
  <2>4. \A i \in 1..k : (p + 1) + i - 1 = p + i
    OBVIOUS
  <2>. QED  BY <2>2, <2>3, <2>4
<1>4. ASSUME n <= k PROVE SubSeq(b, 1, n) = SubSeq(s, p + 1, p + n)
  <2>1. PICK m \in Nat : m = p + n /\ m <= l
    <3>1. p + n \in Nat /\ p + n <= l
      BY <1>1, <1>4
    <3>. QED  BY <3>1
  <2>2. PICK t, u : t = SubSeq(b, 1, n) /\ u = SubSeq(s, p + 1, m)
    OBVIOUS
  <2>3. t \in Seq(Byte) /\ Len(t) = n /\ \A i \in 1..n : t[i] = b[i]
    <3>1. n \in 0..Len(b)
      BY <1>3, <1>4
    <3>. QED  BY <1>3, <2>2, <3>1, CutSeq
  <2>4. u \in Seq(Byte) /\ Len(u) = n /\ \A i \in 1..n : u[i] = s[p + i]
    <3>1. p + 1 \in Nat \ {0} /\ m \in Int /\ m <= Len(s)
      BY <1>1, <2>1
    <3>2. /\ u \in Seq(Byte) /\ Len(u) = IF p + 1 <= m THEN m - (p + 1) + 1 ELSE 0
          /\ \A i \in 1..(m - (p + 1) + 1) : u[i] = s[(p + 1) + i - 1]
      BY <2>2, <3>1, Piece
    <3>3. (IF p + 1 <= m THEN m - (p + 1) + 1 ELSE 0) = n /\ m - (p + 1) + 1 = n
      BY <2>1
    <3>4. \A i \in 1..n : (p + 1) + i - 1 = p + i
      OBVIOUS
    <3>. QED  BY <3>2, <3>3, <3>4
  <2>5. \A i \in 1..n : t[i] = u[i]
    BY <1>3, <1>4, <2>3, <2>4
  <2>6. t = u
    BY <2>3, <2>4, <2>5, SeqEqual
  <2>. QED  BY <2>1, <2>2, <2>6
<1>5. ASSUME n <= k PROVE SubSeq(b, n + 1, k) = SubSeq(s, p + n + 1, r)
  <2>1. PICK m \in Nat, a \in Nat : m = p + n /\ a = k - n /\ m <= r
    <3>1. p + n \in Nat /\ k - n \in Nat /\ p + n <= r
      BY <1>1, <1>5
    <3>. QED  BY <3>1
  <2>2. PICK t, u : t = SubSeq(b, n + 1, k) /\ u = SubSeq(s, m + 1, r)
    OBVIOUS
  <2>3. t \in Seq(Byte) /\ Len(t) = a /\ \A i \in 1..a : t[i] = b[n + i]
    <3>1. n + 1 \in Nat \ {0} /\ k \in Int /\ k <= Len(b)
      BY <1>3
    <3>2. /\ t \in Seq(Byte) /\ Len(t) = IF n + 1 <= k THEN k - (n + 1) + 1 ELSE 0
          /\ \A i \in 1..(k - (n + 1) + 1) : t[i] = b[(n + 1) + i - 1]
      BY <1>3, <2>2, <3>1, Piece
    <3>3. (IF n + 1 <= k THEN k - (n + 1) + 1 ELSE 0) = a /\ k - (n + 1) + 1 = a
      BY <1>5, <2>1
    <3>4. \A i \in 1..a : (n + 1) + i - 1 = n + i
      OBVIOUS
    <3>. QED  BY <3>2, <3>3, <3>4
  <2>4. u \in Seq(Byte) /\ Len(u) = a /\ \A i \in 1..a : u[i] = s[m + i]
    <3>1. m + 1 \in Nat \ {0} /\ r \in Int /\ r <= Len(s)
      OBVIOUS
    <3>2. /\ u \in Seq(Byte) /\ Len(u) = IF m + 1 <= r THEN r - (m + 1) + 1 ELSE 0
          /\ \A i \in 1..(r - (m + 1) + 1) : u[i] = s[(m + 1) + i - 1]
      BY <2>2, <3>1, Piece
    <3>3. (IF m + 1 <= r THEN r - (m + 1) + 1 ELSE 0) = a /\ r - (m + 1) + 1 = a
      BY <1>1, <2>1
    <3>4. \A i \in 1..a : (m + 1) + i - 1 = m + i
      OBVIOUS
    <3>. QED  BY <3>2, <3>3, <3>4
  <2>5. ASSUME NEW i \in 1..a PROVE t[i] = u[i]
    <3>1. n + i \in 1..k /\ p + (n + i) = m + i
      BY <1>5, <2>1
    <3>. QED  BY <1>3, <2>3, <2>4, <3>1
  <2>6. t = u
    BY <2>3, <2>4, <2>5, SeqEqual
  <2>7. m + 1 = p + n + 1
    BY <2>1
  <2>. QED  BY <2>2, <2>6, <2>7
<1>6. ASSUME n > k PROVE SubSeq(b, n + 1, k) = SubSeq(s, r + 1, r)
  <2>1. SubSeq(b, n + 1, k) = <<>>
    <3>1. n + 1 \in Nat \ {0} /\ k \in Int /\ k <= Len(b)
      BY <1>3
    <3>2. SubSeq(b, n + 1, k) \in Seq(Byte) /\ Len(SubSeq(b, n + 1, k)) = 0
      BY <1>3, <1>6, <3>1, Piece
    <3>. QED  BY <3>2, EmptySeq
  <2>2. SubSeq(s, r + 1, r) = <<>>
    <3>1. r + 1 \in Nat \ {0} /\ r \in Int /\ r <= Len(s)
      OBVIOUS
    <3>2. SubSeq(s, r + 1, r) \in Seq(Byte) /\ Len(SubSeq(s, r + 1, r)) = 0
      BY <3>1, Piece
    <3>. QED  BY <3>2, EmptySeq
  <2>. QED  BY <2>1, <2>2
<1>. QED  BY <1>1, <1>2, <1>3, <1>4, <1>5, <1>6

\* A round cuts off the next part, and perhaps nothing.
LEMMA RoundEnds ==
  ASSUME NEW stream \in Seq(Byte), NEW parts \in Seq(Seq(Byte)), NEW p \in Ends(parts, stream),
         NEW r \in 0..Len(stream), p <= r, NEW b \in Buffers, b = SubSeq(stream, p + 1, r)
  PROVE  \E q \in Ends(parts \o Round(b).requests, stream) :
           q <= r /\ RestOfRound(b) = SubSeq(stream, q + 1, r)
<1>1. PICK l \in Nat : l = Len(stream) /\ p \in 0..l /\ r \in 0..l /\ p \in Nat /\ r \in Nat
  <2>1. PICK l \in Nat : l = Len(stream)
    BY LenProperties
  <2>2. p \in 0..l
    <3>1. Ends(parts, stream) \subseteq 0..Len(stream)
      BY EndsEquation
    <3>. QED  BY <2>1, <3>1
  <2>3. r \in 0..l
    BY <2>1
  <2>4. p \in Nat /\ r \in Nat
    BY <2>1, <2>2, <2>3
  <2>. QED  BY <2>1, <2>2, <2>3, <2>4
<1>2. PICK round \in Rounding : round = Round(b)
  BY RoundType
<1>3. PICK n \in Nat : n = round.erased /\ RestOfRound(b) = SubSeq(b, n + 1, Len(b))
  BY <1>2 DEF Rounding, RestOfRound
<1>4. PICK k \in Nat, q \in Nat :
        /\ k = r - p /\ q = IF n <= k THEN p + n ELSE r
        /\ q \in p..l /\ q <= r
  <2>1. r - p \in Nat
    BY <1>1
  <2>2. PICK k \in Nat : k = r - p /\ r = p + k
    BY <1>1, <2>1
  <2>3. (IF n <= k THEN p + n ELSE r) \in p..r
    BY <1>1, <2>2
  <2>. QED  BY <1>1, <2>2, <2>3
<1>5. /\ Len(b) = k
      /\ n <= k => /\ SubSeq(b, 1, n) = SubSeq(stream, p + 1, q)
                   /\ SubSeq(b, n + 1, Len(b)) = SubSeq(stream, p + n + 1, r)
      /\ n > k => SubSeq(b, n + 1, Len(b)) = SubSeq(stream, r + 1, r)
  <2>1. p <= r /\ r <= Len(stream)
    BY <1>1
  <2>. QED  BY <1>1, <1>4, <2>1, PieceOfPiece
<1>6. RestOfRound(b) = SubSeq(stream, q + 1, r)
  <2>1. CASE n <= k
    BY <1>3, <1>4, <1>5, <2>1
  <2>2. CASE ~(n <= k)
    <3>1. n > k /\ q = r
      BY <1>4, <2>2
    <3>. QED  BY <1>3, <1>5, <3>1
  <2>. QED  BY <2>1, <2>2
<1>7. CASE round.requests = <<>> /\ n = 0
  <2>1. q = p
    BY <1>1, <1>4, <1>7
  <2>2. parts \o round.requests = parts
    BY <1>7, ConcatEmptySeq
  <2>. QED  BY <1>2, <1>4, <1>6, <2>1, <2>2
<1>8. ASSUME NEW x \in Seq(Byte), round.requests = <<x>>, x = MalformedRequest \/ x = SubSeq(stream, p + 1, q)
      PROVE  \E e \in Ends(parts \o Round(b).requests, stream) :
               e <= r /\ RestOfRound(b) = SubSeq(stream, e + 1, r)
  <2>1. q \in EndsOf(x, stream, p)
    BY <1>1, <1>4, <1>8 DEF EndsOf
  <2>2. q \in Ends(parts \o <<x>>, stream)
    BY <2>1, EndsAppend
  <2>. QED  BY <1>2, <1>4, <1>6, <1>8, <2>2
<1>9. CASE round.requests = <<MalformedRequest>>
  <2>1. round.requests \in Seq(Buffers) /\ Len(<<MalformedRequest>>) = 1
    BY <1>2 DEF Rounding
  <2>2. <<MalformedRequest>>[1] \in Buffers
    BY <1>9, <2>1, ElementOfSeq
  <2>3. MalformedRequest \in Seq(Byte)
    BY <2>2 DEF Buffers
  <2>. QED  BY <1>8, <1>9, <2>3
<1>10. CASE n \in 1..Len(b) /\ round.requests = <<SubSeq(b, 1, n)>>
  <2>1. n <= k
    <3>1. n \in 1..k
      BY <1>5, <1>10
    <3>. QED  BY <3>1
  <2>2. PICK x : x = SubSeq(b, 1, n) /\ x = SubSeq(stream, p + 1, q)
    BY <1>5, <2>1
  <2>3. x \in Seq(Byte)
    <3>1. n \in 0..Len(b) /\ b \in Seq(Byte)
      BY <1>10 DEF Buffers
    <3>. QED  BY <2>2, <3>1, CutSeq
  <2>. QED  BY <1>8, <1>10, <2>2, <2>3
<1>. QED  BY <1>2, <1>3, <1>7, <1>9, <1>10, RoundParts

\* b is what has been read of the stream up to offset r behind the parts.
Remains(parts, stream, b, r) ==
  \E q \in Ends(parts, stream) : q <= r /\ b = SubSeq(stream, q + 1, r)

\* All rounds together cut off parts, and what they leave is behind these.
LEMMA ExtractParts ==
  ASSUME NEW stream \in Seq(Byte), NEW r \in 0..Len(stream), NEW parts \in Seq(Seq(Byte)),
         NEW b \in Buffers, Remains(parts, stream, b, r)
  PROVE  Remains(parts \o extract_requests[b].requests, stream, extract_requests[b].rest, r)
<1>. DEFINE D == Buffers
            size == [c \in D |-> Len(c)]
            Good(c) == \A s \in Seq(Seq(Byte)) :
                         Remains(s, stream, c, r) =>
                           Remains(s \o extract_requests[c].requests, stream,
                                   extract_requests[c].rest, r)
            Q == {c \in D : Good(c)}
<1>1. \A c \in D : Len(c) \in Nat
  BY LenProperties DEF Buffers
<1>2. Seq(Buffers) \subseteq Seq(Seq(Byte))
  <2>. SUFFICES ASSUME NEW s \in Seq(Buffers) PROVE s \in Seq(Seq(Byte))
    OBVIOUS
  <2>1. \A i \in 1..Len(s) : s[i] \in Seq(Byte)
    BY ElementOfSeq DEF Buffers
  <2>2. PICK m \in Nat : s \in [1..m -> Seq(Byte)]
    BY <2>1, LenProperties
  <2>. QED  BY <2>2, SeqDef
<1>3. ASSUME NEW c \in D, \A d \in D : size[d] < size[c] => d \in Q
      PROVE  c \in Q
  <2>. SUFFICES ASSUME NEW s \in Seq(Seq(Byte)), Remains(s, stream, c, r)
                PROVE  Remains(s \o extract_requests[c].requests, stream,
                               extract_requests[c].rest, r)
    OBVIOUS
  <2>1. PICK found \in Seq(Seq(Byte)), d \in D :
          /\ found = Round(c).requests /\ d = RestOfRound(c)
          /\ extract_requests[c] = Extracted(c, extract_requests[d])
          /\ Round(c).again => Len(d) < Len(c)
    <3>1. Round(c).requests \in Seq(Buffers)
      BY RoundType DEF Rounding
    <3>2. Round(c).requests \in Seq(Seq(Byte))
      BY <1>2, <3>1
    <3>. QED  BY <3>2, ExtractEquation
  <2>2. Remains(s \o found, stream, d, r)
    <3>1. PICK p \in Ends(s, stream) : p <= r /\ c = SubSeq(stream, p + 1, r)
      BY DEF Remains
    <3>2. \E q \in Ends(s \o Round(c).requests, stream) :
            q <= r /\ RestOfRound(c) = SubSeq(stream, q + 1, r)
      BY <3>1, RoundEnds
    <3>. QED  BY <2>1, <3>2 DEF Remains
  <2>3. CASE ~Round(c).again
    <3>1. extract_requests[c] = [rest |-> d, requests |-> found]
      BY <2>1, <2>3 DEF Extracted
    <3>2. extract_requests[c].rest = d /\ extract_requests[c].requests = found
      BY <3>1
    <3>. QED  BY <2>2, <3>2
  <2>4. CASE Round(c).again
    <3>1. size[d] < size[c]
      BY <2>1, <2>4
    <3>2. Good(d)
      BY <1>3, <3>1
    <3>3. s \o found \in Seq(Seq(Byte))
      BY <2>1, ConcatProperties
    <3>4. PICK v : v = extract_requests[d] /\ v.requests \in Seq(Seq(Byte))
      <4>1. extract_requests[d].requests \in Seq(Buffers)
        BY ExtractEquation
      <4>. QED  BY <1>2, <4>1
    <3>5. Remains((s \o found) \o v.requests, stream, v.rest, r)
      BY <2>2, <3>2, <3>3, <3>4
    <3>6. extract_requests[c] = [rest |-> v.rest, requests |-> found \o v.requests]
      BY <2>1, <2>4, <3>4 DEF Extracted
    <3>7. /\ extract_requests[c].rest = v.rest
          /\ extract_requests[c].requests = found \o v.requests
      BY <3>6
    <3>8. s \o (found \o v.requests) = (s \o found) \o v.requests
      <4>1. PICK w \in Seq(Seq(Byte)) : w = v.requests
        BY <3>4
      <4>2. Associates(s, found, w)
        BY JoinAssociates
      <4>. QED  BY <4>1, <4>2 DEF Associates
    <3>. QED  BY <3>5, <3>7, <3>8
  <2>. QED  BY <2>3, <2>4
<1>4. Q = D
  <2>1. Q \in SUBSET D /\ size \in [D -> Nat]
    <3>. HIDE DEF Good
    <3>. QED  BY <1>1
  <2>2. \A c \in D : (\A d \in D : size[d] < size[c] => d \in Q) => c \in Q
    <3>. HIDE DEF Q, size, D
    <3>. QED  BY <1>3
  <2>. HIDE DEF Q, size, D
  <2>. QED  BY <2>1, <2>2, SizeInduction
<1>5. Good(b)
  BY <1>4
<1>. QED  BY <1>5

\* The server keeps what it has read behind the last part, the rest is on its way.
PartedAt(r) ==
  /\ up = SubSeq(FlattenSeq(pieces), r + 1, Len(FlattenSeq(pieces)))
  /\ Remains(requests, FlattenSeq(pieces), inbuf, r)

\* The inductive invariant about the parts.
Parted ==
  pc = "raw" /\ ~closed =>
    /\ requests \in Seq(Seq(Byte))
    /\ \E r \in 0..Len(FlattenSeq(pieces)) : PartedAt(r)

\* Nothing has been read at the start.
LEMMA PartedInit == Init => Parted
<1>. SUFFICES ASSUME Init
              PROVE  /\ requests \in Seq(Seq(Byte))
                     /\ \E r \in 0..Len(FlattenSeq(pieces)) : PartedAt(r)
  BY DEF Parted
<1>1. PICK stream \in Seq(Byte), l \in Nat, zero \in Nat :
        stream = FlattenSeq(pieces) /\ l = Len(stream) /\ zero = 0
  <2>1. FlattenSeq(pieces) \in Seq(Byte)
    BY TypeInit, FlattenFew DEF Typed
  <2>. QED  BY <2>1, LenProperties
<1>2. up = stream /\ inbuf = <<>> /\ requests = <<>>
  BY <1>1 DEF Init
<1>3. up = SubSeq(stream, zero + 1, l)
  <2>1. Placed(stream, 0, stream)
    <3>1. 0 + l <= l /\ \A i \in 1..l : 0 + i = i
      OBVIOUS
    <3>. QED  BY <1>1, <3>1 DEF Placed
  <2>2. SubSeq(stream, 1, l) = stream
    BY <1>1, <2>1, PlacedWhole
  <2>. QED  BY <1>1, <1>2, <2>2
<1>4. SubSeq(stream, zero + 1, zero) = <<>>
  <2>1. PICK one \in Nat \ {0} : one = zero + 1 /\ zero \in Int /\ zero <= Len(stream) /\ ~(one <= zero)
    BY <1>1
  <2>2. SubSeq(stream, one, zero) \in Seq(Byte) /\ Len(SubSeq(stream, one, zero)) = 0
    BY <2>1, Piece
  <2>. QED  BY <2>1, <2>2, EmptySeq
<1>5. zero \in Ends(<<>>, stream) /\ <<>> \in Seq(Seq(Byte))
  <2>1. <<>> \in Seq(Seq(Byte))
    BY EmptySeq
  <2>2. Ends(<<>>, stream) = {0}
    BY <2>1, EndsEquation
  <2>. QED  BY <1>1, <2>1, <2>2
<1>6. Remains(requests, stream, inbuf, zero)
  <2>1. zero <= zero
    BY <1>1
  <2>. QED  BY <1>2, <1>4, <1>5, <2>1 DEF Remains
<1>7. PartedAt(zero) /\ zero \in 0..Len(FlattenSeq(pieces))
  BY <1>1, <1>3, <1>6 DEF PartedAt
<1>. QED  BY <1>2, <1>5, <1>7

\* One recv() and the processing behind it keep it.
LEMMA PartedServerRead ==
  ASSUME Typed, pc = "raw", Parted, NEW n \in 1..Len(up), ServerRead(n)
  PROVE  Parted'
<1>1. PICK stream \in Seq(Byte), l \in Nat : stream = FlattenSeq(pieces) /\ l = Len(stream)
  <2>1. FlattenSeq(pieces) \in Seq(Byte)
    BY FlattenFew DEF Typed
  <2>. QED  BY <2>1, LenProperties
<1>2. /\ ~closed /\ n \in Nat /\ n >= 1 /\ n <= Len(up) /\ Len(inbuf) + n <= MaxRequest
      /\ up' = Drop(up, n) /\ UNCHANGED <<pc, closed, pieces>>
  BY DEF ServerRead, clientVars
<1>3. PICK r \in 0..l : PartedAt(r)
  BY <1>1, <1>2 DEF Parted
<1>4. PICK p \in Ends(requests, stream) : p <= r /\ inbuf = SubSeq(stream, p + 1, r)
  BY <1>1, <1>3 DEF PartedAt, Remains
<1>5. PICK parts \in Seq(Seq(Byte)) : parts = requests
  BY <1>2 DEF Parted
<1>6. PICK t \in 0..l :
        /\ t = r + n /\ Take(up, n) = SubSeq(stream, r + 1, t) /\ up' = SubSeq(stream, t + 1, l)
  <2>1. up = SubSeq(stream, r + 1, l)
    BY <1>1, <1>3 DEF PartedAt
  <2>2. /\ r + n \in 0..Len(stream)
        /\ Take(SubSeq(stream, r + 1, Len(stream)), n) = SubSeq(stream, r + 1, r + n)
        /\ Drop(SubSeq(stream, r + 1, Len(stream)), n) = SubSeq(stream, r + n + 1, Len(stream))
    BY <1>1, <1>2, <2>1, TakeOfRest
  <2>. QED  BY <1>1, <1>2, <2>1, <2>2
<1>7. p \in Nat /\ r \in Nat /\ t \in Nat /\ r <= t /\ t <= l /\ p <= t
  <2>1. p \in 0..l
    <3>1. Ends(parts, stream) \subseteq 0..Len(stream)
      BY EndsEquation
    <3>. QED  BY <1>1, <1>5, <3>1
  <2>2. p \in Nat /\ r \in Nat /\ t \in Nat
    BY <2>1
  <2>3. p <= r /\ t = r + n /\ n \in Nat /\ t <= l
    BY <1>2, <1>4, <1>6
  <2>. QED  BY <2>2, <2>3
<1>8. PICK b \in Buffers : b = inbuf \o Take(up, n)
  BY <1>2, ReadBuffer DEF Typed
<1>9. b = SubSeq(stream, p + 1, t)
  <2>1. SubSeq(stream, p + 1, r) \o SubSeq(stream, r + 1, t) = SubSeq(stream, p + 1, t)
    <3>1. p <= r /\ r <= t /\ t <= Len(stream)
      BY <1>1, <1>4, <1>7
    <3>. QED  BY <1>7, <3>1, PiecesJoin
  <2>. QED  BY <1>4, <1>6, <1>8, <2>1
<1>10. Remains(parts, stream, b, t)
  BY <1>4, <1>5, <1>7, <1>9 DEF Remains
<1>11. PICK cut \in [rest : Buffers, requests : Seq(Buffers)] :
         /\ cut = extract_requests[b] /\ inbuf' = cut.rest
         /\ requests' = requests \o cut.requests
  <2>1. extract_requests[b] \in [rest : Buffers, requests : Seq(Buffers)]
    BY ExtractEquation
  <2>. QED  BY <1>8, <2>1 DEF ServerRead
<1>12. Remains(parts \o cut.requests, stream, cut.rest, t)
  <2>1. t \in 0..Len(stream)
    BY <1>1
  <2>. QED  BY <1>10, <1>11, <2>1, ExtractParts
<1>13. requests' = parts \o cut.requests /\ requests' \in Seq(Seq(Byte))
  <2>1. PICK more \in Seq(Buffers) : more = cut.requests
    OBVIOUS
  <2>2. \A i \in 1..Len(more) : more[i] \in Seq(Byte)
    BY ElementOfSeq DEF Buffers
  <2>3. PICK m \in Nat : more \in [1..m -> Seq(Byte)]
    BY <2>2, LenProperties
  <2>4. more \in Seq(Seq(Byte))
    BY <2>3, SeqDef
  <2>5. parts \o more \in Seq(Seq(Byte))
    BY <2>4, ConcatProperties
  <2>. QED  BY <1>5, <1>11, <2>1, <2>5
<1>14. PartedAt(t)'
  BY <1>1, <1>2, <1>6, <1>11, <1>12, <1>13 DEF PartedAt
<1>. QED  BY <1>1, <1>2, <1>13, <1>14 DEF Parted

\* Every step keeps it.
LEMMA PartedNext == Typed /\ Parted /\ [Next]_vars => Parted'
<1>. SUFFICES ASSUME Typed, Parted, [Next]_vars PROVE Parted'
  OBVIOUS
<1>1. ASSUME pc' # "raw" \/ closed' = TRUE PROVE Parted'
  BY <1>1 DEF Parted
<1>2. ASSUME UNCHANGED <<pc, up, closed, inbuf, requests, pieces>>
      PROVE  Parted'
  BY <1>2 DEF Parted, PartedAt
<1>3. ASSUME NEW arguments \in Typeable, NEW style \in Styles, TypeCommand(arguments, style)
      PROVE  Parted'
  BY <1>1, <1>3 DEF TypeCommand
<1>4. ASSUME NEW line \in OtherLines, TypeOther(line)
      PROVE  Parted'
  BY <1>1, <1>4 DEF TypeOther, Exit
<1>5. CASE ClientSends
  BY <1>1, <1>5 DEF ClientSends, Send
<1>6. CASE ClientReceives
  <2>1. pc' # "raw"
    BY <1>6 DEF ClientReceives, Receive, Exit
  <2>. QED  BY <1>1, <2>1
<1>7. CASE ConnectionLost
  BY <1>1, <1>7 DEF ConnectionLost, Exit
<1>8. ASSUME Close PROVE Parted'
  BY <1>1, <1>8 DEF Close
<1>9. CASE ServerReads
  <2>1. ASSUME NEW n \in 1..Len(up), ServerRead(n)
        PROVE  Parted'
    <3>1. pc' = pc
      BY <2>1 DEF ServerRead, clientVars
    <3>. QED  BY <1>1, <2>1, <3>1, PartedServerRead
  <2>. QED  BY <1>8, <1>9, <2>1 DEF ServerReads, ServerRefuses
<1>10. CASE ServerWrite
  BY <1>2, <1>10 DEF ServerWrite, clientVars
<1>11. CASE ServerCloses
  BY <1>8, <1>11 DEF ServerCloses
<1>12. ASSUME NEW arguments \in OthersCall, Other(arguments)
       PROVE  Parted'
  BY <1>2, <1>12 DEF Other, clientVars
<1>13. CASE UNCHANGED vars
  BY <1>2, <1>13 DEF vars, clientVars, serverVars
<1>. QED  BY <1>3, <1>4, <1>5, <1>6, <1>7, <1>9, <1>10, <1>11, <1>12, <1>13 DEF Next

\* However the stream is cut and whatever it holds, what extract_requests()
\* returns is cut out of it part by part, without a gap or an overlap, except
\* that a malformed request takes some bytes along; the rest is still to come.
THEOREM StreamPartitioned == Spec => []RequestsPartition
<1>1. ASSUME Typed, Parted, pc = "raw", ~closed PROVE RequestsPartition
  <2>1. PICK stream \in Seq(Byte), l \in Nat : stream = FlattenSeq(pieces) /\ l = Len(stream)
    <3>1. FlattenSeq(pieces) \in Seq(Byte)
      BY <1>1, FlattenFew DEF Typed
    <3>. QED  BY <3>1, LenProperties
  <2>2. PICK r \in 0..l : PartedAt(r)
    BY <1>1, <2>1 DEF Parted
  <2>3. PICK q \in Ends(requests, stream) : q <= r /\ inbuf = SubSeq(stream, q + 1, r)
    BY <2>1, <2>2 DEF PartedAt, Remains
  <2>4. up = SubSeq(stream, r + 1, l)
    BY <2>1, <2>2 DEF PartedAt
  <2>5. q \in Nat /\ r \in Nat /\ r <= l
    <3>1. requests \in Seq(Seq(Byte))
      BY <1>1 DEF Parted
    <3>2. Ends(requests, stream) \subseteq 0..Len(stream)
      BY <3>1, EndsEquation
    <3>. QED  BY <2>1, <3>2
  <2>6. SubSeq(stream, q + 1, r) \o SubSeq(stream, r + 1, l) = SubSeq(stream, q + 1, l)
    <3>1. l \in Nat /\ q <= r /\ r <= l /\ l <= Len(stream)
      BY <2>1, <2>3, <2>5
    <3>. QED  BY <2>5, <3>1, PiecesJoin
  <2>7. Drop(stream, q) = inbuf \o up
    BY <2>1, <2>3, <2>4, <2>6 DEF Drop
  <2>. QED  BY <2>1, <2>7 DEF RequestsPartition
<1>2. Typed /\ Parted => RequestsPartition
  BY <1>1 DEF RequestsPartition
<1>. QED  BY <1>2, TypedInvariant, PartedInit, PartedNext, PTL DEF Spec
=============================================================================
