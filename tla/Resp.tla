-------------------------------- MODULE Resp --------------------------------
(***************************************************************************)
(* Requests and replies as bytes: the grammar the clients write            *)
(* (main_cli.cpp), the three parsers that read it -- extract_requests() of *)
(* server.cpp, RespParser of resp.cpp and parse_resp_request() of          *)
(* persistence.cpp -- and the dispatcher of command.cpp between them.      *)
(*                                                                         *)
(* Positions are offsets as in the code: the byte at offset p of s is      *)
(* s[p + 1].  size_t has the values 0..SizeMod - 1 and long long those     *)
(* below half of it.  Command names are one letter, error texts two bytes. *)
(***************************************************************************)
EXTENDS Integers, Sequences, SequencesExt

CONSTANTS
  Byte,      \* the characters
  SizeMod,   \* 2^64
  MaxParts   \* 1024

Digit == [d \in 0..9 |-> <<"0", "1", "2", "3", "4", "5", "6", "7", "8", "9">>[d + 1]]

ASSUME RespAssumption ==
  /\ {"*", "$", "+", "-", ":", "\r", "\n"} \cup {Digit[d] : d \in 0..9} \subseteq Byte
  /\ {"O", "K", "P", "S", "G", "D", "E", "e", "r"} \subseteq Byte
  /\ SizeMod \in Nat /\ SizeMod >= 16 /\ MaxParts \in Nat \ {0, 1, 2}

LongMax == SizeMod \div 2 - 1
CRLF == <<"\r", "\n">>
NotFound == -1

\* data.find("\r\n", p)
LineEnd(s, p) ==
  LET ends == {e \in p..(Len(s) - 2) : SubSeq(s, e + 1, e + 2) = CRLF}
  IN IF ends = {} THEN NotFound ELSE Min(ends)

\* For p = SizeMod - 1 the code would read outside the buffer; the streams that
\* are checked do not lead there.
HasCrlf(s, p) == (p + 1) % SizeMod < Len(s) /\ SubSeq(s, p + 1, p + 2) = CRLF

\* A loop of n rounds: each makes a state from the one before and its number.
\* (A fold whose step is a function: it can be instantiated in a proof.)
Loop(step, start, n) ==
  LET After[i \in 0..n] == IF i = 0 THEN start ELSE step[<<After[i - 1], i>>]
  IN After[n]

-----------------------------------------------------------------------------
(* Numbers.                                                                *)

DigitValue == AntiFunction(Digit)

IsNumeral(text) == text # <<>> /\ text \in Seq(DOMAIN DigitValue)

Value[numeral \in Seq(DOMAIN DigitValue)] ==
  IF numeral = <<>> THEN 0 ELSE 10 * Value[Front(numeral)] + DigitValue[Last(numeral)]

Numeral[n \in Nat] ==
  IF n < 10 THEN <<Digit[n]>> ELSE Append(Numeral[n \div 10], Digit[n % 10])

Invalid == SizeMod

\* What a number says.
Decimal == [text \in Seq(Byte) |-> IF IsNumeral(text) THEN Value[text] ELSE Invalid]

\* No check for overflow: the number wraps around.
parse_decimal(text) == IF IsNumeral(text) THEN Value[text] % SizeMod ELSE Invalid

Unsigned(text) == IF text # <<>> /\ Head(text) = "-" THEN Tail(text) ELSE text

Signed(text, numeral) ==
  IF numeral = <<>> \/ Value[numeral] > LongMax THEN Invalid
  ELSE IF Head(text) = "-" THEN -Value[numeral] ELSE Value[numeral]

\* The whole text has to be a number that fits.
from_chars == [text \in Seq(Byte) |->
  IF IsNumeral(Unsigned(text)) THEN Signed(text, Unsigned(text)) ELSE Invalid]

\* What follows the number is ignored (and so are blanks before it, which
\* nobody writes).
stoll == [text \in Seq(Byte) |->
  LET rest == Unsigned(text)
      size == Max({n \in 0..Len(rest) : n = 0 \/ IsNumeral(SubSeq(rest, 1, n))})
  IN Signed(text, SubSeq(rest, 1, size))]

-----------------------------------------------------------------------------
(* Writing.                                                                *)

resp_bulk_string(value) ==
  <<"$">> \o Numeral[Len(value)] \o CRLF \o value \o CRLF

encode_resp(arguments) ==
  <<"*">> \o Numeral[Len(arguments)] \o CRLF
    \o FlattenSeq([i \in DOMAIN arguments |-> resp_bulk_string(arguments[i])])

-----------------------------------------------------------------------------
(* Reading a request that is complete.                                     *)

Reading == [pos : Nat \cup {NotFound}, parts : Seq(Seq(Byte))]
Failed == [pos |-> NotFound, parts |-> <<>>]

\* One argument more than before, which ends at before.pos.
ReadBulk(data, number, lengths, before) ==
  LET e == LineEnd(data, before.pos)
      length == number[SubSeq(data, before.pos + 2, e)]
      end == e + 2 + length
  IN IF /\ before.pos # NotFound
        /\ e # NotFound
        /\ data[before.pos + 1] = "$"
        /\ length \in lengths
        /\ end + 2 <= Len(data)
        /\ HasCrlf(data, end)
     THEN [pos |-> end + 2, parts |-> Append(before.parts, SubSeq(data, e + 3, end))]
     ELSE Failed

\* An array of bulk strings, with nothing behind it.
ReadArray(data, number, counts, lengths) ==
  LET e == LineEnd(data, 0)
      count == number[SubSeq(data, 2, e)]
      step == [p \in Reading \X Nat |-> ReadBulk(data, number, lengths, p[1])]
      last == Loop(step, [pos |-> e + 2, parts |-> <<>>], count)
  IN IF /\ e # NotFound
        /\ data[1] = "*"
        /\ count \in counts
        /\ last.pos = Len(data)
     THEN last
     ELSE Failed

\* RespParser::parse
Parse(request) == ReadArray(request, from_chars, 1..MaxParts, 0..LongMax)

-----------------------------------------------------------------------------
(* Cutting requests out of a buffer.                                       *)

\* Where the buffer goes on after a wrong marker at pos.
SkipLine(buffer, pos) ==
  LET e == LineEnd(buffer, pos) IN IF e = NotFound THEN Len(buffer) ELSE e + 2

\* Mutant: the line end behind the value is not waited for.
ValueMissing(buffer, end) == end > Len(buffer)

\* The value that ends at end is not complete.
Missing(buffer, end) == (end + 2) % SizeMod > Len(buffer)

Scanning == [status : {"complete", "incomplete", "malformed"}, pos : Nat]

\* One argument more than before: it is complete and ends at pos, or more bytes
\* are needed, or it is malformed and the buffer goes on at pos.
ScanBulk(buffer, before) ==
  LET pos == before.pos
      e == LineEnd(buffer, pos)
      length == parse_decimal(SubSeq(buffer, pos + 2, e))
      end == (e + 2 + length) % SizeMod
      Is(status, position) == [status |-> status, pos |-> position]
  IN IF before.status # "complete" THEN before
     ELSE IF pos >= Len(buffer) THEN Is("incomplete", 0)
     ELSE IF buffer[pos + 1] # "$" THEN Is("malformed", SkipLine(buffer, pos))
     ELSE IF e = NotFound THEN Is("incomplete", 0)
     ELSE IF length = Invalid THEN Is("malformed", e + 2)
     ELSE IF Missing(buffer, end) THEN Is("incomplete", 0)
     ELSE IF ~HasCrlf(buffer, end) THEN Is("malformed", end)
     ELSE Is("complete", (end + 2) % SizeMod)

\* The arguments from pos on, of which there are count.
ScanBulks(buffer, pos, count) ==
  Loop([p \in Scanning \X Nat |-> ScanBulk(buffer, p[1])],
       [status |-> "complete", pos |-> pos], count)

\* The text that is executed in place of a malformed request.
MalformedRequest == <<"-", "e">> \o CRLF

\* One round of the loop: the requests it returns, one or none, the bytes that
\* are erased for it, and whether there is another round.  A malformed argument
\* ends the loop, so what is behind it waits for more bytes.
Round(buffer) ==
  LET e == LineEnd(buffer, 0)
      count == parse_decimal(SubSeq(buffer, 2, e))
      scan == ScanBulks(buffer, e + 2, count)
      Is(found, erased, again) == [requests |-> found, erased |-> erased, again |-> again]
  IN IF e = NotFound THEN Is(<<>>, 0, FALSE)
     ELSE IF buffer[1] # "*" THEN Is(<<SubSeq(buffer, 1, e + 2)>>, e + 2, TRUE)
     ELSE IF count = Invalid THEN Is(<<MalformedRequest>>, e + 2, TRUE)
     ELSE IF scan.status = "incomplete" THEN Is(<<>>, 0, FALSE)
     ELSE IF scan.status = "malformed" THEN Is(<<MalformedRequest>>, scan.pos, FALSE)
     ELSE Is(<<SubSeq(buffer, 1, scan.pos)>>, scan.pos, TRUE)

\* Mutant: the last of the bytes stays in the buffer.
EraseTooLittle(buffer, n) == IF n = 0 THEN buffer ELSE SubSeq(buffer, n, Len(buffer))

\* buffer.erase(0, n)
Erase(buffer, n) == SubSeq(buffer, n + 1, Len(buffer))

\* The requests that are complete and what remains in the buffer.
extract_requests[buffer \in {b \in Seq(Byte) : Len(b) < SizeMod}] ==
  LET round == Round(buffer)
      rest == Erase(buffer, round.erased)
      later == IF round.again THEN extract_requests[rest]
               ELSE [rest |-> rest, requests |-> <<>>]
  IN [rest |-> later.rest, requests |-> round.requests \o later.requests]

-----------------------------------------------------------------------------
(* Executing.  A store is a function from the keys that are present; time  *)
(* stands still, deadlines are the subject of module Database.             *)

UpperCase == [p |-> "P", s |-> "S", g |-> "G", d |-> "D", e |-> "E"]

to_upper(text) ==
  [i \in DOMAIN text |->
     IF text[i] \in DOMAIN UpperCase THEN UpperCase[text[i]] ELSE text[i]]

Replies == [type : {"+", "-", ":", "$", "nil"}, text : Seq(Byte)]

Ok == [type |-> "+", text |-> <<"O", "K">>]
Pong == [type |-> "+", text |-> <<"P", "O">>]
Nil == [type |-> "nil", text |-> <<>>]
Bulk(value) == [type |-> "$", text |-> value]
Error(text) == [type |-> "-", text |-> <<"e", "r">> \o text]
Bool(b) == [type |-> ":", text |-> Numeral[IF b THEN 1 ELSE 0]]

\* PING, SET, GET, DEL and EXISTS.
Result(parts, store) ==
  LET name == to_upper(parts[1])
      Is(letter, arity) == name = <<letter>> /\ Len(parts) = 1 + arity
      present == Len(parts) > 1 /\ parts[2] \in DOMAIN store
  IN CASE Is("P", 0) -> Pong
       [] Is("P", 1) -> Bulk(parts[2])
       [] Is("S", 2) -> Ok
       [] Is("G", 1) -> IF present THEN Bulk(store[parts[2]]) ELSE Nil
       [] Is("D", 1) \/ Is("E", 1) -> Bool(present)
       [] OTHER -> Error(IF name \in {<<c>> : c \in {"P", "S", "G", "D", "E"}}
                         THEN <<>> ELSE name)

Effect(parts, store) ==
  LET name == to_upper(parts[1]) IN
  CASE name = <<"S">> /\ Len(parts) = 3 ->
         [k \in DOMAIN store \cup {parts[2]} |->
            IF k = parts[2] THEN parts[3] ELSE store[k]]
    [] name = <<"D">> /\ Len(parts) = 2 ->
         [k \in DOMAIN store \ {parts[2]} |-> store[k]]
    [] OTHER -> store

\* CommandDispatcher::execute after the requests before it, which have led to
\* st.
execute(st, request) ==
  LET parts == Parse(request).parts
  IN IF parts = <<>> THEN [st EXCEPT !.results = Append(@, Error(<<>>))]
     ELSE [store |-> Effect(parts, st.store),
           results |-> Append(st.results, Result(parts, st.store))]

\* The requests one after the other.
Execute(store, sent) ==
  LET After[i \in 0..Len(sent)] == IF i = 0 THEN [store |-> store, results |-> <<>>]
                                   ELSE execute(After[i - 1], sent[i])
  IN After[Len(sent)]

\* The reply helpers of resp.cpp.
Reply(result) ==
  CASE result.type = "$"   -> resp_bulk_string(result.text)
    [] result.type = "nil" -> <<"$", "-", "1">> \o CRLF
    [] OTHER               -> <<result.type>> \o result.text \o CRLF
=============================================================================
