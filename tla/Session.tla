------------------------------ MODULE Session ------------------------------
(***************************************************************************)
(* One connection, byte by byte: the command line client of main_cli.cpp   *)
(* at one end, the buffers of server.cpp and the dispatcher of command.cpp *)
(* at the other, and two streams of bytes between them that TCP may cut    *)
(* anywhere.  Instead of the client there may be a peer that just sends    *)
(* some pieces, well-formed requests or not, and never reads.              *)
(*                                                                         *)
(* One ServerRead is one recv() of handle_read() with the processing that  *)
(* follows it.  The event loop around it is the subject of module Server.  *)
(***************************************************************************)
EXTENDS Resp

CONSTANTS
  Typeable,      \* the commands the user may type, sequences of arguments
  OtherLines,    \* lines that are no commands: blank, EXIT, an open quote
  OthersCall,    \* the commands of other clients
  Streams,       \* what a raw peer may send: sequences of pieces
  InitialStore,
  None,
  Room,          \* bytes the kernel holds for one direction
  MaxRequest,    \* 1 MiB, of handle_read()
  MaxResponse    \* MAX_RESPONSE_SIZE, of the client

VerticalTab == "\\v"

\* What a std::string can hold.
Text == {s \in Seq(Byte) : Len(s) <= LongMax}

\* A line that is typed has no end of a line in it and no empty argument, and the
\* request for it fits in a string.  The server executes only what RespParser
\* lets through.
ASSUME SessionAssumption ==
  /\ {" ", "\t", "\f", VerticalTab, "\"", "'", "\\"} \subseteq Byte
  /\ {Room, MaxRequest, MaxResponse} \subseteq Nat \ {0} /\ MaxRequest <= LongMax
  /\ Typeable \subseteq Seq(Seq(Byte \ {"\n"}) \ {<<>>}) \ {<<>>}
  /\ \A arguments \in Typeable : encode_resp(arguments) \in Text
  /\ OthersCall \subseteq Seq(Text) \ {<<>>}
  /\ \A arguments \in OthersCall : Len(arguments) <= MaxParts
  /\ Streams \subseteq Seq(Seq(Byte))
  /\ DOMAIN InitialStore \subseteq Seq(Byte)
  /\ InitialStore \in [DOMAIN InitialStore -> Text]
  /\ None \notin Typeable \cup Replies

VARIABLES
  pc,        \* the client: prompt, send, receive or exited; or raw
  typed,     \* the command the user means, until its result is shown, or None
  out,       \* data[offset..] of send_all()
  resp,      \* response of receive_resp()
  shown,     \* what was printed last, or None
  up, down,  \* the bytes on their way to the server and to the client
  closed,    \* one end has closed the connection
  inbuf, outbuf,  \* Client::input_buffer and output_buffer
  store,     \* the database
  result,    \* history: of the command that was executed last and not yet shown
  pieces,    \* what the raw peer sends in all
  requests   \* history: what extract_requests() has returned for a raw peer

clientVars == <<pc, typed, out, resp, shown>>
serverVars == <<inbuf, outbuf, store, result, requests>>
vars == <<clientVars, serverVars, up, down, closed, pieces>>

Drop(bytes, n) == SubSeq(bytes, n + 1, Len(bytes))
Take(bytes, n) == SubSeq(bytes, 1, n)

-----------------------------------------------------------------------------
(* The command line.                                                       *)

\* isspace(), without the end of the line.
Blank == {" ", "\t", "\r", "\f", VerticalTab}
Quotes == {"\"", "'"}
NoQuote == ""

\* What the loop keeps.
Tokenizing == [tokens : Seq(Seq(Byte)), current : Seq(Byte), quote : Quotes \cup {NoQuote},
               escaping : BOOLEAN]

\* An empty token is lost.
Kept(token) == IF token = <<>> THEN <<>> ELSE <<token>>

\* One character of the loop.
TokenizeStep(st, c) ==
  LET Grow == [st EXCEPT !.current = Append(@, c), !.escaping = FALSE]
  IN IF st.escaping THEN Grow
     ELSE IF c = "\\" THEN [st EXCEPT !.escaping = TRUE]
     ELSE IF st.quote \notin {NoQuote, c} THEN Grow
     ELSE IF st.quote # NoQuote THEN [st EXCEPT !.quote = NoQuote]
     ELSE IF c \in Quotes THEN [st EXCEPT !.quote = c]
     ELSE IF c \in Blank
       THEN [st EXCEPT !.tokens = @ \o Kept(st.current), !.current = <<>>]
     ELSE Grow

\* Thrown; no line has an empty argument.
Unterminated == <<<<>>>>

\* The arguments, of which an empty one is lost even between quotes.
tokenize(line) ==
  LET end == Loop([p \in Tokenizing \X Nat |-> TokenizeStep(p[1], line[p[2]])],
                  [tokens |-> <<>>, current |-> <<>>, quote |-> NoQuote,
                   escaping |-> FALSE], Len(line))
      last == IF end.escaping THEN Append(end.current, "\\") ELSE end.current
  IN IF end.quote # NoQuote THEN Unterminated
     ELSE end.tokens \o Kept(last)

\* How a user writes a character or an argument.
Styles == {"bare", "quoted", "escaped"}
Escaped(c) == <<"\\", c>>
Special == Blank \cup Quotes \cup {"\\"}

Written(c, style) ==
  IF \/ style = "escaped"
     \/ style = "bare" /\ c \in Special
     \/ style = "quoted" /\ c \in {"\"", "\\"}
  THEN Escaped(c) ELSE <<c>>

TypedArgument(argument, style) ==
  LET mark == IF style = "quoted" THEN <<"\"">> ELSE <<>>
      text == FlattenSeq([i \in DOMAIN argument |-> Written(argument[i], style)])
  IN mark \o text \o mark

TypedLine(arguments, style) ==
  FlattenSeq([i \in DOMAIN arguments |->
                TypedArgument(arguments[i], style) \o <<" ">>])

-----------------------------------------------------------------------------
(* The replies as the client reads them.                                   *)

EndsLine(bytes) == Len(bytes) >= 2 /\ Drop(bytes, Len(bytes) - 2) = CRLF

\* Mutant: every reply is one line.
ReplyIsLine(bytes) ==
  LET e == LineEnd(bytes, 0) IN IF e = NotFound THEN NotFound ELSE e + 2

\* How many bytes of the response receive_resp() returns, or NotFound as long
\* as it waits for more.
ReplySize(bytes) ==
  LET e == LineEnd(bytes, 0)
      length == from_chars[SubSeq(bytes, 2, e)]
      expected == e + 2 + length + 2
  IN CASE bytes[1] \in {"+", "-", ":"} -> IF EndsLine(bytes) THEN Len(bytes) ELSE NotFound
       [] bytes[1] = "$" /\ e # NotFound /\ length = -1 -> Len(bytes)
       [] bytes[1] = "$" /\ e # NotFound /\ length \in 0..LongMax ->
            IF Len(bytes) >= expected THEN expected ELSE NotFound
       [] OTHER -> NotFound

\* Mutant: the response may grow without limit.
NeverTooLarge(bytes) == FALSE

TooLarge(bytes) == Len(bytes) > MaxResponse

\* Mutant: the value ends where the first line of it does.
decode_first_line(bytes) ==
  LET e == LineEnd(bytes, 0) IN
  IF bytes[1] # "$" THEN [type |-> bytes[1], text |-> SubSeq(bytes, 2, Len(bytes) - 2)]
  ELSE IF SubSeq(bytes, 2, e) = <<"-", "1">> THEN Nil
  ELSE Bulk(SubSeq(bytes, e + 3, LineEnd(bytes, e + 2)))

\* What is printed for a response.
decode_resp(bytes) ==
  LET e == LineEnd(bytes, 0) IN
  IF bytes[1] # "$" THEN [type |-> bytes[1], text |-> SubSeq(bytes, 2, Len(bytes) - 2)]
  ELSE IF SubSeq(bytes, 2, e) = <<"-", "1">> THEN Nil
  ELSE Bulk(SubSeq(bytes, e + 3, IF EndsLine(bytes) THEN Len(bytes) - 2 ELSE Len(bytes)))

-----------------------------------------------------------------------------
(* The client.                                                             *)

Exit == pc' = "exited" /\ closed' = TRUE

ExitWords == {<<"E", "X", "I", "T">>, <<"e", "x", "i", "t">>,
              <<"Q", "U", "I", "T">>, <<"q", "u", "i", "t">>}

HelpWords == {<<"H", "E", "L", "P">>, <<"h", "e", "l", "p">>}

\* The user types a command and it is tokenized and encoded, unless the client
\* itself knows the word.
TypeCommand(arguments, style) ==
  LET tokens == tokenize(TypedLine(arguments, style)) IN
  /\ pc = "prompt"
  /\ tokens[1] \notin ExitWords \cup HelpWords
  /\ pc' = "send"
  /\ typed' = arguments
  /\ out' = encode_resp(tokens)
  /\ UNCHANGED <<resp, shown, up, down, closed, serverVars, pieces>>

\* A line that is no command: a quote that is not closed ends the client as
\* EXIT does, everything else is skipped, or shows the help.
TypeOther(line) ==
  /\ pc = "prompt"
  /\ \/ tokenize(line) = Unterminated
     \/ tokenize(line) # <<>> /\ tokenize(line)[1] \in ExitWords
  /\ Exit
  /\ UNCHANGED <<typed, out, resp, shown, up, down, serverVars, pieces>>

\* One send() of send_all(), of n bytes.
Send(n) ==
  /\ pc = "send"
  /\ n <= Len(out) /\ Len(up) + n <= Room
  /\ up' = up \o Take(out, n)
  /\ out' = Drop(out, n)
  /\ pc' = IF out' = <<>> THEN "receive" ELSE "send"
  /\ UNCHANGED <<typed, resp, shown, down, closed, serverVars, pieces>>

\* One recv() of receive_resp(), of n bytes.
Receive(n) ==
  LET bytes == resp \o Take(down, n)
      size == ReplySize(bytes)
  IN /\ pc = "receive"
     /\ n <= Len(down)
     /\ down' = Drop(down, n)
     /\ \/ /\ TooLarge(bytes)
           /\ Exit
           /\ UNCHANGED <<typed, resp, shown, result>>
        \/ /\ ~TooLarge(bytes) /\ size = NotFound
           /\ resp' = bytes
           /\ UNCHANGED <<pc, typed, shown, closed, result>>
        \/ /\ ~TooLarge(bytes) /\ size # NotFound
           /\ shown' = decode_resp(Take(bytes, size))
           /\ pc' = "prompt"
           /\ resp' = <<>>
           /\ typed' = None /\ result' = None
           /\ UNCHANGED closed
     /\ UNCHANGED <<out, up, inbuf, outbuf, store, requests, pieces>>

\* send() or recv() fails, or recv() returns 0, because the server has closed.
ConnectionLost ==
  /\ pc \in {"send", "receive"} /\ closed
  /\ Exit
  /\ UNCHANGED <<typed, out, resp, shown, up, down, serverVars, pieces>>

-----------------------------------------------------------------------------
(* The server.                                                             *)

\* One recv() of n bytes and process_client_buffer().
ServerRead(n) ==
  /\ ~closed
  /\ n <= Len(up) /\ Len(inbuf) + n <= MaxRequest
  /\ up' = Drop(up, n)
  /\ \E cut \in {extract_requests[inbuf \o Take(up, n)]} :
       /\ inbuf' = cut.rest
       /\ requests' = IF pc = "raw" THEN requests \o cut.requests ELSE requests
       /\ \E done \in {Execute(store, cut.requests)} :
            /\ store' = done.store
            /\ outbuf' = outbuf \o FlattenSeq([i \in DOMAIN done.results |->
                                                Reply(done.results[i])])
            /\ result' = IF pc = "raw" \/ done.results = <<>> THEN result
                         ELSE Last(done.results)
  /\ UNCHANGED <<clientVars, down, closed, pieces>>

\* One send() of handle_write(): what the kernel has room for.
ServerWrite ==
  LET n == Min({Len(outbuf), Room - Len(down)})
  IN /\ ~closed
     /\ n > 0
     /\ down' = down \o Take(outbuf, n)
     /\ outbuf' = Drop(outbuf, n)
     /\ UNCHANGED <<clientVars, up, closed, inbuf, store, result, requests, pieces>>

Close ==
  /\ closed' = TRUE
  /\ inbuf' = <<>> /\ outbuf' = <<>>
  /\ UNCHANGED <<clientVars, up, down, store, result, requests, pieces>>

\* A request that is too large closes the connection.
ServerRefuses(n) ==
  /\ ~closed
  /\ n <= Len(up)
  /\ Len(inbuf) + n > MaxRequest
  /\ Close

\* So does an error of the socket or the end of the process, at any time.
ServerCloses == ~closed /\ Close

\* Another client's request is executed between two of this one.
Other(arguments) ==
  /\ pc # "raw"
  /\ store' = Effect(arguments, store)
  /\ UNCHANGED <<clientVars, up, down, closed, inbuf, outbuf, result, requests, pieces>>

-----------------------------------------------------------------------------
Init ==
  /\ \/ pc = "prompt" /\ pieces = <<>>
     \/ pc = "raw" /\ pieces \in Streams
  /\ typed = None /\ shown = None /\ result = None
  /\ out = <<>> /\ resp = <<>>
  /\ up = FlattenSeq(pieces) /\ down = <<>>
  /\ closed = FALSE
  /\ inbuf = <<>> /\ outbuf = <<>>
  /\ store = InitialStore
  /\ requests = <<>>

ClientReceives == \E n \in 1..Len(down) : Receive(n)
ClientSends == \E n \in 1..Len(out) : Send(n)
ServerReads == \E n \in 1..Len(up) : ServerRead(n) \/ ServerRefuses(n)

Next ==
  \/ \E arguments \in Typeable, style \in Styles : TypeCommand(arguments, style)
  \/ \E line \in OtherLines : TypeOther(line)
  \/ ClientSends \/ ClientReceives \/ ConnectionLost
  \/ ServerReads \/ ServerWrite \/ ServerCloses
  \/ \E arguments \in OthersCall : Other(arguments)

\* The client blocks in a system call only as long as it has to, and the event
\* loop serves a socket that stays ready.
Spec ==
  /\ Init /\ [][Next]_vars
  /\ WF_vars(ClientSends) /\ WF_vars(ClientReceives)
  /\ WF_vars(ServerReads) /\ WF_vars(ServerWrite)

-----------------------------------------------------------------------------
(* Properties.                                                             *)

\* Every variable has its type.
TypeOK ==
  /\ pc \in {"prompt", "send", "receive", "exited", "raw"}
  /\ typed \in Typeable \cup {None}
  /\ {out, resp, up, down, inbuf, outbuf} \subseteq Seq(Byte)
  /\ closed \in BOOLEAN
  /\ Len(down) <= Room /\ (pc # "raw" => Len(up) <= Room)
  /\ Len(inbuf) <= MaxRequest /\ Len(resp) <= MaxResponse
  /\ DOMAIN store \subseteq Seq(Byte) /\ store \in [DOMAIN store -> Text]
  /\ {result, shown} \subseteq Replies \cup {None}
  /\ {pieces, requests} \subseteq Seq(Seq(Byte))

\* When the client prompts for a command nothing of an earlier one is left
\* anywhere on the way: it can never show the reply of another command
\* (receive_resp() of main_cli.cpp finds where one reply ends, for every way
\* the reply is cut into segments).
InStep ==
  pc = "prompt" /\ ~closed =>
    /\ {out, up, inbuf, outbuf, down, resp} = {<<>>}
    /\ typed = None /\ result = None

\* What the user means takes effect once, and the result printed is the one of
\* that moment: tokenize() and encode_resp() of the client, extract_requests(),
\* RespParser, the dispatcher and the reply helpers of the server, and
\* receive_resp() and decode_resp() of the client undo one another.
Answer(arguments, database) ==
  IF Len(arguments) > MaxParts THEN Error(<<>>) ELSE Result(arguments, database)

Remote == INSTANCE RemoteStore WITH
  Commands <- Typeable \cup OthersCall, call <- typed, over <- closed, Result <- Answer

ImplementsRemoteStore == Remote!Spec

\* An array of bulk strings.  (The two parsers take other things for one: the
\* dispatcher no empty array and none of more than MaxParts, extract_requests() no
\* number with a sign.)
IsRequest(piece) ==
  piece \in Text /\ ReadArray(piece, Decimal, 0..LongMax, 0..LongMax) # Failed

\* The pieces before the first that is no request.
LeadingRequests ==
  LET bad == {i \in DOMAIN pieces : ~IsRequest(pieces[i])}
  IN IF bad = {} THEN pieces ELSE Take(pieces, Min(bad) - 1)

SizeOf(sequence) == Len(FlattenSeq(sequence))

\* However the stream is cut, extract_requests() returns the requests of the
\* stream one by one, in order, each when its last byte has been read, as long
\* as nothing malformed has come, and keeps only the bytes behind them.
FramesSurvive ==
  LET received == SizeOf(pieces) - Len(up)
      complete == Max({n \in 0..Len(LeadingRequests) :
                         SizeOf(Take(LeadingRequests, n)) <= received})
  IN pc = "raw" =>
       /\ IsPrefix(Take(LeadingRequests, complete), requests)
       /\ received <= SizeOf(LeadingRequests) =>
            /\ Len(requests) = complete
            /\ ~closed => Len(inbuf) = received - SizeOf(Take(pieces, complete))

\* Where a part of the stream may end that begins at start.  In place of a
\* malformed request there may be any bytes.
EndsOf(part, stream, start) ==
  {q \in start..Len(stream) : part \in {MalformedRequest, SubSeq(stream, start + 1, q)}}

\* Where the last of the parts may end when each begins where the one before ends.
Ends(parts, stream) ==
  LET Of[p \in Seq(Seq(Byte))] ==
        IF p = <<>> THEN {0}
        ELSE UNION {EndsOf(Last(p), stream, start) : start \in Of[Front(p)]}
  IN Of[parts]

\* Of any stream, lengths that wrap around and malformed requests included, and
\* however it is cut: what extract_requests() returns is cut out of the stream
\* without a gap or an overlap, except that a malformed request takes some bytes
\* along, and what is behind it is still to come.  No byte is executed twice, and
\* no request is put together from bytes of different places.
RequestsPartition ==
  LET stream == FlattenSeq(pieces) IN
  pc = "raw" /\ ~closed =>
    \E q \in Ends(requests, stream) : Drop(stream, q) = inbuf \o up
=============================================================================
