----------------------------- MODULE MCSession -----------------------------
(***************************************************************************)
(* Commands and byte streams for TLC.  SizeMod is larger than every buffer *)
(* and smaller than where an argument of 125 bytes would end.              *)
(***************************************************************************)
EXTENDS Session

Bytes(text) == [i \in 1..Len(text) |-> SubSeq(text, i, i)]
MCByte == ToSet(Bytes("*$+-: \t\r\n\"'\\0123456789abcdegkprsxDEGIKOPSTX\f") \o <<VerticalTab>>)
Words(words) == [i \in DOMAIN words |-> Bytes(words[i])]

\* A value with a blank and a quote, a value with a line end (which only another
\* program can store), a value that is too large for the client, a name that no
\* command has, too many arguments.
MCTypeable == {Words(<<"s", "k", " \"">>), Words(<<"g", "k">>), Words(<<"x">>),
               Words(<<"x", "x", "x", "x">>)}
MCOthersCall == {Words(<<"s", "k", "abcd">>), Words(<<"S", "k", "\r\n">>), Words(<<"d", "k">>)}
MCOtherLines == {Bytes("EXIT k"), Bytes(" \f"), Bytes("g 'k")}
MCInitialStore == Words(<<"k">>)[1] :> Bytes("\r\n")

Ping == Bytes("*1\r\n$1\r\np\r\n")
Framed == {Ping, Bytes("*2\r\n$1\r\np\r\n$2\r\n\r\n\r\n"), Bytes("*1\r\n$0\r\n\r\n")}

\* Not requests: a nested array, an argument with no line end, a wrong count, a
\* wrong length, a length with a sign, a wrong terminator, lengths that wrap around (to a place where
\* there is no line end and to one where there is), too many parts, an empty
\* array, a line, an array with parts missing, a wrong length in front of a value
\* that is a request by itself.
Unframed == {Bytes("*2\r\n*1\r\n$1\r\np\r\n"), Bytes("*1\r\nx"), Bytes("*-\r\n"),
             Bytes("*1\r\n$p\r\np\r\n"), Bytes("*1\r\n$-0\r\n\r\n"), Bytes("*1\r\n$1\r\npp\r\n"),
             Bytes("*1\r\n$125\r\np\r\n"), Bytes("*1\r\n$126\r\np\r\n"),
             Bytes("*4\r\n$0\r\n\r\n$0\r\n\r\n$0\r\n\r\n$0\r\n\r\n"),
             Bytes("*0\r\n"), Bytes("p\r\n"), Bytes("*3\r\n$1\r\np\r\n"),
             Bytes("*2\r\n$-\r\n$11\r\n") \o Ping \o CRLF}

MCStreams == {<<a, b, c>> : a \in Framed, b \in Framed \cup Unframed, c \in {Ping}}
=============================================================================
