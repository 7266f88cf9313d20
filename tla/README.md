# KoshDB: specifications and proofs

KoshDB is a small Redis-like key-value server in C++: one event-loop thread, an
in-memory map with times to live, snapshots on demand, and helper classes
(thread pool, replication state, authentication, TLS) of which the server uses
few. This directory holds TLA+ modules that model its core, TLC configurations
that check them on small instances, and proofs for the TLA+ proof system.

Paths below are relative to the repository root.

## The system

| component | state | operations | interacts with |
|---|---|---|---|
| `Database` (`src/database.cpp`) | `store`: key to value and optional deadline on `system_clock` | set, get, del, exists, expire, ttl; entries, restore_set, restore_delete | called by the dispatcher and by persistence |
| `CommandDispatcher` (`src/command.cpp`) | none | PING, SET, GET, DEL, EXISTS, EXPIRE, TTL, SAVE | parses with `RespParser`, calls `Database` and `PersistenceManager` |
| `RespParser` (`src/resp.cpp`) | cursor over one request | parse | called by the dispatcher |
| `Server` (`src/server.cpp`) | `running`, listener, `clients`: descriptor to input and output buffer | run (poll, accept, read, write), stop | owns everything else; peers over TCP |
| `PersistenceManager` (`src/persistence.cpp`) | `dump.rdb`, `dump.rdb.tmp`, `appendonly.aof`, a stream | initialize, recover, save_snapshot, append_command, flush, close | file system; recover and SAVE read and write `Database` |
| `ThreadPool` (`src/thread_pool.cpp`) | threads, queue, `stopping`, mutex and condition variable | enqueue, shutdown, worker_count | owned by `Server`, which enqueues nothing |
| `ReplicationState`, `AuthManager`, `TLSManager` | settings; user table; OpenSSL contexts | getters and setters, checks | owned by `Server`, never called by it |
| CLI (`src/main_cli.cpp`) | input line, receive buffer | tokenize, encode, receive, decode | a peer of the server |

What is hard here:

* **Database.** Expiry is lazy and measured on a clock that is not steady.
  `ttl()` reads the clock twice; EXPIRE does not purge first; deadlines overflow.
  Correct means: what a client was told is gone stays gone, nothing live
  disappears by itself, and the answers of TTL are what they claim.
* **Snapshots.** SAVE is a sequence of system calls, each of which may fail, with
  a kernel that writes back when it likes and a process and a machine that may go
  down in between. Correct means: a restart always finds a complete snapshot,
  never one of a SAVE that failed before its rename, and after an OK the
  acknowledged one.
* **Thread pool.** Notifications are sent outside the lock; shutdown races with
  enqueue, with other shutdowns and with jobs. Correct means: order, no loss, no
  double start, no lost wake-up, and a shutdown after which all is finished.
* **Server.** Descriptors are reused, requests arrive in pieces, replies leave in
  pieces, peers hang up at any time and `stop()` comes from elsewhere. Correct
  means: each connection gets the replies to its own requests in order, all of
  them if it behaves and the others let it, and the loop ends when told to.
* **Append-only log.** Torn tails, unsynced flushes, a stream that stays failed
  after one failed write, a stream that is opened without the lock, and a recovery
  that has to find record boundaries. Correct means: what was acknowledged is
  whole, and recovery replays it or says that it cannot.
* **Requests and replies.** Three hand-written parsers and one tokenizer read
  bytes that may be cut anywhere, that may hold line ends and quotes, and that a
  peer may get wrong. Correct means: client and server never disagree where a
  message ends, what the user typed is what is executed, once, and what is shown
  is its result.

`PROJECT.json` lists these hazards with the line where each one bites.

## Modules

| module | models | status |
|---|---|---|
| `KVStore` | what the store promises its clients: a clockless map with volatile keys | abstract specification |
| `Database` | `src/database.cpp` as the dispatcher drives it | implements `KVStore` |
| `DatabaseProofs` | theorems about `Database` | proved |
| `DataLemmas` | least elements, induction, recursive functions, loops, parts of sequences, `SetToSeq` and `FlattenSeq`, for the proofs | proved |
| `SnapshotStore` | what SAVE promises: a map and the set of maps a restart may bring back | abstract specification |
| `Persistence` | SAVE and snapshot recovery on a file system that can lose data | implements `SnapshotStore` |
| `PersistenceProofs` | theorems about `Persistence` | proved |
| `JobService` | what the pool promises: ordered, bounded, draining execution of jobs | abstract specification |
| `ThreadPool` | `src/thread_pool.cpp` | implements `JobService` |
| `ThreadPoolProofs` | theorems about `ThreadPool` | proved |
| `Server` | the event loop of `src/server.cpp`, on abstract units | |
| `ServerProofs` | theorems about `Server` | proved |
| `Resp` | the grammar of requests and replies, the parsers of `src/server.cpp`, `src/resp.cpp` and the log, and the dispatcher, as operators on bytes | |
| `RespProofs` | lemmas about `Resp`: line ends, numbers, the text of a request, what the parsers and `extract_requests()` make of it | proved |
| `RemoteStore` | what client and server promise together: a command takes effect once and its result is shown | abstract specification |
| `Session` | one connection byte by byte: `src/main_cli.cpp`, the buffers of the server, `RespParser`, the dispatcher | implements `RemoteStore` |
| `SessionProofs` | theorems about `Session` | proved |
| `AppendLog` | the log of `src/persistence.cpp`, bytes and failures | |
| `AppendLogProofs` | theorems about `AppendLog` | proved |
| `MCDatabase`, `MCSession`, `MCAppendLog` | definitions for the configurations | |

Definitions whose comment begins with "Mutant" are plausible bugs, each put in
the place of the definition that follows it to see that a property notices.
They are not part of any specification.

### Database

`store[k]` is an entry (value, optional deadline) or `None`. Time is an integer
number of ticks; `Tick` advances it, `StepBack` sets it back. Every command is
one action, since the server has one thread, except `ttl()`: `TtlLookup` ends
with its first clock reading, `TtlReply` makes the second, and the clock may move
in between. `RemoveIfExpired` is `remove_if_expired()`, `Wrap` the 64-bit
overflow of `now() + seconds`, `WholeSeconds` the truncating cast and the
replacement of negative numbers. `reply` is the last answer. `gone` is a history
variable: the keys whose absence has been reported since their last SET.

`KVStore` has no clock. A volatile key may fade at any time; what has faded is
kept as `lost` until somebody looks at the key, because an EXPIRE, or a clock
that is set back, can still return it. That clause is the code's, not a
convenience: without it the refinement fails (see the findings). `Reject` is any
command that is answered by an error, such as EXPIRE with an argument that is no
number.

### Persistence

There are two copies of the directory and the inodes: the kernel's and the
disk's. `WriteBackData` and `WriteBackDirectory` copy from the first to the
second at any time, file contents in order; `FsyncFile` and `FsyncDirectory`
force it. `Exit` (stop or kill) loses the process, `PowerFailure` also the
kernel's copy. SAVE is one action per system call; a write that is torn inside
a unit is the same as one that did not happen, since recovery throws on both.
`SaveFails` is possible at every step and the only way on from an entry that is
too long. `Captured` lets any of the pending deadlines pass while `entries()`
runs. `restorable` is a history variable: the maps a restart may bring back. It
gains the new snapshot at the rename and shrinks to it at the OK.

Not modelled: disk blocks that mix old and new content of a file that is
rewritten (nothing reads the temporary file before it is synced), and a second
server on the same directory. The append-only log is empty in the server and
has a module of its own.

### ThreadPool

One step is one critical section, or what lies between two. `pc` places every
thread: a worker is at the lock, asleep on the condition variable, running a job
or exited; workers and outside callers may be between push and notification
(`notify`), between setting `stopping` and `notify_all`, or joining. `Destroy`
is the destructor, which only runs when no outside thread is inside a call;
running jobs may still call. `joined` counts the threads joined so far, in order;
a job that calls `shutdown()` fails when it comes to its own thread
(`JoinSelf`), and the destructor then terminates the program (`aborted`);
`JobService` says that much: a service closed by one of its own jobs is never
drained. A refused `enqueue` and a refused second `shutdown` change nothing; the
second is recorded in `returned`. It returns while the first call still waits,
although `include/thread_pool.hpp:35-36` says that shutdown waits.

### Server

One step is one system call with the code up to the next one. The kernel has the
descriptor table (`sock`), the backlog, and one receive and one send buffer per
connection; the peers start and continue frames unit by unit, read replies, and
hang up with FIN or RST. `clients` holds what `Server::clients` holds. A well-formed
frame is one or more units; `EndOfExtracted` is where `extract_requests()` stops on
them, and `Frames` are the frames that are whole before it, found by counting the
units that are the last of one (`Completed`). A reply is identified with the
connection and the number of the request, so that crossed, duplicated, lost and
reordered replies all show.

What the code makes of a malformed frame depends on its bytes: it leaves a rest that
is read as further requests, clears the buffer, or takes the beginning of the next
frame along (`src/server.cpp:462-528`). Here everything from the first malformed
frame of a peer on is therefore *noise*: units without an end (`SendNoise` is never
used up), of which a round of `Process` takes any number and for which it makes any
number of replies, up to the bound `MaxErrors`. The properties speak of the frames in
front of it; the bytes are in `Session`. `got` keeps the first of several replies to
noise only, which keeps the model finite without a bound on them.
The too-large branch of `handle_read` closes without sending
its error reply, as the code does. `StartupFails` stands for every failing step of
recovery and of `setup_listener()`. `running` is a plain `bool` that another
thread writes; the loop makes system calls between its readings, so every
reading is an ordinary one here.

### Resp and Session

A byte is an element of the constant `Byte`, for TLC a string of one character; a command name is one letter and an error
text two bytes, everything else is as in the code, line ends included. `Resp` has
the parsers: `extract_requests` is a recursive function on buffers whose `Round`
is one round of the code's loop with its ways to go on, `ScanBulks` the inner loop
with sums that wrap at `SizeMod`, `ReadArray` the strict parser that `RespParser` and
`parse_resp_request()` share up to the number parser and the limits. The loops with
a counter are written with `Loop`, whose argument is one round as a function, and so
are the number parsers (`from_chars`, `stoll`): functions are what the
lemmas about loops and parsers can be stated for. `execute` is the dispatcher, on a
store that is a function; time stands still.

`Session` puts one connection around them. `TypeCommand` is a round of the loop
of `main()` up to `send_all()`: the user means some arguments and writes them in
one of three styles (`TypedLine`), `tokenize` and `encode_resp` turn the line
into bytes. `Send`, `Receive`, `ServerRead` and `ServerWrite` are single system
calls with the code after them; `up` and `down` are the two directions of the
socket, and any number of bytes may have arrived. `ServerRefuses` and
`ServerCloses` close at the server's end, after which the client finds out in its
next call (`ConnectionLost`) or still reads what was on its way. `Other` is another
client. In place of the command line client there may be a peer (`pc = "raw"`)
that has sent `pieces` and does not read; for it, `requests` records what was
extracted.

`RemoteStore` has no bytes. The refinement maps its call to the arguments the user
means and its results to what the dispatcher answers (`Answer`: an error when there
are more arguments than `MaxParts`), so a tokenizer, encoder, parser, dispatcher or decoder that changes an
argument or a result breaks it, and so does a request that is executed twice. A
session that has lost its connection is over: the command may have taken effect
or not, and nothing more is shown.

After a malformed request the code promises little: how much it discards depends
on the segments (`src/server.cpp:462`), requests behind it may be lost, and a value
behind it that looks like a request is executed as one. `FramesSurvive` speaks of the
requests before the first malformed piece, where a request is an array of bulk strings
that fits in a string (`IsRequest`). `RequestsPartition` speaks of the whole stream:
the parts that were extracted follow one another without a gap or an overlap, in
front of what is in the input buffer and on its way, where a part for which
`extract_requests()` returned its error text may be any bytes. So no byte is executed
twice, none disappears except with an error reply, and no request is made of bytes from
different places. `Ends` computes where the parts can end; it is a set because of the
malformed ones.

The client keeps EXIT, QUIT and HELP to itself (`ExitWords`, `HelpWords`).

### AppendLog

`file` is what the kernel has, `synced` how much of it no power failure can take.
`stream` is closed, good or bad; a write that fails leaves a piece of the record
in the file and the whole record in the buffer (`pending`), from which `flush()`
(in some versions of the library) and `close()` write again. The class has a mutex,
which `append_command()`, `flush()` and `close()` take and `initialize()` and
`open_append_only_log()` do not. So `flush()` and `close()` are one step each;
`append_command()` is one step up to the lock, where it tests `initialized`, and with
the lock one for each call it makes of the stream (`Write`, `WriteOut`,
`AppendReturns` or `AppendThrows` for the tests of `good()`); and any number of
threads (`Openers`; `save_snapshot()` calls it too) are in `initialize()`, which tests
`initialized` (`BeginInitialize`), opens the stream (`Open`) and sets `initialized`
(`SetInitialized`) in three steps. `open()` of a stream that is open already sets its
failbit, `open()` of a closed one clears its state. The granularity is that of the
library's calls: one that runs while another thread is inside one of the same stream,
which the language leaves undefined, is not divided further. One thread appends at a
time.

`Recovered` is `recover_append_only_log()`. `acked`, `overlapped`, `kept` and
`expected` are history: what was acknowledged since the log was opened, whether
`append_command()` had the lock at that moment, what of all that was acknowledged is in
the file (a set: each record with the place where it ends), and what of it recovery
should have replayed. The module starts from the class, since no code calls
`append_command()`: the server's own log is always empty.

When `close()` comes between the `open()` of `initialize()` and its assignment,
`initialized` stays set with a closed stream: every append throws, and `initialize()`
does nothing, until `close()` is called again. The model has these states; no property
asks that appends can be resumed.

## Runs

| run | checks | result |
|---|---|---|
| `database_store` | 2 keys, 2 values, two ticks a second, clock 0..4 that may step back by 1, EXPIRE with -1, 1, 2 and an argument that overflows (`TimeMax` = 16) | type, `ObservedGoneStaysGone`, `TtlReplySound`, `VanishesOnlyByDelOrDeadline`, refinement of `KVStore` hold (128 205 states) |
| `database_expired` | 1 key, steady clock | violated: EXPIRE revives an expired key that nobody has read |
| `snapshot_outages` | 2 keys, a value that fits and one that does not, 2 SAVEs, 2 outages | type, `DurableSnapshot`, refinement of `SnapshotStore` hold (559 646 states) |
| `snapshot_sets` | the same, smaller | violated: an acknowledged SET is lost on restart |
| `snapshot_count` | recovery accepts 1 entry, SAVE writes 2 | violated: an acknowledged snapshot cannot be loaded |
| `pool_jobs` | 2 workers, 2 callers, 3 jobs that may enqueue and shut down, fairness | type, `StartedInOrder`, `JoinedMeansFinished`, `EveryAcceptedJobFinishes` and refinement of `JobService` with its fairness hold (56 031 states) |
| `server_frames` | 1 connection, 3 frames of all kinds, noise without end behind a malformed one | type, `RepliesInOrder`, `NoFrameLost`, `WaitsOnlyWhenIdle` hold (299 563 states) |
| `server_peers` | 2 connections, 2 descriptors, a short frame or noise without end each, failing `accept()`, fairness | `RepliesInOrder`, `EventsBelongToConnection`, `WellBehavedPeersAreServed`, `StopIsHonoured` hold (144 777 states) |
| `session` | 4 commands in 3 styles of quoting, 3 commands of others, 48 raw streams of 3 pieces, every segmentation, fairness | type, `InStep`, `FramesSurvive`, `RequestsPartition` and refinement of `RemoteStore` with its fairness hold (57 943 states) |
| `log_failures` | 2 records, room for both and a few bytes more, 2 threads that initialize, 3 failed writes or power failures | type, `AcknowledgedIsWhole`, `NoSilentLoss` hold (2 850 182 states) |
| `log_replay` | the same | violated: an intact log with one record is refused |
| `log_reopen` | the same | violated: a record is acknowledged that was never written |

Why the bounds are enough. *Database*: operations touch one key, so two keys show
interference; two ticks a second show truncation; the clock range covers a
deadline passing before, between and after the two readings of `ttl()`. *Snapshots*: two
entries make a file that can be torn in three places, two SAVEs make one that
replaces a snapshot and one that finds a leftover temporary file, and the second
outage comes after a restart from the state the first one left. *Pool*: two workers and
three jobs leave one job queued while both workers run and let a job be enqueued
by the last one running; two callers are enough for a second shutdown. *Server*:
in `server_frames` the receive chunk holds two units and the input buffer three, so a
request is split over reads, two requests come in one, and one does not fit; with room
for one reply in the kernel, output is sent in parts; noise gets up to two replies in
the output buffer. In `server_peers` two connections are polled together, with one unit
of room in the kernel, which a peer that sends noise fills again as often as it is
emptied, and either can get the descriptor that the other has had. Noise is answered in
the first of these runs only (`MaxErrors` is 0 in the second, which has fairness). *Session*: the
kernel holds six bytes of each direction, less than any request, so each is sent
and read in parts; the values are one with a blank and a quote, one that is a line
end, and one whose reply is larger than the client accepts (`MaxResponse` = 8), and a
command has one argument more than `MaxParts` = 3;
`MaxRequest` = 34 lets one request wait while the next arrives but closes on
three pieces at once. `SizeMod` = 128 is larger than every buffer, and the lengths
125 and 126 wrap around to a place without and to one with a line end; the length
with which `has_crlf()` would read outside the buffer is not among them. The number
of commands is not bounded. *Log*: a failed write or a power failure leaves or takes
0, 3 or 4 bytes, which is nothing, a line that is not complete, or one that is, or
else everything at stake; `DiskSize` = 46 makes the disk full behind two records,
with and without a piece between them; two threads that initialize are enough for
one to open the stream that the other has opened, and they are interchangeable
(symmetry; the runs have safety properties only).

`CHECK_DEADLOCK FALSE` stands in the pool's configuration, since a destroyed pool
does nothing any more, and in that of the session, which ends.

### Fairness

The pool and the server are given weak fairness per thread: a thread that can
take its next step does. Jobs return, and peers read their replies and finish the
frames they began, which the properties that need it restrict to peers that stay.
Two things that the code does not see to are hypotheses of the properties of the server
instead. `ReadsEnd`: `handle_read()` loops until the kernel has nothing more and never
looks at `running`, so a peer that sends as fast as it is read starves the others and
keeps `stop()` from being honoured; `WellBehavedPeersAreServed` and `StopIsHonoured`
hold if it always comes to an end, and fail in the same runs without that. `Admitted`:
`accept()` may fail again and again, for want of a descriptor or otherwise
(`AcceptFails`), but a connection does not wait in the backlog for ever because of it;
`WellBehavedPeersAreServed` fails without it.
There is no fairness on spurious wake-ups, on new requests or calls, on hanging
up, on the clock or on write-back. In `Session` the client's and the server's system
calls are fair, each when it can proceed (the client blocks in them, and the event
loop serves a socket that stays ready); typing, closing and other clients are not.
`AppendLog` has safety properties only. `Poll` never blocks for ever because the
code passes a timeout of one second; without it `StopIsHonoured` fails. `PollFails`
and `StartupFails` may happen and never have to.

## Proofs

A theorem holds for every value of the constants that satisfies the assumption of
its module. Each safety property is proved from an inductive invariant `IInv` that is
a conjunction of named parts; every invariant was checked with TLC on the
configuration of the component before it was proved. Each proof has one step per
action. `DataLemmas` has what the proofs share.

**`DatabaseProofs`**, for every set of keys and values, every clock resolution and
range and every adjustment of the clock:

* `TypeCorrect`, `ObservedAbsenceIsFinal` (`ObservedGoneStaysGone`), `TtlAnswers`
  (`TtlReplySound`), `LiveKeysStay` (`VanishesOnlyByDelOrDeadline`);
* `StoreRefinesKVStore`: `Spec => ImplementsKVStore`.

`IInv` adds `GoneHasNoEntry` (a key reported missing has no entry at all, so there is
nothing for EXPIRE or the clock to revive; being merely expired would not be enough)
and `PendingHasDeadline` (between its two clock readings `ttl()` refers to an entry
that exists and has a deadline, so the subtraction is defined). The refinement also
needs that the clock of the model never falls below 0 (`ClockStarted`).
`RemoveIfExpiredProps` is the lemma about purging that every reading operation rests
on.

**`ThreadPoolProofs`**, for any number of workers and any sets of callers and jobs,
jobs that call back into the pool included:

* `TypeCorrect`, `JobsBeginInOrder` (`StartedInOrder`), `ShutdownDrains`
  (`JoinedMeansFinished`);
* `PoolRefinesService`: the pool implements `JobService` without its fairness
  (`Service!SafeSpec`).

`IInv` adds three facts that link what `JoinedMeansFinished` compares: every begun job
is held by a worker or is over (`BegunIsRunningOrOver`), a worker exits only from a
stopping pool with an empty queue (`ExitedMeansDrained`, kept because `enqueue()`
refuses jobs from then on), and joined workers have exited (`JoinedHaveExited`). The
refinement needs `RInv` besides: a job is accepted once, no two workers run the same
one (the service counts running jobs, the pool workers), and threads join only after
stop.

**`PersistenceProofs`**, for any finite set of keys, any inodes, any number of SAVEs
and outages, failing at any step:

* `TypeCorrect`; `NoOtherSnapshot`: what a restart would read is always one of
  `restorable`;
* `SnapshotDurable`: `Spec /\ []FewEntries => []DurableSnapshot`. `FewEntries` says that
  the map never outgrows the number of entries recovery accepts. It cannot be dropped:
  run `snapshot_count` shows an acknowledged snapshot that cannot be loaded;
* `SaveRefinesStore`: `Spec => ImplementsSnapshotStore`, which does not need it.

`IInv` says that the two names never share an inode (`NamesApart`), that an inode was
synced before it was renamed to dump.rdb, so that nothing the disk has under that name
can be torn (`SnapshotSynced`), and that at each step of SAVE what the temporary file
holds and what is left to write make up the map (`TemporaryWritten`, `ItemsMatch`,
`RenamedMatches`). `OpenTemporary` takes an inode that neither copy of the directory
uses, as file systems do.

**`ServerProofs`**, for any number of connections, any finite set of descriptors,
frames of any size and buffers of any size:

* `TypeCorrect`, `Ordered` (`RepliesInOrder`), `NoneLost` (`NoFrameLost`), `EventsBelong`
  (`EventsBelongToConnection`), `Idle` (`WaitsOnlyWhenIdle`).

The invariant follows the units of a connection: those the peer received, those on
the way to it, in the output buffer, in the input buffer and in the socket belong to
frames that are numbered without a gap (`ConnValid`), which is what makes a reply's
place in the stream its request's number. Noise lies behind all frames, and what it is
answered with, which has number 0, behind all other replies. The invariant is kept because a connection has one
descriptor at most and is accepted once (`SocketsApart`, `BacklogApart`), and because
of the round: a descriptor of the poll set that was closed is not opened again before
its entry has passed, since `accept_clients()` only runs before the loop (`RoundValid`,
`OwnersKept`). `Idle` needs besides that the poll set has every client, with POLLOUT
for those that have output (`PolledAll`).

**`AppendLogProofs`**, for any records with at least one argument, any disk, any
number of threads that initialize and any number and place of failures:

* `TypeCorrect`; `AcknowledgedStays` (`AcknowledgedIsWhole`), whose hypothesis that the
  stream was not opened during a call cannot be dropped: run `log_reopen`;
* `NoRecordLostSilently` (`NoSilentLoss`), by way of `RecordsAreRefused`: the program
  never serves from a log that held an acknowledged record when it was read.

The first invariant places the acknowledged bytes, as long as the stream was not opened
during a call (`~overlapped => LogValid`), in the file behind what recovery has read,
with nothing behind them while the stream is good. The second, `KInv`, adds that the text of every
record in `kept` is in the file. What remains is about bytes: a request has a line
that begins with `$` behind its first line, and another line end (`RequestText`);
recovery cuts at every line end, so it comes to that line unless it throws before, and
throws there (`ArgumentRefused`, by induction on the length of the file). `NoSilentLoss`
thus holds for a bad reason, which is finding 4, proved here for every record;
were `recover_append_only_log()` mended, `RecordsAreRefused` would be false and
`NoSilentLoss` would need a proof of its own. That the recursive functions `Numeral` and
`Recovered` satisfy their equations is proved from `RecursionExists`.

**`SessionProofs`**, for any commands of any length, any values, any other clients, any
streams and any sizes of the buffers:

* `TypeCorrect`; `NothingLeft` (`InStep`);
* `SessionRefinesRemoteStore`: with the command line client at its end the
  connection implements `RemoteStore` without its fairness (`Remote!SafeSpec`);
* `RequestsSurvive` (`FramesSurvive`): what a peer sends is cut into its requests,
  up to the first piece that is none;
* `StreamPartitioned` (`RequestsPartition`): and all of it, whatever it holds, into parts
  without a gap or an overlap.

The proofs go from the bytes up. `LineTokenized`: `tokenize()` undoes the quotes and
escapes of a typed line. `RequestFrame` (in `RespProofs`): in the text that
`encode_resp()` writes, every line end that a parser looks for is the one it was
written for, since in front of it there is only a number (`NumeralProps`), and a value is passed by its
length; `ReadArrayFrame` and `ScanFrame` give the positions after each argument for the
strict parser and for the scan. `RequestRead`: `RespParser` reads the
arguments. `ExtractFirst`: of a buffer that begins with a request `extract_requests()`
takes that request, and nothing while a byte of it is missing; `ExtractMany`: of a
stream it takes one request after the other, as many as are complete. `ReplyRead`: a
reply is complete for the client exactly with its last byte, and decoded it is the
result that was written. For that a result that is written as a line must not have a
line end in it; the names of commands come back in errors, and a command that is typed
has no line end since the line had none (`ResultType`, `AnswerReadable`).

Two inductive invariants put them together. `Stream` says where the bytes of the one
command under way are: when the client prompts, nowhere (`Prompting`); before it has
taken effect, the input buffer, the socket and what is left to send make up its request
(`Sending`); afterwards, what the client has, the socket and the output buffer make
up the reply to `result` (`Answering`). `InStep` is not inductive without it, because
it says nothing between two prompts. `RawStream` says that what the server has
extracted from `r` bytes of a stream is what it would extract from them at once, and
that the input buffer has the rest, so that the segments make no difference
(`CutsJoin`). `Parted` says of the whole stream what `RequestsPartition` says, and needs
only that one round of extraction cuts off one part (`RoundEnds`), by induction on the
length of the buffer (`ExtractParts`).

The refinement excludes the raw peer, because what it sends need not be one of the
commands of `RemoteStore`. The proofs assume that a command fits in a string
(`SessionAssumption`), that `size_t` has 16 values at least, which the shortest
requests and replies need, that the input buffer is limited to half of that range, and
that `MaxParts` is at least 3. For the one length with which `has_crlf()` reads outside
the buffer the model leaves open what it answers, and the theorems hold for either
answer.

The assumptions on constants beyond ranges are that `None` is none of the values it is
distinguished from, that the sets of keys and of descriptors are finite, that a record
has an argument, and that `Byte` contains digits and the marks of the protocol.

Only model-checked:

* liveness, which is out of the prover's reach, as is `ENABLED`:
  `EveryAcceptedJobFinishes`, `WellBehavedPeersAreServed`, `StopIsHonoured`, and the
  fairness in `ImplementsJobService` and `ImplementsRemoteStore`;
* that the hypotheses `ReadsEnd` and `Admitted` are needed, and the runs that are
  violated.

## Findings

1. `EXPIRE` on a key whose deadline has passed, but which no command has purged,
   makes it live again (`src/database.cpp:62`).
2. Commands are never written to the append-only log, so an acknowledged SET does
   not survive a restart, which `tests/integration_test.cpp` expects
   (`src/command.cpp:110`).
3. SAVE writes snapshots of any number of entries and recovery refuses more than
   ten million (`src/persistence.cpp:486`).
4. `recover_append_only_log()` throws on every complete record that has arguments,
   because it cuts records at the first line end: a log could never be replayed
   (`src/persistence.cpp:534`). `RecordsAreRefused` proves it for all records.
5. `initialize()` opens the log without the lock and may do so between the `write()`
   and the `good()` of an `append_command()` that found the stream closed: the record is
   acknowledged and was never written (`src/persistence.cpp:331`).

## Not modelled

* `AuthManager`, `TLSManager`, `ReplicationState`: the server owns them and never calls
  them. The first is a table of salted hashes, the second wraps OpenSSL, the third is
  a record of settings; none of them interacts with anything.
* The constructor of the pool as several steps (a thread that cannot be created ends
  the program), and `worker_count()`.
* `poll()` and `accept()` calls that a signal interrupts, which the code repeats,
  `fcntl()` failing on an accepted socket (it is closed at once), and a second `run()`
  of the same server.
* Two threads inside `append_command()` at the same time, and calls of the C++ library
  on one stream that overlap (undefined behaviour).
* In the client: the options of `main()`, `connect()` failing, array replies (no
  server sends one) and end of input, which is EXIT.
* Logging and the wording of replies and errors; hidden in `Resp`, error texts
  keep only what may come from the peer.

## Plan

A second connection in `Session`, and deadlines in its store.
