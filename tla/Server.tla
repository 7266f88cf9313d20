------------------------------- MODULE Server -------------------------------
(***************************************************************************)
(* The event loop of src/src/server.cpp: one thread, non-blocking sockets, *)
(* a poll set that is built anew for every round, and per client an input  *)
(* and an output buffer.  The peers, the kernel's socket buffers and a     *)
(* thread that calls stop() interleave with its system calls.              *)
(*                                                                         *)
(* Bytes are abstracted to units.  A well-formed frame (one request) is    *)
(* one or more units, which arrive one at a time; extraction looks for its *)
(* last unit.  The command of a frame is always answered, by one reply (a  *)
(* result or an error), which is identified with the frame's connection    *)
(* and number.                                                             *)
(*                                                                         *)
(* Of a malformed frame extract_requests() leaves a rest, or takes some of *)
(* what follows, and what it makes of both depends on the bytes.  From its *)
(* first malformed frame on all that a peer sends is noise here: any       *)
(* number of replies, of which it can swallow or leave any part.  Module   *)
(* Session has the bytes.                                                  *)
(***************************************************************************)
EXTENDS Integers, Sequences, FiniteSets, SequencesExt

CONSTANTS
  Conns,      \* the connections peers will make
  Fds,        \* descriptors for client sockets; accept() takes the lowest
  None,
  Kinds,      \* the kinds of frames peers send
  Chunk,      \* units one recv() returns at most (4096 bytes)
  MaxInput,   \* units an input buffer may hold (1 MiB)
  ReadRoom,   \* units the kernel buffers for the server
  SendRoom,   \* replies it buffers for a peer
  MaxFrames,  \* bound: frames a peer sends before noise
  MaxErrors   \* bound: replies to noise that an output buffer gathers

\* A short and a long request, one that does not fit into the input buffer, and
\* a malformed one, of which this is the first unit.
Size(kind) == CASE kind = "short" -> 1
                [] kind = "long"  -> 2
                [] kind = "huge"  -> MaxInput + 1
                [] kind = "bad"   -> 1

\* A unit of frame n, or noise; what answers one or the other.
Unit == [n: 0..MaxFrames, last: BOOLEAN]
Noise == [n |-> 0, last |-> FALSE]
Reply == [conn: Conns, n: 0..MaxFrames]
Client == [in: Seq(Unit), out: Seq(Reply)]
Pollfd == [fd: Fds, out: BOOLEAN, readable: BOOLEAN, writable: BOOLEAN,
           hup: BOOLEAN]

ASSUME ServerAssumption ==
  /\ Fds \subseteq Nat \ {0} /\ IsFiniteSet(Fds)
  /\ None \notin Conns \cup Client
  /\ Kinds \subseteq {"short", "long", "bad", "huge"}
  /\ {Chunk, MaxInput, ReadRoom, SendRoom, MaxFrames} \subseteq Nat \ {0}
  /\ MaxErrors \in Nat

VARIABLES
  \* the server
  pc,        \* where run() is
  running,
  clients,   \* Server::clients: fd to its two buffers, or None
  arrivals,  \* whether poll() found the listener readable
  pollset,   \* its other entries, with the returned events
  index,     \* of the entry that is being handled
  \* the kernel
  sock,      \* fd to the connection it is open on, or None
  backlog,   \* connections that wait for accept()
  rcv,       \* units received for the server and not read
  snd,       \* replies sent by the server and not read by the peer
  state,     \* of each connection
  \* the peers
  sent,      \* kinds of the frames sent, the last one perhaps in part
  rest,      \* units of the last frame that are not sent yet
  got,       \* replies received, of those to noise the first
  \* history
  owner,     \* connection each entry of pollset was built for
  stopCalled \* stop() was called while the loop was running

round == <<arrivals, pollset, owner>>
server == <<pc, running, clients, round, index>>
kernel == <<sock, backlog, rcv, snd, state>>
peers == <<sent, rest, got>>
vars == <<server, kernel, peers, stopCalled>>

TypeOK ==
  /\ pc \in {"init", "build", "poll", "accept", "loop", "read", "write",
             "stopped", "destroyed"}
  /\ running \in BOOLEAN
  /\ clients \in [Fds -> Client \cup {None}]
  /\ arrivals \in BOOLEAN
  /\ pollset \in Seq(Pollfd)
  /\ index \in 1..(Cardinality(Fds) + 1)
  /\ sock \in [Fds -> Conns \cup {None}]
  /\ backlog \in Seq(Conns)
  /\ rcv \in [Conns -> Seq(Unit)]
  /\ snd \in [Conns -> Seq(Reply)]
  /\ state \in [Conns -> {"new", "pending", "open", "fin", "reset", "closed"}]
  /\ sent \in [Conns -> Seq(Kinds)]
  /\ rest \in [Conns -> 0..MaxInput]
  /\ got \in [Conns -> Seq(Reply)]
  /\ owner \in Seq(Conns)
  /\ stopCalled \in BOOLEAN
  \* every client has its socket
  /\ \A f \in Fds : clients[f] = None <=> sock[f] = None

-----------------------------------------------------------------------------
(* The peers.                                                              *)

Init ==
  /\ pc = "init"
  /\ running = FALSE
  /\ clients = [f \in Fds |-> None]
  /\ arrivals = FALSE
  /\ pollset = <<>>
  /\ index = 1
  /\ sock = [f \in Fds |-> None]
  /\ backlog = <<>>
  /\ rcv = [c \in Conns |-> <<>>]
  /\ snd = [c \in Conns |-> <<>>]
  /\ state = [c \in Conns |-> "new"]
  /\ sent = [c \in Conns |-> <<>>]
  /\ rest = [c \in Conns |-> 0]
  /\ got = [c \in Conns |-> <<>>]
  /\ owner = <<>>
  /\ stopCalled = FALSE

Connect(c) ==
  /\ state[c] = "new"
  /\ pc \notin {"init", "destroyed"}
  /\ state' = [state EXCEPT ![c] = "pending"]
  /\ backlog' = Append(backlog, c)
  /\ UNCHANGED <<server, sock, rcv, snd, peers, stopCalled>>

\* A malformed frame has been sent, or a part of it.
Malformed(kinds) == kinds # <<>> /\ Last(kinds) = "bad"

CanSend(c) == state[c] \in {"pending", "open"} /\ Len(rcv[c]) < ReadRoom

SendUnit(c, unit) ==
  /\ rcv' = [rcv EXCEPT ![c] = Append(@, unit)]
  /\ UNCHANGED <<server, sock, backlog, snd, state, got, stopCalled>>

\* The peer sends the first unit of a frame,
StartFrame(c, kind) ==
  LET n == Len(sent[c]) + 1 IN
  /\ CanSend(c) /\ rest[c] = 0
  /\ n <= MaxFrames /\ ~Malformed(sent[c])
  /\ sent' = [sent EXCEPT ![c] = Append(@, kind)]
  /\ rest' = [rest EXCEPT ![c] = Size(kind) - 1]
  /\ SendUnit(c, IF kind = "bad" THEN Noise ELSE [n |-> n, last |-> Size(kind) = 1])

\* the next of the one it started,
ContinueFrame(c) ==
  /\ CanSend(c) /\ rest[c] > 0
  /\ rest' = [rest EXCEPT ![c] = @ - 1]
  /\ SendUnit(c, [n |-> Len(sent[c]), last |-> rest[c] = 1])
  /\ UNCHANGED sent

\* or more of a malformed one and whatever it sends behind that, for ever if it likes.
SendNoise(c) ==
  /\ CanSend(c) /\ Malformed(sent[c])
  /\ SendUnit(c, Noise)
  /\ UNCHANGED <<sent, rest>>

\* What a peer remembers when it reads a reply.
WithReply(had, reply) ==
  IF reply.n = 0 /\ had # <<>> /\ Last(had).n = 0 THEN had ELSE Append(had, reply)

ReadReply(c) ==
  /\ snd[c] # <<>>
  /\ state[c] # "reset"
  /\ got' = [got EXCEPT ![c] = WithReply(@, Head(snd[c]))]
  /\ snd' = [snd EXCEPT ![c] = Tail(@)]
  /\ UNCHANGED <<server, sock, backlog, rcv, state, sent, rest, stopCalled>>

\* The peer shuts down its sending side, or resets the connection.
Hangup(c, how) ==
  /\ state[c] \in {"pending", "open", "fin"} \ {how}
  /\ state' = [state EXCEPT ![c] = how]
  /\ UNCHANGED <<server, sock, backlog, rcv, snd, peers, stopCalled>>

\* Another thread calls stop().  Before the loop has set running it has no
\* effect: run() sets it to true afterwards.
Stop ==
  /\ running' = FALSE
  /\ stopCalled' = (stopCalled \/ running)
  /\ UNCHANGED <<pc, clients, round, index, kernel, peers>>

-----------------------------------------------------------------------------
(* run(): the poll set, poll(), accept().                                  *)

Goto(from, to) == pc = from /\ pc' = to

\* The poll set is local to a round.
EndRound == arrivals' = FALSE /\ pollset' = <<>> /\ owner' = <<>>

\* Recovery and setup_listener() are done: peers can connect from here on.
Startup ==
  /\ Goto("init", "build")
  /\ running' = TRUE
  /\ UNCHANGED <<clients, round, index, kernel, peers, stopCalled>>

\* Recovery or a step of setup_listener() fails: run() throws before it has
\* set running, and the server is destroyed.
StartupFails ==
  /\ Goto("init", "stopped")
  /\ UNCHANGED <<running, clients, round, index, kernel, peers, stopCalled>>

ClientFds == {f \in Fds : clients[f] # None}

\* Mutant: POLLOUT is never asked for.
NeverWantsToWrite(f) == FALSE

WantsToWrite(f) == clients[f].out # <<>>

BuildPollSet ==
  LET order == SetToSeq(ClientFds) IN
  /\ Goto("build", "poll")
  /\ running
  /\ pollset' = [i \in DOMAIN order |->
                   [fd |-> order[i], out |-> WantsToWrite(order[i]),
                    readable |-> FALSE, writable |-> FALSE, hup |-> FALSE]]
  /\ owner' = [i \in DOMAIN order |-> sock[order[i]]]
  /\ UNCHANGED <<running, clients, arrivals, index, kernel, peers, stopCalled>>

\* POLLERR and POLLHUP after a reset; a closed descriptor is POLLNVAL.
Events(entry) ==
  LET c == sock[entry.fd] IN
  IF c = None THEN [entry EXCEPT !.hup = TRUE]
  ELSE [entry EXCEPT !.readable = rcv[c] # <<>> \/ state[c] = "fin",
                     !.writable = entry.out /\ Len(snd[c]) < SendRoom,
                     !.hup      = state[c] = "reset"]

HasEvent(entry) == entry.readable \/ entry.writable \/ entry.hup

\* Mutant: no timeout.
NeverTimesOut(polled) == FALSE

TimesOut(polled) ==
  backlog = <<>> /\ \A i \in DOMAIN polled : ~HasEvent(polled[i])

\* Something is ready, or poll() returns after a second with nothing.
Poll ==
  LET polled == [i \in DOMAIN pollset |-> Events(pollset[i])] IN
  /\ \/ /\ backlog # <<>> \/ \E i \in DOMAIN polled : HasEvent(polled[i])
        /\ Goto("poll", "accept")
        /\ pollset' = polled
        /\ arrivals' = (backlog # <<>>)
        /\ UNCHANGED owner
     \/ /\ TimesOut(polled)
        /\ Goto("poll", "build")
        /\ EndRound
  /\ UNCHANGED <<running, clients, index, kernel, peers, stopCalled>>

\* poll() fails, or the listener has an error: the loop is left.
PollFails ==
  /\ Goto("poll", "stopped")
  /\ running' = FALSE
  /\ EndRound
  /\ UNCHANGED <<clients, index, kernel, peers, stopCalled>>

FreeFds == {f \in Fds : sock[f] = None}

CallsAccept == pc = "accept" /\ arrivals /\ running

\* emplace() leaves an existing entry of the same descriptor alone.
Accept ==
  LET c == Head(backlog)
      f == CHOOSE g \in FreeFds : \A h \in FreeFds : g <= h
  IN
  /\ CallsAccept /\ backlog # <<>> /\ FreeFds # {}
  /\ backlog' = Tail(backlog)
  /\ sock' = [sock EXCEPT ![f] = c]
  /\ state' = [state EXCEPT ![c] = IF @ = "pending" THEN "open" ELSE @]
  /\ clients' = IF clients[f] = None
                THEN [clients EXCEPT ![f] = [in |-> <<>>, out |-> <<>>]]
                ELSE clients
  /\ UNCHANGED <<pc, running, round, index, rcv, snd, peers,
                 stopCalled>>

\* A connection waits, but accept() fails: it always does when no descriptor is
\* free, and at other times may, for want of memory or of files of the system.
AcceptFails ==
  /\ CallsAccept /\ backlog # <<>>
  /\ Goto("accept", "loop")
  /\ UNCHANGED <<running, clients, round, index, kernel,
                 peers, stopCalled>>

\* accept() finds nothing more, or is not called.
AcceptDone ==
  /\ ~(CallsAccept /\ backlog # <<>>)
  /\ Goto("accept", "loop")
  /\ UNCHANGED <<running, clients, round, index, kernel,
                 peers, stopCalled>>

-----------------------------------------------------------------------------
(* run(): the clients, in the order of the poll set.                       *)

Current == pollset[index]
CurrentFd == Current.fd
CurrentConn == sock[CurrentFd]

NextEntry == pc' = "loop" /\ index' = index + 1

\* Mutant: the client is not removed.
KeepClient(f) == clients

WithoutClient(f) == [clients EXCEPT ![f] = None]

\* close() of the socket and removal of its client.
CloseFd(f) ==
  /\ sock' = [sock EXCEPT ![f] = None]
  /\ clients' = WithoutClient(f)
  /\ state' = [state EXCEPT ![sock[f]] = "closed"]
  /\ rcv' = [rcv EXCEPT ![sock[f]] = <<>>]

\* Mutant: the next round polls the same set again.
LoopAgain ==
  /\ Goto("loop", "poll")
  /\ index > Len(pollset)
  /\ index' = 1
  /\ UNCHANGED <<running, clients, round, kernel, peers,
                 stopCalled>>

LoopDone ==
  /\ Goto("loop", "build")
  /\ index > Len(pollset)
  /\ index' = 1
  /\ EndRound
  /\ UNCHANGED <<running, clients, kernel, peers, stopCalled>>

\* A hang-up is handled before anything that was still to be read.
HandleHangup ==
  /\ pc = "loop" /\ index <= Len(pollset)
  /\ clients[CurrentFd] # None /\ Current.hup
  /\ CloseFd(CurrentFd)
  /\ NextEntry
  /\ UNCHANGED <<running, round, backlog, snd, peers, stopCalled>>

\* On to handle_read(), to handle_write(), or to the next entry.
HandleEntry ==
  /\ pc = "loop" /\ index <= Len(pollset)
  /\ ~(clients[CurrentFd] # None /\ Current.hup)
  /\ \/ /\ clients[CurrentFd] # None /\ Current.readable
        /\ pc' = "read" /\ UNCHANGED index
     \/ /\ clients[CurrentFd] # None /\ ~Current.readable /\ Current.writable
        /\ pc' = "write" /\ UNCHANGED index
     \/ /\ clients[CurrentFd] = None \/ ~HasEvent(Current)
        /\ NextEntry
  /\ UNCHANGED <<running, clients, round, kernel, peers, stopCalled>>

\* Mutant: one request per call.
EndOfFirst(in) ==
  LET ends == {i \in DOMAIN in : in[i].last} IN
  IF ends = {} THEN 0 ELSE CHOOSE i \in ends : \A j \in ends : i <= j

\* extract_requests() takes the complete frames at the front of the buffer.
EndOfExtracted(in) ==
  LET ends == {i \in DOMAIN in : in[i].last} IN
  IF ends = {} THEN 0 ELSE CHOOSE i \in ends : \A j \in ends : j <= i

\* How many frames end within the first n of the units, and where the j-th does.
Completed(units, n) == Cardinality({i \in 1..n : units[i].last})

EndOf(units, j) ==
  CHOOSE i \in 1..Len(units) : units[i].last /\ Completed(units, i) = j

Frames(in) == [j \in 1..Completed(in, EndOfExtracted(in)) |-> in[EndOf(in, j)]]

\* Mutant: the last unit of what was extracted is not erased.
LeftWithOne(in, skip) ==
  LET e == EndOfExtracted(in)
  IN SubSeq(in, (IF e > 0 THEN e ELSE 1) + skip, Len(in))

\* What it leaves, without the noise it swallows.
Left(in, skip) == SubSeq(in, EndOfExtracted(in) + skip + 1, Len(in))

IsNoisy(in) == \E i \in DOMAIN in : in[i].n = 0

\* The dispatcher answers every request, and the error texts that take the
\* place of malformed ones.
Replies(c, frames, errors) ==
  [i \in DOMAIN frames |-> [conn |-> c, n |-> frames[i].n]]
    \o [i \in 1..errors |-> [conn |-> c, n |-> 0]]

\* process_client_buffer(): skip units of noise are taken, and answered by any
\* number of replies.
Process(client, c, in, skip, errors) ==
  /\ skip + errors > 0 => IsNoisy(in)
  /\ errors > 0 => Len(client.out) + errors <= MaxErrors
  /\ clients' = [clients EXCEPT ![CurrentFd] =
       [in |-> Left(in, skip), out |-> client.out \o Replies(c, Frames(in), errors)]]

\* One successful recv() of handle_read() with the processing of the buffer;
\* the error reply to a request that is too large is never sent.
Receive ==
  LET f == CurrentFd
      c == CurrentConn
      n == IF Len(rcv[c]) < Chunk THEN Len(rcv[c]) ELSE Chunk
      in == clients[f].in \o SubSeq(rcv[c], 1, n)
  IN
  /\ pc = "read" /\ state[c] # "reset" /\ rcv[c] # <<>>
  /\ \/ /\ Len(in) > MaxInput
        /\ CloseFd(f)
        /\ NextEntry
     \/ /\ Len(in) <= MaxInput
        /\ rcv' = [rcv EXCEPT ![c] = SubSeq(@, n + 1, Len(@))]
        /\ \E skip \in 0..(Len(in) - EndOfExtracted(in)), errors \in 0..MaxErrors :
             Process(clients[f], c, in, skip, errors)
        /\ UNCHANGED <<pc, index, sock, state>>
  /\ UNCHANGED <<running, round, backlog, snd, peers, stopCalled>>

\* recv() returns 0 or an error.
ReceiveEnd ==
  /\ pc = "read"
  /\ state[CurrentConn] = "reset"
       \/ (state[CurrentConn] = "fin" /\ rcv[CurrentConn] = <<>>)
  /\ CloseFd(CurrentFd)
  /\ NextEntry
  /\ UNCHANGED <<running, round, backlog, snd, peers, stopCalled>>

\* recv() would block.
ReceiveNothing ==
  /\ pc = "read"
  /\ state[CurrentConn] = "open" /\ rcv[CurrentConn] = <<>>
  /\ \/ Current.writable /\ pc' = "write" /\ UNCHANGED index
     \/ ~Current.writable /\ NextEntry
  /\ UNCHANGED <<running, clients, round, kernel, peers, stopCalled>>

\* Mutant: what was sent stays in the output buffer.
WithoutErase(out, n) == out

AfterErase(out, n) == SubSeq(out, n + 1, Len(out))

\* One successful send() of handle_write(): as much as there is room for.
Transmit ==
  LET f == CurrentFd
      c == CurrentConn
      out == clients[f].out
      room == SendRoom - Len(snd[c])
      n == IF Len(out) < room THEN Len(out) ELSE room
  IN
  /\ pc = "write" /\ state[c] # "reset" /\ out # <<>> /\ room > 0
  /\ snd' = [snd EXCEPT ![c] = @ \o SubSeq(out, 1, n)]
  /\ clients' = [clients EXCEPT ![f].out = AfterErase(@, n)]
  /\ UNCHANGED <<pc, index, running, round,
                 sock, backlog, rcv, state, peers, stopCalled>>

\* The buffer is empty, or send() would block.
TransmitDone ==
  /\ pc = "write"
  /\ clients[CurrentFd].out = <<>>
       \/ (state[CurrentConn] # "reset" /\ Len(snd[CurrentConn]) >= SendRoom)
  /\ NextEntry
  /\ UNCHANGED <<running, clients, round, kernel, peers, stopCalled>>

TransmitFails ==
  /\ pc = "write"
  /\ state[CurrentConn] = "reset" /\ clients[CurrentFd].out # <<>>
  /\ CloseFd(CurrentFd)
  /\ NextEntry
  /\ UNCHANGED <<running, round, backlog, snd, peers, stopCalled>>

-----------------------------------------------------------------------------
(* The end.                                                                *)

LeaveLoop ==
  /\ Goto("build", "stopped")
  /\ ~running
  /\ UNCHANGED <<running, clients, round, index, kernel, peers,
                 stopCalled>>

\* ~Server() closes every client and the listener.
Destroy ==
  /\ Goto("stopped", "destroyed")
  /\ sock' = [f \in Fds |-> None]
  /\ clients' = [f \in Fds |-> None]
  /\ state' = [c \in Conns |->
                 IF state[c] = "new" THEN "new" ELSE "closed"]
  /\ rcv' = [c \in Conns |-> <<>>]
  /\ backlog' = <<>>
  /\ UNCHANGED <<running, round, index, snd, peers, stopCalled>>

ServerStep ==
  \/ Startup
  \/ BuildPollSet \/ Poll
  \/ Accept \/ AcceptFails \/ AcceptDone
  \/ LoopDone \/ HandleHangup \/ HandleEntry
  \/ Receive \/ ReceiveEnd \/ ReceiveNothing
  \/ Transmit \/ TransmitDone \/ TransmitFails
  \/ LeaveLoop \/ Destroy

Next ==
  \/ ServerStep
  \/ StartupFails \/ PollFails
  \/ Stop
  \/ \E c \in Conns :
       \/ Connect(c)
       \/ \E kind \in Kinds : StartFrame(c, kind)
       \/ ContinueFrame(c) \/ SendNoise(c)
       \/ ReadReply(c)
       \/ \E how \in {"fin", "reset"} : Hangup(c, how)

Spec == Init /\ [][Next]_vars

\* The server's thread runs; peers finish the frames they began and read.
FairSpec ==
  /\ Spec
  /\ WF_vars(ServerStep)
  /\ \A c \in Conns : WF_vars(ContinueFrame(c)) /\ WF_vars(ReadReply(c))

-----------------------------------------------------------------------------
(* Properties.                                                             *)

Buffer(c, field) ==
  IF \E f \in Fds : sock[f] = c
  THEN clients[CHOOSE f \in Fds : sock[f] = c][field] ELSE <<>>

\* The replies to c: received, in the kernel, and in the output buffer.
Answers(c) == got[c] \o snd[c] \o Buffer(c, "out")

\* How many complete frames the peer sent in front of the first malformed one.
Complete(kinds, left) ==
  Len(kinds) - (IF left > 0 \/ Malformed(kinds) THEN 1 ELSE 0)

FramesSent(c) == Complete(sent[c], rest[c])

\* A peer gets the replies to its own frames, in the order it sent them, and
\* none to noise before them, although descriptors are reused and buffers are
\* filled and emptied in parts.
RepliesInOrder ==
  \A c \in Conns :
    Answers(c) = [i \in 1..Len(Answers(c)) |->
                    [conn |-> c, n |-> IF i <= FramesSent(c) THEN i ELSE 0]]

\* The complete frames of c with a reply on its way, and those without.
Answered(c) == {Answers(c)[i].n : i \in DOMAIN Answers(c)} \ {0}

Unanswered(c) ==
  LET units == Buffer(c, "in") \o rcv[c]
  IN {units[i].n : i \in {j \in DOMAIN units : units[j].last}}

\* As long as a connection is open, every complete frame in front of the first
\* malformed one has a reply on its way or is still to be read or extracted, and
\* not both.
NoFrameLost ==
  \A c \in Conns :
    state[c] \in {"pending", "open", "fin"} =>
      /\ Answered(c) \cup Unanswered(c) = 1..FramesSent(c)
      /\ Answered(c) \cap Unanswered(c) = {}

\* The events that are handled belong to the connection they were polled
\* for: no connection inherits them with a descriptor.
EventsBelongToConnection ==
  pc \in {"accept", "loop", "read", "write"} =>
    \A i \in index..Len(pollset) :
      clients[pollset[i].fd] # None => sock[pollset[i].fd] = owner[i]

\* poll() only waits when no client has a complete frame in its socket or its
\* input buffer, and a reply in its output buffer only because the kernel has
\* no room: nothing that can be done is forgotten until something else happens.
WaitsOnlyWhenIdle ==
  pc = "poll" /\ TimesOut([i \in DOMAIN pollset |-> Events(pollset[i])]) =>
    \A f \in ClientFds :
      /\ \A i \in DOMAIN clients[f].in : ~clients[f].in[i].last
      /\ rcv[sock[f]] = <<>>
      /\ clients[f].out # <<>> => Len(snd[sock[f]]) >= SendRoom

WellBehaved(c) ==
  /\ state[c] \in {"pending", "open"}
  /\ \A i \in DOMAIN sent[c] : sent[c][i] \in {"short", "long"}

\* handle_read() comes to the end of what a peer has sent.  The code does not
\* see to it: a peer that sends faster than it is read keeps the loop there.
ReadsEnd == []<>(pc # "read")

\* Nor to this: when accept() fails again and again, a connection is accepted all
\* the same in the end.
Admitted(c) == []<><<AcceptFails>>_vars => []<>(state[c] # "pending")

\* If so, a peer that sends well-formed requests and stays gets all its replies,
\* unless the server ends, whatever frames the others send.
WellBehavedPeersAreServed ==
  ReadsEnd =>
    \A c \in Conns : Admitted(c) =>
      \A n \in 1..MaxFrames :
        WellBehaved(c) /\ FramesSent(c) >= n ~>
          Len(got[c]) >= n \/ ~WellBehaved(c) \/ pc = "destroyed"

\* If handle_read() always ends, a stop() of the running loop ends it.
StopIsHonoured == ReadsEnd => (stopCalled ~> pc = "destroyed")
=============================================================================
