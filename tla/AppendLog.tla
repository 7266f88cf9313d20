----------------------------- MODULE AppendLog -----------------------------
(***************************************************************************)
(* The append-only log of persistence.cpp: initialize(), append_command(), *)
(* flush(), close() and the recovery that reads the file back, with writes *)
(* that fail half-way, processes that die and machines that lose power.    *)
(*                                                                         *)
(* No other source file calls append_command(); the module models what the *)
(* class promises to a caller that logs its SET and DEL requests.          *)
(* flush() and close() run under log_mutex and are one action each.        *)
(* append_command() tests initialized before it takes the lock, and        *)
(* initialize() takes none: it can open the stream between the calls that  *)
(* append_command() makes of it.  The calls of the library are not divided *)
(* further.  One thread appends at a time.  Snapshots are the subject of   *)
(* module Persistence.                                                     *)
(***************************************************************************)
EXTENDS Resp

CONSTANTS
  Records,     \* commands that are logged, sequences of arguments
  None,
  Openers,     \* threads that call initialize(), directly or by save_snapshot()
  MaxRecord,   \* MAX_RECOVERY_RECORD_SIZE
  DiskSize,    \* bytes of the log that fit on the disk
  Cuts,        \* after how many bytes a write fails, or how many are lost
  MaxFaults    \* bound on failed writes and power failures together

ASSUME AppendLogAssumption ==
  /\ Records \subseteq Seq(Seq(Byte)) \ {<<>>}
  /\ {MaxRecord, DiskSize, MaxFaults} \subseteq Nat /\ Cuts \subseteq Nat

VARIABLES
  mode,         \* the process: down, serving, or refused (recover() has thrown)
  initialized,
  opening,      \* where each opener is in initialize(): out, tested, opened
  stream,       \* append_only_log: closed, good, or bad (a bit of its state is set)
  pending,      \* what the buffer of the stream holds
  stage,        \* of append_command(): idle, begun, and with the lock written, flushed
  caller,       \* its record, or None
  file,         \* the bytes the kernel has
  synced,       \* how many of them are on the disk for certain
  opened,       \* history: the size of the file when the stream was opened
  acked,        \* history: the bytes acknowledged since then
  overlapped,   \* history: whether append_command() had the lock at that time
  kept,         \* history: the acknowledged records in the file, with their ends
  replayed,     \* the records of the last recovery
  expected,     \* history: those of kept when it began
  faults        \* history: how many writes have failed and how often power was lost

streamVars == <<stream, pending, opened, acked, overlapped>>
call == <<stage, caller>>
disk == <<file, synced, kept>>
vars == <<mode, initialized, opening, streamVars, call, disk, replayed, expected, faults>>

Drop(bytes, n) == SubSeq(bytes, n + 1, Len(bytes))
Take(bytes, n) == SubSeq(bytes, 1, n)

-----------------------------------------------------------------------------
(* Recovery.                                                               *)

\* It throws where this is Failed.
parse_resp_request(record) == ReadArray(record, stoll, 0..MaxParts, 0..MaxRecord)

\* Mutant: a record that cannot be read is skipped.
AnyRecord(record) == TRUE

Readable(record) == Len(record) <= MaxRecord /\ parse_resp_request(record) # Failed

\* How many arguments the replay insists on; other commands are ignored.
Arity == [s |-> 3, S |-> 3, d |-> 2, D |-> 2]

Refused == <<None>>

\* The records of the bytes.  A record ends at the first line end, although the
\* records that are appended have several lines.
Recovered[bytes \in Seq(Byte)] ==
  LET e == LineEnd(bytes, 0)
      record == Take(bytes, e + 2)
      parts == parse_resp_request(record).parts
      isReplayed == parts # <<>> /\ Len(parts[1]) = 1 /\ parts[1][1] \in DOMAIN Arity
      others == Recovered[Drop(bytes, e + 2)]
  IN IF e = NotFound THEN (IF Len(bytes) <= MaxRecord THEN <<>> ELSE Refused)
     ELSE IF ~Readable(record) THEN Refused
     ELSE IF isReplayed /\ Len(parts) # Arity[parts[1][1]] THEN Refused
     ELSE IF others = Refused THEN Refused
     ELSE IF isReplayed THEN <<parts>> \o others ELSE others

\* The stream is open and has nothing in its buffer.
FreshStream ==
  /\ stream' = "good" /\ pending' = <<>>
  /\ opened' = Len(file) /\ acked' = <<>>

\* run() calls initialize(), which opens the log, and recover(); when that
\* throws the program ends.  There is no other thread yet.
Start ==
  /\ mode = "down"
  /\ \E records \in {Recovered[file]} :
       IF records = Refused
       THEN /\ mode' = "refused"
            /\ replayed' = <<>>
            /\ expected' = {}
            /\ UNCHANGED <<initialized, streamVars>>
       ELSE /\ mode' = "serving"
            /\ replayed' = records
            /\ expected' = {k.record : k \in kept}
            /\ initialized' = TRUE
            /\ FreshStream /\ overlapped' = FALSE
  /\ UNCHANGED <<opening, call, disk, faults>>

-----------------------------------------------------------------------------
(* initialize().                                                           *)

Locked == stage \in {"written", "flushed"}

BeginInitialize(t) ==
  /\ mode = "serving" /\ ~initialized /\ opening[t] = "out"
  /\ opening' = [opening EXCEPT ![t] = "tested"]
  /\ UNCHANGED <<mode, initialized, streamVars, call, disk, replayed, expected, faults>>

\* open() clears the state of the stream, or sets its failbit when the stream is
\* open already; is_open() holds either way.
Open(t) ==
  /\ opening[t] = "tested"
  /\ opening' = [opening EXCEPT ![t] = "opened"]
  /\ \/ stream = "closed" /\ FreshStream /\ overlapped' = Locked
     \/ stream # "closed" /\ stream' = "bad" /\ UNCHANGED <<pending, opened, acked, overlapped>>
  /\ UNCHANGED <<mode, initialized, call, disk, replayed, expected, faults>>

\* The directory or the file cannot be had; initialize() throws.
OpenFails(t) ==
  /\ opening[t] = "tested" /\ stream = "closed"
  /\ opening' = [opening EXCEPT ![t] = "out"]
  /\ UNCHANGED <<mode, initialized, streamVars, call, disk, replayed, expected, faults>>

SetInitialized(t) ==
  /\ opening[t] = "opened"
  /\ initialized' = TRUE
  /\ opening' = [opening EXCEPT ![t] = "out"]
  /\ UNCHANGED <<mode, streamVars, call, disk, replayed, expected, faults>>

-----------------------------------------------------------------------------
(* append_command().                                                       *)

Fault == faults < MaxFaults /\ faults' = faults + 1

\* Up to the lock.
BeginAppend(record) ==
  /\ mode = "serving" /\ initialized /\ stage = "idle"
  /\ stage' = "begun" /\ caller' = record
  /\ UNCHANGED <<mode, initialized, opening, streamVars, disk, replayed, expected, faults>>

\* Mutant: a failure is forgotten, as after append_only_log.clear().
WritableOnceOpened == stream # "closed"

\* A stream that has failed stays bad until it is opened again.
Writable == stream = "good"

\* write() takes the record into the buffer.  Of a bad stream it does nothing, and
\* it makes a closed one bad, which no one sees but good().
Write ==
  /\ stage = "begun"
  /\ stage' = "written"
  /\ pending' = IF Writable THEN encode_resp(caller) ELSE pending
  /\ UNCHANGED <<mode, initialized, opening, stream, opened, acked, overlapped, caller, disk,
                 replayed, expected, faults>>

\* Mutant: the buffer is not flushed.
KeepBuffer == UNCHANGED <<pending, file>>

FlushBuffer == pending' = <<>> /\ file' = file \o pending

\* The first good() finds nothing, and flush() hands the buffer to the kernel.
WriteOut ==
  /\ stage = "written" /\ Writable
  /\ Len(file) + Len(pending) <= DiskSize
  /\ stage' = "flushed"
  /\ FlushBuffer
  /\ UNCHANGED <<mode, initialized, opening, stream, opened, acked, overlapped, caller, synced,
                 kept, replayed, expected, faults>>

CallEnds == stage' = "idle" /\ caller' = None

\* It hands over n bytes only, and the call throws.  The buffer keeps them all.
WriteOutFails(n) ==
  /\ stage = "written" /\ Writable
  /\ n < Len(pending) /\ Len(file) + n <= DiskSize
  /\ file' = file \o Take(pending, n)
  /\ stream' = "bad"
  /\ Fault
  /\ CallEnds
  /\ UNCHANGED <<mode, initialized, opening, pending, opened, acked, overlapped, synced, kept,
                 replayed, expected>>

\* The second good() finds nothing: the record is acknowledged.
AppendReturns ==
  LET text == encode_resp(caller) IN
  /\ stage = "flushed" /\ Writable
  /\ acked' = acked \o text
  /\ kept' = IF Len(text) <= Len(file) /\ Drop(file, Len(file) - Len(text)) = text
             THEN kept \cup {[record |-> caller, end |-> Len(file)]} ELSE kept
  /\ CallEnds
  /\ UNCHANGED <<mode, initialized, opening, stream, pending, opened, overlapped, file, synced,
                 replayed, expected, faults>>

\* One of them finds a stream that is bad, or closed and so bad.
AppendThrows ==
  /\ Locked /\ ~Writable
  /\ CallEnds
  /\ UNCHANGED <<mode, initialized, opening, streamVars, disk, replayed, expected, faults>>

-----------------------------------------------------------------------------
(* flush() and close().                                                    *)

\* n bytes of the buffer are written again, from its beginning.
Rewrite(n) ==
  /\ n <= Len(pending) /\ Len(file) + n <= DiskSize
  /\ IF n \in {0, Len(pending)} THEN UNCHANGED faults ELSE Fault
  /\ file' = file \o Take(pending, n)

\* flush() of a bad stream throws, and whether it writes what is in the buffer
\* depends on the library.  Of a good stream there is nothing to write.
Flush(n) ==
  /\ mode = "serving" /\ stream = "bad" /\ ~Locked
  /\ Rewrite(n)
  /\ pending' = IF n = Len(pending) THEN <<>> ELSE pending
  /\ UNCHANGED <<mode, initialized, opening, stream, opened, acked, overlapped, call, synced,
                 kept, replayed, expected>>

\* close() tries to write what is in the buffer, and drops it.
Close(n) ==
  /\ mode = "serving" /\ ~Locked
  /\ Rewrite(n)
  /\ pending' = <<>>
  /\ stream' = "closed" /\ initialized' = FALSE
  /\ UNCHANGED <<mode, opening, opened, acked, overlapped, call, synced, kept, replayed,
                 expected>>

-----------------------------------------------------------------------------
(* Failures.                                                               *)

ProcessEnds ==
  /\ mode' = "down"
  /\ initialized' = FALSE
  /\ opening' = [t \in Openers |-> "out"]
  /\ stream' = "closed" /\ pending' = <<>>
  /\ CallEnds
  /\ UNCHANGED <<opened, replayed, expected>>

\* The process is killed, or has been refused and is started again: the kernel
\* keeps its bytes.
Kill ==
  /\ mode # "down"
  /\ ProcessEnds
  /\ UNCHANGED <<acked, overlapped, disk, faults>>

\* Power is lost: nothing calls fsync(), so the last n bytes may be missing of
\* all that were written since the machine was started.
PowerFailure(n) ==
  /\ n <= Len(file) - synced
  /\ ProcessEnds
  /\ file' = Take(file, Len(file) - n)
  /\ synced' = Len(file')
  /\ acked' = <<>> /\ overlapped' = FALSE
  /\ kept' = {k \in kept : k.end <= Len(file')}
  /\ Fault

-----------------------------------------------------------------------------
Init ==
  /\ mode = "down" /\ initialized = FALSE
  /\ opening = [t \in Openers |-> "out"]
  /\ stream = "closed" /\ pending = <<>>
  /\ stage = "idle" /\ caller = None
  /\ file = <<>> /\ synced = 0
  /\ opened = 0 /\ acked = <<>> /\ overlapped = FALSE
  /\ kept = {} /\ replayed = <<>> /\ expected = {}
  /\ faults = 0

Next ==
  \/ Start
  \/ \E t \in Openers :
       BeginInitialize(t) \/ Open(t) \/ OpenFails(t) \/ SetInitialized(t)
  \/ \E record \in Records : BeginAppend(record)
  \/ Write \/ WriteOut \/ AppendReturns \/ AppendThrows
  \/ \E n \in Cuts : WriteOutFails(n)
  \/ \E n \in Cuts \cup {Len(pending)} : Flush(n) \/ Close(n)
  \/ Kill
  \/ \E n \in Cuts \cup {Len(file) - synced} : PowerFailure(n)

Spec == Init /\ [][Next]_vars

-----------------------------------------------------------------------------
(* Properties.                                                             *)

\* Every variable has its type, and only a stream that has failed holds bytes back
\* when no call is at it.
TypeOK ==
  /\ mode \in {"down", "serving", "refused"}
  /\ initialized \in BOOLEAN
  /\ opening \in [Openers -> {"out", "tested", "opened"}]
  /\ stream \in {"closed", "good", "bad"}
  /\ stream = "good" /\ stage # "written" => pending = <<>>
  /\ stage \in {"idle", "begun", "written", "flushed"}
  /\ stage # "idle" => caller \in Records
  /\ Len(file) <= DiskSize
  /\ synced \in 0..Len(file)
  /\ overlapped \in BOOLEAN
  /\ mode # "serving" =>
       stream = "closed" /\ stage = "idle" /\ opening = [t \in Openers |-> "out"]

\* append_command() "Append[s] a mutating command to the AOF" (persistence.hpp):
\* what it acknowledges is in the file, from where the log was opened on.
AppendedIsInFile ==
  IsPrefix(acked, Drop(file, opened))

\* That is so unless the stream was opened while append_command() had the lock:
\* what it acknowledges is in the file as a whole, one record directly behind the
\* other, and no piece of a failed record comes between them, whatever is retried
\* by flush() or close(), until the machine loses power.
AcknowledgedIsWhole == ~overlapped => AppendedIsInFile

\* recover() never leaves out a record it should replay: when it has returned,
\* every record that was acknowledged and is still in the file when it starts
\* has been replayed.  Else it throws, and the program does not serve.
NoSilentLoss ==
  mode = "serving" => expected \subseteq ToSet(replayed)

\* A log that no failed write and no power failure has touched is replayed
\* (recover() of persistence.hpp: "Replay the snapshot first, then replay the
\* AOF").
IntactLogIsReplayed == mode = "refused" => faults > 0
=============================================================================
