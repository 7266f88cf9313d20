---------------------------- MODULE Persistence -----------------------------
(***************************************************************************)
(* SAVE and recovery (src/src/persistence.cpp, and the SAVE command of     *)
(* src/src/command.cpp) on a file system that can lose what was not        *)
(* synced, under a process that can be killed between any two of its       *)
(* system calls.                                                           *)
(*                                                                         *)
(* The file system has two copies of everything: what the running kernel   *)
(* shows (dir, data) and what is on the disk (ddir, ddata).  The kernel    *)
(* writes back when it likes; fsync forces it to.  A killed process leaves *)
(* the kernel's copy alone, a power failure leaves only the disk's.        *)
(*                                                                         *)
(* The server is single threaded: no command runs inside a SAVE, but time  *)
(* passes.  The append-only log does not appear here because nothing in    *)
(* the server ever writes to it; it is the subject of AppendLog.           *)
(***************************************************************************)
EXTENDS Integers, Sequences, FiniteSets, SequencesExt

CONSTANTS
  Keys,
  Values,
  OversizeValues,  \* values SET takes and write_string_to_fd refuses
  None,
  MaxEntries,      \* MAX_SNAPSHOT_ENTRIES: recovery refuses more
  Inodes,
  MaxSaves,        \* bound: number of SAVE commands
  MaxOutages       \* bound: number of times the process goes down

\* Time to live: none, a deadline still to come, or one that has passed
\* while the entry is still in the map (expiry is lazy).
Ttl == {"none", "pending", "passed"}
Entry == [value: Values, ttl: Ttl]

ASSUME PersistenceAssumption ==
  /\ IsFiniteSet(Keys)
  /\ OversizeValues \subseteq Values
  /\ None \notin Keys \cup Values \cup Inodes \cup Entry
  /\ MaxEntries \in Nat
  /\ MaxSaves \in Nat
  /\ MaxOutages \in Nat

VARIABLES
  pc,          \* where the server is: down, idle, or at a step of SAVE
  db,          \* Database::store
  fd,          \* the inode of the open temporary file, or None
  entries,     \* what is left to write of the result of Database::entries()
  answer,      \* the reply to the SAVE that was the last command, if it was
  dir,         \* names to inodes, as the kernel shows them
  data,        \* inodes to contents, as the kernel shows them
  ddir,        \* the same on the disk
  ddata,
  restorable,  \* history: the maps a restart may bring back
  saves,       \* counters for the two bounds
  outages

process == <<pc, db, fd, entries, answer>>
kernel == <<dir, data>>
disk == <<ddir, ddata>>
bounds == <<saves, outages>>
vars == <<process, kernel, disk, restorable, bounds>>

Names == {"dump.rdb", "dump.rdb.tmp"}

\* A file is a sequence of units: the magic and version, the number of
\* entries, the entries.  A unit written in part reads as one not written.
Unit == [tag: {"header", "count", "entry"}, n: Nat,
         key: Keys \cup {None}, value: Values \cup {None}]
Header == [tag |-> "header", n |-> 0, key |-> None, value |-> None]
Count(n) == [tag |-> "count", n |-> n, key |-> None, value |-> None]
Item(k, v) == [tag |-> "entry", n |-> 0, key |-> k, value |-> v]

Maps == [Keys -> Values \cup {None}]

SaveSteps == {"open", "header", "count", "items", "fsync", "rename", "syncdir"}

TypeOK ==
  /\ pc \in SaveSteps \cup {"down", "idle"}
  /\ db \in [Keys -> Entry \cup {None}]
  /\ fd \in Inodes \cup {None}
  /\ pc \in {"header", "count", "items", "fsync"} => fd # None
  /\ entries \in Seq(Keys \X Values)
  /\ answer \in {"none", "OK", "ERR"}
  /\ dir \in [Names -> Inodes \cup {None}]
  /\ data \in [Inodes -> Seq(Unit)]
  /\ ddir \in [Names -> Inodes \cup {None}]
  /\ ddata \in [Inodes -> Seq(Unit)]
  /\ restorable \in SUBSET Maps
  /\ saves \in 0..MaxSaves
  /\ outages \in 0..MaxOutages

-----------------------------------------------------------------------------
(* Recovery.                                                               *)

\* recover_snapshot() reads count entries and ignores what follows.
Readable(file) ==
  /\ Len(file) >= 2
  /\ file[1].tag = "header" /\ file[2].tag = "count"
  /\ file[2].n <= MaxEntries
  /\ Len(file) >= 2 + file[2].n
  /\ \A i \in 3..(2 + file[2].n) :
       file[i].tag = "entry" /\ file[i].value \notin OversizeValues

\* restore_set() of each entry in turn: the last one of a key stays.
Contents(file) ==
  [k \in Keys |->
     LET at == {i \in 3..Len(file) : i <= 2 + file[2].n /\ file[i].key = k} IN
     IF at = {} THEN None
     ELSE file[CHOOSE i \in at : \A j \in at : j <= i].value]

EmptyMap == [k \in Keys |-> None]

\* A missing snapshot is an empty database.
Loads(names, files) ==
  names["dump.rdb"] # None => Readable(files[names["dump.rdb"]])

Loaded(names, files) ==
  IF names["dump.rdb"] = None THEN EmptyMap
  ELSE Contents(files[names["dump.rdb"]])

-----------------------------------------------------------------------------
(* The commands that matter to SAVE.                                       *)

Init ==
  /\ pc = "idle"
  /\ db = [k \in Keys |-> None]
  /\ fd = None
  /\ entries = <<>>
  /\ answer = "none"
  /\ dir = [name \in Names |-> None]
  /\ data = [i \in Inodes |-> <<>>]
  /\ ddir = dir
  /\ ddata = data
  /\ restorable = {EmptyMap}
  /\ saves = 0
  /\ outages = 0

Command(k, entry) ==
  /\ pc = "idle"
  /\ db' = [db EXCEPT ![k] = entry]
  /\ answer' = "none"
  /\ UNCHANGED <<pc, fd, entries, kernel, disk, restorable, bounds>>

Set(k, v) == Command(k, [value |-> v, ttl |-> "none"])

\* DEL, or any command that purges an expired entry.
Del(k) == Command(k, None)

\* EXPIRE with a positive argument, or with one that is over at once.  An
\* entry that has expired unnoticed gets a new deadline like any other.
Expire(k, ttl) ==
  /\ db[k] # None
  /\ Command(k, [db[k] EXCEPT !.ttl = ttl])

\* Time passes, whatever the server is doing.
Pass(k) ==
  /\ pc # "down"
  /\ db[k] # None /\ db[k].ttl = "pending"
  /\ db' = [db EXCEPT ![k].ttl = "passed"]
  /\ UNCHANGED <<pc, fd, entries, answer, kernel, disk, restorable, bounds>>

-----------------------------------------------------------------------------
(* SAVE, one system call at a time.                                        *)

Goto(from, to) == pc = from /\ pc' = to

\* flush() finds the stream of the append-only log empty and does nothing.
SaveBegin ==
  /\ Goto("idle", "open")
  /\ saves < MaxSaves
  /\ saves' = saves + 1
  /\ answer' = "none"
  /\ UNCHANGED <<db, fd, entries, kernel, disk, restorable, outages>>

Linked(names) == {names[name] : name \in Names} \ {None}

FreeInodes == Inodes \ (Linked(dir) \cup Linked(ddir))

\* An inode without a name is reclaimed with its contents.
Reclaim(names, files) ==
  [i \in Inodes |-> IF i \in Linked(names) THEN files[i] ELSE <<>>]

\* Mutant: the result of open() is not checked.
OpenUnchecked ==
  /\ Goto("open", "header")
  /\ fd' = None
  /\ UNCHANGED <<db, entries, answer, kernel, disk, restorable, bounds>>

\* open(O_WRONLY | O_CREAT | O_TRUNC): a temporary file that an earlier SAVE
\* left behind is emptied and used again.  A new one needs a free inode.
OpenTemporary ==
  /\ Goto("open", "header")
  /\ dir["dump.rdb.tmp"] # None \/ FreeInodes # {}
  /\ fd' = IF dir["dump.rdb.tmp"] # None THEN dir["dump.rdb.tmp"]
           ELSE CHOOSE i \in FreeInodes : TRUE
  /\ dir' = [dir EXCEPT !["dump.rdb.tmp"] = fd']
  /\ data' = [data EXCEPT ![fd'] = <<>>]
  /\ UNCHANGED <<db, entries, answer, disk, restorable, bounds>>

Write(unit) ==
  /\ data' = [data EXCEPT ![fd] = Append(@, unit)]
  /\ UNCHANGED <<db, fd, answer, dir, disk, restorable, bounds>>

WriteHeader ==
  /\ Goto("header", "count")
  /\ Write(Header)
  /\ UNCHANGED entries

\* Keys whose deadline has passed are skipped; entries() reads the clock for
\* every key, so the deadlines of any of the others may pass meanwhile.
Captured(late) ==
  [k \in Keys |->
     IF db[k] = None \/ db[k].ttl = "passed" \/ k \in late THEN None
     ELSE db[k].value]

\* entries(), and the number of entries is written.
CaptureEntries ==
  \E late \in SUBSET {k \in Keys : db[k] # None /\ db[k].ttl = "pending"} :
    LET map  == Captured(late)
        keys == {k \in Keys : map[k] # None}
        seq  == SetToSeq({<<k, map[k]>> : k \in keys})
    IN
    /\ Goto("count", "items")
    /\ entries' = seq
    /\ Write(Count(Len(seq)))

WriteEntry ==
  /\ Goto("items", "items")
  /\ entries # <<>>
  /\ Head(entries)[2] \notin OversizeValues
  /\ Write(Item(Head(entries)[1], Head(entries)[2]))
  /\ entries' = Tail(entries)

EndOfEntries ==
  /\ Goto("items", "fsync")
  /\ entries = <<>>
  /\ UNCHANGED <<db, fd, entries, answer, kernel, disk, restorable, bounds>>

\* Mutant: the file is closed without a sync.
CloseWithoutSync ==
  /\ Goto("fsync", "rename")
  /\ fd' = None
  /\ UNCHANGED <<db, entries, answer, kernel, disk, restorable, bounds>>

FsyncFile ==
  /\ Goto("fsync", "rename")
  /\ ddata' = [ddata EXCEPT ![fd] = data[fd]]
  /\ fd' = None
  /\ UNCHANGED <<db, entries, answer, kernel, ddir, restorable, bounds>>

\* From here on a restart may bring back the new snapshot, never before.
Rename ==
  /\ Goto("rename", "syncdir")
  /\ dir' = [dir EXCEPT !["dump.rdb"] = dir["dump.rdb.tmp"],
                        !["dump.rdb.tmp"] = None]
  /\ data' = Reclaim(dir', data)
  /\ restorable' = restorable \cup {Contents(data[dir["dump.rdb.tmp"]])}
  /\ UNCHANGED <<db, fd, entries, answer, disk, bounds>>

\* Mutant: SAVE answers without a sync of the directory.
AnswerWithoutSync ==
  /\ Goto("syncdir", "idle")
  /\ answer' = "OK"
  /\ restorable' = {Contents(data[dir["dump.rdb"]])}
  /\ UNCHANGED <<db, fd, entries, kernel, disk, bounds>>

\* The directory is synced and SAVE answers OK: from here on a restart must
\* bring back this snapshot and no earlier one.
FsyncDirectory ==
  /\ Goto("syncdir", "idle")
  /\ ddir' = dir
  /\ ddata' = Reclaim(ddir', ddata)
  /\ answer' = "OK"
  /\ restorable' = {Contents(data[dir["dump.rdb"]])}
  /\ UNCHANGED <<db, fd, entries, kernel, bounds>>

\* Any of the calls may fail, and an entry above the size limit does: the
\* exception is caught, the reply is an error, the temporary file stays.
SaveFails ==
  /\ pc \in SaveSteps
  /\ pc' = "idle"
  /\ fd' = None
  /\ entries' = <<>>
  /\ answer' = "ERR"
  /\ UNCHANGED <<db, kernel, disk, restorable, bounds>>

-----------------------------------------------------------------------------
(* The file system, outages and restarts.                                  *)

\* The kernel may have written back any part of a file, in order; the first
\* write-back after a truncation replaces what the disk had.
WriteBackData(i) ==
  /\ i \in Linked(dir)
  /\ \E n \in 0..Len(data[i]) :
       /\ IsPrefix(ddata[i], data[i]) => n > Len(ddata[i])
       /\ ddata' = [ddata EXCEPT ![i] = SubSeq(data[i], 1, n)]
  /\ UNCHANGED <<process, kernel, ddir, restorable, bounds>>

WriteBackDirectory ==
  /\ ddir' = dir
  /\ ddata' = Reclaim(ddir', ddata)
  /\ UNCHANGED <<process, kernel, restorable, bounds>>

\* The map is gone with the process; db keeps its last contents until the
\* next start only so that properties can refer to them.
GoDown ==
  /\ pc # "down"
  /\ outages < MaxOutages
  /\ outages' = outages + 1
  /\ pc' = "down"
  /\ fd' = None
  /\ entries' = <<>>
  /\ UNCHANGED <<db, answer, restorable, saves>>

\* The process stops or is killed.  A stop in good order saves nothing: run()
\* and ~Server() only flush and close the append-only log.
Exit == GoDown /\ UNCHANGED <<kernel, disk>>

PowerFailure ==
  /\ GoDown
  /\ dir' = ddir
  /\ data' = Reclaim(ddir, ddata)
  /\ ddata' = Reclaim(ddir, ddata)
  /\ UNCHANGED ddir

\* initialize() and recover(); where the snapshot does not load, run()
\* throws and the process is not up.
Start ==
  /\ Goto("down", "idle")
  /\ Loads(dir, data)
  /\ db' = [k \in Keys |->
              LET v == Loaded(dir, data)[k] IN
              IF v = None THEN None ELSE [value |-> v, ttl |-> "none"]]
  /\ answer' = "none"
  /\ UNCHANGED <<fd, entries, kernel, disk, restorable, bounds>>

Save ==
  \/ SaveBegin \/ OpenTemporary \/ WriteHeader \/ CaptureEntries
  \/ WriteEntry \/ EndOfEntries \/ FsyncFile \/ Rename \/ FsyncDirectory
  \/ SaveFails

Next ==
  \/ \E k \in Keys :
       \/ \E v \in Values : Set(k, v)
       \/ Del(k)
       \/ \E ttl \in {"pending", "passed"} : Expire(k, ttl)
       \/ Pass(k)
  \/ Save
  \/ \E i \in Inodes : WriteBackData(i)
  \/ WriteBackDirectory
  \/ Exit
  \/ PowerFailure
  \/ Start

Spec == Init /\ [][Next]_vars

-----------------------------------------------------------------------------
(* Properties.                                                             *)

\* Whenever the process or the power fails, the next start finds a complete
\* snapshot, and it is the one last acknowledged or one that a later SAVE
\* renamed into place without being acknowledged.  A SAVE that failed before
\* its rename is never seen, a torn file never loaded.
DurableSnapshot ==
  /\ Loads(dir, data) /\ Loaded(dir, data) \in restorable
  /\ Loads(ddir, ddata) /\ Loaded(ddir, ddata) \in restorable

\* Server and disk together are a map with a set of maps a restart may bring
\* back; a SAVE that answers OK leaves exactly one, the current one up to
\* keys whose time to live ran out during the SAVE.
Saved == INSTANCE SnapshotStore WITH
  up <- pc # "down",
  view <- [k \in Keys |-> IF pc = "down" \/ db[k] = None THEN None
                          ELSE db[k].value],
  volatile <- {k \in Keys : pc # "down" /\ db[k] # None /\ db[k].ttl # "none"}

ImplementsSnapshotStore == Saved!Spec

Restarted == pc = "down" /\ pc' = "idle"

\* What tests/integration_test.cpp claims: a value whose SET was answered OK
\* is still there after the server was stopped and started again.
AcknowledgedSetSurvivesRestart ==
  [][Restarted =>
       \A k \in Keys :
         db[k] # None /\ db[k].ttl = "none" => db'[k] # None]_vars

\* What the SAVE command's "consistent snapshot" claims: one that was
\* answered OK can be loaded.
AcknowledgedSnapshotLoads == answer = "OK" => Loads(dir, data)
=============================================================================
