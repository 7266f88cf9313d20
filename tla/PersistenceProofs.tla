------------------------- MODULE PersistenceProofs --------------------------
(***************************************************************************)
(* Proofs about Persistence, for every finite set of keys, all values, any *)
(* number of SAVEs, outages and inodes.                                    *)
(***************************************************************************)
EXTENDS Persistence, DataLemmas

Rdb == "dump.rdb"
Tmp == "dump.rdb.tmp"

\* Between open() and rename() the temporary file has its name.
TemporaryOpen ==
  pc \in {"header", "count", "items", "fsync", "rename"} =>
    dir[Tmp] # None /\ (pc # "rename" => fd = dir[Tmp])

\* rename() leaves a snapshot.
RenamedExists == pc = "syncdir" => dir[Rdb] # None

\* No SAVE writes to an inode that is a snapshot for the kernel or on the disk.
NamesApart ==
  /\ dir[Rdb] # None => dir[Rdb] # dir[Tmp]
  /\ ddir[Rdb] # None => ddir[Rdb] # ddir[Tmp] /\ ddir[Rdb] # dir[Tmp]

\* What has the name of the snapshot was synced before it got it.
SnapshotSynced == dir[Rdb] # None => ddata[dir[Rdb]] = data[dir[Rdb]]

\* How far the temporary file is written: what is left of the entries are those
\* that are missing in it.
IsPartOfSnapshot(file) ==
  /\ Len(file) >= 2
  /\ file[1].tag = "header" /\ file[2].tag = "count"
  /\ file[2].n = Len(file) - 2 + Len(entries)
  /\ \A i \in 3..Len(file) :
       file[i].tag = "entry" /\ file[i].value \notin OversizeValues

TemporaryWritten ==
  /\ pc = "header" => data[dir[Tmp]] = <<>>
  /\ pc = "count" => data[dir[Tmp]] = <<Header>>
  /\ pc \in {"items", "fsync", "rename"} => IsPartOfSnapshot(data[dir[Tmp]])
  /\ pc \in {"fsync", "rename"} => entries = <<>>
  /\ pc = "rename" => ddata[dir[Tmp]] = data[dir[Tmp]]

\* What is written and what is left to write are values the map has, and only
\* keys with a time to live are missing.
ItemsMatch ==
  pc \in {"items", "fsync", "rename"} =>
    LET file == data[dir[Tmp]] IN
    \A k \in Keys :
      /\ \A i \in 3..Len(file) :
           file[i].key = k => db[k] # None /\ file[i].value = db[k].value
      /\ \A i \in 1..Len(entries) :
           entries[i][1] = k => db[k] # None /\ entries[i][2] = db[k].value
      /\ \/ db[k] = None \/ db[k].ttl # "none"
         \/ \E i \in 3..Len(file) : file[i].key = k
         \/ \E i \in 1..Len(entries) : entries[i][1] = k

\* map is what a client may see now, except that volatile keys may be missing.
IsSnapshotOf(map) ==
  \A k \in Keys :
    \/ map[k] = IF db[k] = None THEN None ELSE db[k].value
    \/ map[k] = None /\ db[k] # None /\ db[k].ttl # "none"

RenamedMatches == pc = "syncdir" => IsSnapshotOf(Contents(data[dir[Rdb]]))

\* A restart brings back a map it may bring back.
OnlyRestorable ==
  Loaded(dir, data) \in restorable /\ Loaded(ddir, ddata) \in restorable

IInv ==
  /\ TypeOK
  /\ TemporaryOpen
  /\ RenamedExists
  /\ NamesApart
  /\ SnapshotSynced
  /\ TemporaryWritten
  /\ ItemsMatch
  /\ RenamedMatches
  /\ OnlyRestorable

\* The map never holds more entries than recovery accepts.
FewEntries == Cardinality({k \in Keys : db[k] # None}) <= MaxEntries

CountFits ==
  pc \in {"items", "fsync", "rename"} => data[dir[Tmp]][2].n <= MaxEntries

\* Whatever fails, the next start finds a complete snapshot or none.
FilesLoad == Loads(dir, data) /\ Loads(ddir, ddata)

Loadable == FilesLoad /\ CountFits

-----------------------------------------------------------------------------
(* Lemmas about files.                                                     *)

\* None is distinguished from everything, and the two names from each other.
LEMMA Distinct ==
  /\ None \notin Keys /\ None \notin Values /\ None \notin Inodes /\ None \notin Entry
  /\ Tmp \in Names /\ Rdb \in Names /\ Tmp # Rdb
  /\ \A e \in Entry : e.value \in Values /\ e.ttl \in Ttl
  BY PersistenceAssumption DEF Names, Tmp, Rdb, Entry

\* The units a SAVE writes.
LEMMA UnitTypes ==
  /\ Header \in Unit
  /\ \A n \in Nat : Count(n) \in Unit
  /\ \A k \in Keys, v \in Values : Item(k, v) \in Unit
  BY DEF Header, Count, Item, Unit

\* The value a key has in a file: the one of some entry of it, if there is one.
LEMMA ContentsOf ==
  ASSUME NEW file \in Seq(Unit), NEW k \in Keys
  PROVE  \/ /\ Contents(file)[k] = None
            /\ \A i \in 3..Len(file) : i <= 2 + file[2].n => file[i].key # k
         \/ \E i \in 3..Len(file) : /\ i <= 2 + file[2].n /\ file[i].key = k
                                    /\ Contents(file)[k] = file[i].value
<1>. DEFINE at == {i \in 3..Len(file) : i <= 2 + file[2].n /\ file[i].key = k}
<1>1. Contents(file)[k] =
        IF at = {} THEN None ELSE file[CHOOSE i \in at : \A j \in at : j <= i].value
  BY DEF Contents
<1>2. CASE at = {}
  BY <1>1, <1>2
<1>3. CASE at # {}
  <2>1. Len(file) \in Int
    BY LenProperties
  <2>2. at \subseteq Int /\ \A i \in at : i <= Len(file)
    BY <2>1
  <2>3. \E i \in at : \A j \in at : j <= i
    <3>. HIDE DEF at
    <3>. QED  BY <1>3, <2>1, <2>2, GreatestElement
  <2>4. (CHOOSE i \in at : \A j \in at : j <= i) \in at
    <3>. HIDE DEF at
    <3>. QED  BY <2>3
  <2>. QED  BY <1>1, <1>3, <2>4
<1>. QED  BY <1>2, <1>3

\* What a file holds makes a map.
LEMMA ContentsType ==
  ASSUME NEW file \in Seq(Unit)
  PROVE  Contents(file) \in Maps
<1>1. ASSUME NEW k \in Keys PROVE Contents(file)[k] \in Values \cup {None}
  <2>1. \A i \in 3..Len(file) : file[i].value \in Values \cup {None}
    <3>1. \A i \in 1..Len(file) : file[i] \in Unit
      BY ElementOfSeq
    <3>2. Len(file) \in Nat
      BY LenProperties
    <3>3. \A i \in 3..Len(file) : i \in 1..Len(file)
      BY <3>2
    <3>. QED  BY <3>1, <3>3 DEF Unit
  <2>. QED  BY <2>1, ContentsOf
<1>2. Contents(file) = [k \in Keys |-> Contents(file)[k]]
  BY DEF Contents
<1>. QED  BY <1>1, <1>2 DEF Maps

\* A file that is appended to keeps what it had.
LEMMA AppendUnit ==
  ASSUME NEW file \in Seq(Unit), NEW unit \in Unit
  PROVE  /\ Append(file, unit) \in Seq(Unit)
         /\ Len(file) \in Nat
         /\ Len(Append(file, unit)) = Len(file) + 1
         /\ \A i \in 1..Len(file) : Append(file, unit)[i] = file[i]
         /\ Append(file, unit)[Len(file) + 1] = unit
  BY AppendProperties, LenProperties

\* Reclaiming inodes that have no name keeps the files that have one.
LEMMA ReclaimKeeps ==
  ASSUME NEW names \in [Names -> Inodes \cup {None}], NEW files \in [Inodes -> Seq(Unit)]
  PROVE  /\ Reclaim(names, files) \in [Inodes -> Seq(Unit)]
         /\ \A n \in Names : names[n] # None =>
              names[n] \in Inodes /\ Reclaim(names, files)[names[n]] = files[names[n]]
<1>1. <<>> \in Seq(Unit)
  BY EmptySeq
<1>2. \A n \in Names : names[n] # None => names[n] \in Inodes /\ names[n] \in Linked(names)
  BY DEF Linked
<1>. QED  BY <1>1, <1>2 DEF Reclaim

\* Only the file behind the snapshot's name matters to a restart.
LEMMA LoadedCong ==
  ASSUME NEW names1, NEW names2, NEW files1, NEW files2,
         names1[Rdb] = names2[Rdb],
         names1[Rdb] # None => files1[names1[Rdb]] = files2[names2[Rdb]]
  PROVE  /\ Loaded(names1, files1) = Loaded(names2, files2)
         /\ (Loads(names1, files1) <=> Loads(names2, files2))
  BY DEF Loaded, Loads, Rdb

\* What recovery loads is a map.
LEMMA LoadedType ==
  ASSUME NEW names \in [Names -> Inodes \cup {None}], NEW files \in [Inodes -> Seq(Unit)]
  PROVE  Loaded(names, files) \in Maps
<1>1. EmptyMap \in Maps
  BY DEF EmptyMap, Maps
<1>2. names["dump.rdb"] # None => files[names["dump.rdb"]] \in Seq(Unit)
  BY DEF Names
<1>. QED  BY <1>1, <1>2, ContentsType DEF Loaded

-----------------------------------------------------------------------------
(* The steps that leave files alone.                                       *)

\* The invariant holds at the start.
LEMMA InitInv == Init => IInv
<1>. SUFFICES ASSUME Init PROVE IInv
  OBVIOUS
<1>. USE DEF Init
<1>1. TypeOK
  <2>1. EmptyMap \in Maps
    BY DEF EmptyMap, Maps
  <2>2. <<>> \in Seq(Unit) /\ <<>> \in Seq(Keys \X Values)
    BY EmptySeq
  <2>. QED  BY <2>1, <2>2, PersistenceAssumption DEF TypeOK
<1>2. dir[Rdb] = None /\ ddir[Rdb] = None
  BY Distinct
<1>3. OnlyRestorable
  BY <1>2 DEF OnlyRestorable, Loaded, Rdb
<1>. QED
  BY <1>1, <1>2, <1>3
  DEF IInv, TemporaryOpen, RenamedExists, NamesApart, SnapshotSynced,
      TemporaryWritten, ItemsMatch, RenamedMatches

\* Outside of SAVE only the files count.
LEMMA OutsideSave ==
  ASSUME IInv, TypeOK', pc' \in {"idle", "open", "down"},
         UNCHANGED <<kernel, disk, restorable>>
  PROVE  IInv' /\ (Loadable => Loadable')
<1>1. UNCHANGED <<dir, data, ddir, ddata, restorable>>
  BY DEF kernel, disk
<1>2. NamesApart' /\ SnapshotSynced' /\ OnlyRestorable'
  BY <1>1 DEF IInv, NamesApart, SnapshotSynced, OnlyRestorable, Loaded
<1>3. TemporaryOpen' /\ RenamedExists' /\ TemporaryWritten' /\ ItemsMatch' /\ RenamedMatches'
  BY DEF TemporaryOpen, RenamedExists, TemporaryWritten, ItemsMatch, RenamedMatches
<1>4. Loadable => Loadable'
  BY <1>1 DEF Loadable, FilesLoad, Loads, CountFits
<1>. QED  BY <1>2, <1>3, <1>4 DEF IInv

\* A command that changes the map, outside a SAVE, keeps it.
LEMMA CommandInv ==
  ASSUME IInv, NEW k \in Keys, NEW entry \in Entry \cup {None}, Command(k, entry)
  PROVE  IInv' /\ (Loadable => Loadable')
<1>1. TypeOK'
  BY DEF IInv, TypeOK, Command, kernel, disk, bounds
<1>2. pc' = "idle" /\ UNCHANGED <<kernel, disk, restorable>>
  BY DEF Command
<1>. QED  BY <1>1, <1>2, OutsideSave

\* EXPIRE keeps it.
LEMMA ExpireInv ==
  ASSUME IInv, NEW k \in Keys, NEW ttl \in {"pending", "passed"}, Expire(k, ttl)
  PROVE  IInv' /\ (Loadable => Loadable')
<1>1. db[k] \in Entry
  BY DEF Expire, IInv, TypeOK
<1>2. [db[k] EXCEPT !.ttl = ttl] \in Entry
  BY <1>1 DEF Entry, Ttl
<1>. QED  BY <1>2, CommandInv DEF Expire

\* A deadline that passes during SAVE makes a key volatile no less than before.
LEMMA PassInv ==
  ASSUME IInv, NEW k \in Keys, Pass(k)
  PROVE  IInv' /\ (Loadable => Loadable')
<1>1. UNCHANGED <<pc, fd, entries, answer, dir, data, ddir, ddata, restorable, saves, outages>>
  BY DEF Pass, kernel, disk, bounds
<1>2. /\ db[k] \in Entry /\ db[k].ttl = "pending"
      /\ db' = [db EXCEPT ![k] = [db[k] EXCEPT !.ttl = "passed"]]
  BY DEF Pass, IInv, TypeOK
<1>3. [db[k] EXCEPT !.ttl = "passed"] \in Entry
  BY <1>2 DEF Entry, Ttl
<1>4. TypeOK'
  BY <1>1, <1>2, <1>3 DEF IInv, TypeOK
<1>5. \A j \in Keys : /\ db'[j] = None <=> db[j] = None
                      /\ db[j] # None => db'[j].value = db[j].value
                      /\ db[j] # None /\ db[j].ttl # "none" => db'[j].ttl # "none"
  <2>1. db'[k] = [db[k] EXCEPT !.ttl = "passed"] /\ \A j \in Keys \ {k} : db'[j] = db[j]
    BY <1>2 DEF IInv, TypeOK
  <2>2. db'[k] # None /\ db[k] # None
    BY <1>2, <1>3, <2>1, Distinct
  <2>3. db'[k].value = db[k].value /\ db'[k].ttl = "passed"
    BY <1>2, <2>1 DEF Entry
  <2>. QED  BY <2>1, <2>2, <2>3
<1>6. ItemsMatch'
  BY <1>1, <1>5 DEF IInv, ItemsMatch
<1>7. RenamedMatches'
  BY <1>1, <1>5 DEF IInv, RenamedMatches, IsSnapshotOf
<1>8. NamesApart' /\ SnapshotSynced' /\ OnlyRestorable' /\ TemporaryOpen' /\ RenamedExists'
      /\ TemporaryWritten'
  BY <1>1 DEF IInv, NamesApart, SnapshotSynced, OnlyRestorable, Loaded, TemporaryOpen,
              RenamedExists, TemporaryWritten, IsPartOfSnapshot
<1>9. Loadable => Loadable'
  BY <1>1 DEF Loadable, FilesLoad, Loads, CountFits
<1>. QED  BY <1>4, <1>6, <1>7, <1>8, <1>9 DEF IInv

\* The beginning of a SAVE, its failure and the end of the process keep it.
LEMMA BeginFailExitInv ==
  ASSUME IInv, SaveBegin \/ SaveFails \/ Exit
  PROVE  IInv' /\ (Loadable => Loadable')
<1>1. pc' \in {"idle", "open", "down"} /\ UNCHANGED <<kernel, disk, restorable>>
  BY DEF SaveBegin, SaveFails, Exit, GoDown, Goto
<1>2. <<>> \in Seq(Keys \X Values)
  BY EmptySeq
<1>3. /\ UNCHANGED <<db, dir, data, ddir, ddata, restorable>>
      /\ fd' \in {fd, None} /\ entries' \in {entries, <<>>}
      /\ answer' \in {answer, "none", "ERR"}
      /\ pc' \in {"idle", "open", "down"}
  <2>1. CASE SaveBegin
    BY <2>1 DEF SaveBegin, Goto, kernel, disk
  <2>2. CASE SaveFails
    BY <2>2 DEF SaveFails, kernel, disk
  <2>3. CASE Exit
    BY <2>3 DEF Exit, GoDown, kernel, disk
  <2>. QED  BY <2>1, <2>2, <2>3
<1>4. saves' \in 0..MaxSaves /\ outages' \in 0..MaxOutages
  BY PersistenceAssumption DEF IInv, TypeOK, SaveBegin, SaveFails, Exit, GoDown, bounds
<1>5. TypeOK'
  BY <1>2, <1>3, <1>4 DEF IInv, TypeOK, SaveSteps
<1>. QED  BY <1>1, <1>5, OutsideSave

\* Recovery keeps it: what is loaded fits the files.
LEMMA StartInv ==
  ASSUME IInv, Start
  PROVE  IInv' /\ (Loadable => Loadable')
<1>1. Loaded(dir, data) \in Maps
  BY LoadedType DEF IInv, TypeOK
<1>2. \A k \in Keys : Loaded(dir, data)[k] \in Values \cup {None}
  BY <1>1 DEF Maps
<1>3. db' \in [Keys -> Entry \cup {None}]
  <2>1. \A v \in Values : [value |-> v, ttl |-> "none"] \in Entry
    BY DEF Entry, Ttl
  <2>. QED  BY <1>2, <2>1 DEF Start
<1>4. /\ UNCHANGED <<fd, entries, dir, data, ddir, ddata, restorable, saves, outages>>
      /\ pc' = "idle" /\ answer' = "none"
  BY DEF Start, Goto, kernel, disk, bounds
<1>6. TypeOK'
  BY <1>3, <1>4 DEF IInv, TypeOK
<1>5. pc' = "idle" /\ UNCHANGED <<kernel, disk, restorable>>
  BY DEF Start, Goto
<1>. QED  BY <1>5, <1>6, OutsideSave

-----------------------------------------------------------------------------
(* The steps of SAVE.                                                      *)

\* The inode that is opened is none that a restart could read.
LEMMA OpenInv ==
  ASSUME IInv, OpenTemporary
  PROVE  IInv' /\ (Loadable => Loadable')
<1>. USE Distinct
<1>1. /\ fd' \in Inodes
      /\ dir[Rdb] # None => dir[Rdb] # fd'
      /\ ddir[Rdb] # None => ddir[Rdb] # fd'
  <2>1. CASE dir[Tmp] # None
    BY <2>1 DEF IInv, TypeOK, NamesApart, OpenTemporary, Tmp, Names
  <2>2. CASE dir[Tmp] = None
    <3>1. fd' \in FreeInodes
      BY <2>2 DEF OpenTemporary, Tmp
    <3>. QED  BY <3>1 DEF FreeInodes, Linked
  <2>. QED  BY <2>1, <2>2
<1>2. /\ dir' = [dir EXCEPT ![Tmp] = fd'] /\ data' = [data EXCEPT ![fd'] = <<>>]
      /\ UNCHANGED <<db, entries, answer, ddir, ddata, restorable, saves, outages>>
      /\ pc' = "header"
  BY DEF OpenTemporary, Goto, Tmp, disk, bounds
<1>3. /\ dir' \in [Names -> Inodes \cup {None}] /\ data' \in [Inodes -> Seq(Unit)]
      /\ dir'[Tmp] = fd' /\ dir'[Rdb] = dir[Rdb] /\ data'[fd'] = <<>>
      /\ \A i \in Inodes : i # fd' => data'[i] = data[i]
  <2>1. <<>> \in Seq(Unit)
    BY EmptySeq
  <2>. QED  BY <1>1, <1>2, <2>1 DEF IInv, TypeOK
<1>4. TypeOK'
  BY <1>1, <1>2, <1>3 DEF IInv, TypeOK, SaveSteps
<1>5. dir[Rdb] # None => dir[Rdb] \in Inodes /\ data'[dir[Rdb]] = data[dir[Rdb]]
  BY <1>1, <1>3 DEF IInv, TypeOK
<1>6. NamesApart' /\ SnapshotSynced'
  BY <1>1, <1>2, <1>3, <1>5 DEF IInv, NamesApart, SnapshotSynced
<1>7. OnlyRestorable'
  <2>1. Loaded(dir', data') = Loaded(dir, data)
    BY <1>3, <1>5, LoadedCong
  <2>. QED  BY <1>2, <2>1 DEF IInv, OnlyRestorable
<1>10. Loadable => Loadable'
  <2>1. Loads(dir', data') <=> Loads(dir, data)
    BY <1>3, <1>5, LoadedCong
  <2>. QED  BY <1>2, <2>1 DEF Loadable, FilesLoad, CountFits
<1>8. TemporaryOpen' /\ TemporaryWritten'
  BY <1>1, <1>2, <1>3 DEF TemporaryOpen, TemporaryWritten
<1>9. RenamedExists' /\ RenamedMatches' /\ ItemsMatch'
  BY <1>2 DEF RenamedExists, RenamedMatches, ItemsMatch
<1>. QED  BY <1>4, <1>6, <1>7, <1>8, <1>9, <1>10 DEF IInv

\* Writing changes the end of the temporary file and nothing else.
LEMMA WriteChanges ==
  ASSUME IInv, NEW unit \in Unit, Write(unit), pc \in {"header", "count", "items"}
  PROVE  /\ UNCHANGED <<db, fd, answer, dir, ddir, ddata, restorable, saves, outages>>
         /\ dir[Tmp] \in Inodes /\ fd = dir[Tmp] /\ fd # None
         /\ data' \in [Inodes -> Seq(Unit)]
         /\ data[dir[Tmp]] \in Seq(Unit)
         /\ data'[dir[Tmp]] = Append(data[dir[Tmp]], unit)
         /\ NamesApart' /\ SnapshotSynced' /\ OnlyRestorable' /\ (FilesLoad => FilesLoad')
         /\ FilesLoad => FilesLoad'
<1>. USE Distinct
<1>1. UNCHANGED <<db, fd, answer, dir, ddir, ddata, restorable, saves, outages>>
  BY DEF Write, disk, bounds
<1>2. dir[Tmp] \in Inodes /\ fd = dir[Tmp] /\ data[dir[Tmp]] \in Seq(Unit)
  BY DEF IInv, TypeOK, TemporaryOpen
<1>3. /\ data' = [data EXCEPT ![dir[Tmp]] = Append(data[dir[Tmp]], unit)]
      /\ Append(data[dir[Tmp]], unit) \in Seq(Unit)
  BY <1>2, AppendUnit DEF Write
<1>4. /\ data' \in [Inodes -> Seq(Unit)]
      /\ data'[dir[Tmp]] = Append(data[dir[Tmp]], unit)
      /\ dir[Rdb] # None => data'[dir[Rdb]] = data[dir[Rdb]]
  BY <1>2, <1>3 DEF IInv, TypeOK, NamesApart
<1>5. NamesApart' /\ SnapshotSynced'
  BY <1>1, <1>4 DEF IInv, NamesApart, SnapshotSynced
<1>6. Loaded(dir', data') = Loaded(dir, data) /\ (Loads(dir', data') <=> Loads(dir, data))
  BY <1>1, <1>4, LoadedCong
<1>7. OnlyRestorable' /\ (FilesLoad => FilesLoad')
  BY <1>1, <1>6 DEF IInv, OnlyRestorable, FilesLoad
<1>. QED  BY <1>1, <1>2, <1>4, <1>5, <1>7

\* Writing the header keeps it.
LEMMA WriteHeaderInv ==
  ASSUME IInv, WriteHeader
  PROVE  IInv' /\ (Loadable => Loadable')
<1>1. pc = "header" /\ pc' = "count" /\ entries' = entries /\ Write(Header)
  BY DEF WriteHeader, Goto
<1>2. /\ UNCHANGED <<db, fd, answer, dir, ddir, ddata, restorable, saves, outages>>
      /\ dir[Tmp] \in Inodes /\ fd = dir[Tmp] /\ fd # None
      /\ data' \in [Inodes -> Seq(Unit)]
      /\ data'[dir[Tmp]] = Append(data[dir[Tmp]], Header)
      /\ NamesApart' /\ SnapshotSynced' /\ OnlyRestorable' /\ (FilesLoad => FilesLoad')
  BY <1>1, UnitTypes, WriteChanges
<1>3. data[dir[Tmp]] = <<>>
  BY <1>1 DEF IInv, TemporaryWritten
<1>4. data'[dir'[Tmp]] = <<Header>>
  BY <1>2, <1>3
<1>5. TypeOK'
  BY <1>1, <1>2 DEF IInv, TypeOK, SaveSteps
<1>6. TemporaryOpen' /\ TemporaryWritten'
  BY <1>1, <1>2, <1>4, Distinct DEF TemporaryOpen, TemporaryWritten
<1>7. RenamedExists' /\ RenamedMatches' /\ ItemsMatch' /\ CountFits'
  BY <1>1 DEF RenamedExists, RenamedMatches, ItemsMatch, CountFits
<1>. QED  BY <1>2, <1>5, <1>6, <1>7 DEF IInv, Loadable

\* The result of entries(), in the order in which it is written down.
CapturedSeq(late) ==
  SetToSeq({<<k, Captured(late)[k]>> : k \in {j \in Keys : Captured(late)[j] # None}})

\* It has values that the map has, and lacks volatile keys at most.
LEMMA CapturedItems ==
  ASSUME IInv, NEW late \in SUBSET {k \in Keys : db[k] # None /\ db[k].ttl = "pending"},
         NEW seq, seq = CapturedSeq(late)
  PROVE  /\ seq \in Seq(Keys \X Values)
         /\ Len(seq) \in Nat
         /\ FewEntries => Len(seq) <= MaxEntries
         /\ \A k \in Keys :
              /\ \A i \in 1..Len(seq) :
                   seq[i][1] = k => db[k] # None /\ seq[i][2] = db[k].value
              /\ \/ db[k] = None \/ db[k].ttl # "none"
                 \/ \E i \in 1..Len(seq) : seq[i][1] = k
<1>. DEFINE map  == Captured(late)
            keys == {k \in Keys : map[k] # None}
            S    == {<<k, map[k]>> : k \in keys}
<1>. USE Distinct
<1>1. \A k \in keys : db[k] # None /\ map[k] = db[k].value /\ db[k] \in Entry
  BY DEF Captured, IInv, TypeOK
<1>2. \A k \in Keys : db[k] # None /\ db[k].ttl = "none" => k \in keys
  <2>1. \A k \in Keys : db[k] # None => db[k].value # None
    BY DEF IInv, TypeOK
  <2>. QED  BY <2>1 DEF Captured
<1>3. S \subseteq Keys \X Values
  BY <1>1
<1>4. IsFiniteSet(S) /\ Cardinality(S) <= Cardinality(keys) /\ IsFiniteSet(keys)
  <2>1. IsFiniteSet(keys)
    BY PersistenceAssumption, FS_Subset
  <2>. DEFINE f == [k \in keys |-> <<k, map[k]>>]
  <2>2. f \in Surjection(keys, S)
    BY DEF Surjection
  <2>. QED  BY <2>1, <2>2, FS_Surjection
<1>5. /\ seq \in Seq(S) /\ Len(seq) = Cardinality(S) /\ Cardinality(S) \in Nat
      /\ \A x \in S : \E i \in 1..Len(seq) : seq[i] = x
  BY <1>4, SetToSeqProps DEF CapturedSeq
<1>6. seq \in Seq(Keys \X Values)
  BY <1>3, <1>5, SeqMonotonic
<1>7. \A i \in 1..Len(seq) : seq[i] \in S
  BY <1>5, ElementOfSeq
<1>8. ASSUME FewEntries PROVE Len(seq) <= MaxEntries
  <2>1. keys \subseteq {k \in Keys : db[k] # None}
    BY <1>1
  <2>2. IsFiniteSet({k \in Keys : db[k] # None})
    BY PersistenceAssumption, FS_Subset
  <2>3. Cardinality(keys) <= Cardinality({k \in Keys : db[k] # None})
    BY <2>1, <2>2, FS_Subset
  <2>4. Cardinality(keys) \in Nat /\ Cardinality({k \in Keys : db[k] # None}) \in Nat
        /\ MaxEntries \in Nat
    BY <1>4, <2>2, FS_CardinalityType, PersistenceAssumption
  <2>. QED  BY <1>4, <1>5, <1>8, <2>3, <2>4 DEF FewEntries
<1>9. ASSUME NEW k \in Keys, NEW i \in 1..Len(seq), seq[i][1] = k
      PROVE  db[k] # None /\ seq[i][2] = db[k].value
  <2>1. PICK j \in keys : seq[i] = <<j, map[j]>>
    BY <1>7
  <2>. QED  BY <1>1, <1>9, <2>1
<1>10. ASSUME NEW k \in Keys, db[k] # None, db[k].ttl = "none"
       PROVE  \E i \in 1..Len(seq) : seq[i][1] = k
  <2>1. <<k, map[k]>> \in S
    BY <1>2, <1>10
  <2>2. PICK i \in 1..Len(seq) : seq[i] = <<k, map[k]>>
    BY <1>5, <2>1
  <2>3. seq[i][1] = k
    BY <2>2
  <2>. QED  BY <2>3
<1>. QED  BY <1>5, <1>6, <1>8, <1>9, <1>10

\* Capturing the entries and writing their number keeps it.
LEMMA CaptureInv ==
  ASSUME IInv, CaptureEntries
  PROVE  IInv' /\ (Loadable /\ FewEntries => Loadable')
<1>1. PICK late \in SUBSET {k \in Keys : db[k] # None /\ db[k].ttl = "pending"} :
        /\ entries' = CapturedSeq(late)
        /\ Write(Count(Len(entries')))
        /\ pc = "count" /\ pc' = "items"
  BY DEF CaptureEntries, CapturedSeq, Goto
<1>2. /\ entries' \in Seq(Keys \X Values) /\ Len(entries') \in Nat
      /\ FewEntries => Len(entries') <= MaxEntries
      /\ \A k \in Keys :
           /\ \A i \in 1..Len(entries') :
                entries'[i][1] = k => db[k] # None /\ entries'[i][2] = db[k].value
           /\ \/ db[k] = None \/ db[k].ttl # "none"
              \/ \E i \in 1..Len(entries') : entries'[i][1] = k
  BY <1>1, CapturedItems
<1>. DEFINE unit == Count(Len(entries'))
<1>3. unit \in Unit /\ unit.tag = "count" /\ unit.n = Len(entries')
  BY <1>2, UnitTypes DEF Count
<1>4. /\ UNCHANGED <<db, fd, answer, dir, ddir, ddata, restorable, saves, outages>>
      /\ dir[Tmp] \in Inodes /\ fd = dir[Tmp] /\ fd # None
      /\ data' \in [Inodes -> Seq(Unit)]
      /\ data'[dir[Tmp]] = Append(data[dir[Tmp]], unit)
      /\ NamesApart' /\ SnapshotSynced' /\ OnlyRestorable' /\ (FilesLoad => FilesLoad')
  BY <1>1, <1>3, WriteChanges
<1>5. data[dir[Tmp]] = <<Header>>
  BY <1>1 DEF IInv, TemporaryWritten
<1>6. /\ Len(data'[dir'[Tmp]]) = 2
      /\ data'[dir'[Tmp]][1].tag = "header" /\ data'[dir'[Tmp]][2] = unit
  <2>. HIDE DEF unit
  <2>1. Header.tag = "header"
    BY DEF Header
  <2>2. <<Header>> \in Seq(Unit) /\ Len(<<Header>>) = 1 /\ <<Header>>[1] = Header
    BY UnitTypes
  <2>3. data'[dir'[Tmp]] = Append(<<Header>>, unit)
    BY <1>4, <1>5
  <2>4. /\ Len(Append(<<Header>>, unit)) = 2
        /\ Append(<<Header>>, unit)[1] = Header /\ Append(<<Header>>, unit)[2] = unit
    BY <1>3, <2>2, AppendUnit
  <2>. QED  BY <2>1, <2>3, <2>4
<1>. HIDE DEF unit
<1>7. TypeOK'
  BY <1>1, <1>2, <1>4 DEF IInv, TypeOK, SaveSteps
<1>8. TemporaryOpen' /\ RenamedExists' /\ RenamedMatches'
  BY <1>1, <1>4, Distinct DEF TemporaryOpen, RenamedExists, RenamedMatches
<1>9. TemporaryWritten'
  BY <1>1, <1>2, <1>3, <1>6 DEF TemporaryWritten, IsPartOfSnapshot
<1>10. ItemsMatch'
  <2>1. \A i \in 3..Len(data'[dir'[Tmp]]) : FALSE
    BY <1>6
  <2>. QED  BY <1>2, <1>4, <2>1 DEF ItemsMatch
<1>11. FewEntries => CountFits'
  BY <1>2, <1>3, <1>6 DEF CountFits
<1>. QED  BY <1>4, <1>7, <1>8, <1>9, <1>10, <1>11 DEF IInv, Loadable

\* The first of the entries that are left becomes the last of those written.
LEMMA WriteEntryInv ==
  ASSUME IInv, WriteEntry
  PROVE  IInv' /\ (Loadable => Loadable')
<1>. DEFINE unit == Item(Head(entries)[1], Head(entries)[2])
            file == data[dir[Tmp]]
<1>1. /\ pc = "items" /\ pc' = "items" /\ entries # <<>> /\ entries' = Tail(entries)
      /\ Write(unit) /\ Head(entries)[2] \notin OversizeValues
  BY DEF WriteEntry, Goto
<1>2. entries \in Seq(Keys \X Values)
  BY DEF IInv, TypeOK
<1>3. /\ Head(entries) = entries[1] /\ entries[1] \in Keys \X Values
      /\ entries' \in Seq(Keys \X Values)
      /\ Len(entries) \in Nat \ {0} /\ Len(entries') = Len(entries) - 1
      /\ \A i \in 1..Len(entries') : entries'[i] = entries[i + 1]
  BY <1>1, <1>2, HeadTailProperties, EmptySeq
<1>4. /\ unit \in Unit /\ unit.tag = "entry"
      /\ unit.key = entries[1][1] /\ unit.value = entries[1][2]
      /\ unit.value \notin OversizeValues
  BY <1>1, <1>3, UnitTypes DEF Item
<1>5. /\ UNCHANGED <<db, fd, answer, dir, ddir, ddata, restorable, saves, outages>>
      /\ dir[Tmp] \in Inodes /\ fd = dir[Tmp] /\ fd # None
      /\ data' \in [Inodes -> Seq(Unit)]
      /\ file \in Seq(Unit)
      /\ data'[dir[Tmp]] = Append(file, unit)
      /\ NamesApart' /\ SnapshotSynced' /\ OnlyRestorable' /\ (FilesLoad => FilesLoad')
  BY <1>1, <1>4, WriteChanges
<1>. HIDE DEF unit
<1>6. /\ Len(file) \in Nat /\ Len(data'[dir'[Tmp]]) = Len(file) + 1
      /\ \A i \in 1..Len(file) : data'[dir'[Tmp]][i] = file[i]
      /\ data'[dir'[Tmp]][Len(file) + 1] = unit
  BY <1>4, <1>5, AppendUnit
<1>7. IsPartOfSnapshot(file)
  BY <1>1 DEF IInv, TemporaryWritten
<1>8. TypeOK'
  BY <1>1, <1>3, <1>5 DEF IInv, TypeOK, SaveSteps
<1>9. TemporaryOpen' /\ RenamedExists' /\ RenamedMatches'
  BY <1>1, <1>5, Distinct DEF TemporaryOpen, RenamedExists, RenamedMatches
<1>. DEFINE file2 == data'[dir'[Tmp]]
<1>10. TemporaryWritten'
  <2>1. /\ Len(file) >= 2 /\ file[1].tag = "header" /\ file[2].tag = "count"
        /\ file[2].n = Len(file) - 2 + Len(entries)
        /\ \A i \in 3..Len(file) : file[i].tag = "entry" /\ file[i].value \notin OversizeValues
    BY <1>7 DEF IsPartOfSnapshot
  <2>2. file2[1] = file[1] /\ file2[2] = file[2] /\ Len(file2) = Len(file) + 1
    BY <1>6, <2>1
  <2>3. file2[2].n = Len(file2) - 2 + Len(entries')
    BY <1>3, <1>6, <2>1, <2>2
  <2>4. ASSUME NEW i \in 3..Len(file2)
        PROVE  file2[i].tag = "entry" /\ file2[i].value \notin OversizeValues
    <3>1. CASE i = Len(file) + 1
      BY <1>4, <1>6, <3>1
    <3>2. CASE i # Len(file) + 1
      <4>1. i \in 3..Len(file) /\ i \in 1..Len(file)
        BY <1>6, <3>2
      <4>. QED  BY <1>6, <2>1, <4>1
    <3>. QED  BY <3>1, <3>2
  <2>5. IsPartOfSnapshot(data[dir[Tmp]])'
    BY <1>6, <2>1, <2>2, <2>3, <2>4 DEF IsPartOfSnapshot
  <2>. QED  BY <1>1, <2>5 DEF TemporaryWritten
<1>11. ItemsMatch'
  <2>1. Len(file) >= 2
    BY <1>7 DEF IsPartOfSnapshot
  <2>2. SUFFICES ASSUME NEW k \in Keys
        PROVE  /\ \A i \in 3..Len(file2) :
                    file2[i].key = k => db[k] # None /\ file2[i].value = db[k].value
               /\ \A i \in 1..Len(entries') :
                    entries'[i][1] = k => db[k] # None /\ entries'[i][2] = db[k].value
               /\ \/ db[k] = None \/ db[k].ttl # "none"
                  \/ \E i \in 3..Len(file2) : file2[i].key = k
                  \/ \E i \in 1..Len(entries') : entries'[i][1] = k
    BY <1>5 DEF ItemsMatch
  <2>3. /\ \A i \in 3..Len(file) :
             file[i].key = k => db[k] # None /\ file[i].value = db[k].value
        /\ \A i \in 1..Len(entries) :
             entries[i][1] = k => db[k] # None /\ entries[i][2] = db[k].value
        /\ \/ db[k] = None \/ db[k].ttl # "none"
           \/ \E i \in 3..Len(file) : file[i].key = k
           \/ \E i \in 1..Len(entries) : entries[i][1] = k
    BY <1>1 DEF IInv, ItemsMatch
  <2>4. ASSUME NEW i \in 3..Len(file2), file2[i].key = k
        PROVE  db[k] # None /\ file2[i].value = db[k].value
    <3>1. CASE i = Len(file) + 1
      BY <1>3, <1>4, <1>6, <2>3, <2>4, <3>1
    <3>2. CASE i # Len(file) + 1
      <4>1. i \in 3..Len(file) /\ i \in 1..Len(file)
        BY <1>6, <2>1, <3>2
      <4>2. file2[i] = file[i]
        BY <1>6, <4>1
      <4>. QED  BY <2>3, <2>4, <4>1, <4>2
    <3>. QED  BY <3>1, <3>2
  <2>5. ASSUME NEW i \in 1..Len(entries'), entries'[i][1] = k
        PROVE  db[k] # None /\ entries'[i][2] = db[k].value
    BY <1>3, <2>3, <2>5
  <2>6. ASSUME NEW i \in 3..Len(file), file[i].key = k
        PROVE  \E j \in 3..Len(file2) : file2[j].key = k
    <3>1. i \in 3..Len(file2) /\ i \in 1..Len(file)
      BY <1>6, <2>1
    <3>2. file2[i] = file[i]
      BY <1>6, <3>1
    <3>. QED  BY <2>6, <3>1, <3>2
  <2>7. ASSUME NEW i \in 1..Len(entries), entries[i][1] = k
        PROVE  \/ \E j \in 3..Len(file2) : file2[j].key = k
               \/ \E j \in 1..Len(entries') : entries'[j][1] = k
    <3>1. CASE i = 1
      <4>1. Len(file) + 1 \in 3..Len(file2) /\ file2[Len(file) + 1].key = k
        BY <1>4, <1>6, <2>1, <2>7, <3>1
      <4>. QED  BY <4>1
    <3>2. CASE i # 1
      <4>1. i - 1 \in 1..Len(entries') /\ entries'[i - 1] = entries[(i - 1) + 1]
        BY <1>3, <3>2
      <4>2. (i - 1) + 1 = i
        OBVIOUS
      <4>. QED  BY <2>7, <4>1, <4>2
    <3>. QED  BY <3>1, <3>2
  <2>. QED  BY <2>3, <2>4, <2>5, <2>6, <2>7
<1>12. CountFits => CountFits'
  BY <1>1, <1>6, <1>7 DEF CountFits, IsPartOfSnapshot
<1>. QED  BY <1>5, <1>8, <1>9, <1>10, <1>11, <1>12 DEF IInv, Loadable

\* The end of the entries keeps it: the temporary file is complete.
LEMMA EndOfEntriesInv ==
  ASSUME IInv, EndOfEntries
  PROVE  IInv' /\ (Loadable => Loadable')
<1>1. /\ pc = "items" /\ pc' = "fsync" /\ entries = <<>>
      /\ UNCHANGED <<db, fd, entries, answer, dir, data, ddir, ddata, restorable,
                     saves, outages>>
  BY DEF EndOfEntries, Goto, kernel, disk, bounds
<1>2. TypeOK'
  BY <1>1, Distinct DEF IInv, TypeOK, SaveSteps, TemporaryOpen
<1>3. TemporaryOpen' /\ RenamedExists' /\ NamesApart' /\ SnapshotSynced' /\ OnlyRestorable'
  BY <1>1 DEF IInv, TemporaryOpen, RenamedExists, NamesApart, SnapshotSynced,
              OnlyRestorable, Loaded
<1>4. TemporaryWritten' /\ ItemsMatch' /\ RenamedMatches'
  BY <1>1 DEF IInv, TemporaryWritten, IsPartOfSnapshot, ItemsMatch, RenamedMatches
<1>5. Loadable => Loadable'
  BY <1>1 DEF Loadable, FilesLoad, Loads, CountFits
<1>. QED  BY <1>2, <1>3, <1>4, <1>5 DEF IInv

\* What is synced is the temporary file and not the snapshot on the disk.
LEMMA FsyncFileInv ==
  ASSUME IInv, FsyncFile
  PROVE  IInv' /\ (Loadable => Loadable')
<1>. USE Distinct
<1>1. /\ pc = "fsync" /\ pc' = "rename" /\ fd' = None
      /\ ddata' = [ddata EXCEPT ![fd] = data[fd]]
      /\ UNCHANGED <<db, entries, answer, dir, data, ddir, restorable, saves, outages>>
  BY DEF FsyncFile, Goto, kernel, bounds
<1>2. dir[Tmp] \in Inodes /\ fd = dir[Tmp]
  BY <1>1 DEF IInv, TypeOK, TemporaryOpen
<1>3. /\ ddata' \in [Inodes -> Seq(Unit)]
      /\ ddata'[dir[Tmp]] = data[dir[Tmp]]
      /\ \A i \in Inodes : i # dir[Tmp] => ddata'[i] = ddata[i]
  BY <1>1, <1>2 DEF IInv, TypeOK
<1>4. TypeOK'
  BY <1>1, <1>3 DEF IInv, TypeOK, SaveSteps
<1>5. TemporaryOpen' /\ RenamedExists' /\ NamesApart'
  BY <1>1, <1>2 DEF IInv, TemporaryOpen, RenamedExists, NamesApart
<1>6. SnapshotSynced'
  BY <1>1, <1>3 DEF IInv, TypeOK, SnapshotSynced, NamesApart
<1>7. /\ Loaded(ddir', ddata') = Loaded(ddir, ddata)
      /\ (Loads(ddir', ddata') <=> Loads(ddir, ddata))
  <2>1. ddir[Rdb] # None => ddata'[ddir[Rdb]] = ddata[ddir[Rdb]]
    BY <1>3 DEF IInv, TypeOK, NamesApart
  <2>2. ddir'[Rdb] = ddir[Rdb]
    BY <1>1
  <2>. QED  BY <2>1, <2>2, LoadedCong
<1>8. OnlyRestorable'
  BY <1>1, <1>7 DEF IInv, OnlyRestorable
<1>9. TemporaryWritten' /\ ItemsMatch' /\ RenamedMatches'
  BY <1>1, <1>3 DEF IInv, TemporaryWritten, IsPartOfSnapshot, ItemsMatch, RenamedMatches
<1>10. Loadable => Loadable'
  BY <1>1, <1>7 DEF Loadable, FilesLoad, CountFits
<1>. QED  BY <1>4, <1>5, <1>6, <1>8, <1>9, <1>10 DEF IInv

\* The file that is renamed is complete: it is what entries() captured.
LEMMA FileIsSnapshot ==
  ASSUME IInv, pc = "rename"
  PROVE  LET file == data[dir[Tmp]] IN
         /\ dir[Tmp] \in Inodes /\ file \in Seq(Unit)
         /\ IsSnapshotOf(Contents(file))
         /\ CountFits => Readable(file)
<1>. DEFINE file == data[dir[Tmp]]
<1>1. dir[Tmp] \in Inodes /\ file \in Seq(Unit) /\ Len(file) \in Nat
  BY Distinct, LenProperties DEF IInv, TypeOK, TemporaryOpen
<1>2. /\ Len(file) >= 2 /\ file[1].tag = "header" /\ file[2].tag = "count"
      /\ entries = <<>> /\ file[2].n = Len(file) - 2
      /\ \A i \in 3..Len(file) :
           file[i].tag = "entry" /\ file[i].value \notin OversizeValues
  <2>1. IsPartOfSnapshot(file) /\ entries = <<>>
    BY DEF IInv, TemporaryWritten
  <2>2. Len(<<>>) = 0
    OBVIOUS
  <2>. QED  BY <1>1, <2>1, <2>2 DEF IsPartOfSnapshot
<1>3. ASSUME NEW k \in Keys
      PROVE  \/ Contents(file)[k] = IF db[k] = None THEN None ELSE db[k].value
             \/ Contents(file)[k] = None /\ db[k] # None /\ db[k].ttl # "none"
  <2>1. /\ \A i \in 3..Len(file) :
             file[i].key = k => db[k] # None /\ file[i].value = db[k].value
        /\ \/ db[k] = None \/ db[k].ttl # "none"
           \/ \E i \in 3..Len(file) : file[i].key = k
    BY <1>2 DEF IInv, ItemsMatch
  <2>2. \A i \in 3..Len(file) : i <= 2 + file[2].n
    BY <1>1, <1>2
  <2>3. CASE /\ Contents(file)[k] = None
             /\ \A i \in 3..Len(file) : i <= 2 + file[2].n => file[i].key # k
    BY <2>1, <2>2, <2>3
  <2>4. CASE \E i \in 3..Len(file) : /\ i <= 2 + file[2].n /\ file[i].key = k
                                     /\ Contents(file)[k] = file[i].value
    BY <2>1, <2>4
  <2>. QED  BY <1>1, <2>3, <2>4, ContentsOf
<1>4. CountFits => Readable(file)
  <2>1. Len(file) >= 2 + file[2].n /\ 2 + file[2].n = Len(file)
    BY <1>1, <1>2
  <2>2. CountFits => file[2].n <= MaxEntries
    BY DEF CountFits
  <2>. QED  BY <1>2, <2>1, <2>2 DEF Readable
<1>. QED  BY <1>1, <1>3, <1>4 DEF IsSnapshotOf

\* The rename keeps it: the new snapshot was synced, and a restart may bring it back.
LEMMA RenameInv ==
  ASSUME IInv, Rename
  PROVE  IInv' /\ (Loadable => Loadable')
<1>. USE Distinct
<1>. DEFINE file == data[dir[Tmp]]
<1>1. /\ pc = "rename" /\ pc' = "syncdir"
      /\ dir' = [dir EXCEPT ![Rdb] = dir[Tmp], ![Tmp] = None]
      /\ data' = Reclaim(dir', data)
      /\ restorable' = restorable \cup {Contents(file)}
      /\ UNCHANGED <<db, fd, entries, answer, ddir, ddata, saves, outages>>
  BY DEF Rename, Goto, Rdb, Tmp, disk, bounds
<1>2. /\ dir[Tmp] \in Inodes /\ file \in Seq(Unit)
      /\ IsSnapshotOf(Contents(file))
      /\ CountFits => Readable(file)
  BY <1>1, FileIsSnapshot
<1>3. /\ dir' \in [Names -> Inodes \cup {None}]
      /\ dir'[Rdb] = dir[Tmp] /\ dir'[Tmp] = None
  BY <1>1, <1>2 DEF IInv, TypeOK
<1>4. data' \in [Inodes -> Seq(Unit)] /\ data'[dir'[Rdb]] = file
  BY <1>1, <1>2, <1>3, ReclaimKeeps DEF IInv, TypeOK
<1>5. TypeOK'
  <2>1. Contents(file) \in Maps
    BY <1>2, ContentsType
  <2>. QED  BY <1>1, <1>3, <1>4, <2>1 DEF IInv, TypeOK, SaveSteps
<1>6. TemporaryOpen' /\ RenamedExists' /\ TemporaryWritten' /\ ItemsMatch' /\ CountFits'
  BY <1>1, <1>2, <1>3
  DEF TemporaryOpen, RenamedExists, TemporaryWritten, ItemsMatch, CountFits
<1>7. NamesApart'
  BY <1>1, <1>2, <1>3 DEF IInv, NamesApart
<1>8. SnapshotSynced'
  BY <1>1, <1>3, <1>4 DEF IInv, TemporaryWritten, SnapshotSynced
<1>9. RenamedMatches'
  BY <1>1, <1>2, <1>4 DEF RenamedMatches, IsSnapshotOf
<1>10. Loaded(dir', data') = Contents(file) /\ (CountFits => Loads(dir', data'))
  BY <1>2, <1>3, <1>4 DEF Loaded, Loads, Rdb
<1>11. OnlyRestorable'
  BY <1>1, <1>10 DEF IInv, OnlyRestorable
<1>12. Loadable => Loadable'
  BY <1>1, <1>6, <1>10 DEF Loadable, FilesLoad
<1>. QED  BY <1>5, <1>6, <1>7, <1>8, <1>9, <1>11, <1>12 DEF IInv

\* The disk gets the names that the kernel shows.
LEMMA DirectoryWritten ==
  ASSUME IInv, ddir' = dir, ddata' = Reclaim(ddir', ddata), UNCHANGED kernel
  PROVE  /\ ddata' \in [Inodes -> Seq(Unit)]
         /\ dir[Tmp] # None => ddata'[dir[Tmp]] = ddata[dir[Tmp]]
         /\ NamesApart' /\ SnapshotSynced'
         /\ Loaded(ddir', ddata') = Loaded(dir, data)
         /\ (Loads(ddir', ddata') <=> Loads(dir, data))
<1>. USE Distinct
<1>1. /\ ddata' \in [Inodes -> Seq(Unit)]
      /\ \A n \in Names : dir[n] # None => ddata'[dir[n]] = ddata[dir[n]]
  <2>1. dir \in [Names -> Inodes \cup {None}] /\ ddata \in [Inodes -> Seq(Unit)]
    BY DEF IInv, TypeOK
  <2>2. ddata' = Reclaim(dir, ddata)
    OBVIOUS
  <2>. QED  BY <2>1, <2>2, ReclaimKeeps
<1>2. NamesApart' /\ SnapshotSynced'
  BY <1>1 DEF IInv, NamesApart, SnapshotSynced, kernel
<1>3. dir[Rdb] # None => ddata'[dir[Rdb]] = data[dir[Rdb]]
  BY <1>1 DEF IInv, SnapshotSynced
<1>4. /\ Loaded(ddir', ddata') = Loaded(dir, data)
      /\ (Loads(ddir', ddata') <=> Loads(dir, data))
  <2>1. ddir'[Rdb] = dir[Rdb] /\ (ddir'[Rdb] # None => ddata'[ddir'[Rdb]] = data[dir[Rdb]])
    BY <1>3
  <2>. QED  BY <2>1, LoadedCong
<1>. QED  BY <1>1, <1>2, <1>4

\* Syncing the directory keeps it: no older snapshot can come back.
LEMMA FsyncDirectoryInv ==
  ASSUME IInv, FsyncDirectory
  PROVE  IInv' /\ (Loadable => Loadable')
<1>1. /\ pc = "syncdir" /\ pc' = "idle" /\ answer' = "OK"
      /\ ddir' = dir /\ ddata' = Reclaim(ddir', ddata)
      /\ restorable' = {Contents(data[dir[Rdb]])}
      /\ UNCHANGED kernel
      /\ UNCHANGED <<db, fd, entries, dir, data, saves, outages>>
  BY DEF FsyncDirectory, Goto, Rdb, kernel, bounds
<1>2. /\ ddata' \in [Inodes -> Seq(Unit)] /\ NamesApart' /\ SnapshotSynced'
      /\ Loaded(ddir', ddata') = Loaded(dir, data)
      /\ (Loads(ddir', ddata') <=> Loads(dir, data))
  BY <1>1, DirectoryWritten
<1>3. dir[Rdb] \in Inodes /\ data[dir[Rdb]] \in Seq(Unit)
  BY <1>1, Distinct DEF IInv, TypeOK, RenamedExists
<1>4. Loaded(dir, data) = Contents(data[dir[Rdb]])
  BY <1>3, Distinct DEF Loaded, Rdb
<1>5. TypeOK'
  BY <1>1, <1>2, <1>3, ContentsType DEF IInv, TypeOK
<1>6. OnlyRestorable'
  BY <1>1, <1>2, <1>4 DEF OnlyRestorable, Loaded
<1>7. TemporaryOpen' /\ RenamedExists' /\ TemporaryWritten' /\ ItemsMatch' /\ RenamedMatches'
      /\ CountFits'
  BY <1>1 DEF TemporaryOpen, RenamedExists, TemporaryWritten, ItemsMatch, RenamedMatches,
              CountFits
<1>8. Loadable => Loadable'
  BY <1>1, <1>2, <1>7 DEF Loadable, FilesLoad, Loads
<1>. QED  BY <1>2, <1>5, <1>6, <1>7, <1>8 DEF IInv

-----------------------------------------------------------------------------
(* The steps of the file system.                                           *)

\* There is nothing left to write back of a snapshot.
LEMMA WriteBackDataInv ==
  ASSUME IInv, NEW i \in Inodes, WriteBackData(i)
  PROVE  IInv' /\ (Loadable => Loadable')
<1>. USE Distinct
<1>1. PICK n \in 0..Len(data[i]) :
        /\ IsPrefix(ddata[i], data[i]) => n > Len(ddata[i])
        /\ ddata' = [ddata EXCEPT ![i] = SubSeq(data[i], 1, n)]
  BY DEF WriteBackData
<1>2. /\ i \in Linked(dir)
      /\ UNCHANGED <<pc, db, fd, entries, answer, dir, data, ddir, restorable, saves,
                     outages>>
  BY DEF WriteBackData, process, kernel, bounds
<1>3. data[i] \in Seq(Unit) /\ Len(data[i]) \in Nat
  BY LenProperties DEF IInv, TypeOK
<1>4. ddata[i] # data[i]
  <2>1. SUFFICES ASSUME ddata[i] = data[i] PROVE FALSE
    OBVIOUS
  <2>2. IsPrefix(ddata[i], data[i])
    BY <1>3, <2>1 DEF IsPrefix
  <2>. QED  BY <1>1, <1>3, <2>1, <2>2
<1>5. i = dir[Tmp] /\ pc # "rename" /\ dir[Rdb] # i /\ ddir[Rdb] # i
  <2>1. i \in {dir[Tmp], dir[Rdb]}
    BY <1>2 DEF Linked, Names, Tmp, Rdb
  <2>2. dir[Rdb] # i
    BY <1>4 DEF IInv, SnapshotSynced
  <2>3. i = dir[Tmp]
    BY <2>1, <2>2
  <2>. QED  BY <1>4, <2>2, <2>3 DEF IInv, TemporaryWritten, NamesApart
<1>6. /\ ddata' \in [Inodes -> Seq(Unit)]
      /\ \A j \in Inodes : j # i => ddata'[j] = ddata[j]
  <2>1. SubSeq(data[i], 1, n) \in Seq(Unit)
    BY <1>3, SubSeqProperties
  <2>. QED  BY <1>1, <2>1 DEF IInv, TypeOK
<1>7. TypeOK'
  BY <1>2, <1>6 DEF IInv, TypeOK
<1>8. /\ Loaded(ddir', ddata') = Loaded(ddir, ddata)
      /\ (Loads(ddir', ddata') <=> Loads(ddir, ddata))
  <2>1. ddir[Rdb] # None => ddata'[ddir[Rdb]] = ddata[ddir[Rdb]]
    BY <1>5, <1>6 DEF IInv, TypeOK
  <2>2. ddir'[Rdb] = ddir[Rdb]
    BY <1>2
  <2>. QED  BY <2>1, <2>2, LoadedCong
<1>9. OnlyRestorable' /\ (Loadable => Loadable')
  BY <1>2, <1>8 DEF IInv, OnlyRestorable, Loadable, FilesLoad, CountFits
<1>10. NamesApart' /\ SnapshotSynced'
  BY <1>2, <1>5, <1>6 DEF IInv, TypeOK, NamesApart, SnapshotSynced
<1>11. TemporaryOpen' /\ RenamedExists' /\ TemporaryWritten' /\ ItemsMatch' /\ RenamedMatches'
  BY <1>2, <1>5 DEF IInv, TemporaryOpen, RenamedExists, TemporaryWritten, IsPartOfSnapshot,
                    ItemsMatch, RenamedMatches, IsSnapshotOf
<1>. QED  BY <1>7, <1>9, <1>10, <1>11 DEF IInv

\* Write-back of the directory keeps it, since what it names is synced.
LEMMA WriteBackDirectoryInv ==
  ASSUME IInv, WriteBackDirectory
  PROVE  IInv' /\ (Loadable => Loadable')
<1>. USE Distinct
<1>1. /\ ddir' = dir /\ ddata' = Reclaim(ddir', ddata)
      /\ UNCHANGED kernel
      /\ UNCHANGED <<pc, db, fd, entries, answer, dir, data, restorable, saves, outages>>
  BY DEF WriteBackDirectory, process, kernel, bounds
<1>2. /\ ddata' \in [Inodes -> Seq(Unit)]
      /\ dir[Tmp] # None => ddata'[dir[Tmp]] = ddata[dir[Tmp]]
      /\ NamesApart' /\ SnapshotSynced'
      /\ Loaded(ddir', ddata') = Loaded(dir, data)
      /\ (Loads(ddir', ddata') <=> Loads(dir, data))
  BY <1>1, DirectoryWritten
<1>3. TypeOK'
  BY <1>1, <1>2 DEF IInv, TypeOK
<1>4. OnlyRestorable' /\ (Loadable => Loadable')
  BY <1>1, <1>2 DEF IInv, OnlyRestorable, Loaded, Loadable, FilesLoad, Loads, CountFits
<1>5. TemporaryOpen' /\ RenamedExists' /\ ItemsMatch' /\ RenamedMatches'
  BY <1>1 DEF IInv, TemporaryOpen, RenamedExists, ItemsMatch, RenamedMatches, IsSnapshotOf
<1>6. TemporaryWritten'
  BY <1>1, <1>2 DEF IInv, TemporaryOpen, TemporaryWritten, IsPartOfSnapshot
<1>. QED  BY <1>2, <1>3, <1>4, <1>5, <1>6 DEF IInv

\* What is left after a power failure is what was on the disk.
LEMMA PowerFailureInv ==
  ASSUME IInv, PowerFailure
  PROVE  IInv' /\ (Loadable => Loadable')
<1>. USE Distinct
<1>1. /\ pc' = "down" /\ fd' = None /\ entries' = <<>>
      /\ outages' = outages + 1 /\ outages < MaxOutages
      /\ dir' = ddir /\ data' = Reclaim(ddir, ddata) /\ ddata' = Reclaim(ddir, ddata)
      /\ UNCHANGED <<db, answer, ddir, restorable, saves>>
  BY DEF PowerFailure, GoDown
<1>2. /\ data' \in [Inodes -> Seq(Unit)] /\ ddata' = data'
      /\ \A n \in Names : ddir[n] # None => data'[ddir[n]] = ddata[ddir[n]]
  <2>1. ddir \in [Names -> Inodes \cup {None}] /\ ddata \in [Inodes -> Seq(Unit)]
    BY DEF IInv, TypeOK
  <2>. QED  BY <1>1, <2>1, ReclaimKeeps
<1>3. outages' \in 0..MaxOutages /\ <<>> \in Seq(Keys \X Values)
  BY <1>1, PersistenceAssumption, EmptySeq DEF IInv, TypeOK
<1>4. TypeOK'
  BY <1>1, <1>2, <1>3 DEF IInv, TypeOK
<1>5. NamesApart' /\ SnapshotSynced'
  BY <1>1, <1>2 DEF IInv, NamesApart, SnapshotSynced
<1>6. /\ Loaded(dir', data') = Loaded(ddir, ddata)
      /\ (Loads(dir', data') <=> Loads(ddir, ddata))
  BY <1>1, <1>2, LoadedCong
<1>7. Loaded(ddir', ddata') = Loaded(dir', data') /\ (Loads(ddir', ddata') <=> Loads(dir', data'))
  BY <1>1, <1>2, LoadedCong
<1>8. TemporaryOpen' /\ RenamedExists' /\ TemporaryWritten' /\ ItemsMatch' /\ RenamedMatches'
      /\ CountFits'
  BY <1>1 DEF TemporaryOpen, RenamedExists, TemporaryWritten, ItemsMatch, RenamedMatches,
              CountFits
<1>9. OnlyRestorable' /\ (Loadable => Loadable')
  BY <1>1, <1>6, <1>7, <1>8 DEF IInv, OnlyRestorable, Loadable, FilesLoad
<1>. QED  BY <1>4, <1>5, <1>8, <1>9 DEF IInv

-----------------------------------------------------------------------------
(* The invariants.                                                         *)

\* A step that changes nothing keeps it.
LEMMA StutterInv ==
  ASSUME IInv, UNCHANGED vars
  PROVE  IInv' /\ (Loadable => Loadable')
<1>1. UNCHANGED <<pc, db, fd, entries, answer, dir, data, ddir, ddata, restorable, saves,
                  outages>>
  BY DEF vars, process, kernel, disk, bounds
<1>2. TypeOK' /\ TemporaryOpen' /\ RenamedExists' /\ NamesApart' /\ SnapshotSynced'
  BY <1>1 DEF IInv, TypeOK, TemporaryOpen, RenamedExists, NamesApart, SnapshotSynced
<1>3. TemporaryWritten' /\ ItemsMatch' /\ RenamedMatches' /\ OnlyRestorable'
  BY <1>1 DEF IInv, TemporaryWritten, IsPartOfSnapshot, ItemsMatch, RenamedMatches,
              IsSnapshotOf, OnlyRestorable, Loaded
<1>4. Loadable => Loadable'
  BY <1>1 DEF Loadable, FilesLoad, Loads, CountFits
<1>. QED  BY <1>2, <1>3, <1>4 DEF IInv

\* Of all the steps, only the one that writes the number of entries needs that
\* there are not too many of them.
LEMMA NextInv ==
  ASSUME IInv, [Next]_vars
  PROVE  IInv' /\ (Loadable /\ FewEntries => Loadable')
<1>1. ASSUME NEW k \in Keys, NEW v \in Values, Set(k, v)
      PROVE  IInv' /\ (Loadable => Loadable')
  <2>1. [value |-> v, ttl |-> "none"] \in Entry
    BY DEF Entry, Ttl
  <2>. QED  BY <1>1, <2>1, CommandInv DEF Set
<1>2. ASSUME NEW k \in Keys, Del(k)
      PROVE  IInv' /\ (Loadable => Loadable')
  BY <1>2, CommandInv DEF Del
<1>3. ASSUME NEW k \in Keys, NEW ttl \in {"pending", "passed"}, Expire(k, ttl)
      PROVE  IInv' /\ (Loadable => Loadable')
  BY <1>3, ExpireInv
<1>4. ASSUME NEW k \in Keys, Pass(k)
      PROVE  IInv' /\ (Loadable => Loadable')
  BY <1>4, PassInv
<1>5. ASSUME Save
      PROVE  IInv' /\ (Loadable /\ FewEntries => Loadable')
  <2>1. CASE SaveBegin \/ SaveFails
    BY <2>1, BeginFailExitInv
  <2>2. CASE OpenTemporary
    BY <2>2, OpenInv
  <2>3. CASE WriteHeader
    BY <2>3, WriteHeaderInv
  <2>4. CASE CaptureEntries
    BY <2>4, CaptureInv
  <2>5. CASE WriteEntry
    BY <2>5, WriteEntryInv
  <2>6. CASE EndOfEntries
    BY <2>6, EndOfEntriesInv
  <2>7. CASE FsyncFile
    BY <2>7, FsyncFileInv
  <2>8. CASE Rename
    BY <2>8, RenameInv
  <2>9. CASE FsyncDirectory
    BY <2>9, FsyncDirectoryInv
  <2>. QED
    BY <1>5, <2>1, <2>2, <2>3, <2>4, <2>5, <2>6, <2>7, <2>8, <2>9 DEF Save
<1>6. ASSUME NEW i \in Inodes, WriteBackData(i)
      PROVE  IInv' /\ (Loadable => Loadable')
  BY <1>6, WriteBackDataInv
<1>7. CASE WriteBackDirectory
  BY <1>7, WriteBackDirectoryInv
<1>8. CASE Exit
  BY <1>8, BeginFailExitInv
<1>9. CASE PowerFailure
  BY <1>9, PowerFailureInv
<1>10. CASE Start
  BY <1>10, StartInv
<1>11. CASE UNCHANGED vars
  BY <1>11, StutterInv
<1>. QED
  BY <1>1, <1>2, <1>3, <1>4, <1>5, <1>6, <1>7, <1>8, <1>9, <1>10, <1>11 DEF Next

\* The inductive invariant: the two names never share an inode, what is called
\* dump.rdb was synced before it got that name, and at each step of SAVE the
\* temporary file and what is left of the entries make up the map.
THEOREM Inductive == Spec => []IInv
<1>1. Init => IInv
  BY InitInv
<1>2. IInv /\ [Next]_vars => IInv'
  BY NextInv
<1>. QED  BY <1>1, <1>2, PTL DEF Spec

\* Every variable keeps its type; the counters stay within their bounds, and
\* SAVE writes only while its temporary file is open.
THEOREM TypeCorrect == Spec => []TypeOK
<1>1. IInv => TypeOK
  BY DEF IInv
<1>. QED  BY <1>1, Inductive, PTL

\* Whenever the process or the power fails, the snapshot that recover_snapshot()
\* finds is one that was acknowledged last, or that a later SAVE has renamed:
\* nothing of a SAVE that failed before its rename.
THEOREM NoOtherSnapshot == Spec => []OnlyRestorable
<1>1. IInv => OnlyRestorable
  BY DEF IInv
<1>. QED  BY <1>1, Inductive, PTL

\* As long as the map does not outgrow what recovery accepts, the next start
\* also loads that snapshot whole: no torn or unsynced file has its name.
THEOREM SnapshotDurable == Spec /\ []FewEntries => []DurableSnapshot
<1>1. Init => Loadable
  BY Distinct DEF Init, Loadable, FilesLoad, Loads, CountFits, Names
<1>2. IInv /\ Loadable /\ FewEntries /\ [Next]_vars => Loadable'
  BY NextInv
<1>3. IInv /\ Loadable => DurableSnapshot
  BY DEF IInv, OnlyRestorable, Loadable, FilesLoad, DurableSnapshot
<1>. QED  BY <1>1, <1>2, <1>3, Inductive, PTL DEF Spec

-----------------------------------------------------------------------------
(* Files implement the snapshot store.                                     *)

View == [k \in Keys |-> IF pc = "down" \/ db[k] = None THEN None ELSE db[k].value]
Volatile == {k \in Keys : pc # "down" /\ db[k] # None /\ db[k].ttl # "none"}

\* The system begins as SnapshotStore does.
LEMMA RefineInit == Init => Saved!Init
<1>. SUFFICES ASSUME Init PROVE Saved!Init
  OBVIOUS
<1>1. View = EmptyMap /\ Volatile = {}
  BY DEF Init, View, Volatile, EmptyMap
<1>. QED  BY <1>1 DEF Init, View, Volatile, Saved!Init, Saved!EmptyMap, EmptyMap

\* Steps of which a client sees nothing, before or after a restart.
LEMMA RefineStutter ==
  ASSUME UNCHANGED <<db, answer, restorable>>, pc = "down" <=> pc' = "down"
  PROVE  UNCHANGED Saved!vars
<1>1. View' = View /\ Volatile' = Volatile
  BY DEF View, Volatile
<1>. QED  BY <1>1 DEF View, Volatile, Saved!vars

\* A snapshot of the map is one of the view.
LEMMA IsSnapshotCong ==
  ASSUME pc # "down", NEW m, IsSnapshotOf(m)
  PROVE  Saved!IsSnapshot(m)
  BY DEF IsSnapshotOf, Saved!IsSnapshot

\* SET, DEL, EXPIRE and a purge each change one key of the map.
LEMMA RefineCommand ==
  ASSUME IInv, NEW k \in Keys, NEW entry \in Entry \cup {None}, Command(k, entry),
         entry = None \/ entry.ttl = "none" \/ db[k] # None
  PROVE  Saved!Command(k)
<1>. USE Distinct
<1>. DEFINE v == IF entry = None THEN None ELSE entry.value
<1>1. /\ pc = "idle" /\ pc' = "idle" /\ db' = [db EXCEPT ![k] = entry]
      /\ answer' = "none" /\ restorable' = restorable
  BY DEF Command
<1>2. db'[k] = entry /\ \A j \in Keys : j # k => db'[j] = db[j]
  BY <1>1 DEF IInv, TypeOK
<1>3. v \in Values \cup {None} /\ View' = [View EXCEPT ![k] = v]
  <2>1. v \in Values \cup {None}
    OBVIOUS
  <2>2. View'[k] = v
    BY <1>1, <1>2 DEF View
  <2>3. \A j \in Keys : j # k => View'[j] = View[j]
    BY <1>1, <1>2 DEF View
  <2>4. View = [j \in Keys |-> View[j]] /\ View' = [j \in Keys |-> View'[j]]
    BY DEF View
  <2>. HIDE DEF v
  <2>5. View' = [View EXCEPT ![k] = v]
    BY <2>2, <2>3, <2>4
  <2>. QED  BY <2>1, <2>5
<1>4. View'[k] = v
  BY <1>3 DEF View
<1>5. \/ Volatile' = Volatile \ {k}
      \/ View'[k] # None /\ Volatile' = Volatile \cup {k}
  <2>1. CASE entry = None \/ entry.ttl = "none"
    BY <1>1, <1>2, <2>1 DEF Volatile
  <2>2. CASE entry # None /\ entry.ttl # "none"
    <3>1. v # None
      BY <2>2
    <3>2. Volatile' = Volatile \cup {k}
      BY <1>1, <1>2, <2>2 DEF Volatile
    <3>. QED  BY <1>4, <3>1, <3>2
  <2>. QED  BY <2>1, <2>2
<1>. QED  BY <1>1, <1>3, <1>5 DEF View, Volatile, Saved!Command

\* EXPIRE is a step of SnapshotStore.
LEMMA RefineExpire ==
  ASSUME IInv, NEW k \in Keys, NEW ttl \in {"pending", "passed"}, Expire(k, ttl)
  PROVE  Saved!Command(k)
<1>1. db[k] \in Entry /\ db[k] # None
  BY DEF Expire, IInv, TypeOK
<1>2. [db[k] EXCEPT !.ttl = ttl] \in Entry
  BY <1>1 DEF Entry, Ttl
<1>. QED  BY <1>1, <1>2, RefineCommand DEF Expire

\* A deadline that passes leaves the key volatile until it is purged.
LEMMA RefinePass ==
  ASSUME IInv, NEW k \in Keys, Pass(k)
  PROVE  UNCHANGED Saved!vars
<1>. USE Distinct
<1>1. /\ UNCHANGED <<pc, answer, restorable>> /\ pc # "down"
      /\ db[k] \in Entry /\ db[k] # None /\ db[k].ttl = "pending"
      /\ db' = [db EXCEPT ![k] = [db[k] EXCEPT !.ttl = "passed"]]
  BY DEF Pass, IInv, TypeOK
<1>2. [db[k] EXCEPT !.ttl = "passed"] \in Entry
  BY <1>1 DEF Entry, Ttl
<1>3. /\ db'[k] = [db[k] EXCEPT !.ttl = "passed"] /\ db'[k] # None
      /\ \A j \in Keys : j # k => db'[j] = db[j]
  BY <1>1, <1>2 DEF IInv, TypeOK
<1>4. db'[k].value = db[k].value /\ db'[k].ttl = "passed"
  BY <1>1, <1>3 DEF Entry
<1>5. View' = View /\ Volatile' = Volatile
  BY <1>1, <1>3, <1>4 DEF View, Volatile
<1>. QED  BY <1>1, <1>5 DEF View, Volatile, Saved!vars

\* The rename makes one more map restorable.
LEMMA RefineRename ==
  ASSUME IInv, Rename
  PROVE  Saved!Replace
<1>. DEFINE m == Contents(data[dir[Tmp]])
<1>1. /\ pc = "rename" /\ pc' = "syncdir" /\ UNCHANGED <<db, answer>>
      /\ restorable' = restorable \cup {m}
  BY DEF Rename, Goto, Tmp
<1>2. m \in [Keys -> Values \cup {None}] /\ IsSnapshotOf(m)
  BY <1>1, FileIsSnapshot, ContentsType DEF Maps
<1>3. Saved!IsSnapshot(m)
  <2>. HIDE DEF m
  <2>. QED  BY <1>1, <1>2, IsSnapshotCong
<1>4. View' = View /\ Volatile' = Volatile
  BY <1>1 DEF View, Volatile
<1>. QED  BY <1>1, <1>2, <1>3, <1>4 DEF View, Volatile, Saved!Replace

\* The OK of a SAVE is Acknowledge of SnapshotStore.
LEMMA RefineFsyncDirectory ==
  ASSUME IInv, FsyncDirectory
  PROVE  Saved!Acknowledge
<1>. DEFINE m == Contents(data[dir[Rdb]])
<1>1. /\ pc = "syncdir" /\ pc' = "idle" /\ db' = db /\ answer' = "OK"
      /\ restorable' = {m}
  BY DEF FsyncDirectory, Goto, Rdb
<1>2. m \in restorable
  BY <1>1 DEF IInv, RenamedExists, OnlyRestorable, Loaded, Rdb
<1>3. Saved!IsSnapshot(m)
  <2>1. IsSnapshotOf(m)
    BY <1>1 DEF IInv, RenamedMatches
  <2>. HIDE DEF m
  <2>. QED  BY <1>1, <2>1, IsSnapshotCong
<1>4. View' = View /\ Volatile' = Volatile
  BY <1>1 DEF View, Volatile
<1>. QED  BY <1>1, <1>2, <1>3, <1>4 DEF View, Volatile, Saved!Acknowledge

\* A process that ends is Down of SnapshotStore.
LEMMA RefineDown ==
  ASSUME GoDown
  PROVE  Saved!Down
<1>1. pc # "down" /\ pc' = "down" /\ UNCHANGED <<answer, restorable>>
  BY DEF GoDown
<1>2. View' = Saved!EmptyMap /\ Volatile' = {}
  BY <1>1 DEF View, Volatile, Saved!EmptyMap
<1>. QED  BY <1>1, <1>2 DEF View, Volatile, Saved!Down

\* What a start brings back has no deadlines.
LEMMA RefineStart ==
  ASSUME IInv, Start
  PROVE  Saved!Restart
<1>. USE Distinct
<1>. DEFINE m == Loaded(dir, data)
<1>1. /\ pc = "down" /\ pc' = "idle" /\ answer' = "none" /\ restorable' = restorable
      /\ db' = [k \in Keys |-> IF m[k] = None THEN None
                                ELSE [value |-> m[k], ttl |-> "none"]]
  BY DEF Start, Goto
<1>2. m \in restorable /\ m \in [Keys -> Values \cup {None}]
  BY LoadedType DEF IInv, TypeOK, OnlyRestorable, Maps
<1>. HIDE DEF m
<1>3. \A v \in Values : [value |-> v, ttl |-> "none"] # None
  BY DEF Entry, Ttl
<1>4. View' = m /\ Volatile' = {}
  <2>1. \A k \in Keys : /\ db'[k] = None <=> m[k] = None
                        /\ m[k] # None => db'[k].value = m[k] /\ db'[k].ttl = "none"
    BY <1>1, <1>2, <1>3
  <2>2. View' = [k \in Keys |-> m[k]]
    BY <1>1, <2>1 DEF View
  <2>. QED  BY <1>1, <1>2, <2>1, <2>2 DEF Volatile
<1>. QED  BY <1>1, <1>2, <1>4 DEF View, Volatile, Saved!Restart

\* Every step is one of SnapshotStore or changes nothing of it.
LEMMA RefineNext ==
  ASSUME IInv, [Next]_vars
  PROVE  [Saved!Next]_(Saved!vars)
<1>1. ASSUME NEW k \in Keys, NEW v \in Values, Set(k, v)
      PROVE  Saved!Command(k)
  <2>1. [value |-> v, ttl |-> "none"] \in Entry
    BY DEF Entry, Ttl
  <2>. QED  BY <1>1, <2>1, RefineCommand DEF Set
<1>2. ASSUME NEW k \in Keys, Del(k) PROVE Saved!Command(k)
  BY <1>2, RefineCommand DEF Del
<1>3. ASSUME NEW k \in Keys, NEW ttl \in {"pending", "passed"}, Expire(k, ttl)
      PROVE  Saved!Command(k)
  BY <1>3, RefineExpire
<1>4. ASSUME NEW k \in Keys, Pass(k) PROVE UNCHANGED Saved!vars
  BY <1>4, RefinePass
<1>5. ASSUME Save PROVE [Saved!Next]_(Saved!vars)
  <2>1. CASE SaveBegin
    <3>1. /\ pc = "idle" /\ pc' = "open" /\ answer' = "none" /\ UNCHANGED <<db, restorable>>
      BY <2>1 DEF SaveBegin, Goto
    <3>2. View' = View /\ Volatile' = Volatile
      BY <3>1 DEF View, Volatile
    <3>. QED  BY <3>1, <3>2 DEF View, Volatile, Saved!SaveCalled, Saved!Next
  <2>2. CASE SaveFails
    <3>1. /\ pc # "down" /\ pc' = "idle" /\ answer' = "ERR" /\ UNCHANGED <<db, restorable>>
      BY <2>2 DEF SaveFails, SaveSteps
    <3>2. View' = View /\ Volatile' = Volatile
      BY <3>1 DEF View, Volatile
    <3>. QED  BY <3>1, <3>2 DEF View, Volatile, Saved!Fail, Saved!Next
  <2>3. CASE OpenTemporary \/ WriteHeader \/ CaptureEntries \/ WriteEntry
             \/ EndOfEntries \/ FsyncFile
    <3>1. UNCHANGED <<db, answer, restorable>> /\ pc # "down" /\ pc' # "down"
      BY <2>3 DEF OpenTemporary, WriteHeader, CaptureEntries, WriteEntry, EndOfEntries,
                  FsyncFile, Write, Goto
    <3>. QED  BY <3>1, RefineStutter
  <2>4. CASE Rename
    BY <2>4, RefineRename DEF Saved!Next
  <2>5. CASE FsyncDirectory
    BY <2>5, RefineFsyncDirectory DEF Saved!Next
  <2>. QED  BY <1>5, <2>1, <2>2, <2>3, <2>4, <2>5 DEF Save
<1>6. CASE (\E i \in Inodes : WriteBackData(i)) \/ WriteBackDirectory \/ UNCHANGED vars
  <2>1. UNCHANGED <<pc, db, answer, restorable>>
    BY <1>6 DEF WriteBackData, WriteBackDirectory, process, vars
  <2>. QED  BY <2>1, RefineStutter
<1>7. CASE Exit \/ PowerFailure
  BY <1>7, RefineDown DEF Exit, PowerFailure, Saved!Next
<1>8. CASE Start
  BY <1>8, RefineStart DEF Saved!Next
<1>. QED  BY <1>1, <1>2, <1>3, <1>4, <1>5, <1>6, <1>7, <1>8 DEF Next, Saved!Next

\* SAVE, recovery and the file system together are a map with a set of maps
\* that a restart may bring back: a SAVE answered OK leaves one of them, the
\* current map up to keys with a time to live.  This holds for maps of any size.
THEOREM SaveRefinesStore == Spec => ImplementsSnapshotStore
<1>1. Init => Saved!Init
  BY RefineInit
<1>2. IInv /\ [Next]_vars => [Saved!Next]_(Saved!vars)
  BY RefineNext
<1>. QED  BY <1>1, <1>2, Inductive, PTL DEF Spec, ImplementsSnapshotStore, Saved!Spec
=============================================================================
