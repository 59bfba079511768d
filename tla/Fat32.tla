------------------------------- MODULE Fat32 -------------------------------
(***************************************************************************)
(* fat32.c and mbr.c: the volume init_fatfs finds on the card, the chains  *)
(* of clusters fat_getdata follows, the entries fat_getdirent decodes, and *)
(* the walk of fat_opendir and fat_fopen along a path.  One iteration of a *)
(* loop is one step.                                                       *)
(*                                                                         *)
(* A buffer is the sequence of sectors that were read into it, and a       *)
(* sector holds PerSector slots, the 32-byte entries of a directory; those *)
(* of a file's data or of the FAT are entries of no kind.  The tables of   *)
(* open files are in Vfs: here one file and one directory are open at most *)
(* at a time, the ones opened last.                                        *)
(***************************************************************************)
EXTENDS Integers, Sequences, FiniteSets

CONSTANTS
    NULL,        \* the null pointer; nothing is open
    Volumes,     \* the cards that may be in the slot, see IsVolume
    Paths,       \* paths opened, as the sequences of their names
    PerSector,   \* slots in a sector: 16
    Half,        \* 2^16: an entry has its cluster number in two halves
    End,         \* an entry of the FAT that ends a chain, 0x0FFFFFF8 and more
    LongNames,   \* the long names that have more than 11 characters
    MaxLost      \* bound: sectors that the card may fail to deliver

\* A slot: its attribute, one of the three the code knows or another; its name (of
\* the long name in an "lfn" slot what the code keeps, 13 characters); the halves
\* of its cluster number, which in an "lfn" slot are letters and a zero; its size.
IsSlot(s) ==
    /\ DOMAIN s = {"attr", "name", "high", "low", "size"}
    /\ s.attr \in {"lfn", "dir", "file", "other"}
    /\ s.high \in Nat /\ s.low \in 0 .. Half - 1 /\ s.size \in Nat
    /\ s.attr = "lfn" => s.low = 0

\* A card: its partitions in the master boot record; of the FAT32 volume the number
\* of reserved sectors, of FATs, of sectors in a FAT and in a cluster, the cluster of
\* the root directory and the FAT, a table of finite size; its sectors; and the sector
\* where its data begins, behind the FATs of the first such partition.
IsVolume(v) ==
    /\ \A p \in 1 .. 4 : v.parts[p].type \in {"fat32", "other"} /\ v.parts[p].LBA \in Nat
    /\ {v.reservedSectors, v.fatCnt, v.sectorsPerFat, v.sectorsPerCluster, v.root} \subseteq Nat \ {0}
    /\ IsFiniteSet(DOMAIN v.fat)
    /\ \A c \in DOMAIN v.fat : c \in Nat /\ v.fat[c] \in Nat \cup {End}
    /\ \A lba \in DOMAIN v.card :
          /\ lba \in Nat
          /\ Len(v.card[lba]) = PerSector /\ \A i \in 1 .. PerSector : IsSlot(v.card[lba][i])
    /\ \A p \in 1 .. 4 :
          v.parts[p].type = "fat32" /\ (\A q \in 1 .. p - 1 : v.parts[q].type # "fat32")
          => v.start = v.parts[p].LBA + v.reservedSectors + v.fatCnt * v.sectorsPerFat

\* The dirent of a short name that was copied without an end holds this, no name.
Garbled == "a name and what follows it"

ASSUME Fat32Assumption ==
    /\ PerSector \in Nat \ {0} /\ Half \in Nat \ {0} /\ MaxLost \in Nat /\ End \notin Nat
    /\ \A v \in Volumes : IsVolume(v)
    /\ Paths \subseteq Seq(STRING \ {Garbled})

VARIABLES
    volume,         \* the card
    firstdatalba,   \* the field of struct fat_fs
    stated,         \* has fat_fstat been called?
    lost,           \* sectors the card failed to deliver so far
    pc,             \* "off" before init_fatfs, "none" after it returned NULL, "idle";
                    \* "count" and "read" in fat_getdata; "scan" in the loop of
                    \* fat_opendir, "open" at its end; "search" in the loop of
                    \* fat_fopen, "file" at its end; "wild" after the program read
                    \* memory whose contents nothing determines
    call,           \* what was called, the directories still to find, the file's
                    \* name, and the pc after fat_getdata
    buf,            \* the locals of fat_getdata, and the buffer it returned
    readptr,        \* the slot of the buffer that fat_opendir looks at
    dir,            \* the dirent that fat_opendir allocated
    fdir,           \* the fat_dir of fat_fopen
    rdir,           \* the static dirent of fat_readdir
    odir,           \* the directory a caller has open, or NULL
    file,           \* the file opened last, or NULL
    held,           \* the blocks a call allocated and has not freed
    ret             \* the last call that returned a file or directory or NULL

volVars  == <<volume, firstdatalba, stated>>
openVars == <<odir, file, ret>>
locals == <<call, buf, readptr, dir, fdir>>
vars == <<volVars, lost, pc, locals, rdir, openVars, held>>

-----------------------------------------------------------------------------
(* Blocks of the heap, by what the code calls them *)

Blocks == {"buffer", "dir", "odir", "copy", "pathto", "rdirent", "fatfile"}

NoBlocks == [b \in Blocks |-> 0]

Malloc(h, b) == [h EXCEPT ![b] = @ + 1]
Free(h, b)   == [h EXCEPT ![b] = @ - 1]

-----------------------------------------------------------------------------
(* Entries *)

NoSlot == [attr |-> "other", name |-> "", high |-> 0, low |-> 0, size |-> 0]

\* In a buffer this is a sector that was not delivered.
Hole == -1

\* Slot i of a buffer, counted from 1; only what was read is known.
Sector(b, i)  == (i - 1) \div PerSector + 1
IsKnown(b, i) == Sector(b, i) \in DOMAIN b.data /\ b.data[Sector(b, i)] # Hole
Slot(b, i)    == IF IsKnown(b, i)
                 THEN volume.card[b.data[Sector(b, i)]][((i - 1) % PerSector) + 1]
                 ELSE NoSlot

\* The slot with the entry whose decoding begins at slot i: one slot with a long
\* name is passed over.
EntryAt(b, i) == IF Slot(b, i).attr = "lfn" THEN i + 1 ELSE i

Cluster(slot) == slot.high * Half + slot.low

\* A dirent as strcmp sees it.  A short name is copied without an end: it is the
\* name only while d_name[11] is 0 (tail is FALSE).
Short(slot, out) ==
    [d_type |-> slot.attr, d_name |-> IF out.tail THEN Garbled ELSE slot.name, tail |-> out.tail]

Long(slot, name, out) ==
    [d_type |-> slot.attr, d_name |-> name, tail |-> name \in LongNames \/ out.tail]

\* fat_getdirent: an entry of a file or a directory is decoded; another leaves out
\* as it was and gives -1.
fat_getdirent(b, i, out) ==
    LET e == EntryAt(b, i)
        s == Slot(b, e)
    IN CASE s.attr \notin {"dir", "file"} -> [next |-> -1, out |-> out]
         [] s.attr \in {"dir", "file"} /\ e = i -> [next |-> 1, out |-> Short(s, out)]
         [] OTHER -> [next |-> 2, out |-> Long(s, Slot(b, i).name, out)]

\* It looks at memory that the card did not fill.
LooksAstray(b, i) == ~IsKnown(b, i) \/ ~IsKnown(b, EntryAt(b, i))

\* Mutant: the last slot is not looked at.
EndOfDataShort(b) == b.size * PerSector - 1

\* The slots of a buffer that holds size sectors.
EndOfData(b) == b.size * PerSector

\* Mutant: a slot that is no entry is not passed.
StepZero(next) == IF next = -1 THEN 0 ELSE next

\* How far an offset of fat_getdirent moves on.
Step(next) == IF next = -1 THEN 1 ELSE next

\* fat_readdir on a directory that has readptr within its data.
fat_readdir(d) ==
    LET e == fat_getdirent(d.buf, d.readptr, rdir)
    IN [dir  |-> [d EXCEPT !.readptr = @ + Step(e.next)],
        rdir |-> e.out, found |-> e.next # -1]

-----------------------------------------------------------------------------
(* init_fatfs *)

Fat32Partitions == {p \in 1 .. 4 : volume.parts[p].type = "fat32"}

\* The first partition of the table with a FAT32 file system.
Tlbentry == volume.parts[CHOOSE p \in Fat32Partitions : \A q \in Fat32Partitions : p <= q]

\* Where the data begins, from the parameter blocks.
FirstData == Tlbentry.LBA + volume.reservedSectors + volume.sectorsPerFat * volume.fatCnt

NoBuf == [root |-> 0, num |-> 0, left |-> 0, data |-> <<>>, size |-> 0]
NoDir == [buf |-> NoBuf, readptr |-> 1]
NoDirent == [d_type |-> "other", d_name |-> "", tail |-> FALSE]
NoCall == [op |-> "none", path |-> <<>>, todo |-> <<>>, then |-> "idle"]

\* Nobody knows what the memory holds that the program goes on with.
Astray ==
    /\ pc' = "wild"
    /\ UNCHANGED <<volVars, lost, locals, rdir, openVars, held>>

\* No call is running: its locals do not matter.
Forget == call' = NoCall /\ buf' = NoBuf /\ readptr' = 1 /\ dir' = NoDirent /\ fdir' = NoDir

Init ==
    /\ volume \in Volumes
    /\ firstdatalba = 0 /\ stated = FALSE /\ lost = 0
    /\ pc = "off"
    /\ call = NoCall /\ buf = NoBuf /\ readptr = 1 /\ dir = NoDirent /\ fdir = NoDir
    /\ rdir = NoDirent
    /\ odir = NULL /\ file = NULL
    /\ held = NoBlocks
    /\ ret = NoCall

\* The first sector cannot be read.
InitReadFails ==
    /\ pc = "off" /\ lost < MaxLost
    /\ lost' = lost + 1
    /\ pc' = "none"
    /\ UNCHANGED <<volVars, locals, rdir, openVars, held>>

\* The pointer to the partition is NULL and is followed; or a later read is short,
\* which is not looked at, and the parameters or the FAT are what memory held.
InitAstray ==
    /\ pc = "off"
    /\ Fat32Partitions = {} \/ lost < MaxLost
    /\ Astray

init_fatfs ==
    /\ pc = "off"
    /\ Fat32Partitions # {}
    /\ firstdatalba' = FirstData
    /\ pc' = "idle"
    /\ UNCHANGED <<volume, stated, lost, locals, rdir, openVars, held>>

-----------------------------------------------------------------------------
(* fat_getclustercount and fat_getdata *)

\* A call of fat_getdata, and where the code goes on after it.
Getdata(root, then) ==
    /\ buf' = [root |-> root, num |-> root, left |-> 1, data |-> <<>>, size |-> 0]
    /\ pc' = "count"

\* Bound: a count above the number of clusters is that of a chain that never ends.
MaxCount == Cardinality(DOMAIN volume.fat) + 1

\* One iteration of fat_getclustercount, to whose end the buffer is allocated.
CountCluster ==
    /\ pc = "count"
    /\ buf.num \in DOMAIN volume.fat
    /\ IF volume.fat[buf.num] = End
       THEN /\ pc' = "read"
            /\ buf' = [buf EXCEPT !.num = buf.root]
            /\ held' = Malloc(held, "buffer")
       ELSE /\ buf' = [buf EXCEPT !.num = volume.fat[buf.num],
                                  !.left = IF @ = MaxCount THEN @ ELSE @ + 1]
            /\ UNCHANGED <<pc, held>>
    /\ UNCHANGED <<volVars, lost, call, readptr, dir, fdir, rdir, openVars>>

\* A number that is no cluster is looked up beyond the FAT.
CountAstray == pc = "count" /\ buf.num \notin DOMAIN volume.fat /\ Astray

fat_clustertolba(c) == firstdatalba + volume.sectorsPerCluster * (c - 2)

\* One iteration of fat_getdata.  The sectors of a cluster that are not delivered
\* leave their place in the buffer as it was and do not count.
ReadCluster ==
    /\ pc = "read"
    /\ LET lba     == fat_clustertolba(buf.num)
           sectors == lba .. lba + volume.sectorsPerCluster - 1
       IN \E bad \in SUBSET (sectors \cap DOMAIN volume.card) :
             /\ lost + Cardinality(bad) <= MaxLost
             /\ lost' = lost + Cardinality(bad)
             /\ LET good == (sectors \cap DOMAIN volume.card) \ bad
                IN buf' = [buf EXCEPT
                      !.data = @ \o [i \in 1 .. volume.sectorsPerCluster |->
                                        IF lba + i - 1 \in good THEN lba + i - 1 ELSE Hole],
                      !.size = @ + Cardinality(good),
                      !.left = @ - 1,
                      !.num  = IF buf.left = 1 THEN @ ELSE volume.fat[@]]
    /\ pc' = IF buf.left = 1 THEN call.then ELSE "read"
    /\ UNCHANGED <<volVars, call, readptr, dir, fdir, rdir, openVars, held>>

-----------------------------------------------------------------------------
(* fat_opendir *)

\* What the dirent may hold that malloc gave: one of the names or none of them.
Leftover(names) ==
    [d_type : {"dir"}, d_name : {names[i] : i \in DOMAIN names}, tail : BOOLEAN]
        \cup [d_type : {"other"}, d_name : {""}, tail : BOOLEAN]

\* fat_opendir on the names of the directories on the way.  What the caller opened
\* this way before is not used any more, a bound on the open files and directories.
BeginOpendir(op, path, names, h) ==
    /\ call' = [op |-> op, path |-> path, todo |-> names,
                then |-> IF names = <<>> THEN "open" ELSE "scan"]
    /\ Getdata(volume.root, call'.then)
    /\ IF names = <<>>
       THEN held' = h /\ UNCHANGED dir
       ELSE held' = Malloc(h, "dir") /\ dir' \in Leftover(names)
    /\ UNCHANGED <<volVars, lost, readptr, fdir, rdir>>
    /\ ret' = NoCall

Opendir(path) ==
    /\ pc = "idle"
    /\ BeginOpendir("opendir", path, path, NoBlocks)
    /\ odir' = NULL
    /\ UNCHANGED file

\* The call returns NULL or what was opened; held are the blocks it leaves.
Return(value, h) ==
    /\ ret' = [op |-> call.op, path |-> call.path, todo |-> <<>>, then |-> value]
    /\ held' = h
    /\ pc' = "idle"
    /\ Forget
    /\ UNCHANGED <<volVars, lost>>

\* The strings fat_fopen allocates: its copy of the path, and pathto, the part before
\* the name.  Before a name alone that is a literal "/", before "/" and a name it is
\* allocated.
Strings(path, slash) ==
    LET copied == Malloc(NoBlocks, "copy")
    IN IF Len(path) > 1 \/ slash THEN Malloc(copied, "pathto") ELSE copied

\* On every way out it frees them, but for a pathto that reads "/".
FreeStrings(h, path) == IF Len(path) > 1 THEN Free(Free(h, "copy"), "pathto") ELSE Free(h, "copy")

ReturnNull(h) == Return("NULL", IF call.op = "fopen" THEN FreeStrings(h, call.path) ELSE h)

\* The loop of fat_opendir at slot readptr, and what it decodes there.
Here == fat_getdirent(buf, readptr, dir)
InData == pc = "scan" /\ readptr <= EndOfData(buf)
Matches == Here.out.d_type = "dir" /\ Here.out.d_name = Head(call.todo)

ScanAstray ==
    /\ InData
    /\ LooksAstray(buf, readptr) \/ (Matches /\ Len(call.todo) = 1 /\ Here.next = -1)
    /\ Astray

ScanNext ==
    /\ InData /\ ~LooksAstray(buf, readptr) /\ ~Matches
    /\ dir' = Here.out
    /\ readptr' = readptr + Step(Here.next)
    /\ UNCHANGED <<volVars, lost, pc, call, buf, fdir, rdir, openVars, held>>

\* Mutant: the buffer is not freed.
LeaveBufferKept(h) == h

\* Before it reads another directory it frees the buffer of this one.
LeaveBuffer(h) == Free(h, "buffer")

\* A directory on the way: the code takes the low half of the cluster number, from
\* the slot where the decoding began.
ScanInto ==
    /\ InData /\ ~LooksAstray(buf, readptr) /\ Matches /\ Len(call.todo) > 1
    /\ call' = [call EXCEPT !.todo = Tail(@)]
    /\ Getdata(Slot(buf, readptr).low, "scan")
    /\ held' = LeaveBuffer(held)
    /\ dir' = Here.out
    /\ readptr' = 1
    /\ UNCHANGED <<volVars, lost, fdir, rdir, openVars>>

\* The directory asked for.
ScanLast ==
    /\ InData /\ ~LooksAstray(buf, readptr) /\ Matches /\ Len(call.todo) = 1 /\ Here.next # -1
    /\ call' = [call EXCEPT !.todo = <<>>, !.then = "open"]
    /\ Getdata(Cluster(Slot(buf, EntryAt(buf, readptr))), "open")
    /\ held' = Free(LeaveBuffer(held), "dir")
    /\ dir' = Here.out
    /\ UNCHANGED <<volVars, lost, readptr, fdir, rdir, openVars>>

\* Mutant: the buffer is freed a second time.
NotFoundTwice(h) == Free(Free(Free(h, "buffer"), "dir"), "buffer")

NotFound(h) == Free(Free(h, "buffer"), "dir")

ScanEnd ==
    /\ pc = "scan" /\ readptr > EndOfData(buf)
    /\ ReturnNull(NotFound(held))
    /\ UNCHANGED <<rdir, odir, file>>

\* The fat_dir is made: it is returned, or fat_fopen goes on with it, for which it
\* allocates a dirent that it never uses.
OpenDone ==
    /\ pc = "open"
    /\ IF call.op = "opendir"
       THEN /\ odir' = [buf |-> buf, readptr |-> 1]
            /\ Return("dir", Malloc(held, "odir"))
       ELSE /\ fdir' = [buf |-> buf, readptr |-> 1]
            /\ held' = Malloc(Malloc(held, "odir"), "rdirent")
            /\ pc' = "search"
            /\ UNCHANGED <<volVars, lost, call, buf, readptr, dir, odir, ret>>
    /\ UNCHANGED <<rdir, file>>

-----------------------------------------------------------------------------
(* fat_fopen *)

FileName == call.path[Len(call.path)]

\* A path of no names: the copy of it is not freed, and pathto not yet allocated.
FopenNoName ==
    /\ pc = "idle"
    /\ <<>> \in Paths
    /\ ret' = [op |-> "fopen", path |-> <<>>, todo |-> <<>>, then |-> "NULL"]
    /\ held' = Malloc(NoBlocks, "copy")
    /\ UNCHANGED <<volVars, lost, pc, locals, rdir, odir, file>>

\* The names of the path, with a slash before the first or without.
Fopen(path, slash) ==
    /\ pc = "idle"
    /\ path # <<>>
    /\ BeginOpendir("fopen", path, SubSeq(path, 1, Len(path) - 1), Strings(path, slash))
    /\ file' = NULL
    /\ UNCHANGED odir

\* The loop of fat_fopen: the next entry that fat_readdir finds.
MayRead(d) == d.readptr <= EndOfData(d.buf)
Listed == fat_readdir(fdir)
IsWanted(out) == out.d_name = FileName /\ out.d_type = "file"

SearchAstray == pc = "search" /\ MayRead(fdir) /\ LooksAstray(fdir.buf, fdir.readptr) /\ Astray

SearchNext ==
    /\ pc = "search" /\ MayRead(fdir) /\ ~LooksAstray(fdir.buf, fdir.readptr)
    /\ Listed.found /\ ~IsWanted(Listed.rdir)
    /\ fdir' = Listed.dir /\ rdir' = Listed.rdir
    /\ UNCHANGED <<volVars, lost, pc, call, buf, readptr, dir, openVars, held>>

\* Mutant: the slot after the one that was decoded.
FiledirentNext(d) == Slot(d.buf, d.readptr)

\* The entry fat_readdir has just passed.
Filedirent(d) == Slot(d.buf, d.readptr - 1)

SearchHit ==
    /\ pc = "search" /\ MayRead(fdir) /\ ~LooksAstray(fdir.buf, fdir.readptr)
    /\ Listed.found /\ IsWanted(Listed.rdir)
    /\ fdir' = Listed.dir /\ rdir' = Listed.rdir
    /\ held' = Malloc(held, "fatfile")
    /\ call' = [call EXCEPT !.then = "file"]
    /\ Getdata(Cluster(Filedirent(fdir')), "file")
    /\ UNCHANGED <<volVars, lost, readptr, dir, openVars>>

\* The end of the directory, or an entry of another kind.
SearchEnd ==
    /\ pc = "search"
    /\ ~MayRead(fdir) \/ (~LooksAstray(fdir.buf, fdir.readptr) /\ ~Listed.found)
    /\ ReturnNull(held)
    /\ UNCHANGED <<rdir, odir, file>>

\* The file is returned; its directory stays as it is, and the free of rdirent is
\* that of the static dirent, which is no block.
FopenDone ==
    /\ pc = "file"
    /\ file' = [data |-> buf.data, buffersize |-> buf.size, filesize |-> Filedirent(fdir).size]
    /\ Return("file", FreeStrings(held, call.path))
    /\ UNCHANGED <<rdir, odir>>

-----------------------------------------------------------------------------
(* The other calls *)

\* fat_readdir of a caller's directory.
ReadDir ==
    /\ pc = "idle" /\ odir # NULL
    /\ MayRead(odir) /\ ~LooksAstray(odir.buf, odir.readptr)
    /\ odir' = fat_readdir(odir).dir
    /\ rdir' = fat_readdir(odir).rdir
    /\ UNCHANGED <<volVars, lost, pc, locals, file, ret, held>>

ReadDirAstray ==
    /\ pc = "idle" /\ odir # NULL
    /\ MayRead(odir) /\ LooksAstray(odir.buf, odir.readptr)
    /\ Astray

fat_rewinddir ==
    /\ pc = "idle" /\ odir # NULL
    /\ odir' = [odir EXCEPT !.readptr = 1]
    /\ UNCHANGED <<volVars, lost, pc, locals, rdir, file, ret, held>>

\* vfsfstat passes the driver's fat_fs second, where fat_fstat takes the struct stat:
\* the size lands in the fat_fs, at the offset of st_size, which is that of
\* firstdatalba in the layout of the C library for this target.
fat_fstat ==
    /\ pc = "idle" /\ file # NULL
    /\ firstdatalba' = file.filesize
    /\ stated' = TRUE
    /\ UNCHANGED <<volume, lost, pc, locals, rdir, openVars, held>>

GetdataStep == CountCluster \/ CountAstray \/ ReadCluster
OpendirStep == ScanAstray \/ ScanNext \/ ScanInto \/ ScanLast \/ ScanEnd \/ OpenDone
FopenStep   == SearchAstray \/ SearchNext \/ SearchHit \/ SearchEnd \/ FopenDone

Next ==
    \/ InitReadFails \/ InitAstray \/ init_fatfs
    \/ GetdataStep \/ OpendirStep \/ FopenStep
    \/ \E path \in Paths : Opendir(path) \/ \E slash \in BOOLEAN : Fopen(path, slash)
    \/ FopenNoName
    \/ ReadDir \/ ReadDirAstray \/ fat_rewinddir \/ fat_fstat

\* A call, once made, runs on: nothing else runs on the processor.
Spec == Init /\ [][Next]_vars /\ WF_vars(GetdataStep \/ OpendirStep \/ FopenStep)

-----------------------------------------------------------------------------
(* What a volume holds, without the code's walk: chains as sequences,      *)
(* directories as the slots of their chains                                *)

\* The first n clusters of the chain from c, as far as there are any.
Along(v, c, n) ==
    LET at[i \in 1 .. n] ==
            IF i = 1 THEN c
            ELSE IF at[i - 1] \in DOMAIN v.fat THEN v.fat[at[i - 1]] ELSE End
    IN at

Ends(v, c) ==
    LET at == Along(v, c, Cardinality(DOMAIN v.fat) + 1)
    IN \E i \in DOMAIN at : at[i] = End /\ \A j \in 1 .. i - 1 : at[j] \in DOMAIN v.fat

Chain(v, c) ==
    LET at == Along(v, c, Cardinality(DOMAIN v.fat))
    IN [i \in {j \in DOMAIN at : at[j] # End} |-> at[i]]

\* The sectors of a chain, cluster after cluster.
SectorsOf(v, c) ==
    LET s == v.sectorsPerCluster
    IN [i \in 1 .. s * Len(Chain(v, c)) |->
            v.start + s * (Chain(v, c)[(i - 1) \div s + 1] - 2) + ((i - 1) % s)]

SlotsOf(v, c) ==
    LET secs == SectorsOf(v, c)
    IN [i \in 1 .. PerSector * Len(secs) |-> v.card[secs[(i - 1) \div PerSector + 1]][((i - 1) % PerSector) + 1]]

\* Slot i of a directory is an entry called name: by its long name if it has one.
HasLongName(slots, i) == i > 1 /\ slots[i - 1].attr = "lfn"

Entitled(slots, i, name) ==
    /\ slots[i].attr \in {"dir", "file"}
    /\ name = IF HasLongName(slots, i) THEN slots[i - 1].name ELSE slots[i].name

\* Every slot before i is an entry, or the long name of one.
AllEntriesBefore(slots, i) ==
    \A j \in 1 .. i - 1 :
        \/ slots[j].attr \in {"dir", "file"}
        \/ slots[j].attr = "lfn" /\ slots[j + 1].attr \in {"dir", "file"}

\* Where the directories called name lead to, in the directories at the places S.
Onward(v, S, name) ==
    UNION {{Cluster(SlotsOf(v, c)[i]) :
               i \in {j \in DOMAIN SlotsOf(v, c) :
                         Entitled(SlotsOf(v, c), j, name) /\ SlotsOf(v, c)[j].attr = "dir"}}
           : c \in S}

\* The places of the volume that the first k names of a path lead to.
Led(v, path, k) ==
    LET at[n \in 0 .. k] == IF n = 0 THEN {v.root} ELSE Onward(v, at[n - 1], path[n])
    IN at[k]

\* Where the code keeps to the volume: chains end, and their clusters lie on the card;
\* directories in which it looks for a directory begin with an entry, and those it
\* passes through have a short name and a cluster below Half.
IsPlain(v) ==
    /\ \A c \in DOMAIN v.fat :
          /\ Ends(v, c)
          /\ \A k \in 0 .. v.sectorsPerCluster - 1 : v.start + v.sectorsPerCluster * (c - 2) + k \in DOMAIN v.card
    /\ \A p \in Paths : \A k \in 1 .. Len(p) - 1 : \A c \in Led(v, p, k - 1) :
          LET slots == SlotsOf(v, c)
          IN /\ AllEntriesBefore(slots, 2)
             /\ k < Len(p) - 1 => \A j \in DOMAIN slots :
                    Entitled(slots, j, p[k]) => ~HasLongName(slots, j) /\ slots[j].high = 0

\* The files of the directory at c that are called name.
FilesAt(v, c, name) ==
    {i \in DOMAIN SlotsOf(v, c) : Entitled(SlotsOf(v, c), i, name) /\ SlotsOf(v, c)[i].attr = "file"}

\* The directories a path of a file leads to.
Parents(path) == Led(volume, path, Len(path) - 1)

-----------------------------------------------------------------------------
(* What should hold *)

\* Every variable has its type, no block is freed more often than it was allocated,
\* and no readptr is more than a slot behind the data it moves through.
TypeOK ==
    /\ volume \in Volumes /\ firstdatalba \in Nat /\ stated \in BOOLEAN /\ lost \in 0 .. MaxLost
    /\ pc \in {"off", "none", "idle", "count", "read", "scan", "open", "search", "file", "wild"}
    /\ held \in [Blocks -> 0 .. 2]
    /\ \A b \in {buf, fdir.buf} : b.size <= Len(b.data) /\ b.left <= MaxCount
    /\ \A d \in {fdir} \cup ({odir} \ {NULL}) : d.readptr \in 1 .. EndOfData(d.buf) + 2
    /\ dir.tail \in BOOLEAN /\ rdir.tail \in BOOLEAN

\* A file that fat_fopen returns is the one its path names, with the sectors of its
\* chain in order: through all buffers on the way, stale dirents in them and the
\* long names before the entry.  The size is that of its entry.  (The first cluster of
\* an empty file is 0: the code reads what lies there.)
FileIsTheNamed ==
    pc = "idle" /\ ret.op = "fopen" /\ ret.then = "file" /\ ~stated /\ lost = 0 /\ IsPlain(volume)
    => \E c \in Parents(ret.path) : \E i \in FilesAt(volume, c, ret.path[Len(ret.path)]) :
          LET slot == SlotsOf(volume, c)[i]
          IN /\ Cluster(slot) # 0 => file.data = SectorsOf(volume, Cluster(slot))
             /\ file.buffersize = Len(file.data)
             /\ file.filesize = slot.size

\* Some slot of the card has a name that fills d_name[11].
HasTail(v) == \E lba \in DOMAIN v.card : \E i \in 1 .. PerSector : v.card[lba][i].name \in LongNames

\* fat_fopen returns NULL for a file of the root only for a reason: there is no such
\* file, a slot before it that is no entry ends the search, or its name is a short
\* one and a long name may have left a character behind it.
FopenFinds ==
    pc = "idle" /\ ret.op = "fopen" /\ ret.then = "NULL" /\ Len(ret.path) = 1
        /\ ~stated /\ lost = 0 /\ IsPlain(volume)
    => LET slots == SlotsOf(volume, volume.root)
       IN \A i \in FilesAt(volume, volume.root, ret.path[1]) :
             ~AllEntriesBefore(slots, i) \/ (~HasLongName(slots, i) /\ HasTail(volume))

\* On every way out fat_opendir frees its buffers and its dirent.  What fat_fopen
\* leaves behind is what it returned and, once it has found the directory, that
\* directory and a dirent; and of its strings the copy of a path of no names, and
\* pathto when it reads "/", which for the name alone is a literal.
OnlyKnownLeaks ==
    pc = "idle" /\ ret.op # "none" =>
        /\ held["dir"] = 0
        /\ held["copy"] = (IF ret.op = "fopen" /\ ret.path = <<>> THEN 1 ELSE 0)
        /\ held["pathto"] = 0 \/ (held["pathto"] = 1 /\ ret.op = "fopen" /\ Len(ret.path) = 1)
        /\ held["buffer"] = held["odir"] + held["fatfile"]
        /\ held["odir"] <= 1 /\ held["rdirent"] <= 1
        /\ (held["odir"] = 1) = (ret.then # "NULL" \/ held["rdirent"] = 1)

InCall == pc \in {"count", "read", "scan", "open", "search", "file"}

\* Every call returns, whatever it is asked for and whatever the card fails to
\* deliver, on a volume whose chains all end.
CallsReturn == ((\A c \in DOMAIN volume.fat : Ends(volume, c)) /\ InCall) ~> ~InCall

-----------------------------------------------------------------------------
(* What comments say and the code does not do *)

\* "returns a buffer to the data for the given cluster chain starting from the
\* cluster root" (fat32.c:494-495).
BufferHoldsChain ==
    pc \in {"open", "file"} /\ lost = 0 /\ buf.root \in DOMAIN volume.fat
    => buf.data = SectorsOf(volume, buf.root)
=============================================================================
