----------------------------- MODULE VfsProofs -----------------------------
(***************************************************************************)
(* Theorems about Vfs for every number of descriptors and slots, every set *)
(* of addresses, files and directories.  The argument: the addresses in    *)
(* the table of files are those of the fat_files there are, each once, so  *)
(* a call on one descriptor changes and frees what no other reaches; and a *)
(* slot holds only directories that are open, so that a call that finds    *)
(* its directory in a slot leaves the closed ones alone.                   *)
(***************************************************************************)
EXTENDS Vfs, WellFoundedInduction, TLAPS

FileRecords == [file : DOMAIN Readable, pos : Nat]
DirRecords  == [path : DOMAIN Entries, readptr : Nat, data : BOOLEAN]

\* The structs are functions on their addresses; before the first mount no file
\* was opened.
Shapes ==
    /\ fat_file \in [DOMAIN fat_file -> FileRecords]
    /\ fat_dir \in [DOMAIN fat_dir -> DirRecords]
    /\ vfs_mfs = NULL => ~adrift /\ \A fd \in Fds : vfs_open_files[fd] = NULL

IInv == TypeOK /\ Shapes /\ TablesHoldOpen

-----------------------------------------------------------------------------

\* A set of natural numbers that is not empty has a least element.
LEMMA LeastElement ==
    ASSUME NEW S \in SUBSET Nat, S # {}
    PROVE  \E m \in S : \A k \in S : m <= k
<1>1. PICK m \in S : \A k \in S : ~(<<k, m>> \in OpToRel(<, Nat))
  BY WFMin, NatLessThanWellFounded, Zenon
<1>2. \A k \in S : ~(k < m)
  BY <1>1, Zenon DEF OpToRel
<1> QED
  BY <1>2

\* The place that is chosen is free.
LEMMA FirstFreeIsFree ==
    ASSUME NEW t, DOMAIN t \in SUBSET Nat, HasFree(t)
    PROVE  FirstFree(t) \in DOMAIN t /\ t[FirstFree(t)] = NULL
<1> DEFINE S == {i \in DOMAIN t : t[i] = NULL}
<1>1. PICK m \in S : \A k \in S : m <= k
  BY LeastElement DEF HasFree
<1>2. m \in DOMAIN t /\ t[m] = NULL /\ \A j \in DOMAIN t : t[j] = NULL => m <= j
  BY <1>1
<1> QED
  BY <1>2 DEF FirstFree

\* The places of both tables are natural numbers.
LEMMA Places == Fds \subseteq Nat /\ Slots \subseteq Nat
<1>1. FirstFd \in Nat /\ NumFiles \in Nat /\ NumDirs \in Nat
  BY VfsAssumption
<1> QED
  BY <1>1 DEF Fds, Slots

\* A struct added at an address that was not used.
LEMMA AddedIs ==
    ASSUME NEW f, NEW k, NEW v
    PROVE  /\ DOMAIN Spoken!Added(f, k, v) = DOMAIN f \cup {k}
           /\ Spoken!Added(f, k, v)[k] = v
           /\ \A x \in DOMAIN f : x # k => Spoken!Added(f, k, v)[x] = f[x]
  BY DEF Spoken!Added

\* An address malloc gives now is that of no struct, and in no table.
LEMMA UnusedIsNew ==
    ASSUME NEW a \in Unused, IInv
    PROVE  /\ a \in Addresses /\ a # NULL /\ a \notin DOMAIN fat_file /\ a \notin DOMAIN fat_dir
           /\ \A fd \in Fds : vfs_open_files[fd] # a
           /\ \A i \in Slots : vfs_open_dirs[i] # a
  BY VfsAssumption DEF Unused, IInv, TypeOK

-----------------------------------------------------------------------------

\* The empty tables satisfy the invariant.
THEOREM InitInvariant == Init => IInv
<1> SUFFICES ASSUME Init PROVE IInv
  OBVIOUS
<1>1. DOMAIN fat_file = {} /\ DOMAIN fat_dir = {}
  BY DEF Init
<1>2. TypeOK
  BY <1>1 DEF Init, TypeOK
<1>3. Shapes
  BY <1>1 DEF Init, Shapes
<1>4. TablesHoldOpen
  BY <1>1 DEF Init, TablesHoldOpen, HoldsEachOnce, Filled
<1> QED
  BY <1>2, <1>3, <1>4 DEF IInv

\* Calls that change no table and no struct.
Quiet ==
    \/ AppendMount \/ LostAstray \/ OpenDirEmptyPath \/ OpenEmptyPath \/ StatNoFile \/ StatAstray
    \/ \E lost \in BOOLEAN : MountFirst(lost)
    \/ \E lost \in BOOLEAN, path \in Paths : MountBelow(path, lost) \/ OpenMissing(path, lost)
    \/ \E path \in Paths : OpenRefused(path)
    \/ \E fd \in Fds : NotOpen(fd) \/ StatFile(fd)

\* They may set the first mount, set the driver adrift once there is one, or go
\* astray.
LEMMA QuietFrame ==
    ASSUME IInv, Quiet
    PROVE  /\ UNCHANGED <<vfs_open_files, fat_file, vfs_open_dirs, fat_dir>>
           /\ vfs_mfs' \in {vfs_mfs, [next |-> NULL], [next |-> Wild]}
           /\ vfs_mfs' = NULL => vfs_mfs = NULL
           /\ adrift' \in BOOLEAN /\ (adrift' = adrift \/ vfs_mfs' # NULL)
           /\ pc' \in {pc, "append", "wild"}
<1> USE DEF files, dirs, vars, Astray, OpenFails
<1>1. adrift \in BOOLEAN
  BY DEF IInv, TypeOK
<1>2. ASSUME NEW lost \in BOOLEAN, MountFirst(lost)
      PROVE  /\ UNCHANGED <<vfs_open_files, fat_file, vfs_open_dirs, fat_dir, pc>>
             /\ vfs_mfs' \in {[next |-> NULL], [next |-> Wild]} /\ vfs_mfs' # NULL
             /\ adrift' \in BOOLEAN
  BY <1>2, VfsAssumption DEF MountFirst
<1>3. CASE AppendMount \/ LostAstray \/ OpenDirEmptyPath \/ OpenEmptyPath \/ StatNoFile \/ StatAstray
  BY <1>1, <1>3 DEF AppendMount, LostAstray, OpenDirEmptyPath, OpenEmptyPath, SkipTwice, StatNoFile, StatAstray
<1>4. ASSUME NEW lost \in BOOLEAN, NEW path \in Paths,
             MountBelow(path, lost) \/ OpenRefused(path) \/ OpenMissing(path, lost)
      PROVE  UNCHANGED <<vfs_open_files, fat_file, vfs_open_dirs, fat_dir, vfs_mfs, adrift>>
             /\ pc' \in {pc, "append", "wild"}
  BY <1>4 DEF MountBelow, OpenRefused, OpenMissing
<1>5. ASSUME NEW fd \in Fds, NotOpen(fd)
      PROVE  UNCHANGED <<vfs_open_files, fat_file, vfs_open_dirs, fat_dir, vfs_mfs, adrift, pc>>
  BY <1>5 DEF NotOpen
<1>6. ASSUME NEW fd \in Fds, StatFile(fd)
      PROVE  /\ UNCHANGED <<vfs_open_files, fat_file, vfs_open_dirs, fat_dir, vfs_mfs, pc>>
             /\ adrift' = TRUE /\ vfs_mfs # NULL
  BY <1>6 DEF StatFile, IsOpen, IInv, Shapes
<1> QED
  BY <1>1, <1>2, <1>3, <1>4, <1>5, <1>6 DEF Quiet

\* They keep the invariant.
LEMMA QuietStep == IInv /\ Quiet => IInv'
<1> SUFFICES ASSUME IInv, Quiet PROVE IInv'
  OBVIOUS
<1>1. /\ UNCHANGED <<vfs_open_files, fat_file, vfs_open_dirs, fat_dir>>
      /\ vfs_mfs' \in {vfs_mfs, [next |-> NULL], [next |-> Wild]}
      /\ vfs_mfs' = NULL => vfs_mfs = NULL
      /\ adrift' \in BOOLEAN /\ (adrift' = adrift \/ vfs_mfs' # NULL)
      /\ pc' \in {pc, "append", "wild"}
  BY QuietFrame
<1>2. TypeOK'
  BY <1>1 DEF IInv, TypeOK
<1>3. Shapes'
  BY <1>1 DEF IInv, Shapes
<1>4. TablesHoldOpen'
  BY <1>1 DEF IInv, TablesHoldOpen, HoldsEachOnce, Filled
<1> QED
  BY <1>2, <1>3, <1>4 DEF IInv

-----------------------------------------------------------------------------
(* Directories *)

\* A directory opened gets a struct of its own.
LEMMA OpendirFrame ==
    ASSUME IInv, NEW path, NEW lost, NEW a \in Unused, fat_opendir(path, a, lost)
    PROVE  /\ DOMAIN fat_dir' = DOMAIN fat_dir \cup {a}
           /\ fat_dir' \in [DOMAIN fat_dir' -> DirRecords]
           /\ fat_dir'[a].data /\ fat_dir'[a].readptr = 0 /\ fat_dir'[a].path \in DOMAIN Entries
           /\ \A b \in DOMAIN fat_dir : fat_dir'[b] = fat_dir[b]
           /\ \A p \in DOMAIN Entries : Entries[p] \in Nat
<1>1. PICK d \in Finds(path, Dirs \cup {"/"}, lost) :
        fat_dir' = Spoken!Added(fat_dir, a, [path |-> d, readptr |-> 0, data |-> TRUE])
  BY DEF fat_opendir
<1>2. DOMAIN Entries = Dirs \cup {"/", "other"} /\ \A p \in DOMAIN Entries : Entries[p] \in Nat
  BY VfsAssumption
<1>3. d \in DOMAIN Entries
  BY <1>2 DEF Finds
<1>4. a \notin DOMAIN fat_dir
  BY UnusedIsNew
<1> DEFINE r == [path |-> d, readptr |-> 0, data |-> TRUE]
<1>5. r \in DirRecords /\ r.data /\ r.readptr = 0 /\ r.path \in DOMAIN Entries
  BY <1>3 DEF DirRecords
<1> HIDE DEF r
<1>6. fat_dir' = [x \in DOMAIN fat_dir \cup {a} |-> IF x = a THEN r ELSE fat_dir[x]]
  BY <1>1 DEF Spoken!Added, r
<1>7. \A b \in DOMAIN fat_dir : fat_dir[b] \in DirRecords
  BY DEF IInv, Shapes
<1> QED
  BY <1>2, <1>4, <1>5, <1>6, <1>7

\* Its address is no other's, and it is at its beginning.
LEMMA OpendirTypes ==
    ASSUME IInv, NEW path, NEW lost, NEW a \in Unused, fat_opendir(path, a, lost)
    PROVE  /\ DOMAIN fat_file \cap DOMAIN fat_dir' = {}
           /\ DOMAIN fat_file \cup DOMAIN fat_dir' \subseteq Addresses
           /\ \A b \in DOMAIN fat_dir' :
                 fat_dir'[b].path \in DOMAIN Entries /\ fat_dir'[b].readptr \in 0 .. Entries[fat_dir'[b].path]
<1>1. a \in Addresses /\ a \notin DOMAIN fat_file /\ DOMAIN fat_dir' = DOMAIN fat_dir \cup {a}
  BY UnusedIsNew, OpendirFrame
<1>2. DOMAIN fat_file \cap DOMAIN fat_dir = {} /\ DOMAIN fat_file \cup DOMAIN fat_dir \subseteq Addresses
  BY DEF IInv, TypeOK
<1>3. ASSUME NEW b \in DOMAIN fat_dir'
      PROVE  fat_dir'[b].path \in DOMAIN Entries /\ fat_dir'[b].readptr \in 0 .. Entries[fat_dir'[b].path]
  <2>1. CASE b = a
    <3>1. fat_dir'[a].readptr = 0 /\ fat_dir'[a].path \in DOMAIN Entries
      BY OpendirFrame
    <3>2. Entries[fat_dir'[a].path] \in Nat
      BY <3>1, VfsAssumption
    <3> QED
      BY <2>1, <3>1, <3>2
  <2>2. CASE b # a
    <3>1. b \in DOMAIN fat_dir /\ fat_dir'[b] = fat_dir[b]
      BY <1>1, <2>2, OpendirFrame
    <3> QED
      BY <3>1 DEF IInv, TypeOK
  <2> QED
    BY <2>1, <2>2
<1> QED
  BY <1>1, <1>2, <1>3

\* What the steps that change directories leave alone.
DirsOnly == UNCHANGED <<vfs_mfs, adrift, vfs_open_files, fat_file, pc>>

\* A mount that is refused leaves an open directory that no slot holds.
LEMMA MountTakenStep == ASSUME IInv, NEW lost \in BOOLEAN, NEW path \in Paths, MountTaken(path, lost) PROVE IInv'
<1>1. PICK a \in Unused : fat_opendir(path, a, lost)
  BY DEF MountTaken
<1>2. DirsOnly /\ vfs_open_dirs' = vfs_open_dirs
  BY DEF MountTaken, DirsOnly, files
<1>3. /\ a \in Addresses /\ a # NULL /\ a \notin DOMAIN fat_file /\ a \notin DOMAIN fat_dir
      /\ \A i \in Slots : vfs_open_dirs[i] # a
  BY UnusedIsNew
<1>4. TypeOK'
  <2>1. vfs_open_dirs \in [Slots -> DOMAIN fat_dir' \cup {NULL}]
    BY <1>1, OpendirFrame DEF IInv, TypeOK
  <2> QED
    BY <1>1, <1>2, <2>1, OpendirTypes DEF IInv, TypeOK, DirsOnly
<1>5. Shapes'
  BY <1>1, <1>2, OpendirFrame DEF IInv, Shapes, DirsOnly
<1>6. TablesHoldOpen'
  <2>1. \A i \in Filled(vfs_open_dirs) : vfs_open_dirs[i] \in DOMAIN fat_dir
    BY DEF IInv, TypeOK, Filled
  <2>2. \A i \in Filled(vfs_open_dirs) : fat_dir'[vfs_open_dirs[i]].data
    BY <1>1, <2>1, OpendirFrame DEF IInv, TablesHoldOpen
  <2> QED
    BY <1>2, <2>2 DEF IInv, TablesHoldOpen, DirsOnly, HoldsEachOnce, Filled
<1> QED
  BY <1>4, <1>5, <1>6 DEF IInv

\* opendir puts the new fat_dir in a slot that was free.
LEMMA OpenDirStep == ASSUME IInv, NEW lost \in BOOLEAN, NEW path \in Paths, OpenDir(path, lost) PROVE IInv'
<1> DEFINE slot == FirstFree(vfs_open_dirs)
<1>1. PICK a \in Unused :
        fat_opendir(path, a, lost) /\ vfs_open_dirs' = [vfs_open_dirs EXCEPT ![slot] = a]
  BY DEF OpenDir
<1>2. DirsOnly
  BY DEF OpenDir, DirsOnly, files
<1>3. /\ a \in Addresses /\ a # NULL /\ a \notin DOMAIN fat_file /\ a \notin DOMAIN fat_dir
      /\ \A i \in Slots : vfs_open_dirs[i] # a
  BY UnusedIsNew
<1>4. DOMAIN vfs_open_dirs = Slots /\ slot \in Slots /\ vfs_open_dirs[slot] = NULL
  BY FirstFreeIsFree, Places DEF OpenDir, IInv, TypeOK
<1> HIDE DEF slot
<1>5. /\ vfs_open_dirs' \in [Slots -> DOMAIN fat_dir' \cup {NULL}]
      /\ \A i \in Slots : vfs_open_dirs'[i] = IF i = slot THEN a ELSE vfs_open_dirs[i]
  <2>1. DOMAIN fat_dir' = DOMAIN fat_dir \cup {a}
    BY <1>1, OpendirFrame
  <2> QED
    BY <1>1, <1>4, <2>1 DEF IInv, TypeOK
<1>6. TypeOK'
  BY <1>1, <1>2, <1>5, OpendirTypes DEF IInv, TypeOK, DirsOnly
<1>7. Shapes'
  BY <1>1, <1>2, OpendirFrame DEF IInv, Shapes, DirsOnly
<1>8. TablesHoldOpen'
  <2>1. HoldsEachOnce(vfs_open_dirs)'
    BY <1>3, <1>4, <1>5 DEF IInv, TablesHoldOpen, HoldsEachOnce, Filled
  <2>2. \A i \in Filled(vfs_open_dirs)' : fat_dir'[vfs_open_dirs'[i]].data
    <3> SUFFICES ASSUME NEW i \in Slots, vfs_open_dirs'[i] # NULL PROVE fat_dir'[vfs_open_dirs'[i]].data
      BY <1>5 DEF Filled
    <3>1. CASE i = slot
      BY <1>1, <1>5, <3>1, OpendirFrame
    <3>2. CASE i # slot
      <4>1. vfs_open_dirs'[i] = vfs_open_dirs[i] /\ i \in Filled(vfs_open_dirs)
        BY <1>4, <1>5, <3>2 DEF Filled
      <4>2. vfs_open_dirs[i] \in DOMAIN fat_dir /\ fat_dir[vfs_open_dirs[i]].data
        BY <4>1 DEF IInv, TypeOK, TablesHoldOpen, Filled
      <4> QED
        BY <1>1, <4>1, <4>2, OpendirFrame
    <3> QED
      BY <3>1, <3>2
  <2> QED
    BY <1>2, <2>1, <2>2 DEF IInv, TablesHoldOpen, DirsOnly, HoldsEachOnce, Filled
<1> QED
  BY <1>6, <1>7, <1>8 DEF IInv

\* A directory found in a slot is open.
LEMMA InSlotIsOpen ==
    ASSUME IInv, NEW a \in DOMAIN fat_dir, InSlot(a)
    PROVE  /\ fat_dir[a].data /\ SlotOf(a) \in Slots /\ vfs_open_dirs[SlotOf(a)] = a /\ a # NULL
           /\ fat_dir[a] \in DirRecords /\ fat_dir[a].path \in DOMAIN Entries
           /\ Entries[fat_dir[a].path] \in Nat /\ fat_dir[a].readptr \in 0 .. Entries[fat_dir[a].path]
<1>1. SlotOf(a) \in Slots /\ vfs_open_dirs[SlotOf(a)] = a
  BY DEF InSlot, SlotOf
<1>2. a # NULL
  BY VfsAssumption DEF IInv, TypeOK
<1>3. SlotOf(a) \in Filled(vfs_open_dirs)
  BY <1>1, <1>2 DEF IInv, TypeOK, Filled
<1>4. fat_dir[a].data
  BY <1>1, <1>3 DEF IInv, TablesHoldOpen
<1>5. fat_dir[a] \in DirRecords /\ fat_dir[a].path \in DOMAIN Entries
      /\ fat_dir[a].readptr \in 0 .. Entries[fat_dir[a].path]
  BY DEF IInv, TypeOK, Shapes
<1>6. Entries[fat_dir[a].path] \in Nat
  BY <1>5, VfsAssumption
<1> QED
  BY <1>1, <1>2, <1>4, <1>5, <1>6

\* readdir and rewinddir move the place in a directory that is in a slot.
LEMMA MovesInDir ==
    ASSUME IInv, NEW a \in DOMAIN fat_dir, InSlot(a), NEW n \in Nat, n <= Entries[fat_dir[a].path],
           fat_dir' = [fat_dir EXCEPT ![a].readptr = n], DirsOnly, UNCHANGED vfs_open_dirs
    PROVE  IInv'
<1> DEFINE r == [fat_dir[a] EXCEPT !.readptr = n]
<1>1. r \in DirRecords /\ r.path = fat_dir[a].path /\ r.readptr = n /\ r.data = fat_dir[a].data
  BY InSlotIsOpen DEF DirRecords
<1>2. fat_dir' = [b \in DOMAIN fat_dir |-> IF b = a THEN r ELSE fat_dir[b]]
  BY DEF IInv, Shapes
<1> HIDE DEF r
<1>3. DOMAIN fat_dir' = DOMAIN fat_dir /\ fat_dir' \in [DOMAIN fat_dir' -> DirRecords]
  BY <1>1, <1>2 DEF IInv, Shapes
<1>4. TypeOK'
  <2>1. \A b \in DOMAIN fat_dir : fat_dir'[b].path \in DOMAIN Entries
                                  /\ fat_dir'[b].readptr \in 0 .. Entries[fat_dir'[b].path]
    BY <1>1, <1>2, InSlotIsOpen DEF IInv, TypeOK
  <2> QED
    BY <1>3, <2>1 DEF IInv, TypeOK, DirsOnly
<1>5. Shapes'
  BY <1>3 DEF IInv, Shapes, DirsOnly
<1>6. TablesHoldOpen'
  <2>1. \A i \in Filled(vfs_open_dirs) : vfs_open_dirs[i] \in DOMAIN fat_dir
    BY DEF IInv, TypeOK, Filled
  <2>2. \A b \in DOMAIN fat_dir : fat_dir'[b].data = fat_dir[b].data
    BY <1>1, <1>2
  <2> QED
    BY <2>1, <2>2 DEF IInv, TablesHoldOpen, DirsOnly, HoldsEachOnce, Filled
<1> QED
  BY <1>4, <1>5, <1>6 DEF IInv

\* readdir moves on by one entry, up to the last.
LEMMA ReadDirStep == ASSUME IInv, NEW a \in DOMAIN fat_dir, ReadDir(a) PROVE IInv'
<1>1. InSlot(a) /\ DirsOnly /\ UNCHANGED vfs_open_dirs
      /\ fat_dir' = [fat_dir EXCEPT ![a].readptr = fat_dir[a].readptr + 1]
      /\ fat_dir[a].readptr < Entries[fat_dir[a].path]
  BY DEF ReadDir, DirsOnly, files
<1>2. fat_dir[a].readptr + 1 \in Nat /\ fat_dir[a].readptr + 1 <= Entries[fat_dir[a].path]
  BY <1>1, InSlotIsOpen
<1> QED
  BY <1>1, <1>2, MovesInDir

\* rewinddir goes back to the first entry.
LEMMA RewindDirStep == ASSUME IInv, NEW a \in DOMAIN fat_dir, RewindDir(a) PROVE IInv'
<1>1. InSlot(a) /\ DirsOnly /\ UNCHANGED vfs_open_dirs /\ fat_dir' = [fat_dir EXCEPT ![a].readptr = 0]
  BY DEF RewindDir, DirsOnly, files
<1>2. 0 <= Entries[fat_dir[a].path]
  BY <1>1, InSlotIsOpen
<1> QED
  BY <1>1, <1>2, MovesInDir

\* Closing empties the one slot the directory is in.
LEMMA CloseDirStep == ASSUME IInv, NEW a \in DOMAIN fat_dir, CloseDir(a) PROVE IInv'
<1> DEFINE r    == [fat_dir[a] EXCEPT !.readptr = 0, !.data = FALSE]
           slot == SlotOf(a)
<1>1. InSlot(a) /\ DirsOnly
      /\ fat_dir' = [fat_dir EXCEPT ![a].readptr = 0, ![a].data = FALSE]
      /\ vfs_open_dirs' = [vfs_open_dirs EXCEPT ![slot] = NULL]
  BY DEF CloseDir, fat_closedir, DirsOnly, files
<1>2. slot \in Slots /\ vfs_open_dirs[slot] = a /\ a # NULL /\ fat_dir[a] \in DirRecords
      /\ Entries[fat_dir[a].path] \in Nat
  BY <1>1, InSlotIsOpen
<1>3. r \in DirRecords /\ r.path = fat_dir[a].path /\ r.readptr = 0
  BY <1>2 DEF DirRecords
<1>4. fat_dir' = [b \in DOMAIN fat_dir |-> IF b = a THEN r ELSE fat_dir[b]]
  BY <1>1, <1>2 DEF IInv, Shapes, DirRecords
<1> HIDE DEF r, slot
<1>5. DOMAIN fat_dir' = DOMAIN fat_dir /\ fat_dir' \in [DOMAIN fat_dir' -> DirRecords]
  BY <1>3, <1>4 DEF IInv, Shapes
<1>6. /\ vfs_open_dirs' \in [Slots -> DOMAIN fat_dir \cup {NULL}]
      /\ \A i \in Slots : vfs_open_dirs'[i] = IF i = slot THEN NULL ELSE vfs_open_dirs[i]
  BY <1>1, <1>2 DEF IInv, TypeOK
<1>7. TypeOK'
  <2>1. \A b \in DOMAIN fat_dir : fat_dir'[b].path \in DOMAIN Entries
                                  /\ fat_dir'[b].readptr \in 0 .. Entries[fat_dir'[b].path]
    BY <1>2, <1>3, <1>4 DEF IInv, TypeOK
  <2> QED
    BY <1>1, <1>5, <1>6, <2>1 DEF IInv, TypeOK, DirsOnly
<1>8. Shapes'
  BY <1>1, <1>5 DEF IInv, Shapes, DirsOnly
<1>9. TablesHoldOpen'
  <2>1. \A i \in Slots : vfs_open_dirs'[i] # NULL =>
           i # slot /\ vfs_open_dirs'[i] = vfs_open_dirs[i] /\ i \in Filled(vfs_open_dirs)
    BY <1>2, <1>6 DEF IInv, TypeOK, Filled
  <2>2. slot \in Filled(vfs_open_dirs)
    BY <1>2 DEF IInv, TypeOK, Filled
  <2>3. \A i \in Slots : vfs_open_dirs'[i] # NULL => vfs_open_dirs[i] # a
    BY <1>2, <2>1, <2>2 DEF IInv, TablesHoldOpen, HoldsEachOnce
  <2>4. \A i \in Filled(vfs_open_dirs) : vfs_open_dirs[i] \in DOMAIN fat_dir /\ fat_dir[vfs_open_dirs[i]].data
    BY DEF IInv, TypeOK, TablesHoldOpen, Filled
  <2>5. \A i \in Slots : vfs_open_dirs'[i] # NULL => fat_dir'[vfs_open_dirs'[i]].data
    BY <1>4, <2>1, <2>3, <2>4
  <2>6. HoldsEachOnce(vfs_open_dirs)'
    BY <1>6, <2>1 DEF IInv, TablesHoldOpen, HoldsEachOnce, Filled
  <2> QED
    BY <1>1, <1>6, <2>5, <2>6 DEF IInv, TablesHoldOpen, DirsOnly, HoldsEachOnce, Filled
<1> QED
  BY <1>7, <1>8, <1>9 DEF IInv

-----------------------------------------------------------------------------
(* Files *)

\* What the steps that change files leave alone.
FilesOnly == UNCHANGED <<vfs_mfs, adrift, vfs_open_dirs, fat_dir, pc>>

\* They keep what holds of the directories.
LEMMA DirsKept ==
    ASSUME IInv, FilesOnly
    PROVE  /\ HoldsEachOnce(vfs_open_dirs)'
           /\ \A i \in Filled(vfs_open_dirs)' : fat_dir'[vfs_open_dirs'[i]].data
  BY DEF IInv, TablesHoldOpen, FilesOnly, HoldsEachOnce, Filled

\* A file opened gets a struct of its own and a descriptor that was free.
LEMMA OpenFileFrame ==
    ASSUME IInv, NEW lost \in BOOLEAN, NEW path \in Paths, OpenFile(path, lost)
    PROVE  \E a \in Unused, f \in Finds(path, Files, lost), fd \in Fds :
             /\ fd = FirstFree(vfs_open_files) /\ vfs_open_files[fd] = NULL
             /\ f \in DOMAIN Readable /\ Readable[f] \in Nat
             /\ fat_file' = [x \in DOMAIN fat_file \cup {a} |->
                               IF x = a THEN [file |-> f, pos |-> 0] ELSE fat_file[x]]
             /\ \A d \in Fds : vfs_open_files'[d] = IF d = fd THEN a ELSE vfs_open_files[d]
             /\ vfs_open_files' \in [Fds -> DOMAIN fat_file' \cup {NULL}]
             /\ vfs_mfs # NULL /\ ret' = Spoken!Opened(path, fd, lost)
             /\ FilesOnly
<1>1. PICK a \in Unused, f \in Finds(path, Files, lost) :
        /\ fat_file' = Spoken!Added(fat_file, a, [file |-> f, pos |-> 0])
        /\ vfs_open_files' = [vfs_open_files EXCEPT ![FirstFree(vfs_open_files)] = a]
  BY DEF OpenFile
<1>2. PICK fd : fd = FirstFree(vfs_open_files)
  OBVIOUS
<1>3. DOMAIN vfs_open_files = Fds /\ fd \in Fds /\ vfs_open_files[fd] = NULL
  BY <1>2, FirstFreeIsFree, Places DEF OpenFile, IInv, TypeOK
<1>4. DOMAIN Readable = Files \cup {"other"} /\ \A g \in DOMAIN Readable : Readable[g] \in Nat
  BY VfsAssumption
<1>5. f \in DOMAIN Readable
  BY <1>4 DEF Finds
<1>6. fat_file' = [x \in DOMAIN fat_file \cup {a} |->
                     IF x = a THEN [file |-> f, pos |-> 0] ELSE fat_file[x]]
  BY <1>1 DEF Spoken!Added
<1>7. \A d \in Fds : vfs_open_files'[d] = IF d = fd THEN a ELSE vfs_open_files[d]
  BY <1>1, <1>2, <1>3
<1>8. vfs_open_files' \in [Fds -> DOMAIN fat_file' \cup {NULL}]
  BY <1>1, <1>2, <1>3, <1>6 DEF IInv, TypeOK
<1>9. vfs_mfs # NULL /\ ret' = Spoken!Opened(path, fd, lost) /\ FilesOnly
  BY <1>2 DEF OpenFile, FilesOnly, dirs
<1> QED
  BY <1>2, <1>3, <1>4, <1>5, <1>6, <1>7, <1>8, <1>9

\* _open keeps the invariant: the new fat_file is reached from one descriptor.
LEMMA OpenFileStep == ASSUME IInv, NEW lost \in BOOLEAN, NEW path \in Paths, OpenFile(path, lost) PROVE IInv'
<1>1. PICK a \in Unused, f \in Finds(path, Files, lost), fd \in Fds :
        /\ fd = FirstFree(vfs_open_files) /\ vfs_open_files[fd] = NULL
        /\ f \in DOMAIN Readable /\ Readable[f] \in Nat
        /\ fat_file' = [x \in DOMAIN fat_file \cup {a} |->
                          IF x = a THEN [file |-> f, pos |-> 0] ELSE fat_file[x]]
        /\ \A d \in Fds : vfs_open_files'[d] = IF d = fd THEN a ELSE vfs_open_files[d]
        /\ vfs_open_files' \in [Fds -> DOMAIN fat_file' \cup {NULL}]
        /\ vfs_mfs # NULL /\ ret' = Spoken!Opened(path, fd, lost)
        /\ FilesOnly
  BY OpenFileFrame, Zenon
<1>2. /\ a \in Addresses /\ a # NULL /\ a \notin DOMAIN fat_file /\ a \notin DOMAIN fat_dir
      /\ \A d \in Fds : vfs_open_files[d] # a
  BY UnusedIsNew
<1>3. DOMAIN fat_file' = DOMAIN fat_file \cup {a}
  BY <1>1
<1>4. \A b \in DOMAIN fat_file' :
         /\ fat_file'[b] \in FileRecords
         /\ fat_file'[b].file \in DOMAIN Readable /\ fat_file'[b].pos \in 0 .. Readable[fat_file'[b].file]
  <2> SUFFICES ASSUME NEW b \in DOMAIN fat_file'
               PROVE  /\ fat_file'[b] \in FileRecords
                      /\ fat_file'[b].file \in DOMAIN Readable
                      /\ fat_file'[b].pos \in 0 .. Readable[fat_file'[b].file]
    OBVIOUS
  <2>1. CASE b = a
    <3>1. fat_file'[b] = [file |-> f, pos |-> 0]
      BY <1>1, <1>3, <2>1
    <3> QED
      BY <1>1, <3>1 DEF FileRecords
  <2>2. CASE b # a
    <3>1. b \in DOMAIN fat_file /\ fat_file'[b] = fat_file[b]
      BY <1>1, <1>3, <2>2
    <3> QED
      BY <3>1 DEF IInv, TypeOK, Shapes
  <2> QED
    BY <2>1, <2>2
<1>5. TypeOK'
  BY <1>1, <1>2, <1>3, <1>4 DEF IInv, TypeOK, FilesOnly
<1>6. Shapes'
  BY <1>1, <1>4 DEF IInv, Shapes, FilesOnly
<1>7. TablesHoldOpen'
  <2>1. Filled(vfs_open_files)' = Filled(vfs_open_files) \cup {fd}
    BY <1>1, <1>2 DEF IInv, TypeOK, Filled
  <2>2. \A d \in Filled(vfs_open_files) : d \in Fds /\ d # fd /\ vfs_open_files'[d] = vfs_open_files[d]
    BY <1>1 DEF IInv, TypeOK, Filled
  <2>3. vfs_open_files'[fd] = a
    BY <1>1
  <2>4. HoldsEachOnce(vfs_open_files)'
    BY <1>2, <2>1, <2>2, <2>3 DEF IInv, TablesHoldOpen, HoldsEachOnce
  <2>5. DOMAIN fat_file' = {vfs_open_files'[d] : d \in Filled(vfs_open_files)'}
    BY <1>3, <2>1, <2>2, <2>3 DEF IInv, TablesHoldOpen
  <2> QED
    BY <1>1, <2>4, <2>5, DirsKept DEF TablesHoldOpen
<1> QED
  BY <1>5, <1>6, <1>7 DEF IInv

\* The struct of an open descriptor.
LEMMA OpenHasFile ==
    ASSUME IInv, NEW fd \in Fds, IsOpen(fd)
    PROVE  LET a == vfs_open_files[fd]
           IN /\ a \in DOMAIN fat_file /\ a # NULL /\ fat_file[a] \in FileRecords
              /\ fat_file[a].file \in DOMAIN Readable /\ Readable[fat_file[a].file] \in Nat
              /\ fat_file[a].pos \in 0 .. Readable[fat_file[a].file]
              /\ \A d \in Fds : d # fd => vfs_open_files[d] # a
<1> DEFINE a == vfs_open_files[fd]
<1>1. a \in DOMAIN fat_file /\ a # NULL
  BY DEF IInv, TypeOK, IsOpen
<1>2. fat_file[a] \in FileRecords /\ fat_file[a].file \in DOMAIN Readable
      /\ fat_file[a].pos \in 0 .. Readable[fat_file[a].file]
  BY <1>1 DEF IInv, TypeOK, Shapes
<1>3. Readable[fat_file[a].file] \in Nat
  BY <1>2, VfsAssumption
<1>4. \A d \in Fds : d # fd => vfs_open_files[d] # a
  BY <1>1 DEF IInv, TypeOK, TablesHoldOpen, HoldsEachOnce, Filled
<1> QED
  BY <1>1, <1>2, <1>3, <1>4

\* A read moves on in its own file, or fails and changes nothing.
LEMMA ReadFileFrame ==
    ASSUME IInv, NEW fd \in Fds, NEW n \in Nat \ {0}, ReadFile(fd, n)
    PROVE  LET a    == vfs_open_files[fd]
               f    == fat_file[a].file
               pos  == fat_file[a].pos
               left == Readable[f] - pos
               m    == IF n > left THEN left ELSE n
           IN /\ IsOpen(fd) /\ m \in 0 .. left /\ FilesOnly /\ UNCHANGED vfs_open_files
              /\ m = 0 => ret' = Spoken!DidRead(fd, -1, {})
              /\ m # 0 => ret' = Spoken!DidRead(fd, m, {<<f, i>> : i \in pos + 1 .. pos + m})
              /\ fat_file' = [b \in DOMAIN fat_file |->
                                IF b = a THEN [file |-> f, pos |-> pos + m] ELSE fat_file[b]]
<1> DEFINE a    == vfs_open_files[fd]
           f    == fat_file[a].file
           pos  == fat_file[a].pos
           left == Readable[f] - pos
           m    == IF n > left THEN left ELSE n
<1>1. IsOpen(fd) /\ FilesOnly /\ UNCHANGED vfs_open_files
  BY DEF ReadFile, FilesOnly, dirs
<1>2. a \in DOMAIN fat_file /\ fat_file[a] \in FileRecords /\ Readable[f] \in Nat /\ pos \in 0 .. Readable[f]
  BY <1>1, OpenHasFile
<1>3. m \in 0 .. left
  <2> HIDE DEF a, f, pos
  <2> QED
    BY <1>2
<1>4. \/ m = 0 /\ ret' = Spoken!DidRead(fd, -1, {}) /\ fat_file' = fat_file
      \/ /\ m # 0 /\ fat_file' = [fat_file EXCEPT ![a].pos = pos + m]
         /\ ret' = Spoken!DidRead(fd, m, {<<f, i>> : i \in pos + 1 .. pos + m})
  BY DEF ReadFile
<1>5. [fat_file[a] EXCEPT !.pos = pos + m] = [file |-> f, pos |-> pos + m]
  BY <1>2 DEF FileRecords
<1>6. m = 0 => fat_file[a] = [file |-> f, pos |-> pos + m]
  <2>1. fat_file[a] = [file |-> f, pos |-> pos]
    BY <1>2 DEF FileRecords
  <2>2. pos + 0 = pos
    BY <1>2
  <2> QED
    BY <2>1, <2>2
<1>7. fat_file' = [b \in DOMAIN fat_file |-> IF b = a THEN [file |-> f, pos |-> pos + m] ELSE fat_file[b]]
  <2>1. fat_file = [b \in DOMAIN fat_file |-> fat_file[b]]
    BY DEF IInv, Shapes
  <2>2. CASE m = 0
    <3>1. fat_file' = fat_file
      BY <1>4, <2>2
    <3> HIDE DEF m, pos, f
    <3> QED
      BY <1>6, <2>1, <2>2, <3>1
  <2>3. CASE m # 0
    <3>1. fat_file' = [fat_file EXCEPT ![a].pos = pos + m]
      BY <1>4, <2>3
    <3>2. fat_file' = [b \in DOMAIN fat_file |->
                         IF b = a THEN [fat_file[a] EXCEPT !.pos = pos + m] ELSE fat_file[b]]
      BY <2>1, <3>1
    <3> QED
      BY <1>5, <3>2
  <2> QED
    BY <2>2, <2>3
<1> QED
  BY <1>1, <1>3, <1>4, <1>7

\* _read keeps the invariant: the place stays within the file.
LEMMA ReadFileStep == ASSUME IInv, NEW fd \in Fds, NEW n \in Nat \ {0}, ReadFile(fd, n) PROVE IInv'
<1> DEFINE a    == vfs_open_files[fd]
           f    == fat_file[a].file
           pos  == fat_file[a].pos
           left == Readable[f] - pos
           m    == IF n > left THEN left ELSE n
<1>1. /\ m \in 0 .. left
      /\ fat_file' = [b \in DOMAIN fat_file |->
                        IF b = a THEN [file |-> f, pos |-> pos + m] ELSE fat_file[b]]
  BY ReadFileFrame
<1>2. IsOpen(fd) /\ FilesOnly /\ UNCHANGED vfs_open_files
  BY DEF ReadFile, FilesOnly, dirs
<1>3. /\ a \in DOMAIN fat_file /\ f \in DOMAIN Readable /\ Readable[f] \in Nat /\ pos \in 0 .. Readable[f]
  BY <1>2, OpenHasFile
<1>4. pos + m \in 0 .. Readable[f]
  <2> HIDE DEF a, f, pos, m
  <2> QED
    BY <1>1, <1>3
<1> HIDE DEF m
<1>5. DOMAIN fat_file' = DOMAIN fat_file
  BY <1>1
<1>6. \A b \in DOMAIN fat_file :
         /\ fat_file'[b] \in FileRecords
         /\ fat_file'[b].file \in DOMAIN Readable /\ fat_file'[b].pos \in 0 .. Readable[fat_file'[b].file]
  <2> SUFFICES ASSUME NEW b \in DOMAIN fat_file
               PROVE  /\ fat_file'[b] \in FileRecords
                      /\ fat_file'[b].file \in DOMAIN Readable
                      /\ fat_file'[b].pos \in 0 .. Readable[fat_file'[b].file]
    OBVIOUS
  <2>1. CASE b = a
    <3>1. fat_file'[b] = [file |-> f, pos |-> pos + m]
      BY <1>1, <2>1
    <3> HIDE DEF f, pos, a
    <3> QED
      BY <1>3, <1>4, <3>1 DEF FileRecords
  <2>2. CASE b # a
    <3>1. fat_file'[b] = fat_file[b]
      BY <1>1, <2>2
    <3> QED
      BY <3>1 DEF IInv, TypeOK, Shapes
  <2> QED
    BY <2>1, <2>2
<1>7. fat_file' \in [DOMAIN fat_file' -> FileRecords]
  BY <1>1, <1>5, <1>6
<1>8. TypeOK' /\ Shapes'
  BY <1>2, <1>5, <1>6, <1>7 DEF IInv, TypeOK, Shapes, FilesOnly
<1>9. TablesHoldOpen'
  BY <1>2, <1>5 DEF IInv, TablesHoldOpen, FilesOnly, HoldsEachOnce, Filled
<1> QED
  BY <1>8, <1>9 DEF IInv

\* _close keeps the invariant: no other descriptor had the fat_file it frees.
LEMMA CloseFileStep == ASSUME IInv, NEW fd \in Fds, CloseFile(fd) PROVE IInv'
<1> DEFINE a == vfs_open_files[fd]
<1>1. /\ fat_file' = [b \in DOMAIN fat_file \ {a} |-> fat_file[b]]
      /\ vfs_open_files' = [vfs_open_files EXCEPT ![fd] = NULL]
      /\ IsOpen(fd) /\ FilesOnly
  BY DEF CloseFile, fat_fclose, FilesOnly, dirs
<1>2. a \in DOMAIN fat_file /\ a # NULL /\ \A d \in Fds : d # fd => vfs_open_files[d] # a
  BY <1>1, OpenHasFile
<1>3. \A d \in Fds : vfs_open_files'[d] = IF d = fd THEN NULL ELSE vfs_open_files[d]
  BY <1>1 DEF IInv, TypeOK
<1>4. DOMAIN fat_file' = DOMAIN fat_file \ {a} /\ \A b \in DOMAIN fat_file' : fat_file'[b] = fat_file[b]
  BY <1>1
<1>5. vfs_open_files' \in [Fds -> DOMAIN fat_file' \cup {NULL}]
  BY <1>1, <1>2, <1>4 DEF IInv, TypeOK
<1>6. fat_file' \in [DOMAIN fat_file' -> FileRecords]
  BY <1>1, <1>4 DEF IInv, Shapes
<1>7. TypeOK'
  BY <1>1, <1>4, <1>5 DEF IInv, TypeOK, FilesOnly
<1>8. Shapes'
  BY <1>1, <1>3, <1>6 DEF IInv, Shapes, FilesOnly
<1>9. TablesHoldOpen'
  <2>1. Filled(vfs_open_files)' = Filled(vfs_open_files) \ {fd} /\ fd \in Filled(vfs_open_files)
    BY <1>2, <1>3, <1>5 DEF IInv, TypeOK, Filled
  <2>2. \A d \in Filled(vfs_open_files)' : d \in Fds /\ vfs_open_files'[d] = vfs_open_files[d]
    BY <1>3, <2>1 DEF IInv, TypeOK, Filled
  <2>3. HoldsEachOnce(vfs_open_files)'
    BY <2>1, <2>2 DEF IInv, TablesHoldOpen, HoldsEachOnce
  <2>4. DOMAIN fat_file' = {vfs_open_files'[d] : d \in Filled(vfs_open_files)'}
    BY <1>2, <1>4, <2>1, <2>2 DEF IInv, TablesHoldOpen
  <2> QED
    BY <1>1, <2>3, <2>4, DirsKept DEF TablesHoldOpen
<1> QED
  BY <1>7, <1>8, <1>9 DEF IInv

-----------------------------------------------------------------------------
(* The invariant *)

\* Every call keeps the invariant.
LEMMA StepInvariant == IInv /\ [Next]_vars => IInv'
<1> SUFFICES ASSUME IInv, [Next]_vars PROVE IInv'
  OBVIOUS
<1>1. CASE Quiet
  BY <1>1, QuietStep
<1>2. ASSUME NEW lost \in BOOLEAN, NEW path \in Paths, MountTaken(path, lost) \/ OpenDir(path, lost) \/ OpenFile(path, lost) PROVE IInv'
  BY <1>2, MountTakenStep, OpenDirStep, OpenFileStep
<1>3. ASSUME NEW a \in DOMAIN fat_dir, ReadDir(a) \/ RewindDir(a) \/ CloseDir(a) PROVE IInv'
  BY <1>3, ReadDirStep, RewindDirStep, CloseDirStep
<1>4. ASSUME NEW fd \in Fds, NEW n \in 1 .. MaxReadable, ReadFile(fd, n) PROVE IInv'
  <2>1. n \in Nat \ {0}
    OBVIOUS
  <2> QED
    BY <1>4, <2>1, ReadFileStep
<1>5. ASSUME NEW fd \in Fds, CloseFile(fd) PROVE IInv'
  BY <1>5, CloseFileStep
<1>6. CASE UNCHANGED vars
  BY <1>6 DEF vars, files, dirs, IInv, TypeOK, Shapes, TablesHoldOpen, HoldsEachOnce, Filled
<1> QED
  BY <1>1, <1>2, <1>3, <1>4, <1>5, <1>6, Zenon DEF Next, Quiet

\* Every variable keeps its type, in every state of the file layer.
THEOREM TypeCorrect == Spec => []TypeOK
<1>1. IInv => TypeOK
  BY DEF IInv
<1> QED
  BY <1>1, InitInvariant, StepInvariant, PTL DEF Spec

\* The tables and the structs always agree: no two descriptors share a fat_file,
\* each fat_file has its descriptor, no slot holds a directory that was closed.
THEOREM TablesAgree == Spec => []TablesHoldOpen
<1>1. IInv => TablesHoldOpen
  BY DEF IInv
<1> QED
  BY <1>1, InitInvariant, StepInvariant, PTL DEF Spec

\* No call ever changes a directory that was closed.
THEOREM ClosedDirsRest == Spec => ClosedDirIsLeftAlone
<1> DEFINE Rests == \A a \in DOMAIN fat_dir : ~fat_dir[a].data => a \in DOMAIN fat_dir' /\ fat_dir'[a] = fat_dir[a]
<1>1. IInv /\ [Next]_vars => [Rests]_vars
  <2> SUFFICES ASSUME IInv, Next PROVE Rests
    OBVIOUS
  <2>1. CASE Quiet
    BY <2>1, QuietFrame
  <2>2. ASSUME NEW lost \in BOOLEAN, NEW path \in Paths, MountTaken(path, lost) \/ OpenDir(path, lost) PROVE Rests
    <3>1. PICK a \in Unused : fat_opendir(path, a, lost)
      BY <2>2 DEF MountTaken, OpenDir
    <3> QED
      BY <3>1, OpendirFrame
  <2>3. ASSUME NEW a \in DOMAIN fat_dir, ReadDir(a) \/ RewindDir(a) \/ CloseDir(a) PROVE Rests
    <3>1. fat_dir[a].data
      BY <2>3, InSlotIsOpen DEF ReadDir, RewindDir, CloseDir
    <3>2. \A b \in DOMAIN fat_dir : b # a => b \in DOMAIN fat_dir' /\ fat_dir'[b] = fat_dir[b]
      BY <2>3 DEF ReadDir, RewindDir, CloseDir, fat_closedir
    <3> QED
      BY <3>1, <3>2
  <2>4. ASSUME NEW lost \in BOOLEAN, NEW path \in Paths, OpenFile(path, lost) PROVE Rests
    BY <2>4 DEF OpenFile, dirs
  <2>5. ASSUME NEW fd \in Fds, CloseFile(fd) PROVE Rests
    BY <2>5 DEF CloseFile, dirs
  <2>6. ASSUME NEW fd \in Fds, NEW n \in 1 .. MaxReadable, ReadFile(fd, n) PROVE Rests
    BY <2>6 DEF ReadFile, dirs
  <2> HIDE DEF Rests
  <2> QED
    BY <2>1, <2>2, <2>3, <2>4, <2>5, <2>6, Zenon DEF Next, Quiet
<1> QED
  BY <1>1, InitInvariant, StepInvariant, PTL DEF Spec, ClosedDirIsLeftAlone

-----------------------------------------------------------------------------
(* Refinement: the system calls keep the promise of FdSpec *)

\* What FdSpec knows of paths, from the state.
LEMMA PathsLeadIs ==
    ASSUME IInv
    PROVE  /\ vfs_mfs = NULL => PathsLead = "none"
           /\ vfs_mfs # NULL /\ adrift => PathsLead = "lost"
           /\ vfs_mfs # NULL /\ ~adrift => PathsLead = "sound"
  BY DEF PathsLead, IInv, Shapes

\* The descriptors that are open, each with its file and place.
LEMMA DescriptorsAre ==
    ASSUME IInv
    PROVE  /\ DOMAIN Descriptors = {fd \in Fds : vfs_open_files[fd] # NULL}
           /\ \A fd \in DOMAIN Descriptors : Descriptors[fd] = fat_file[vfs_open_files[fd]]
  BY DEF Descriptors

\* The openings do not change when no table and no fat_file does.
LEMMA SameDescriptors ==
    ASSUME UNCHANGED <<vfs_open_files, fat_file>>
    PROVE  Descriptors' = Descriptors
  BY DEF Descriptors

\* What becomes of paths does not change without a mount or fat_fstat.
LEMMA SamePaths ==
    ASSUME UNCHANGED <<vfs_mfs, adrift>>
    PROVE  PathsLead' = PathsLead
  BY DEF PathsLead

Stutters == UNCHANGED <<PathsLead, Descriptors, ret>>

\* Every call that does not touch a descriptor's file is a step of FdSpec or none.
LEMMA QuietRefines == ASSUME IInv, Quiet PROVE Spoken!Next \/ Stutters
<1> USE DEF files, dirs, vars
<1>1. ASSUME NEW lost \in BOOLEAN, MountFirst(lost) PROVE Spoken!Next
  <2>1. /\ vfs_mfs = NULL /\ vfs_mfs' # NULL /\ UNCHANGED <<vfs_open_files, fat_file>>
        /\ adrift' \in {FALSE, lost} /\ ret' = Spoken!Mounted(lost)
    BY <1>1, VfsAssumption DEF MountFirst
  <2>2. PathsLead = "none" /\ (PathsLead' = "sound" \/ (lost /\ PathsLead' = "lost"))
    <3>1. PathsLead = "none"
      BY <2>1 DEF PathsLead, IInv, Shapes
    <3>2. CASE adrift' = FALSE
      BY <2>1, <3>1, <3>2 DEF PathsLead
    <3>3. CASE adrift' = TRUE
      <4>1. lost
        BY <2>1, <3>3
      <4> QED
        BY <2>1, <3>1, <3>3, <4>1 DEF PathsLead
    <3> QED
      BY <2>1, <3>2, <3>3
  <2>3. Spoken!Mount(lost)
    BY <2>1, <2>2, SameDescriptors DEF Spoken!Mount
  <2> QED
    BY <2>3 DEF Spoken!Next
<1>2. CASE \/ AppendMount \/ LostAstray \/ OpenDirEmptyPath \/ StatAstray
           \/ \E lost \in BOOLEAN, path \in Paths : MountBelow(path, lost)
  <2>1. UNCHANGED <<vfs_mfs, adrift, vfs_open_files, fat_file, ret>>
    BY <1>2 DEF AppendMount, LostAstray, OpenDirEmptyPath, SkipTwice, MountBelow, StatAstray, Astray
  <2> QED
    BY <2>1, SameDescriptors, SamePaths DEF Stutters
<1>3. ASSUME NEW path, NEW lost \in BOOLEAN, OpenFails(path, lost),
             PathsLead # "sound" \/ lost \/ path \notin Files \/ Fds \subseteq DOMAIN Descriptors
      PROVE  Spoken!Next
  <2>1. PathsLead' = PathsLead /\ Descriptors' = Descriptors /\ ret' = Spoken!Opened(path, -1, lost)
    BY <1>3, SameDescriptors, SamePaths DEF OpenFails
  <2>2. ret'.path = path /\ ret'.call = "open"
    BY <2>1 DEF Spoken!Opened, Spoken!Result
  <2>3. Spoken!OpenFails(lost)
    BY <1>3, <2>1, <2>2 DEF Spoken!OpenFails
  <2> QED
    BY <2>1, <2>3 DEF Spoken!Next, Spoken!Call
<1>4. CASE Astray
  BY <1>4, SameDescriptors, SamePaths DEF Astray, Stutters
<1>5. ASSUME NEW path \in Paths, OpenRefused(path) PROVE Spoken!Next
  <2>1. OpenFails(path, FALSE) /\ (vfs_mfs = NULL \/ ~HasFree(vfs_open_files) \/ path = "/")
    BY <1>5 DEF OpenRefused
  <2>2. CASE vfs_mfs = NULL
    BY <1>3, <2>1, <2>2, PathsLeadIs
  <2>3. CASE ~HasFree(vfs_open_files)
    BY <1>3, <2>1, <2>3, DescriptorsAre DEF HasFree, IInv, TypeOK
  <2>4. CASE path = "/"
    BY <1>3, <2>1, <2>4, VfsAssumption
  <2> QED
    BY <2>1, <2>2, <2>3, <2>4
<1>6. ASSUME NEW lost \in BOOLEAN, NEW path \in Paths, OpenMissing(path, lost) PROVE Spoken!Next \/ Stutters
  <2>1. vfs_mfs # NULL /\ (adrift \/ lost \/ path \notin Files) /\ (Astray \/ OpenFails(path, lost))
    BY <1>6 DEF OpenMissing, MayFail
  <2>2. PathsLead # "sound" \/ lost \/ path \notin Files
    BY <2>1, PathsLeadIs
  <2> QED
    BY <1>3, <1>4, <2>1, <2>2
<1>7. CASE OpenEmptyPath
  <2>1. "" \notin Files
    BY VfsAssumption
  <2> QED
    BY <1>3, <1>4, <1>7, <2>1 DEF OpenEmptyPath
<1>8. ASSUME NEW fd \in Fds, NotOpen(fd) PROVE Spoken!Next
  <2>1. PathsLead' = PathsLead /\ Descriptors' = Descriptors
    BY <1>8, SameDescriptors, SamePaths DEF NotOpen
  <2>2. fd \notin DOMAIN Descriptors
    BY <1>8, DescriptorsAre DEF NotOpen, IsOpen
  <2>3. Spoken!FailsOnClosed(fd)
    BY <1>8, <2>1, <2>2 DEF NotOpen, Spoken!FailsOnClosed
  <2> QED
    BY <2>1, <2>3 DEF Spoken!Next, Spoken!Call
<1>9. ASSUME NEW fd \in Fds, StatFile(fd) PROVE Spoken!Next
  <2>1. /\ vfs_open_files[fd] # NULL /\ vfs_mfs # NULL /\ adrift' = TRUE /\ vfs_mfs' = vfs_mfs
        /\ Descriptors' = Descriptors /\ ret' = Spoken!DidStat(0)
    BY <1>9, SameDescriptors DEF StatFile, IsOpen, IInv, Shapes
  <2>2. PathsLead' = "lost"
    BY <2>1 DEF PathsLead
  <2>3. DOMAIN Descriptors # {}
    BY <2>1, DescriptorsAre
  <2> QED
    BY <2>1, <2>2, <2>3 DEF Spoken!Next, Spoken!Stat
<1>10. CASE StatNoFile
  <2>1. PathsLead' = PathsLead /\ Descriptors' = Descriptors /\ ret' = Spoken!DidStat(-1)
    BY <1>10, SameDescriptors, SamePaths DEF StatNoFile
  <2> QED
    BY <2>1 DEF Spoken!Next, Spoken!Stat
<1> QED
  BY <1>1, <1>2, <1>5, <1>6, <1>7, <1>8, <1>9, <1>10, Zenon DEF Quiet

\* _open is Open of FdSpec, or OpenLost when the driver is adrift or a sector lost.
LEMMA OpenRefines == ASSUME IInv, NEW lost \in BOOLEAN, NEW path \in Paths, OpenFile(path, lost) PROVE Spoken!Next
<1>1. PICK a \in Unused, f \in Finds(path, Files, lost), fd \in Fds :
        /\ fd = FirstFree(vfs_open_files) /\ vfs_open_files[fd] = NULL
        /\ f \in DOMAIN Readable /\ Readable[f] \in Nat
        /\ fat_file' = [x \in DOMAIN fat_file \cup {a} |->
                          IF x = a THEN [file |-> f, pos |-> 0] ELSE fat_file[x]]
        /\ \A d \in Fds : vfs_open_files'[d] = IF d = fd THEN a ELSE vfs_open_files[d]
        /\ vfs_open_files' \in [Fds -> DOMAIN fat_file' \cup {NULL}]
        /\ vfs_mfs # NULL /\ ret' = Spoken!Opened(path, fd, lost)
        /\ FilesOnly
  BY OpenFileFrame, Zenon
<1>2. PathsLead' = PathsLead
  BY <1>1, SamePaths DEF FilesOnly
<1>3. fd \notin DOMAIN Descriptors
  BY <1>1, DescriptorsAre
<1> DEFINE r == [file |-> f, pos |-> 0]
<1>4. a # NULL /\ \A d \in Fds : vfs_open_files[d] # a
  BY UnusedIsNew
<1>5. Descriptors' = Spoken!Added(Descriptors, fd, r)
  <2> HIDE DEF r
  <2>1. Descriptors' = [d \in {e \in Fds : vfs_open_files'[e] # NULL} |-> fat_file'[vfs_open_files'[d]]]
    BY DEF Descriptors
  <2>2. {e \in Fds : vfs_open_files'[e] # NULL} = DOMAIN Descriptors \cup {fd}
    BY <1>1, <1>4, DescriptorsAre
  <2>3. \A x \in DOMAIN fat_file \cup {a} : fat_file'[x] = IF x = a THEN r ELSE fat_file[x]
    BY <1>1 DEF r
  <2>4. fat_file'[vfs_open_files'[fd]] = r
    BY <1>1, <2>3
  <2>5. \A d \in DOMAIN Descriptors : d # fd => fat_file'[vfs_open_files'[d]] = Descriptors[d]
    <3> SUFFICES ASSUME NEW d \in DOMAIN Descriptors, d # fd
                 PROVE  fat_file'[vfs_open_files'[d]] = Descriptors[d]
      OBVIOUS
    <3>1. d \in Fds /\ vfs_open_files[d] # NULL /\ Descriptors[d] = fat_file[vfs_open_files[d]]
      BY DescriptorsAre
    <3>2. vfs_open_files[d] \in DOMAIN fat_file /\ vfs_open_files[d] # a
      BY <1>4, <3>1 DEF IInv, TypeOK
    <3>3. vfs_open_files'[d] = vfs_open_files[d]
      BY <1>1, <3>1
    <3> QED
      BY <2>3, <3>1, <3>2, <3>3
  <2> QED
    BY <2>1, <2>2, <2>4, <2>5 DEF Spoken!Added
<1>6. CASE adrift \/ f # path \/ path \notin Files
  <2>1. f = "other" /\ (PathsLead = "lost" \/ lost)
    BY <1>1, <1>6, PathsLeadIs DEF Finds
  <2>2. ret'.path = path
    BY <1>1 DEF Spoken!Opened, Spoken!Result
  <2>3. Spoken!OpenLost(fd, lost)
    BY <1>1, <1>3, <1>5, <2>1, <2>2, Zenon DEF Spoken!OpenLost
  <2> QED
    BY <1>2, <2>3 DEF Spoken!Next, Spoken!Call
<1>7. CASE ~adrift /\ f = path /\ path \in Files
  <2>1. PathsLead = "sound"
    BY <1>1, <1>7, PathsLeadIs
  <2>2. Spoken!Open(path, fd, lost)
    BY <1>1, <1>3, <1>5, <1>7, <2>1, Zenon DEF Spoken!Open
  <2> QED
    BY <1>2, <1>7, <2>2 DEF Spoken!Next, Spoken!Call
<1> QED
  BY <1>6, <1>7

\* _close is Close of FdSpec.
LEMMA CloseRefines == ASSUME IInv, NEW fd \in Fds, CloseFile(fd) PROVE Spoken!Next
<1> DEFINE a == vfs_open_files[fd]
<1>1. /\ fat_file' = [b \in DOMAIN fat_file \ {a} |-> fat_file[b]]
      /\ vfs_open_files' = [vfs_open_files EXCEPT ![fd] = NULL]
      /\ IsOpen(fd) /\ FilesOnly /\ ret' = Spoken!DidClose(fd, 0)
  BY DEF CloseFile, fat_fclose, FilesOnly, dirs
<1>2. a \in DOMAIN fat_file /\ a # NULL /\ \A d \in Fds : d # fd => vfs_open_files[d] # a
  BY <1>1, OpenHasFile
<1>3. \A d \in Fds : vfs_open_files'[d] = IF d = fd THEN NULL ELSE vfs_open_files[d]
  BY <1>1 DEF IInv, TypeOK
<1>4. PathsLead' = PathsLead
  BY <1>1, SamePaths DEF FilesOnly
<1>5. Descriptors' = [d \in DOMAIN Descriptors \ {fd} |-> Descriptors[d]]
  <2>1. Descriptors' = [d \in {e \in Fds : vfs_open_files'[e] # NULL} |-> fat_file'[vfs_open_files'[d]]]
    BY DEF Descriptors
  <2>2. {e \in Fds : vfs_open_files'[e] # NULL} = DOMAIN Descriptors \ {fd}
    BY <1>3, DescriptorsAre
  <2>3. \A d \in DOMAIN Descriptors \ {fd} : fat_file'[vfs_open_files'[d]] = Descriptors[d]
    <3> SUFFICES ASSUME NEW d \in DOMAIN Descriptors, d # fd
                 PROVE  fat_file'[vfs_open_files'[d]] = Descriptors[d]
      OBVIOUS
    <3>1. d \in Fds /\ vfs_open_files[d] # NULL /\ Descriptors[d] = fat_file[vfs_open_files[d]]
      BY DescriptorsAre
    <3>2. vfs_open_files[d] \in DOMAIN fat_file \ {a}
      BY <1>2, <3>1 DEF IInv, TypeOK
    <3> QED
      BY <1>1, <1>3, <3>1, <3>2
  <2> QED
    BY <2>1, <2>2, <2>3
<1>6. fd \in DOMAIN Descriptors
  BY <1>1, DescriptorsAre DEF IsOpen
<1>7. Spoken!Close(fd)
  BY <1>1, <1>5 DEF Spoken!Close
<1> QED
  BY <1>4, <1>6, <1>7 DEF Spoken!Next, Spoken!Call

\* To ask for more than the whole file is to ask for one unit more than it has.
LEMMA ReadRefines == ASSUME IInv, NEW fd \in Fds, NEW n \in Nat \ {0}, ReadFile(fd, n) PROVE Spoken!Next
<1> DEFINE a    == vfs_open_files[fd]
           f    == fat_file[a].file
           pos  == fat_file[a].pos
           left == Readable[f] - pos
           m    == IF n > left THEN left ELSE n
           k    == IF n > Readable[f] + 1 THEN Readable[f] + 1 ELSE n
           end  == IF pos + k > Readable[f] THEN Readable[f] ELSE pos + k
<1>1. /\ IsOpen(fd) /\ FilesOnly /\ UNCHANGED vfs_open_files
      /\ m = 0 => ret' = Spoken!DidRead(fd, -1, {})
      /\ m # 0 => ret' = Spoken!DidRead(fd, m, {<<f, i>> : i \in pos + 1 .. pos + m})
      /\ fat_file' = [b \in DOMAIN fat_file |->
                        IF b = a THEN [file |-> f, pos |-> pos + m] ELSE fat_file[b]]
  BY ReadFileFrame
<1>2. /\ a \in DOMAIN fat_file /\ a # NULL /\ fat_file[a] \in FileRecords
      /\ Readable[f] \in Nat /\ pos \in 0 .. Readable[f]
      /\ \A d \in Fds : d # fd => vfs_open_files[d] # a
  BY <1>1, OpenHasFile
<1>3. fd \in DOMAIN Descriptors /\ Descriptors[fd] = fat_file[a]
  BY <1>1, DescriptorsAre DEF IsOpen
<1>4. PathsLead' = PathsLead
  BY <1>1, SamePaths DEF FilesOnly
<1>5. k \in 1 .. Readable[f] + 1 /\ end = pos + m /\ m \in Nat
  <2> HIDE DEF f, pos
  <2> QED
    BY <1>2
<1>6. Descriptors' = [d \in DOMAIN Descriptors |->
                        IF d = fd THEN [file |-> f, pos |-> pos + m] ELSE Descriptors[d]]
  <2> DEFINE r == [file |-> f, pos |-> pos + m]
  <2> HIDE DEF r
  <2>1. Descriptors' = [d \in DOMAIN Descriptors |-> fat_file'[vfs_open_files[d]]]
    BY <1>1 DEF Descriptors
  <2>2. \A b \in DOMAIN fat_file : fat_file'[b] = IF b = a THEN r ELSE fat_file[b]
    BY <1>1 DEF r
  <2>3. \A d \in DOMAIN Descriptors : fat_file'[vfs_open_files[d]] = IF d = fd THEN r ELSE Descriptors[d]
    <3> SUFFICES ASSUME NEW d \in DOMAIN Descriptors
                 PROVE  fat_file'[vfs_open_files[d]] = IF d = fd THEN r ELSE Descriptors[d]
      OBVIOUS
    <3>1. d \in Fds /\ vfs_open_files[d] # NULL /\ Descriptors[d] = fat_file[vfs_open_files[d]]
      BY DescriptorsAre
    <3>2. vfs_open_files[d] \in DOMAIN fat_file
      BY <3>1 DEF IInv, TypeOK
    <3> HIDE DEF a
    <3>3. vfs_open_files[fd] = a
      BY DEF a
    <3> QED
      BY <1>2, <2>2, <3>1, <3>2, <3>3
  <2> QED
    BY <2>1, <2>3 DEF r
<1>7. [Descriptors[fd] EXCEPT !.pos = end] = [file |-> f, pos |-> pos + m]
  BY <1>2, <1>3, <1>5 DEF FileRecords
<1>8. {<<f, i>> : i \in pos + 1 .. pos + m} = {f} \X (pos + 1 .. pos + m)
  OBVIOUS
<1>9. Spoken!Read(fd, k)
  <2>1. CASE m = 0
    <3>1. end = pos
      <4> HIDE DEF end, m, pos
      <4> QED
        BY <1>2, <1>5, <2>1
    <3>2. fat_file[a] = [file |-> f, pos |-> pos + m]
      <4>1. fat_file[a] = [file |-> f, pos |-> pos] /\ pos + 0 = pos
        BY <1>2 DEF FileRecords
      <4> HIDE DEF m
      <4> QED
        BY <2>1, <4>1
    <3>3. Descriptors' = Descriptors
      <4>1. Descriptors = [d \in DOMAIN Descriptors |-> Descriptors[d]]
        BY DEF Descriptors
      <4> QED
        BY <1>3, <1>6, <3>2, <4>1, Zenon
    <3> QED
      BY <1>1, <1>3, <2>1, <3>1, <3>3 DEF Spoken!Read
  <2>2. CASE m # 0
    <3>1. end # pos /\ end - pos = m
      <4> HIDE DEF end, m, pos
      <4> QED
        BY <1>2, <1>5, <2>2
    <3>2. Descriptors' = [Descriptors EXCEPT ![fd].pos = end]
      <4>1. Descriptors = [d \in DOMAIN Descriptors |-> Descriptors[d]]
        BY DEF Descriptors
      <4>2. [Descriptors EXCEPT ![fd].pos = end]
              = [d \in DOMAIN Descriptors |->
                   IF d = fd THEN [Descriptors[fd] EXCEPT !.pos = end] ELSE Descriptors[d]]
        BY <1>3
      <4> QED
        BY <1>6, <1>7, <4>2, Zenon
    <3>3. ret' = Spoken!DidRead(fd, end - pos, {f} \X (pos + 1 .. end))
      <4> HIDE DEF end, m, pos, f
      <4> QED
        BY <1>1, <1>5, <1>8, <2>2, <3>1
    <3> DEFINE e == IF Descriptors[fd].pos + k > Readable[Descriptors[fd].file]
                    THEN Readable[Descriptors[fd].file] ELSE Descriptors[fd].pos + k
    <3>4. e = end /\ Descriptors[fd].file = f /\ Descriptors[fd].pos = pos
      BY <1>3
    <3>5. /\ e # Descriptors[fd].pos
          /\ Descriptors' = [Descriptors EXCEPT ![fd].pos = e]
          /\ ret' = Spoken!DidRead(fd, e - Descriptors[fd].pos,
                                   {Descriptors[fd].file} \X (Descriptors[fd].pos + 1 .. e))
      <4> HIDE DEF e, end, f, pos
      <4> QED
        BY <3>1, <3>2, <3>3, <3>4, Zenon
    <3> QED
      BY <3>5, Zenon DEF Spoken!Read
  <2> QED
    BY <2>1, <2>2
<1> QED
  BY <1>2, <1>3, <1>4, <1>5, <1>9 DEF Spoken!Next, Spoken!Call

\* The system calls keep the promise of FdSpec: each descriptor reads what it was
\* opened on, on from its own place, whatever other openings come between; and an
\* opening to which every sector is delivered finds its file until the first _fstat.
THEOREM KeepsDescriptors == Spec => ImplementsDescriptors
<1>1. Init => Spoken!Init
  <2> SUFFICES ASSUME Init PROVE Spoken!Init
    OBVIOUS
  <2>1. PathsLead = "none" /\ ret = Spoken!Opened("none", -1, FALSE)
    BY DEF Init, PathsLead
  <2>2. \A fd \in Fds : vfs_open_files[fd] = NULL
    BY DEF Init
  <2>3. Descriptors = [fd \in {} |-> 0]
    <3>1. {d \in Fds : vfs_open_files[d] # NULL} = {}
      BY <2>2
    <3> QED
      BY <3>1 DEF Descriptors
  <2> QED
    BY <2>1, <2>3 DEF Spoken!Init
<1>2. IInv /\ [Next]_vars => [Spoken!Next]_<<PathsLead, Descriptors, ret>>
  <2> SUFFICES ASSUME IInv, [Next]_vars PROVE Spoken!Next \/ Stutters
    BY DEF Stutters
  <2>1. CASE Quiet
    BY <2>1, QuietRefines
  <2>2. ASSUME UNCHANGED <<vfs_mfs, adrift, vfs_open_files, fat_file, ret>> PROVE Stutters
    BY <2>2, SameDescriptors, SamePaths DEF Stutters
  <2>3. ASSUME NEW lost \in BOOLEAN, NEW path \in Paths, MountTaken(path, lost) \/ OpenDir(path, lost) PROVE Stutters
    BY <2>2, <2>3 DEF MountTaken, OpenDir, files
  <2>4. ASSUME NEW a \in DOMAIN fat_dir, ReadDir(a) \/ RewindDir(a) \/ CloseDir(a) PROVE Stutters
    BY <2>2, <2>4 DEF ReadDir, RewindDir, CloseDir, files
  <2>5. ASSUME NEW lost \in BOOLEAN, NEW path \in Paths, OpenFile(path, lost) PROVE Spoken!Next
    BY <2>5, OpenRefines
  <2>6. ASSUME NEW fd \in Fds, CloseFile(fd) PROVE Spoken!Next
    BY <2>6, CloseRefines
  <2>7. ASSUME NEW fd \in Fds, NEW n \in 1 .. MaxReadable, ReadFile(fd, n) PROVE Spoken!Next
    <3>1. n \in Nat \ {0}
      OBVIOUS
    <3> QED
      BY <2>7, <3>1, ReadRefines
  <2>8. CASE UNCHANGED vars
    BY <2>2, <2>8 DEF vars, files
  <2> QED
    BY <2>1, <2>3, <2>4, <2>5, <2>6, <2>7, <2>8, Zenon DEF Next, Quiet
<1> QED
  BY <1>1, <1>2, InitInvariant, StepInvariant, PTL DEF Spec, ImplementsDescriptors, Spoken!Spec
=============================================================================
