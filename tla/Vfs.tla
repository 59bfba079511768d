-------------------------------- MODULE Vfs --------------------------------
(***************************************************************************)
(* The file layer: the system calls of stdio.c, the tables of open files   *)
(* and directories of vfs.c, and the operations of fat32.c on what they    *)
(* hold.  A call runs to its end before the next begins; callers make      *)
(* their calls in any order, and use descriptors and directories that were *)
(* closed as well as those that are open.                                  *)
(*                                                                         *)
(* How fat32.c finds a path on the card is in Fat32: here a path is a      *)
(* file, a directory, or neither, as long as the card delivers the sectors *)
(* asked for and fat_fstat has not overwritten where the driver looks for  *)
(* the data of the volume.  Data is counted in units; the data of a file   *)
(* is read when it is opened, whole clusters of it.                        *)
(***************************************************************************)
EXTENDS Integers

CONSTANTS
    NULL,         \* the null pointer
    Wild,         \* a pointer that memory malloc does not clear happens to hold
    Addresses,    \* addresses malloc gives for struct fat_file and struct fat_dir
    FirstFd,      \* first descriptor for files: 3
    NumFiles,     \* descriptors up to here: 64
    NumDirs,      \* directories open at a time: 16
    Files,        \* paths of files
    Dirs,         \* paths of directories but the root
    Readable,     \* units in the clusters of each file, and of what "other" is
    Entries       \* number of entries of each directory, and of what "other" is

Fds == FirstFd .. NumFiles - 1

Slots == 0 .. NumDirs - 1

\* "/" is the path of the root; "" is shorter than any mount path.
Paths == Files \cup Dirs \cup {"/", "", "missing"}

ASSUME VfsAssumption ==
    /\ NULL \notin Addresses /\ Wild \notin Addresses /\ Wild # NULL
    /\ NULL \notin {[next |-> NULL], [next |-> Wild]}
    /\ FirstFd \in Nat /\ NumFiles \in Nat /\ NumDirs \in Nat
    /\ Files \cap Dirs = {} /\ (Files \cup Dirs) \cap {"/", "", "missing", "none", "other"} = {}
    /\ Readable \in [Files \cup {"other"} -> Nat]
    /\ Entries \in [Dirs \cup {"/", "other"} -> Nat]

VARIABLES
    vfs_mfs,          \* the first mount, NULL or what its field next holds
    adrift,           \* does the driver look for data where the volume has other data?
    vfs_open_files,   \* for each descriptor the fat_file it stands for, or NULL
    vfs_open_dirs,    \* for each slot the fat_dir in it, or NULL
    fat_file,         \* the fat_files allocated: their file and dataptr
    fat_dir,          \* the fat_dirs allocated: their directory and readptr, and
                      \* whether they still have their data
    pc,               \* "idle", "append" in the endless loop of vfs_mount, "wild"
                      \* after it followed a pointer that may lead anywhere
    ret               \* the last system call and its result, see FdSpec

files == <<vfs_open_files, fat_file>>
dirs  == <<vfs_open_dirs, fat_dir>>
vars  == <<vfs_mfs, adrift, vfs_open_files, vfs_open_dirs, fat_file, fat_dir, pc, ret>>

\* What FdSpec sees of the tables: what may become of a path, and the openings
\* by descriptor.
PathsLead   == CASE vfs_mfs = NULL -> "none" [] adrift -> "lost" [] OTHER -> "sound"
Descriptors == [fd \in {d \in Fds : vfs_open_files[d] # NULL} |-> fat_file[vfs_open_files[fd]]]

Spoken == INSTANCE FdSpec WITH fs <- PathsLead, table <- Descriptors

Init ==
    /\ vfs_mfs = NULL
    /\ adrift = FALSE
    /\ vfs_open_files = [fd \in Fds |-> NULL]
    /\ vfs_open_dirs = [i \in Slots |-> NULL]
    /\ fat_file = [a \in {} |-> 0]
    /\ fat_dir = [a \in {} |-> 0]
    /\ pc = "idle"
    /\ ret = Spoken!Opened("none", -1, FALSE)

\* Addresses malloc may give: no struct is there now.
Unused == Addresses \ (DOMAIN fat_file \cup DOMAIN fat_dir)

\* The program goes on with a pointer that leads anywhere.
Astray == pc' = "wild" /\ UNCHANGED <<vfs_mfs, adrift, files, dirs, ret>>

-----------------------------------------------------------------------------
(* vfs_mount *)

\* The first mount: whatever the path, it is the root.  Its field next is not set.
\* Nobody looks whether init_fatfs, which is called for it, was delivered every
\* sector of the FAT; a FAT with a hole sets the driver adrift where it is met.
MountFirst(lost) ==
    /\ pc = "idle"
    /\ vfs_mfs = NULL
    /\ vfs_mfs' \in {[next |-> NULL], [next |-> Wild]}
    /\ adrift' \in {FALSE, lost}
    /\ ret' = Spoken!Mounted(lost)
    /\ UNCHANGED <<files, dirs, pc>>

\* What a path may lead to, lost being whether a sector asked for on the way is
\* not delivered.  The driver goes on with what the buffer held before (or, once it
\* is adrift, with other sectors): what it opens may be anything, or a file of
\* which a part is missing.
Finds(path, known, lost) ==
    (IF adrift THEN {} ELSE {path} \cap known) \cup (IF adrift \/ lost THEN {"other"} ELSE {})

MayFail(path, known, lost) == adrift \/ lost \/ path \notin known

\* Following what an opening finds in such a buffer may lead anywhere, or round
\* and round.
LostAstray == pc = "idle" /\ vfs_mfs # NULL /\ Astray

\* fat_opendir: the root and the directories of the card can be opened, into a
\* new fat_dir.
fat_opendir(path, a, lost) ==
    \E d \in Finds(path, Dirs \cup {"/"}, lost) :
        fat_dir' = Spoken!Added(fat_dir, a, [path |-> d, readptr |-> 0, data |-> TRUE])

\* A mount below the root whose path the root file system can open as a
\* directory is refused; the directory stays open.
MountTaken(path, lost) ==
    /\ pc = "idle"
    /\ vfs_mfs # NULL
    /\ \E a \in Unused : fat_opendir(path, a, lost)
    /\ UNCHANGED <<vfs_mfs, adrift, files, vfs_open_dirs, pc, ret>>

\* Another path is compared with the mounts after the first, then appended by a
\* loop that looks for the end of the list.  Neither the field next of the first
\* mount nor that of the new one was set.
MountBelow(path, lost) ==
    /\ pc = "idle"
    /\ vfs_mfs # NULL
    /\ path # "/" /\ MayFail(path, Dirs, lost)
    /\ \/ Astray
       \/ /\ vfs_mfs.next = NULL
          /\ pc' = "append"
          /\ UNCHANGED <<vfs_mfs, adrift, files, dirs, ret>>

\* The loop has no exit: it links the new mount to itself.
AppendMount == pc = "append" /\ UNCHANGED vars

-----------------------------------------------------------------------------
(* opendir, readdir, rewinddir, closedir *)

\* Mutant: the first place, free or not.
FirstPlace(t) == CHOOSE i \in DOMAIN t : \A j \in DOMAIN t : i <= j

\* The lowest free place of a table.
FirstFree(t) ==
    CHOOSE i \in DOMAIN t : t[i] = NULL /\ \A j \in DOMAIN t : t[j] = NULL => i <= j

HasFree(t) == \E i \in DOMAIN t : t[i] = NULL

\* A path shorter than the mount path is skipped twice: once more at the end of
\* the loop, through the pointer that may be NULL by then.
SkipTwice == Astray \/ UNCHANGED vars

\* A directory the driver opened is put in a slot.
OpenDir(path, lost) ==
    /\ pc = "idle"
    /\ HasFree(vfs_open_dirs)
    /\ vfs_mfs # NULL
    /\ \E a \in Unused :
          /\ fat_opendir(path, a, lost)
          /\ vfs_open_dirs' = [vfs_open_dirs EXCEPT ![FirstFree(vfs_open_dirs)] = a]
    /\ UNCHANGED <<vfs_mfs, adrift, files, pc, ret>>

OpenDirEmptyPath ==
    /\ pc = "idle"
    /\ HasFree(vfs_open_dirs)
    /\ vfs_mfs # NULL
    /\ SkipTwice

\* The slot that holds a directory.
SlotOf(a) == CHOOSE i \in Slots : vfs_open_dirs[i] = a

InSlot(a) == \E i \in Slots : vfs_open_dirs[i] = a

\* fat_readdir: the next entry, which may be one that is passed over.
ReadDir(a) ==
    /\ pc = "idle"
    /\ InSlot(a)
    /\ fat_dir[a].readptr < Entries[fat_dir[a].path]
    /\ fat_dir' = [fat_dir EXCEPT ![a].readptr = @ + 1]
    /\ UNCHANGED <<vfs_mfs, adrift, files, vfs_open_dirs, pc, ret>>

RewindDir(a) ==
    /\ pc = "idle"
    /\ InSlot(a)
    /\ fat_dir' = [fat_dir EXCEPT ![a].readptr = 0]
    /\ UNCHANGED <<vfs_mfs, adrift, files, vfs_open_dirs, pc, ret>>

\* fat_closedir frees the data and keeps the struct.
fat_closedir(a) == fat_dir' = [fat_dir EXCEPT ![a].readptr = 0, ![a].data = FALSE]

\* Mutant: the slot is not emptied.
CloseDirKept(a) ==
    /\ pc = "idle"
    /\ InSlot(a)
    /\ fat_closedir(a)
    /\ UNCHANGED <<vfs_mfs, adrift, files, vfs_open_dirs, pc, ret>>

\* A directory that is in no slot, because it was closed, is refused.
CloseDir(a) ==
    /\ pc = "idle"
    /\ InSlot(a)
    /\ fat_closedir(a)
    /\ vfs_open_dirs' = [vfs_open_dirs EXCEPT ![SlotOf(a)] = NULL]
    /\ UNCHANGED <<vfs_mfs, adrift, files, pc, ret>>

-----------------------------------------------------------------------------
(* _open, _read, _fstat and _close *)

OpenFails(path, lost) ==
    /\ ret' = Spoken!Opened(path, -1, lost)
    /\ UNCHANGED <<vfs_mfs, adrift, files, dirs, pc>>

\* _open asks for the mode "r".  A file goes to the lowest free descriptor.
OpenFile(path, lost) ==
    /\ pc = "idle"
    /\ vfs_mfs # NULL /\ HasFree(vfs_open_files)
    /\ path \notin {"/", ""}
    /\ \E a \in Unused, f \in Finds(path, Files, lost) :
          /\ fat_file' = Spoken!Added(fat_file, a, [file |-> f, pos |-> 0])
          /\ vfs_open_files' = [vfs_open_files EXCEPT ![FirstFree(vfs_open_files)] = a]
    /\ ret' = Spoken!Opened(path, FirstFree(vfs_open_files), lost)
    /\ UNCHANGED <<vfs_mfs, adrift, dirs, pc>>

\* Nothing is mounted, no descriptor is free, or the path is the root.
OpenRefused(path) ==
    /\ pc = "idle"
    /\ vfs_mfs = NULL \/ ~HasFree(vfs_open_files) \/ path = "/"
    /\ OpenFails(path, FALSE)

\* The driver does not find the file: the next mount is tried.
OpenMissing(path, lost) ==
    /\ pc = "idle"
    /\ vfs_mfs # NULL /\ HasFree(vfs_open_files)
    /\ path \notin {"/", ""} /\ MayFail(path, Files, lost)
    /\ IF vfs_mfs.next = Wild THEN Astray ELSE OpenFails(path, lost)

OpenEmptyPath ==
    /\ pc = "idle"
    /\ vfs_mfs # NULL /\ HasFree(vfs_open_files)
    /\ Astray \/ OpenFails("", FALSE)

IsOpen(fd) == vfs_open_files[fd] # NULL

\* A read from a descriptor that is not open, or a close of it.
NotOpen(fd) ==
    /\ pc = "idle"
    /\ ~IsOpen(fd)
    /\ ret' \in {Spoken!DidRead(fd, -1, {}), Spoken!DidClose(fd, -1)}
    /\ UNCHANGED <<vfs_mfs, adrift, files, dirs, pc>>

\* Mutant: dataptr is not moved.
ReadFileAgain(fd, n) ==
    /\ pc = "idle"
    /\ IsOpen(fd)
    /\ LET f    == fat_file[vfs_open_files[fd]].file
           m    == IF n > Readable[f] THEN Readable[f] ELSE n
       IN ret' = Spoken!DidRead(fd, m, {<<f, i>> : i \in 1 .. m})
    /\ UNCHANGED <<vfs_mfs, adrift, files, dirs, pc>>

\* fat_fread: n units or what is left of them up to the end of the buffer.
ReadFile(fd, n) ==
    /\ pc = "idle"
    /\ IsOpen(fd)
    /\ LET a    == vfs_open_files[fd]
           f    == fat_file[a].file
           pos  == fat_file[a].pos
           left == Readable[f] - pos
           m    == IF n > left THEN left ELSE n
       IN IF m = 0
          THEN ret' = Spoken!DidRead(fd, -1, {}) /\ UNCHANGED fat_file
          ELSE /\ fat_file' = [fat_file EXCEPT ![a].pos = @ + m]
               /\ ret' = Spoken!DidRead(fd, m, {<<f, i>> : i \in pos + 1 .. pos + m})
    /\ UNCHANGED <<vfs_mfs, adrift, vfs_open_files, dirs, pc>>

\* _fstat takes its argument for the address of a FILE and works on the file whose
\* descriptor it finds there, in _file.  nes_load_cart passes it a FILE, and that
\* is the file's own; the C library passes a descriptor, and in the low memory it
\* is the address of any number may be found: fd is that number.  vfsfstat passes
\* the fat_fs where fat_fstat takes the struct stat: the call succeeds, the
\* caller's struct is not written, and the size lands in the fat_fs, see Fat32.
StatFile(fd) ==
    /\ pc = "idle"
    /\ IsOpen(fd)
    /\ ret' = Spoken!DidStat(0)
    /\ adrift' = TRUE
    /\ UNCHANGED <<vfs_mfs, files, dirs, pc>>

\* The number found there is a descriptor that is not open, or one of the console.
StatNoFile ==
    /\ pc = "idle"
    /\ ret' = Spoken!DidStat(-1)
    /\ UNCHANGED <<vfs_mfs, adrift, files, dirs, pc>>

\* It is no index of vfs_open_files: what lies there is taken for a driver.
StatAstray == pc = "idle" /\ Astray

\* fat_fclose frees the fat_file: its address may be given again.
fat_fclose(a) == fat_file' = [b \in DOMAIN fat_file \ {a} |-> fat_file[b]]

\* Mutant: the descriptor keeps the freed fat_file.
CloseFileKept(fd) ==
    /\ pc = "idle"
    /\ IsOpen(fd)
    /\ fat_fclose(vfs_open_files[fd])
    /\ ret' = Spoken!DidClose(fd, 0)
    /\ UNCHANGED <<vfs_mfs, adrift, vfs_open_files, dirs, pc>>

CloseFile(fd) ==
    /\ pc = "idle"
    /\ IsOpen(fd)
    /\ fat_fclose(vfs_open_files[fd])
    /\ vfs_open_files' = [vfs_open_files EXCEPT ![fd] = NULL]
    /\ ret' = Spoken!DidClose(fd, 0)
    /\ UNCHANGED <<vfs_mfs, adrift, dirs, pc>>

MaxReadable ==
    CHOOSE n \in {Readable[f] : f \in DOMAIN Readable} : \A f \in DOMAIN Readable : Readable[f] <= n

Next ==
    \/ AppendMount \/ LostAstray
    \/ \E lost \in BOOLEAN :
          \/ MountFirst(lost)
          \/ \E path \in Paths : MountTaken(path, lost) \/ MountBelow(path, lost)
          \/ \E path \in Paths : OpenDir(path, lost)
          \/ \E path \in Paths : OpenFile(path, lost) \/ OpenMissing(path, lost)
    \/ \E path \in Paths : OpenRefused(path)
    \/ OpenDirEmptyPath \/ OpenEmptyPath
    \/ \E a \in DOMAIN fat_dir : ReadDir(a) \/ RewindDir(a) \/ CloseDir(a)
    \/ StatNoFile \/ StatAstray
    \/ \E fd \in Fds :
          \/ NotOpen(fd) \/ StatFile(fd) \/ CloseFile(fd)
          \/ \E n \in 1 .. MaxReadable : ReadFile(fd, n)

Spec == Init /\ [][Next]_vars

-----------------------------------------------------------------------------
(* What should hold *)

\* Every variable has its type; a table holds only addresses of structs that are
\* allocated, and no struct is both a file and a directory.
TypeOK ==
    /\ vfs_mfs \in {NULL, [next |-> NULL], [next |-> Wild]}
    /\ adrift \in BOOLEAN
    /\ DOMAIN fat_file \cap DOMAIN fat_dir = {}
    /\ DOMAIN fat_file \cup DOMAIN fat_dir \subseteq Addresses
    /\ vfs_open_files \in [Fds -> DOMAIN fat_file \cup {NULL}]
    /\ vfs_open_dirs \in [Slots -> DOMAIN fat_dir \cup {NULL}]
    /\ \A a \in DOMAIN fat_file :
          fat_file[a].file \in DOMAIN Readable /\ fat_file[a].pos \in 0 .. Readable[fat_file[a].file]
    /\ \A a \in DOMAIN fat_dir :
          fat_dir[a].path \in DOMAIN Entries /\ fat_dir[a].readptr \in 0 .. Entries[fat_dir[a].path]
    /\ pc \in {"idle", "append", "wild"}

Filled(t) == {i \in DOMAIN t : t[i] # NULL}

HoldsEachOnce(t) == \A i, j \in Filled(t) : t[i] = t[j] => i = j

\* The tables and the structs agree, in whatever order files and directories are
\* opened and closed: two descriptors never share a fat_file, though malloc gives
\* the address of a closed one again; each fat_file has a descriptor, so a close
\* frees it; and a slot never holds a directory that was closed.
TablesHoldOpen ==
    /\ HoldsEachOnce(vfs_open_files) /\ HoldsEachOnce(vfs_open_dirs)
    /\ DOMAIN fat_file = {vfs_open_files[fd] : fd \in Filled(vfs_open_files)}
    /\ \A i \in Filled(vfs_open_dirs) : fat_dir[vfs_open_dirs[i]].data

\* No call changes a directory that was closed, whoever still has its address:
\* readdir looks the address up in the slots, and it is never given to another
\* directory, because fat_closedir does not free the struct.
ClosedDirIsLeftAlone ==
    [][\A a \in DOMAIN fat_dir : ~fat_dir[a].data =>
          a \in DOMAIN fat_dir' /\ fat_dir'[a] = fat_dir[a]]_vars

\* The system calls keep the promise of FdSpec for any interleaving of openings:
\* each descriptor reads what it was opened on, on from its own place, whatever
\* else is opened, closed or missed on the card meanwhile; until the first _fstat
\* of an open file, an opening to which every sector is delivered yields the file
\* asked for, and fails only when the file or a free descriptor is missing.
ImplementsDescriptors == Spoken!Spec
=============================================================================
