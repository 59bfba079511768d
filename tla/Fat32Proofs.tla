---------------------------- MODULE Fat32Proofs ----------------------------
(***************************************************************************)
(* Theorems about Fat32 for every card, every set of paths and any number  *)
(* of sectors the card fails to deliver.  The argument: what a call holds  *)
(* is told by the step it is at (Stage) and, of its strings, by its path   *)
(* (StringsHeld), and what fat_getclustercount has counted are clusters    *)
(* that fat_getdata then reads (Counting, Reading).                        *)
(* A chain with a cycle, or one that leaves the FAT, is never read.        *)
(* On volumes the code keeps to (IsPlain), a buffer holds the sectors of   *)
(* its chain (SoFar, Whole), and fat_fopen is in a directory its path      *)
(* leads to (Heading, Searching): NInv.                                    *)
(***************************************************************************)
EXTENDS Fat32, FiniteSetTheorems, WellFoundedInduction, TLAPS

\* A buffer as fat_getdata leaves it, and as it fills it.
IsBuf(v, b) ==
    /\ b \in [root : Nat, num : Nat, left : Nat, data : Seq(DOMAIN v.card \cup {Hole}), size : Nat]
    /\ b.size <= Len(b.data) /\ b.left <= Cardinality(DOMAIN v.fat) + 1

IsDir(v, d) ==
    /\ d = [buf |-> d.buf, readptr |-> d.readptr]
    /\ IsBuf(v, d.buf) /\ d.readptr \in 1 .. EndOfData(d.buf) + 2

\* What every variable holds, the readptr of fat_opendir and the buffers in full.
Typed ==
    /\ volume \in Volumes /\ firstdatalba \in Nat /\ stated \in BOOLEAN /\ lost \in 0 .. MaxLost
    /\ pc \in {"off", "none", "idle", "count", "read", "scan", "open", "search", "file", "wild"}
    /\ call = [op |-> call.op, path |-> call.path, todo |-> call.todo, then |-> call.then]
    /\ IsBuf(volume, buf) /\ readptr \in Nat
    /\ IsDir(volume, fdir) /\ (odir # NULL => IsDir(volume, odir))
    /\ dir.tail \in BOOLEAN /\ rdir.tail \in BOOLEAN
    /\ file # NULL => file.filesize \in Nat

\* f is the chain of n clusters from c, all but the last of them in the FAT.
IsChain(v, f, c, n) ==
    /\ f \in [0 .. n - 1 -> Nat] /\ f[0] = c
    /\ \A i \in 1 .. n - 1 : f[i - 1] \in DOMAIN v.fat /\ f[i] = v.fat[f[i - 1]]

\* What fat_getclustercount has counted are clusters of the chain, the last of them
\* the one it looks at; once the count stands at its bound, one that lies in the FAT
\* if the one it looks at does.
Counting(v, b) ==
    /\ b.left > 0
    /\ \E f : /\ IsChain(v, f, b.root, b.left)
              /\ \/ f[b.left - 1] = b.num
                 \/ b.left = Cardinality(DOMAIN v.fat) + 1 /\ f[b.left - 1] \in DOMAIN v.fat

\* As many clusters as fat_getdata has left to read follow from where it stands.
Reading(v, b) ==
    /\ b.left > 0
    /\ \E f : IsChain(v, f, b.num, b.left) /\ f[b.left - 1] \in DOMAIN v.fat

\* The blocks held: copies of the path, dirents of fat_opendir, buffers, fat_dirs,
\* dirents of fat_fopen and fat_files.
Holds(h, copies, dirs, buffers, odirs, rdirents, files) ==
    /\ h \in [Blocks -> 0 .. 2]
    /\ h["copy"] = copies /\ h["dir"] = dirs /\ h["buffer"] = buffers
    /\ h["odir"] = odirs /\ h["rdirent"] = rdirents /\ h["fatfile"] = files

\* fat_fopen holds its copy of the path while it runs.
Copies(op) == IF op = "fopen" THEN 1 ELSE 0

\* What a call holds while it looks for a directory, when it has found it, and when
\* it has found the file in it; n of the buffers it has need of now are there.
Stage(h, op, then, n) ==
    /\ op \in {"opendir", "fopen"} /\ then \in {"scan", "open", "file"}
    /\ then = "scan" => Holds(h, Copies(op), 1, n, 0, 0, 0)
    /\ then = "open" => Holds(h, Copies(op), 0, n, 0, 0, 0)
    /\ then = "file" => op = "fopen" /\ Holds(h, 1, 0, 1 + n, 1, 1, 1)

\* What a call that returned has left: of a path of no names its copy.
Left(h, r) ==
    \/ r.op = "none"
    \/ r.op = "fopen" /\ r.path = <<>> /\ r.then = "NULL" /\ Holds(h, 1, 0, 0, 0, 0, 0)
    \/ /\ r.op = "fopen" => r.path # <<>>
       /\ \/ r.then = "NULL" /\ (Holds(h, 0, 0, 0, 0, 0, 0) \/ Holds(h, 0, 0, 1, 1, 1, 0))
          \/ r.then = "dir" /\ Holds(h, 0, 0, 1, 1, 0, 0)
          \/ r.then = "file" /\ Holds(h, 0, 0, 2, 1, 1, 1)

\* What is held at each step of a call, and what the last call left.
Holding ==
    /\ held \in [Blocks -> 0 .. 2]
    /\ pc = "count" => Stage(held, call.op, call.then, 0)
    /\ pc = "read" => Stage(held, call.op, call.then, 1)
    /\ pc \in {"scan", "open", "file"} => call.then = pc /\ Stage(held, call.op, pc, 1)
    /\ pc = "search" => call.op = "fopen" /\ Holds(held, 1, 0, 1, 1, 1, 0)
    /\ pc = "off" => ret.op = "none"
    /\ pc = "idle" => Left(held, ret)

\* The second string of fat_fopen, pathto: held while a call runs that was given
\* directories or a slash before the name, and afterwards if it was the slash alone.
StringsHeld ==
    /\ InCall =>
          /\ held["pathto"] \in {0, Copies(call.op)}
          /\ call.op = "fopen" => call.path # <<>> /\ Len(call.path) \in Nat \ {0}
          /\ call.op = "fopen" /\ Len(call.path) > 1 => held["pathto"] = 1
    /\ pc = "off" => held["pathto"] = 0
    /\ pc = "idle" => held["pathto"] = 0 \/ (held["pathto"] = 1 /\ ret.op = "fopen" /\ Len(ret.path) = 1)

Walking ==
    /\ pc = "count" => Counting(volume, buf)
    /\ pc = "read" => Reading(volume, buf)

IInv == Typed /\ Holding /\ Walking

-----------------------------------------------------------------------------
(* Volumes, slots and entries *)

\* What the assumption says of the card in the slot.
LEMMA OfVolume ==
    ASSUME NEW v \in Volumes
    PROVE  /\ PerSector \in Nat \ {0} /\ Half \in Nat \ {0} /\ End \notin Nat /\ MaxLost \in Nat
           /\ v.sectorsPerCluster \in Nat \ {0} /\ v.root \in Nat
           /\ v.reservedSectors \in Nat /\ v.fatCnt \in Nat /\ v.sectorsPerFat \in Nat
           /\ Cardinality(DOMAIN v.fat) \in Nat
           /\ \A c \in DOMAIN v.fat : c \in Nat /\ (v.fat[c] # End => v.fat[c] \in Nat)
           /\ \A p \in 1 .. 4 : v.parts[p].LBA \in Nat
           /\ \A lba \in DOMAIN v.card : \A i \in 1 .. PerSector : IsSlot(v.card[lba][i])
<1>1. IsVolume(v)
  BY Fat32Assumption
<1>2. Cardinality(DOMAIN v.fat) \in Nat
  BY <1>1, FS_CardinalityType DEF IsVolume
<1> QED
  BY <1>1, <1>2, Fat32Assumption DEF IsVolume

\* A slot of a buffer has its fields, read or not.
LEMMA SlotTyped ==
    ASSUME volume \in Volumes, NEW b, IsBuf(volume, b), NEW i \in Int
    PROVE  /\ Slot(b, i).low \in Nat /\ Slot(b, i).size \in Nat
           /\ Cluster(Slot(b, i)) \in Nat
<1> DEFINE j == ((i - 1) % PerSector) + 1
<1>1. PerSector \in Nat \ {0} /\ Half \in Nat \ {0}
  BY OfVolume
<1>2. j \in 1 .. PerSector
  <2> DEFINE k == i - 1
  <2>1. k \in Int
    OBVIOUS
  <2> HIDE DEF k
  <2>2. k % PerSector \in 0 .. PerSector - 1
    BY <1>1, <2>1
  <2> QED
    BY <1>1, <2>2 DEF k
<1> HIDE DEF j
<1>3. /\ Slot(b, i).low \in Nat /\ Slot(b, i).size \in Nat /\ Slot(b, i).high \in Nat
  <2>1. CASE IsKnown(b, i)
    <3> DEFINE lba == b.data[Sector(b, i)]
    <3>1. lba \in DOMAIN volume.card
      BY <2>1 DEF IsKnown, IsBuf
    <3>2. Slot(b, i) = volume.card[lba][j]
      BY <2>1 DEF Slot, j
    <3>3. IsSlot(volume.card[lba][j])
      BY <1>2, <3>1, OfVolume
    <3> HIDE DEF lba
    <3> QED
      BY <1>1, <3>2, <3>3 DEF IsSlot
  <2>2. CASE ~IsKnown(b, i)
    BY <2>2 DEF Slot, NoSlot
  <2> QED
    BY <2>1, <2>2
<1> QED
  BY <1>1, <1>3 DEF Cluster

\* fat_getdirent moves on by a slot or two, or not at all, and leaves a dirent.
LEMMA DirentTyped ==
    ASSUME NEW b, NEW i, NEW out, out.tail \in BOOLEAN
    PROVE  /\ fat_getdirent(b, i, out).next \in {-1, 1, 2}
           /\ Step(fat_getdirent(b, i, out).next) \in {1, 2}
           /\ fat_getdirent(b, i, out).out.tail \in BOOLEAN
<1> DEFINE e == EntryAt(b, i)
           s == Slot(b, e)
<1>1. CASE s.attr \notin {"dir", "file"}
  <2>1. fat_getdirent(b, i, out) = [next |-> -1, out |-> out]
    BY <1>1 DEF fat_getdirent
  <2> QED
    BY <2>1 DEF Step
<1>2. CASE s.attr \in {"dir", "file"} /\ e = i
  <2>1. fat_getdirent(b, i, out) = [next |-> 1, out |-> Short(s, out)]
    BY <1>2 DEF fat_getdirent
  <2> QED
    BY <2>1 DEF Step, Short
<1>3. CASE s.attr \in {"dir", "file"} /\ e # i
  <2>1. fat_getdirent(b, i, out) = [next |-> 2, out |-> Long(s, Slot(b, i).name, out)]
    BY <1>3 DEF fat_getdirent
  <2>2. Long(s, Slot(b, i).name, out).tail \in BOOLEAN
    BY DEF Long
  <2> HIDE DEF s
  <2> QED
    BY <2>1, <2>2 DEF Step
<1> QED
  BY <1>1, <1>2, <1>3

\* fat_readdir leaves a directory a slot or two further on.
LEMMA ReadDirTyped ==
    ASSUME volume \in Volumes, NEW d, IsDir(volume, d), MayRead(d), rdir.tail \in BOOLEAN
    PROVE  /\ IsDir(volume, fat_readdir(d).dir) /\ fat_readdir(d).dir.buf = d.buf
           /\ fat_readdir(d).rdir.tail \in BOOLEAN
<1> DEFINE e == fat_getdirent(d.buf, d.readptr, rdir)
           n == Step(e.next)
           r == fat_readdir(d)
<1>1. n \in {1, 2} /\ e.out.tail \in BOOLEAN
  BY DirentTyped
<1>2. d = [buf |-> d.buf, readptr |-> d.readptr] /\ IsBuf(volume, d.buf)
  BY DEF IsDir
<1>3. r.dir = [d EXCEPT !.readptr = @ + n] /\ r.rdir = e.out
  BY DEF fat_readdir
<1> HIDE DEF e, n, r
<1>4. r.dir = [buf |-> d.buf, readptr |-> d.readptr + n]
  BY <1>2, <1>3
<1>5. EndOfData(d.buf) \in Nat
  BY <1>2, OfVolume DEF EndOfData, IsBuf
<1>6. d.readptr + n \in 1 .. EndOfData(d.buf) + 2
  BY <1>1, <1>5 DEF MayRead, IsDir
<1>7. IsDir(volume, r.dir)
  BY <1>2, <1>4, <1>6 DEF IsDir
<1> QED
  BY <1>1, <1>3, <1>4, <1>7 DEF r

-----------------------------------------------------------------------------
(* The invariant, action by action *)

\* fat_getdata begins at a cluster: one cluster counted, nothing read.
LEMMA GetdataTyped ==
    ASSUME volume \in Volumes, NEW root \in Nat, NEW then, Getdata(root, then)
    PROVE  IsBuf(volume, buf') /\ Counting(volume, buf') /\ pc' = "count"
<1> DEFINE f == [i \in 0 .. 0 |-> root]
           b == [root |-> root, num |-> root, left |-> 1, data |-> <<>>, size |-> 0]
<1>1. buf' = b /\ pc' = "count"
  BY DEF Getdata
<1>2. IsBuf(volume, b)
  <2>1. Cardinality(DOMAIN volume.fat) \in Nat
    BY OfVolume
  <2>2. <<>> \in Seq(DOMAIN volume.card \cup {Hole}) /\ Len(<<>>) = 0
    OBVIOUS
  <2> QED
    BY <2>1, <2>2 DEF IsBuf
<1>3. IsChain(volume, f, root, 1) /\ f[1 - 1] = root
  BY DEF IsChain
<1> HIDE DEF f
<1>4. Counting(volume, b)
  BY <1>3 DEF Counting
<1> HIDE DEF b
<1> QED
  BY <1>1, <1>2, <1>4

\* Without a call the locals hold nothing.
LEMMA ForgetTyped ==
    ASSUME volume \in Volumes, Forget
    PROVE  /\ IsBuf(volume, buf') /\ readptr' \in Nat /\ IsDir(volume, fdir')
           /\ dir'.tail \in BOOLEAN
<1>1. IsBuf(volume, NoBuf)
  <2>1. Cardinality(DOMAIN volume.fat) \in Nat
    BY OfVolume
  <2>2. <<>> \in Seq(DOMAIN volume.card \cup {Hole}) /\ Len(<<>>) = 0
    OBVIOUS
  <2> QED
    BY <2>1, <2>2 DEF IsBuf, NoBuf
<1>2. EndOfData(NoBuf) = 0
  BY OfVolume DEF EndOfData, NoBuf
<1>3. IsDir(volume, NoDir)
  BY <1>1, <1>2 DEF IsDir, NoDir
<1> QED
  BY <1>1, <1>3 DEF Forget, NoDirent

\* Init establishes the invariant.
LEMMA InitInvariant == Init => IInv
<1> SUFFICES ASSUME Init PROVE IInv
  OBVIOUS
<1>1. volume \in Volumes
  BY DEF Init
<1>2. IsBuf(volume, NoBuf) /\ IsDir(volume, NoDir)
  <2>1. Cardinality(DOMAIN volume.fat) \in Nat /\ PerSector \in Nat
    BY <1>1, OfVolume
  <2>2. <<>> \in Seq(DOMAIN volume.card \cup {Hole}) /\ Len(<<>>) = 0
    OBVIOUS
  <2>3. IsBuf(volume, NoBuf)
    BY <2>1, <2>2 DEF IsBuf, NoBuf
  <2>4. EndOfData(NoBuf) = 0
    BY <2>1 DEF EndOfData, NoBuf
  <2> QED
    BY <2>3, <2>4 DEF IsDir, NoDir
<1>3. NoDirent.tail \in BOOLEAN /\ lost \in 0 .. MaxLost
  <2>1. MaxLost \in Nat /\ lost = 0
    BY <1>1, OfVolume DEF Init
  <2> QED
    BY <2>1 DEF NoDirent
<1>4. Typed
  <2>1. NoCall = [op |-> NoCall.op, path |-> NoCall.path, todo |-> NoCall.todo, then |-> NoCall.then]
    BY DEF NoCall
  <2> QED
    BY <1>1, <1>2, <1>3, <2>1 DEF Init, Typed
<1>5. Holding /\ Walking
  BY DEF Init, Holding, Walking, NoBlocks, NoCall
<1> QED
  BY <1>4, <1>5 DEF IInv

\* The program goes on with memory nobody filled.
LEMMA StepAstray == ASSUME IInv, Astray PROVE IInv'
<1>1. Typed'
  BY DEF IInv, Typed, Astray, volVars, locals, openVars
<1>2. Holding' /\ Walking'
  BY DEF IInv, Holding, Walking, Astray
<1> QED
  BY <1>1, <1>2 DEF IInv

\* init_fatfs: the first FAT32 partition says where the data begins.
LEMMA StepInit == ASSUME IInv, InitReadFails \/ init_fatfs PROVE IInv'
<1>1. CASE InitReadFails
  <2>1. Typed'
    BY <1>1, Fat32Assumption DEF IInv, Typed, InitReadFails, volVars, locals, openVars
  <2>2. Holding' /\ Walking'
    BY <1>1 DEF IInv, Holding, Walking, InitReadFails
  <2> QED
    BY <2>1, <2>2 DEF IInv
<1>2. CASE init_fatfs
  <2>1. FirstData \in Nat
    <3> DEFINE P == Fat32Partitions
    <3>1. P # {} /\ P \subseteq 1 .. 4
      BY <1>2 DEF init_fatfs, Fat32Partitions
    <3> HIDE DEF P
    <3>2. \E p \in P : \A q \in P : p <= q
      <4>1. CASE 1 \in P
        BY <3>1, <4>1
      <4>2. CASE 1 \notin P /\ 2 \in P
        BY <3>1, <4>2
      <4>3. CASE 1 \notin P /\ 2 \notin P /\ 3 \in P
        BY <3>1, <4>3
      <4>4. CASE 1 \notin P /\ 2 \notin P /\ 3 \notin P
        <5>1. \A q \in P : q = 4
          BY <3>1, <4>4
        <5>2. PICK p \in P : TRUE
          BY <3>1
        <5> QED
          BY <5>1, <5>2
      <4> QED
        BY <4>1, <4>2, <4>3, <4>4
    <3>3. PICK p \in 1 .. 4 : Tlbentry = volume.parts[p]
      BY <3>1, <3>2 DEF Tlbentry, P
    <3>4. volume \in Volumes
      BY DEF IInv, Typed
    <3> QED
      BY <3>3, <3>4, OfVolume DEF FirstData
  <2>2. Typed'
    BY <1>2, <2>1 DEF IInv, Typed, init_fatfs, locals, openVars
  <2>3. pc = "off" /\ held' = held /\ pc' = "idle" /\ ret' = ret
    BY <1>2 DEF init_fatfs, openVars
  <2>4. Holding' /\ Walking'
    BY <2>3 DEF IInv, Holding, Walking, Left
  <2> QED
    BY <2>2, <2>4 DEF IInv
<1> QED
  BY <1>1, <1>2

\* fat_getclustercount: one cluster more is counted, or the buffer is allocated.
LEMMA StepCount == ASSUME IInv, CountCluster PROVE IInv'
<1> DEFINE F == DOMAIN volume.fat
           next == volume.fat[buf.num]
           max == Cardinality(F) + 1
<1>1. /\ volume \in Volumes /\ volume' = volume /\ IsBuf(volume, buf) /\ Counting(volume, buf)
      /\ pc = "count" /\ call' = call /\ Stage(held, call.op, call.then, 0)
  BY DEF IInv, Typed, Walking, Holding, CountCluster, volVars
<1>2. /\ max \in Nat \ {0} /\ End \notin Nat
      /\ \A c \in F : c \in Nat /\ (volume.fat[c] # End => volume.fat[c] \in Nat)
  BY <1>1, OfVolume
<1>3. /\ buf \in [root : Nat, num : Nat, left : Nat, data : Seq(DOMAIN volume.card \cup {Hole}), size : Nat]
      /\ buf.size <= Len(buf.data) /\ buf.left <= max
  BY <1>1 DEF IsBuf
<1>4. PICK f : /\ IsChain(volume, f, buf.root, buf.left)
               /\ f[buf.left - 1] = buf.num \/ (buf.left = max /\ f[buf.left - 1] \in F)
  BY <1>1 DEF Counting
<1>5. buf.left > 0 /\ buf.num \in F
  BY <1>1 DEF Counting, CountCluster
<1> HIDE DEF F, next, max
<1>6. CASE next = End
  <2>1. /\ pc' = "read" /\ buf' = [buf EXCEPT !.num = buf.root] /\ held' = Malloc(held, "buffer")
    BY <1>6 DEF CountCluster, next
  <2>2. /\ buf'.root = buf.root /\ buf'.num = buf.root /\ buf'.left = buf.left
        /\ buf'.data = buf.data /\ buf'.size = buf.size
        /\ buf' \in [root : Nat, num : Nat, left : Nat, data : Seq(DOMAIN volume.card \cup {Hole}), size : Nat]
    BY <1>3, <2>1
  <2>3. IsBuf(volume, buf')
    BY <1>3, <2>2 DEF IsBuf, max, F
  <2>4. f[buf.left - 1] \in F
    BY <1>4, <1>5
  <2>5. Reading(volume, buf')
    BY <1>4, <1>5, <2>2, <2>4 DEF Reading, F
  <2>6. Stage(held', call.op, call.then, 1)
    BY <1>1, <2>1 DEF Stage, Holds, Malloc, Blocks, Copies
  <2>7. Typed'
    BY <1>1, <2>1, <2>3 DEF IInv, Typed, CountCluster, volVars, openVars
  <2>8. Holding' /\ Walking'
    BY <1>1, <2>1, <2>5, <2>6 DEF Holding, Walking, Stage, Holds
  <2> QED
    BY <2>7, <2>8 DEF IInv
<1>7. CASE next # End
  <2> DEFINE left == IF buf.left = max THEN buf.left ELSE buf.left + 1
  <2>1. /\ pc' = "count" /\ buf' = [buf EXCEPT !.num = next, !.left = left] /\ held' = held
    BY <1>1, <1>7 DEF CountCluster, next, MaxCount, max, F
  <2>2. next \in Nat
    BY <1>2, <1>5, <1>7 DEF next
  <2>3. left \in Nat /\ left > 0 /\ left <= max
    BY <1>2, <1>3, <1>5
  <2> HIDE DEF left
  <2>4. /\ buf'.root = buf.root /\ buf'.num = next /\ buf'.left = left
        /\ buf'.data = buf.data /\ buf'.size = buf.size
        /\ buf' \in [root : Nat, num : Nat, left : Nat, data : Seq(DOMAIN volume.card \cup {Hole}), size : Nat]
    BY <1>3, <2>1, <2>2, <2>3
  <2>5. IsBuf(volume, buf')
    BY <1>3, <2>3, <2>4 DEF IsBuf, max, F
  <2>6. Counting(volume, buf')
    <3>1. CASE buf.left = max
      <4>1. left = buf.left /\ f[left - 1] \in F
        BY <1>4, <1>5, <3>1 DEF left
      <4> QED
        BY <1>4, <2>3, <2>4, <3>1, <4>1 DEF Counting, max, F
    <3>2. CASE buf.left # max
      <4> DEFINE n == buf.left
                 g == [i \in 0 .. n |-> IF i = n THEN next ELSE f[i]]
      <4>1. left = n + 1 /\ n \in Nat /\ n > 0 /\ f[n - 1] = buf.num
        BY <1>3, <1>4, <1>5, <3>2 DEF left
      <4>2. /\ f \in [0 .. n - 1 -> Nat] /\ f[0] = buf.root
            /\ \A i \in 1 .. n - 1 : f[i - 1] \in F /\ f[i] = volume.fat[f[i - 1]]
        BY <1>4 DEF IsChain, F
      <4> HIDE DEF n
      <4>3. \A i \in 0 .. n : g[i] = IF i = n THEN next ELSE f[i]
        OBVIOUS
      <4>4. g \in [0 .. n -> Nat]
        BY <2>2, <4>1, <4>2
      <4> HIDE DEF g
      <4>5. g[0] = buf.root /\ g[n] = next
        BY <4>1, <4>2, <4>3
      <4>6. ASSUME NEW i \in 1 .. n PROVE g[i - 1] \in F /\ g[i] = volume.fat[g[i - 1]]
        <5>1. i - 1 \in 0 .. n /\ i - 1 # n /\ g[i - 1] = f[i - 1]
          BY <4>1, <4>3
        <5>2. CASE i = n
          BY <1>5, <4>1, <4>5, <5>1, <5>2 DEF next
        <5>3. CASE i # n
          BY <4>1, <4>2, <4>3, <5>1, <5>3
        <5> QED
          BY <5>2, <5>3
      <4>7. left - 1 = n
        BY <4>1
      <4>8. IsChain(volume, g, buf.root, left)
        BY <4>4, <4>5, <4>6, <4>7 DEF IsChain, F
      <4> QED
        BY <2>3, <2>4, <4>5, <4>7, <4>8 DEF Counting
    <3> QED
      BY <3>1, <3>2
  <2>7. Typed'
    BY <1>1, <2>1, <2>5 DEF IInv, Typed, CountCluster, volVars, openVars
  <2>8. Holding' /\ Walking'
    BY <1>1, <2>1, <2>6 DEF Holding, Walking, IInv
  <2> QED
    BY <2>7, <2>8 DEF IInv
<1> QED
  BY <1>6, <1>7

\* fat_getdata: the sectors of one cluster are appended to the buffer.
LEMMA StepRead == ASSUME IInv, ReadCluster PROVE IInv'
<1> DEFINE F == DOMAIN volume.fat
           C == DOMAIN volume.card \cup {Hole}
           spc == volume.sectorsPerCluster
           lba == fat_clustertolba(buf.num)
           sectors == lba .. lba + spc - 1
<1>1. /\ volume \in Volumes /\ volume' = volume /\ IsBuf(volume, buf) /\ Reading(volume, buf)
      /\ pc = "read" /\ call' = call /\ held' = held /\ Stage(held, call.op, call.then, 1)
      /\ firstdatalba \in Nat /\ lost \in 0 .. MaxLost
  BY DEF IInv, Typed, Walking, Holding, ReadCluster, volVars
<1>2. spc \in Nat \ {0} /\ MaxLost \in Nat
  BY <1>1, OfVolume
<1>3. /\ buf \in [root : Nat, num : Nat, left : Nat, data : Seq(C), size : Nat]
      /\ buf.size <= Len(buf.data) /\ buf.left <= Cardinality(F) + 1
  BY <1>1 DEF IsBuf
<1>4. lba \in Int
  BY <1>1, <1>2, <1>3 DEF fat_clustertolba
<1>5. IsFiniteSet(sectors) /\ Cardinality(sectors) = spc
  <2> HIDE DEF spc, lba
  <2>1. lba + spc - 1 \in Int
    BY <1>2, <1>4
  <2> QED
    BY <1>2, <1>4, <2>1, FS_Interval
<1>6. PICK bad \in SUBSET (sectors \cap DOMAIN volume.card) :
         /\ lost + Cardinality(bad) <= MaxLost
         /\ lost' = lost + Cardinality(bad)
         /\ LET good == (sectors \cap DOMAIN volume.card) \ bad
            IN buf' = [buf EXCEPT
                  !.data = @ \o [i \in 1 .. spc |-> IF lba + i - 1 \in good THEN lba + i - 1 ELSE Hole],
                  !.size = @ + Cardinality(good),
                  !.left = @ - 1,
                  !.num  = IF buf.left = 1 THEN @ ELSE volume.fat[@]]
  BY DEF ReadCluster
<1> DEFINE good == (sectors \cap DOMAIN volume.card) \ bad
           more == [i \in 1 .. spc |-> IF lba + i - 1 \in good THEN lba + i - 1 ELSE Hole]
           next == IF buf.left = 1 THEN buf.num ELSE volume.fat[buf.num]
<1>7. lost' \in 0 .. MaxLost
  <2>1. Cardinality(bad) \in Nat
    BY <1>5, FS_Subset, FS_CardinalityType
  <2> QED
    BY <1>1, <1>2, <1>6, <2>1
<1>8. Cardinality(good) \in Nat /\ Cardinality(good) <= spc
  BY <1>5, FS_Subset, FS_CardinalityType
<1>9. more \in Seq(C) /\ Len(more) = spc
  <2>1. \A s \in good : s \in C
    OBVIOUS
  <2> HIDE DEF good, C, lba, spc
  <2>2. Hole \in C
    BY DEF C
  <2>3. more \in [1 .. spc -> C]
    BY <2>1, <2>2
  <2> HIDE DEF more
  <2> QED
    BY <1>2, <2>3
<1>10. buf' = [buf EXCEPT !.data = @ \o more, !.size = @ + Cardinality(good), !.left = @ - 1, !.num = next]
  BY <1>6
<1>11. PICK f : IsChain(volume, f, buf.num, buf.left) /\ f[buf.left - 1] \in F
  BY <1>1 DEF Reading
<1>12. buf.left > 0
  BY <1>1 DEF Reading
<1>13. /\ f \in [0 .. buf.left - 1 -> Nat] /\ f[0] = buf.num
       /\ \A i \in 1 .. buf.left - 1 : f[i - 1] \in F /\ f[i] = volume.fat[f[i - 1]]
  BY <1>11 DEF IsChain
<1> HIDE DEF F, C, spc, lba, sectors, good, more
<1>14. /\ next \in Nat /\ (buf.left # 1 => next = f[1])
  <2>1. CASE buf.left = 1
    BY <1>3, <2>1
  <2>2. CASE buf.left # 1
    <3>1. 1 \in 1 .. buf.left - 1 /\ 1 \in 0 .. buf.left - 1
      BY <1>3, <1>12, <2>2
    <3>2. f[1 - 1] \in F /\ f[1] = volume.fat[f[1 - 1]] /\ f[1] \in Nat
      BY <1>13, <3>1
    <3> QED
      BY <1>13, <2>2, <3>2
  <2> QED
    BY <2>1, <2>2
<1> HIDE DEF next
<1>15. buf.data \o more \in Seq(C) /\ Len(buf.data \o more) = Len(buf.data) + spc
  BY <1>3, <1>9
<1>16. /\ buf'.root = buf.root /\ buf'.num = next /\ buf'.left = buf.left - 1
       /\ buf'.data = buf.data \o more /\ buf'.size = buf.size + Cardinality(good)
       /\ buf' \in [root : Nat, num : Nat, left : Nat, data : Seq(C), size : Nat]
  <2> DEFINE data == buf.data \o more
             size == buf.size + Cardinality(good)
             left == buf.left - 1
  <2>1. data \in Seq(C) /\ size \in Nat /\ left \in Nat
    BY <1>3, <1>8, <1>12, <1>15
  <2>2. buf' = [buf EXCEPT !.data = data, !.size = size, !.left = left, !.num = next]
    BY <1>10
  <2> HIDE DEF data, size, left
  <2>3. /\ buf'.root = buf.root /\ buf'.num = next /\ buf'.left = left
        /\ buf'.data = data /\ buf'.size = size
        /\ buf' \in [root : Nat, num : Nat, left : Nat, data : Seq(C), size : Nat]
    BY <1>3, <1>14, <2>1, <2>2
  <2> QED
    BY <2>3 DEF data, size, left
<1>17. IsBuf(volume, buf')
  <2>1. Cardinality(F) \in Nat /\ Len(buf.data) \in Nat
    BY <1>1, <1>3, OfVolume DEF F
  <2>2. buf'.size <= Len(buf'.data) /\ buf'.left <= Cardinality(F) + 1
    BY <1>2, <1>3, <1>8, <1>15, <1>16, <2>1
  <2> QED
    BY <1>16, <2>2 DEF IsBuf, F, C
<1>18. Typed'
  <2>1. pc' \in {"scan", "open", "file", "read"}
    BY <1>1 DEF ReadCluster, Stage
  <2> QED
    BY <1>1, <1>7, <1>17, <2>1 DEF IInv, Typed, ReadCluster, volVars, openVars
<1>19. CASE buf.left = 1
  <2>1. pc' = call.then
    BY <1>19 DEF ReadCluster
  <2>2. Holding' /\ Walking'
    BY <1>1, <2>1 DEF IInv, Holding, Walking, Stage
  <2> QED
    BY <1>18, <2>2 DEF IInv
<1>20. CASE buf.left # 1
  <2> DEFINE n == buf.left - 1
             g == [i \in 0 .. n - 1 |-> f[i + 1]]
  <2>1. n \in Nat /\ n > 0 /\ buf'.left = n /\ buf'.num = f[1]
    BY <1>3, <1>12, <1>14, <1>16, <1>20
  <2>2. /\ f \in [0 .. n -> Nat] /\ f[n] \in F
        /\ \A i \in 1 .. n : f[i - 1] \in F /\ f[i] = volume.fat[f[i - 1]]
    BY <1>11, <1>13
  <2> HIDE DEF n
  <2>3. \A i \in 0 .. n - 1 : g[i] = f[i + 1]
    OBVIOUS
  <2>4. g \in [0 .. n - 1 -> Nat]
    BY <2>1, <2>2
  <2> HIDE DEF g
  <2>5. g[0] = f[1] /\ g[n - 1] = f[n]
    BY <2>1, <2>3
  <2>6. ASSUME NEW i \in 1 .. n - 1 PROVE g[i - 1] \in F /\ g[i] = volume.fat[g[i - 1]]
    <3>1. i - 1 \in 0 .. n - 1 /\ i \in 0 .. n - 1 /\ i + 1 \in 1 .. n /\ (i - 1) + 1 = i /\ (i + 1) - 1 = i
      BY <2>1
    <3>2. g[i - 1] = f[i] /\ g[i] = f[i + 1]
      BY <2>3, <3>1
    <3> QED
      BY <2>2, <3>1, <3>2
  <2>7. IsChain(volume, g, buf'.num, n)
    BY <2>1, <2>4, <2>5, <2>6 DEF IsChain, F
  <2>8. Reading(volume, buf')
    BY <2>1, <2>2, <2>5, <2>7 DEF Reading, F
  <2>9. pc' = "read"
    BY <1>20 DEF ReadCluster
  <2>10. Holding' /\ Walking'
    BY <1>1, <2>8, <2>9 DEF IInv, Holding, Walking
  <2> QED
    BY <1>18, <2>10 DEF IInv
<1> QED
  BY <1>19, <1>20

\* A call begins: fat_getdata reads the root directory.
LEMMA StepBegin ==
    ASSUME IInv, NEW path \in Paths, NEW slash \in BOOLEAN, Opendir(path) \/ Fopen(path, slash)
    PROVE  IInv'
<1> DEFINE op == IF Opendir(path) THEN "opendir" ELSE "fopen"
           names == IF Opendir(path) THEN path ELSE SubSeq(path, 1, Len(path) - 1)
           h == IF Opendir(path) THEN NoBlocks ELSE Strings(path, slash)
<1>1. /\ BeginOpendir(op, path, names, h) /\ op \in {"opendir", "fopen"}
      /\ odir' # NULL => odir' = odir
      /\ file' # NULL => file' = file
  BY DEF Opendir, Fopen
<1>2. Holds(h, Copies(op), 0, 0, 0, 0, 0) /\ (op = "fopen" => path # <<>>)
  BY DEF Holds, Copies, Opendir, Fopen, Strings, NoBlocks, Malloc, Blocks
<1> HIDE DEF op, names, h
<1> DEFINE then == IF names = <<>> THEN "open" ELSE "scan"
<1>3. call' = [op |-> op, path |-> path, todo |-> names, then |-> then]
  BY <1>1 DEF BeginOpendir
<1>4. volume \in Volumes /\ volume' = volume /\ volume.root \in Nat
  BY <1>1, OfVolume DEF IInv, Typed, BeginOpendir, volVars
<1>5. IsBuf(volume, buf') /\ Counting(volume, buf') /\ pc' = "count"
  BY <1>1, <1>4, GetdataTyped DEF BeginOpendir
<1>6. dir'.tail \in BOOLEAN
  <2>1. CASE names = <<>>
    BY <1>1, <2>1 DEF BeginOpendir, IInv, Typed
  <2>2. CASE names # <<>>
    BY <1>1, <2>2 DEF BeginOpendir, Leftover
  <2> QED
    BY <2>1, <2>2
<1>7. Stage(held', op, then, 0)
  <2>1. CASE names = <<>>
    BY <1>1, <1>2, <2>1 DEF BeginOpendir, Stage
  <2>2. CASE names # <<>>
    <3>1. held' = Malloc(h, "dir")
      BY <1>1, <2>2 DEF BeginOpendir
    <3>2. Holds(held', Copies(op), 1, 0, 0, 0, 0)
      BY <1>2, <3>1 DEF Holds, Malloc, Blocks, Copies
    <3> QED
      BY <1>1, <2>2, <3>2 DEF Stage
  <2> QED
    BY <2>1, <2>2
<1>8. Typed'
  BY <1>1, <1>4, <1>5, <1>6 DEF IInv, Typed, BeginOpendir, volVars
<1>9. Holding' /\ Walking'
  BY <1>2, <1>3, <1>4, <1>5, <1>7 DEF Holding, Walking, Stage, Holds
<1> QED
  BY <1>8, <1>9 DEF IInv

\* What fat_opendir decodes at a slot leaves a dirent.
LEMMA HereTyped ==
    ASSUME IInv
    PROVE  Here.out.tail \in BOOLEAN /\ Step(Here.next) \in Nat
  BY DirentTyped DEF Here, IInv, Typed

\* fat_opendir passes an entry it does not look for.
LEMMA StepScanNext == ASSUME IInv, ScanNext PROVE IInv'
<1>1. Here.out.tail \in BOOLEAN /\ Step(Here.next) \in Nat
  BY HereTyped
<1>2. dir' = Here.out /\ readptr' = readptr + Step(Here.next) /\ pc = "scan" /\ pc' = pc
  BY DEF ScanNext, InData
<1>3. dir'.tail \in BOOLEAN /\ readptr' \in Nat
  BY <1>1, <1>2 DEF IInv, Typed
<1>4. Typed'
  BY <1>3 DEF IInv, Typed, ScanNext, volVars, openVars
<1>5. Holding' /\ Walking'
  BY <1>2 DEF IInv, Holding, Walking, ScanNext
<1> QED
  BY <1>4, <1>5 DEF IInv

\* fat_opendir goes on in a directory on the way, or reads the one asked for.
LEMMA StepScanFound == ASSUME IInv, ScanInto \/ ScanLast PROVE IInv'
<1>1. /\ volume \in Volumes /\ volume' = volume /\ IsBuf(volume, buf) /\ readptr \in Nat
      /\ pc = "scan" /\ call.then = "scan" /\ Stage(held, call.op, "scan", 1)
      /\ call = [op |-> call.op, path |-> call.path, todo |-> call.todo, then |-> call.then]
  BY DEF IInv, Typed, Holding, ScanInto, ScanLast, InData, volVars
<1>2. /\ Slot(buf, readptr).low \in Nat
      /\ Cluster(Slot(buf, EntryAt(buf, readptr))) \in Nat
  <2>1. readptr \in Int /\ EntryAt(buf, readptr) \in Int
    BY <1>1 DEF EntryAt
  <2> QED
    BY <1>1, <2>1, SlotTyped
<1>3. IsBuf(volume, buf') /\ Counting(volume, buf') /\ pc' = "count"
  BY <1>1, <1>2, GetdataTyped DEF ScanInto, ScanLast
<1>4. dir'.tail \in BOOLEAN /\ readptr' \in Nat
  BY <1>1, HereTyped DEF ScanInto, ScanLast
<1>5. Typed'
  BY <1>1, <1>3, <1>4 DEF IInv, Typed, ScanInto, ScanLast, volVars, openVars
<1>6. Stage(held', call'.op, call'.then, 0)
  <2>1. call.op \in {"opendir", "fopen"} /\ Holds(held, Copies(call.op), 1, 1, 0, 0, 0)
    BY <1>1 DEF Stage
  <2>2. CASE ScanInto
    <3>1. Holds(held', Copies(call.op), 1, 0, 0, 0, 0)
      BY <2>1, <2>2 DEF ScanInto, LeaveBuffer, Free, Holds, Blocks, Copies
    <3>2. call'.op = call.op /\ call'.then = "scan"
      BY <1>1, <2>2 DEF ScanInto
    <3> QED
      BY <2>1, <3>1, <3>2 DEF Stage
  <2>3. CASE ScanLast
    <3>1. Holds(held', Copies(call.op), 0, 0, 0, 0, 0)
      BY <2>1, <2>3 DEF ScanLast, LeaveBuffer, Free, Holds, Blocks, Copies
    <3>2. call'.op = call.op /\ call'.then = "open"
      BY <1>1, <2>3 DEF ScanLast
    <3> QED
      BY <2>1, <3>1, <3>2 DEF Stage
  <2> QED
    BY <2>2, <2>3
<1>7. Holding' /\ Walking'
  BY <1>1, <1>3, <1>6 DEF Holding, Walking, Stage, Holds
<1> QED
  BY <1>5, <1>7 DEF IInv

\* A call returns what it left.
LEMMA ReturnTyped ==
    ASSUME IInv, NEW value, NEW h, Return(value, h), h \in [Blocks -> 0 .. 2],
           Left(h, [op |-> call.op, path |-> call.path, todo |-> <<>>, then |-> value]),
           rdir'.tail \in BOOLEAN, odir' # NULL => IsDir(volume, odir'),
           file' # NULL => file'.filesize \in Nat
    PROVE  IInv'
<1>1. volume \in Volumes /\ volume' = volume
  BY DEF IInv, Typed, Return, volVars
<1>2. /\ IsBuf(volume, buf') /\ readptr' \in Nat /\ IsDir(volume, fdir') /\ dir'.tail \in BOOLEAN
  BY <1>1, ForgetTyped DEF Return
<1>3. call' = [op |-> call'.op, path |-> call'.path, todo |-> call'.todo, then |-> call'.then]
  BY DEF Return, Forget, NoCall
<1>4. Typed'
  BY <1>1, <1>2, <1>3 DEF IInv, Typed, Return, volVars
<1>5. pc' = "idle" /\ held' = h
      /\ ret' = [op |-> call.op, path |-> call.path, todo |-> <<>>, then |-> value]
  BY DEF Return
<1>6. Holding' /\ Walking'
  BY <1>5 DEF Holding, Walking
<1> QED
  BY <1>4, <1>6 DEF IInv

\* fat_fopen frees its strings, of which it holds those its path calls for.
LEMMA StringsFreed ==
    ASSUME StringsHeld, InCall, call.op = "fopen", NEW h, h["pathto"] = held["pathto"],
           NEW buffers, NEW odirs, NEW rdirents, NEW files,
           Holds(h, 1, 0, buffers, odirs, rdirents, files)
    PROVE  /\ Holds(FreeStrings(h, call.path), 0, 0, buffers, odirs, rdirents, files)
           /\ FreeStrings(h, call.path)["pathto"] = IF Len(call.path) > 1 THEN 0 ELSE held["pathto"]
<1>1. CASE Len(call.path) > 1
  <2>1. h["pathto"] = 1
    BY <1>1 DEF StringsHeld
  <2> QED
    BY <1>1, <2>1 DEF FreeStrings, Free, Holds, Blocks
<1>2. CASE ~(Len(call.path) > 1)
  BY <1>2 DEF FreeStrings, Free, Holds, Blocks
<1> QED
  BY <1>1, <1>2

\* fat_opendir has looked at the whole directory, or fat_fopen at what it can read:
\* both return NULL.
LEMMA StepNotFound == ASSUME IInv, StringsHeld, ScanEnd \/ SearchEnd PROVE IInv'
<1> DEFINE h == IF ScanEnd THEN NotFound(held) ELSE held
           k == IF call.op = "fopen" THEN FreeStrings(h, call.path) ELSE h
           r == [op |-> call.op, path |-> call.path, todo |-> <<>>, then |-> "NULL"]
<1>1. Return("NULL", k) /\ rdir' = rdir /\ odir' = odir /\ file' = file /\ volume' = volume
  BY DEF ScanEnd, SearchEnd, ReturnNull, Return, volVars
<1>2. Holds(k, 0, 0, 0, 0, 0, 0) \/ Holds(k, 0, 0, 1, 1, 1, 0)
  <2>1. h["pathto"] = held["pathto"] /\ InCall
    BY DEF ScanEnd, SearchEnd, NotFound, Free, InCall, IInv, Holding, Blocks
  <2>2. CASE ScanEnd
    <3>1. Holds(held, Copies(call.op), 1, 1, 0, 0, 0)
      BY <2>2 DEF ScanEnd, IInv, Holding, Stage
    <3>2. Holds(h, Copies(call.op), 0, 0, 0, 0, 0)
      BY <2>2, <3>1 DEF NotFound, Free, Holds, Blocks, Copies
    <3> HIDE DEF h
    <3>3. CASE call.op = "fopen"
      <4>1. Holds(h, 1, 0, 0, 0, 0, 0)
        BY <3>2, <3>3 DEF Copies
      <4> HIDE DEF k
      <4>2. k = FreeStrings(h, call.path)
        BY <3>3 DEF k
      <4> QED
        BY <2>1, <3>3, <4>1, <4>2, StringsFreed
    <3>4. CASE call.op # "fopen"
      BY <3>2, <3>4 DEF Copies
    <3> QED
      BY <3>3, <3>4
  <2>3. CASE ~ScanEnd
    <3>1. call.op = "fopen" /\ Holds(h, 1, 0, 1, 1, 1, 0)
      BY <2>3 DEF SearchEnd, IInv, Holding
    <3>2. k = FreeStrings(h, call.path)
      BY <3>1
    <3> HIDE DEF h, k
    <3> QED
      BY <2>1, <3>1, <3>2, StringsFreed
  <2> QED
    BY <2>2, <2>3
<1> HIDE DEF h, k
<1>3. Left(k, r) /\ k \in [Blocks -> 0 .. 2]
  <2>1. call.op = "fopen" => call.path # <<>>
    BY DEF ScanEnd, SearchEnd, InCall, StringsHeld
  <2> QED
    BY <1>2, <2>1 DEF Left, Holds
<1> QED
  BY <1>1, <1>3, ReturnTyped DEF IInv, Typed

\* The directory is found: opendir returns it, fat_fopen looks through it.
LEMMA StepOpenDone == ASSUME IInv, OpenDone PROVE IInv'
<1> DEFINE d == [buf |-> buf, readptr |-> 1]
<1>1. /\ volume \in Volumes /\ IsBuf(volume, buf) /\ pc = "open"
      /\ call.op \in {"opendir", "fopen"} /\ Holds(held, Copies(call.op), 0, 1, 0, 0, 0)
  BY DEF IInv, Typed, Holding, Stage, OpenDone
<1>2. IsDir(volume, d)
  <2>1. EndOfData(buf) \in Nat
    BY <1>1, OfVolume DEF EndOfData, IsBuf
  <2> QED
    BY <1>1, <2>1 DEF IsDir
<1>3. CASE call.op = "opendir"
  <2> DEFINE h == Malloc(held, "odir")
             r == [op |-> call.op, path |-> call.path, todo |-> <<>>, then |-> "dir"]
  <2>1. odir' = d /\ Return("dir", h) /\ rdir' = rdir /\ file' = file
    BY <1>3 DEF OpenDone
  <2>2. Holds(h, 0, 0, 1, 1, 0, 0)
    BY <1>1, <1>3 DEF Malloc, Holds, Blocks, Copies
  <2> HIDE DEF h, d
  <2>3. Left(h, r) /\ h \in [Blocks -> 0 .. 2]
    BY <1>3, <2>2 DEF Left, Holds
  <2> QED
    BY <1>2, <2>1, <2>3, ReturnTyped DEF IInv, Typed
<1>4. CASE call.op # "opendir"
  <2>1. /\ fdir' = d /\ held' = Malloc(Malloc(held, "odir"), "rdirent") /\ pc' = "search"
        /\ UNCHANGED <<volVars, lost, call, buf, readptr, dir, odir, ret, rdir, file>>
    BY <1>4 DEF OpenDone
  <2>2. Holds(held', 1, 0, 1, 1, 1, 0)
    BY <1>1, <1>4, <2>1 DEF Malloc, Holds, Blocks, Copies
  <2> HIDE DEF d
  <2>3. Typed'
    BY <1>2, <2>1 DEF IInv, Typed, volVars
  <2>4. Holding' /\ Walking'
    BY <1>1, <1>4, <2>1, <2>2 DEF Holding, Walking, Holds
  <2> QED
    BY <2>3, <2>4 DEF IInv
<1> QED
  BY <1>3, <1>4

\* fat_fopen of a path without a name leaves its copy of the path.
LEMMA StepFopenNoName == ASSUME IInv, FopenNoName PROVE IInv'
<1>1. Typed'
  BY DEF IInv, Typed, FopenNoName, volVars, locals
<1>2. Holds(held', 1, 0, 0, 0, 0, 0) /\ ret'.op = "fopen" /\ ret'.path = <<>> /\ ret'.then = "NULL"
  BY DEF FopenNoName, Malloc, NoBlocks, Blocks, Holds
<1>3. Holding' /\ Walking'
  BY <1>2 DEF Holding, Walking, Left, Holds, FopenNoName, locals, IInv
<1> QED
  BY <1>1, <1>3 DEF IInv

\* fat_fopen passes an entry, or finds the file and reads it.
LEMMA StepSearch == ASSUME IInv, SearchNext \/ SearchHit PROVE IInv'
<1>1. /\ volume \in Volumes /\ volume' = volume /\ IsDir(volume, fdir) /\ MayRead(fdir)
      /\ rdir.tail \in BOOLEAN /\ pc = "search" /\ call.op = "fopen" /\ Holds(held, 1, 0, 1, 1, 1, 0)
      /\ fdir' = fat_readdir(fdir).dir /\ rdir' = fat_readdir(fdir).rdir
      /\ call = [op |-> call.op, path |-> call.path, todo |-> call.todo, then |-> call.then]
  BY DEF IInv, Typed, Holding, SearchNext, SearchHit, Listed, volVars
<1>2. IsDir(volume, fdir') /\ rdir'.tail \in BOOLEAN
  BY <1>1, ReadDirTyped
<1>3. CASE SearchNext
  <2>1. Typed'
    BY <1>1, <1>2, <1>3 DEF IInv, Typed, SearchNext, volVars, openVars
  <2>2. Holding' /\ Walking'
    BY <1>1, <1>3 DEF IInv, Holding, Walking, SearchNext
  <2> QED
    BY <2>1, <2>2 DEF IInv
<1>4. CASE SearchHit
  <2>1. Cluster(Filedirent(fdir')) \in Nat
    <3>1. IsBuf(volume, fdir'.buf) /\ fdir'.readptr - 1 \in Int
      BY <1>2 DEF IsDir
    <3> QED
      BY <1>1, <3>1, SlotTyped DEF Filedirent
  <2>2. IsBuf(volume, buf') /\ Counting(volume, buf') /\ pc' = "count"
    BY <1>1, <1>4, <2>1, GetdataTyped DEF SearchHit
  <2>3. call' = [op |-> "fopen", path |-> call.path, todo |-> call.todo, then |-> "file"]
    BY <1>1, <1>4 DEF SearchHit
  <2>4. Typed'
    BY <1>1, <1>2, <1>4, <2>2, <2>3 DEF IInv, Typed, SearchHit, volVars, openVars
  <2>5. Holds(held', 1, 0, 1, 1, 1, 1)
    BY <1>1, <1>4 DEF SearchHit, Malloc, Holds, Blocks
  <2>6. Stage(held', "fopen", "file", 0)
    BY <2>5 DEF Stage
  <2>7. Holding' /\ Walking'
    BY <1>1, <2>2, <2>3, <2>5, <2>6 DEF Holding, Walking, Holds
  <2> QED
    BY <2>4, <2>7 DEF IInv
<1> QED
  BY <1>3, <1>4

\* fat_fopen returns the file.
LEMMA StepFopenDone == ASSUME IInv, StringsHeld, FopenDone PROVE IInv'
<1> DEFINE h == FreeStrings(held, call.path)
           r == [op |-> call.op, path |-> call.path, todo |-> <<>>, then |-> "file"]
<1>1. /\ volume \in Volumes /\ volume' = volume /\ IsDir(volume, fdir)
      /\ Holds(held, 1, 0, 2, 1, 1, 1)
      /\ Return("file", h) /\ rdir' = rdir /\ odir' = odir
      /\ file'.filesize = Filedirent(fdir).size
  BY DEF IInv, Typed, Holding, Stage, FopenDone, Return, volVars
<1>2. Filedirent(fdir).size \in Nat
  <2>1. IsBuf(volume, fdir.buf) /\ fdir.readptr - 1 \in Int
    BY <1>1 DEF IsDir
  <2> QED
    BY <1>1, <2>1, SlotTyped DEF Filedirent
<1>3. Holds(h, 0, 0, 2, 1, 1, 1) /\ (call.op = "fopen" => call.path # <<>>)
  <2>1. InCall /\ call.op = "fopen" /\ call.path # <<>>
    BY DEF FopenDone, InCall, IInv, Holding, Stage, StringsHeld
  <2> QED
    BY <1>1, <2>1, StringsFreed
<1> HIDE DEF h
<1>4. Left(h, r) /\ h \in [Blocks -> 0 .. 2]
  BY <1>3 DEF Left, Holds
<1> QED
  BY <1>1, <1>2, <1>4, ReturnTyped DEF IInv, Typed

\* The calls on what is open.
LEMMA StepOpened == ASSUME IInv, ReadDir \/ fat_rewinddir \/ fat_fstat PROVE IInv'
<1>1. /\ volume \in Volumes /\ volume' = volume /\ (odir # NULL => IsDir(volume, odir))
      /\ rdir.tail \in BOOLEAN /\ pc = "idle" /\ pc' = pc /\ held' = held /\ ret' = ret
  BY DEF IInv, Typed, ReadDir, fat_rewinddir, fat_fstat, volVars, openVars
<1>2. (odir' # NULL => IsDir(volume, odir')) /\ rdir'.tail \in BOOLEAN
  <2>1. CASE ReadDir
    BY <1>1, <2>1, ReadDirTyped DEF ReadDir
  <2>2. CASE fat_rewinddir
    <3>1. /\ odir = [buf |-> odir.buf, readptr |-> odir.readptr] /\ IsBuf(volume, odir.buf)
          /\ odir' = [odir EXCEPT !.readptr = 1] /\ rdir' = rdir
      BY <1>1, <2>2 DEF fat_rewinddir, IsDir
    <3>2. odir' = [buf |-> odir.buf, readptr |-> 1]
      BY <3>1
    <3>3. EndOfData(odir.buf) \in Nat
      BY <1>1, <3>1, OfVolume DEF EndOfData, IsBuf
    <3>4. IsDir(volume, odir')
      BY <3>1, <3>2, <3>3 DEF IsDir
    <3> QED
      BY <1>1, <3>1, <3>4
  <2>3. CASE fat_fstat
    BY <1>1, <2>3 DEF fat_fstat, openVars
  <2> QED
    BY <1>1, <2>1, <2>2, <2>3
<1>3. Typed'
  BY <1>1, <1>2 DEF IInv, Typed, ReadDir, fat_rewinddir, fat_fstat, volVars, openVars, locals
<1>4. Holding' /\ Walking'
  BY <1>1 DEF IInv, Holding, Walking
<1> QED
  BY <1>3, <1>4 DEF IInv

\* Every step keeps the invariant.
LEMMA StepInvariant == IInv /\ StringsHeld /\ [Next]_vars => IInv'
<1> SUFFICES ASSUME IInv, StringsHeld, [Next]_vars PROVE IInv'
  OBVIOUS
<1>1. CASE InitReadFails \/ init_fatfs
  BY <1>1, StepInit
<1>2. CASE InitAstray \/ CountAstray \/ ScanAstray \/ SearchAstray \/ ReadDirAstray
  BY <1>2, StepAstray DEF InitAstray, CountAstray, ScanAstray, SearchAstray, ReadDirAstray
<1>3. CASE CountCluster \/ ReadCluster
  BY <1>3, StepCount, StepRead
<1>4. CASE ScanNext \/ ScanInto \/ ScanLast
  BY <1>4, StepScanNext, StepScanFound
<1>5. CASE ScanEnd \/ SearchEnd
  BY <1>5, StepNotFound
<1>6. CASE OpenDone \/ FopenNoName \/ FopenDone
  BY <1>6, StepOpenDone, StepFopenNoName, StepFopenDone
<1>7. CASE SearchNext \/ SearchHit
  BY <1>7, StepSearch
<1>8. ASSUME NEW path \in Paths, NEW slash \in BOOLEAN, Opendir(path) \/ Fopen(path, slash) PROVE IInv'
  BY <1>8, StepBegin
<1>9. CASE ReadDir \/ fat_rewinddir \/ fat_fstat
  BY <1>9, StepOpened
<1>10. CASE UNCHANGED vars
  BY <1>10 DEF IInv, Typed, Holding, Walking, vars, volVars, locals, openVars
<1> QED
  BY <1>1, <1>2, <1>3, <1>4, <1>5, <1>6, <1>7, <1>8, <1>9, <1>10
     DEF Next, GetdataStep, OpendirStep, FopenStep

\* fat_fopen starts with the strings its path calls for.
LEMMA StringsBegin ==
    ASSUME NEW path \in Paths, NEW slash \in BOOLEAN, Opendir(path) \/ Fopen(path, slash)
    PROVE  StringsHeld'
<1>1. CASE Opendir(path)
  <2>1. held'["pathto"] = 0 /\ call'.op = "opendir" /\ pc' = "count"
    BY <1>1 DEF Opendir, BeginOpendir, Getdata, NoBlocks, Malloc, Blocks
  <2> QED
    BY <2>1 DEF StringsHeld, Copies
<1>2. CASE Fopen(path, slash)
  <2> DEFINE h == Strings(path, slash)
  <2>1. /\ held' \in {h, Malloc(h, "dir")} /\ call'.op = "fopen" /\ call'.path = path
        /\ pc' = "count" /\ path # <<>>
    BY <1>2 DEF Fopen, BeginOpendir, Getdata
  <2>2. h \in [Blocks -> Nat] /\ h["pathto"] \in {0, 1} /\ (Len(path) > 1 => h["pathto"] = 1)
    BY DEF Strings, NoBlocks, Malloc, Blocks
  <2> HIDE DEF h
  <2>3. held'["pathto"] = h["pathto"]
    BY <2>1, <2>2 DEF Malloc, Blocks
  <2>4. Len(path) \in Nat \ {0}
    <3>1. path \in Seq(STRING \ {Garbled})
      BY Fat32Assumption
    <3> QED
      BY <2>1, <3>1
  <2> QED
    BY <2>1, <2>2, <2>3, <2>4 DEF StringsHeld, Copies
<1> QED
  BY <1>1, <1>2

\* fat_fopen returns: only a pathto that reads "/" is left.
LEMMA StringsReturned ==
    ASSUME IInv, StringsHeld, ScanEnd \/ SearchEnd \/ FopenDone
    PROVE  StringsHeld'
<1> DEFINE h == IF ScanEnd THEN NotFound(held) ELSE held
           k == IF call.op = "fopen" THEN FreeStrings(h, call.path) ELSE h
<1>1. /\ InCall /\ pc' = "idle" /\ ret'.op = call.op /\ ret'.path = call.path /\ held' = k
  <2>1. CASE FopenDone
    BY <2>1 DEF FopenDone, Return, InCall, IInv, Holding, Stage, ScanEnd
  <2>2. CASE ScanEnd \/ SearchEnd
    BY <2>2 DEF ScanEnd, SearchEnd, ReturnNull, Return, InCall
  <2> QED
    BY <2>1, <2>2
<1>2. h \in [Blocks -> Int] /\ h["pathto"] = held["pathto"]
  BY DEF NotFound, Free, IInv, Holding, Blocks
<1> HIDE DEF h
<1>3. CASE call.op = "fopen" /\ Len(call.path) > 1
  <2>1. held["pathto"] = 1
    BY <1>1, <1>3 DEF StringsHeld
  <2>2. k["pathto"] = 0
    BY <1>2, <1>3, <2>1 DEF FreeStrings, Free, Blocks
  <2> QED
    BY <1>1, <2>2 DEF StringsHeld, InCall
<1>4. CASE call.op = "fopen" /\ ~(Len(call.path) > 1)
  <2>1. held["pathto"] \in {0, 1}
    BY <1>1, <1>4 DEF StringsHeld, Copies
  <2>2. Len(call.path) \in Nat \ {0} /\ ~(Len(call.path) > 1)
    BY <1>1, <1>4 DEF StringsHeld
  <2>3. Len(call.path) = 1
    <3>1. \A n \in Nat \ {0} : n > 1 \/ n = 1
      OBVIOUS
    <3> QED
      BY <2>2, <3>1
  <2>4. k["pathto"] = held["pathto"]
    BY <1>2, <1>4 DEF FreeStrings, Free, Blocks
  <2> QED
    BY <1>1, <1>4, <2>1, <2>3, <2>4 DEF StringsHeld, InCall
<1>5. CASE call.op # "fopen"
  <2>1. held["pathto"] = 0
    BY <1>1, <1>5 DEF StringsHeld, Copies
  <2> QED
    BY <1>1, <1>2, <1>5, <2>1 DEF StringsHeld, InCall
<1> QED
  BY <1>3, <1>4, <1>5

\* Every step keeps what is said of the strings.
LEMMA StringsStep == IInv /\ StringsHeld /\ [Next]_vars => StringsHeld'
<1> SUFFICES ASSUME IInv, StringsHeld, [Next]_vars PROVE StringsHeld'
  OBVIOUS
<1>1. ASSUME NEW path \in Paths, NEW slash \in BOOLEAN, Opendir(path) \/ Fopen(path, slash) PROVE StringsHeld'
  BY <1>1, StringsBegin
<1>2. CASE ScanEnd \/ SearchEnd \/ FopenDone
  BY <1>2, StringsReturned
<1>3. CASE \/ InitReadFails \/ InitAstray \/ CountAstray \/ ScanAstray \/ SearchAstray \/ ReadDirAstray
           \/ init_fatfs \/ ReadDir \/ fat_rewinddir \/ fat_fstat
  BY <1>3 DEF InitReadFails, InitAstray, CountAstray, ScanAstray, SearchAstray, ReadDirAstray, Astray,
     init_fatfs, ReadDir, fat_rewinddir, fat_fstat, openVars, StringsHeld, InCall
<1>4. CASE CountCluster \/ ReadCluster \/ ScanNext \/ SearchNext
  <2>1. InCall /\ pc' # "off" /\ pc' # "idle" /\ call' = call /\ held'["pathto"] = held["pathto"]
    BY <1>4 DEF CountCluster, ReadCluster, ScanNext, SearchNext, InData, InCall, Malloc, Blocks, IInv, Holding, Stage
  <2> QED
    BY <2>1 DEF StringsHeld, Copies
<1>5. CASE ScanInto \/ ScanLast \/ SearchHit
  <2>1. /\ InCall /\ pc' = "count" /\ call'.op = call.op /\ call'.path = call.path
        /\ held'["pathto"] = held["pathto"]
    BY <1>5 DEF ScanInto, ScanLast, SearchHit, Getdata, InData, InCall, LeaveBuffer, Malloc, Free, Blocks,
       IInv, Typed, Holding
  <2> QED
    BY <2>1 DEF StringsHeld, Copies
<1>6. CASE OpenDone
  <2>1. InCall /\ held'["pathto"] = held["pathto"]
    BY <1>6 DEF OpenDone, Return, InCall, Malloc, Blocks, IInv, Holding
  <2>2. CASE call.op = "opendir"
    <3>1. pc' = "idle" /\ held["pathto"] = 0
      BY <1>6, <2>1, <2>2 DEF OpenDone, Return, StringsHeld, Copies
    <3> QED
      BY <2>1, <3>1 DEF StringsHeld, InCall
  <2>3. CASE call.op # "opendir"
    <3>1. pc' = "search" /\ call' = call
      BY <1>6, <2>3 DEF OpenDone
    <3> QED
      BY <2>1, <3>1 DEF StringsHeld
  <2> QED
    BY <2>2, <2>3
<1>7. CASE FopenNoName
  <2>1. pc' = "idle" /\ held'["pathto"] = 0
    BY <1>7 DEF FopenNoName, Malloc, NoBlocks, Blocks
  <2> QED
    BY <2>1 DEF StringsHeld, InCall
<1>8. CASE UNCHANGED vars
  BY <1>8 DEF vars, locals, openVars, StringsHeld, InCall
<1> QED
  BY <1>1, <1>2, <1>3, <1>4, <1>5, <1>6, <1>7, <1>8 DEF Next, GetdataStep, OpendirStep, FopenStep

\* A product of natural numbers is one, and larger with a larger factor.
LEMMA Times ==
    ASSUME NEW s \in Nat, NEW k \in Nat, NEW m \in Nat
    PROVE  /\ s * k \in Nat /\ s * (k + 1) = s * k + s
           /\ k <= m => s * k <= s * m
<1>1. s * k \in Nat /\ s * (k + 1) = s * k + s
  OBVIOUS
<1>2. ASSUME k <= m PROVE s * k <= s * m
  <2>1. m - k \in Nat /\ s * (m - k) \in Nat
    BY <1>2
  <2>2. s * m = s * k + s * (m - k)
    BY <2>1
  <2> QED
    BY <1>1, <2>1, <2>2
<1> QED
  BY <1>1, <1>2

\* Dividing by s: quotient and remainder.
LEMMA Divides ==
    ASSUME NEW s \in Nat \ {0}, NEW a \in Nat
    PROVE  /\ a \div s \in Nat /\ a % s \in 0 .. s - 1
           /\ a = s * (a \div s) + (a % s)
<1>1. a % s \in 0 .. s - 1 /\ a = s * (a \div s) + (a % s) /\ a \div s \in Int
  OBVIOUS
<1>2. a \div s >= 0
  <2> DEFINE q == a \div s
             t == -q - 1
  <2>1. q \in Int /\ a = s * q + (a % s) /\ a % s \in 0 .. s - 1
    BY <1>1
  <2> HIDE DEF q
  <2> SUFFICES ASSUME q < 0 PROVE FALSE
    BY <2>1 DEF q
  <2>2. t \in Nat
    BY <2>1
  <2>3. s * t \in Nat
    BY <2>2
  <2>4. s * q = -(s * t) - s
    BY <2>1
  <2> HIDE DEF t
  <2>5. s * q <= -s
    BY <2>3, <2>4
  <2> QED
    BY <2>1, <2>5
<1> QED
  BY <1>1, <1>2

\* There is one quotient and one remainder.
LEMMA DividesOnce ==
    ASSUME NEW s \in Nat \ {0}, NEW k \in Nat, NEW r \in 0 .. s - 1
    PROVE  (s * k + r) \div s = k /\ (s * k + r) % s = r
<1> DEFINE a == s * k + r
           q == a \div s
           m == a % s
<1>1. a \in Nat
  OBVIOUS
<1>2. q \in Nat /\ m \in 0 .. s - 1 /\ a = s * q + m
  BY <1>1, Divides
<1>3. a = s * k + r
  OBVIOUS
<1> HIDE DEF a, q, m
<1>4. ~(k + 1 <= q)
  <2> SUFFICES ASSUME k + 1 <= q PROVE FALSE
    OBVIOUS
  <2>1. s * (k + 1) <= s * q /\ s * (k + 1) = s * k + s /\ s * k \in Nat /\ s * q \in Nat
    BY <1>2, Times
  <2> QED
    BY <1>2, <1>3, <2>1
<1>5. ~(q + 1 <= k)
  <2> SUFFICES ASSUME q + 1 <= k PROVE FALSE
    OBVIOUS
  <2>1. s * (q + 1) <= s * k /\ s * (q + 1) = s * q + s /\ s * k \in Nat /\ s * q \in Nat
    BY <1>2, Times
  <2> QED
    BY <1>2, <1>3, <2>1
<1>6. q = k
  BY <1>2, <1>4, <1>5
<1>7. m = r
  <2>1. s * k \in Nat
    BY Times
  <2> QED
    BY <1>2, <1>3, <1>6, <2>1
<1> QED
  BY <1>6, <1>7 DEF a, q, m

\* The place of a among n blocks of s.
LEMMA DividesWithin ==
    ASSUME NEW s \in Nat \ {0}, NEW a \in Nat, NEW n \in Nat
    PROVE  a \div s < n <=> a < s * n
<1> DEFINE q == a \div s
           m == a % s
<1>1. q \in Nat /\ m \in 0 .. s - 1 /\ a = s * q + m
  BY Divides
<1> HIDE DEF q, m
<1>2. s * q \in Nat /\ s * n \in Nat /\ s * (q + 1) = s * q + s
  BY <1>1, Times
<1>3. CASE q < n
  <2>1. s * (q + 1) <= s * n
    BY <1>1, <1>3, Times
  <2> QED
    BY <1>1, <1>2, <1>3, <2>1 DEF q
<1>4. CASE n <= q
  <2>1. s * n <= s * q
    BY <1>1, <1>4, Times
  <2> QED
    BY <1>1, <1>2, <1>4, <2>1 DEF q
<1> QED
  BY <1>1, <1>3, <1>4

\* Induction, over a set of numbers.
LEMMA SetInduction ==
    ASSUME NEW S \in SUBSET Nat, 0 \in S, \A k \in S : k + 1 \in S
    PROVE  S = Nat
<1> SUFFICES ASSUME Nat \ S # {} PROVE FALSE
  OBVIOUS
<1>1. PICK m \in Nat \ S : \A k \in Nat \ S : m <= k
  <2>1. PICK m \in Nat \ S : \A k \in Nat \ S : ~(<<k, m>> \in OpToRel(<, Nat))
    BY WFMin, NatLessThanWellFounded, Zenon
  <2>2. \A k \in Nat \ S : ~(k < m)
    BY <2>1, Zenon DEF OpToRel
  <2> QED
    BY <2>2
<1>2. m - 1 \in Nat /\ m - 1 \in S
  BY <1>1
<1>3. m \in S
  BY <1>2
<1> QED
  BY <1>1, <1>3

\* The chain from c, and where a path leads, as functions of themselves.
AlongOf(g, v, c, n) ==
    [i \in 1 .. n |->
        IF i = 1 THEN c ELSE IF g[i - 1] \in DOMAIN v.fat THEN v.fat[g[i - 1]] ELSE End]

LedOf(g, v, path, k) ==
    [n \in 0 .. k |-> IF n = 0 THEN {v.root} ELSE Onward(v, g[n - 1], path[n])]

\* There is such a function, and Along is one.
LEMMA AlongIs ==
    ASSUME NEW v, NEW c, NEW n \in Nat
    PROVE  Along(v, c, n) = AlongOf(Along(v, c, n), v, c, n)
<1> DEFINE Then(x) == IF x \in DOMAIN v.fat THEN v.fat[x] ELSE End
           S == {k \in Nat : \E g : g = AlongOf(g, v, c, k)}
<1>1. 0 \in S
  <2> DEFINE g == [i \in 1 .. 0 |-> c]
  <2>1. g = AlongOf(g, v, c, 0)
    BY DEF AlongOf
  <2> QED
    BY <2>1
<1>2. ASSUME NEW k \in S PROVE k + 1 \in S
  <2>1. PICK g : g = AlongOf(g, v, c, k)
    OBVIOUS
  <2> DEFINE p == [i \in 1 .. k + 1 |-> IF i <= k THEN g[i] ELSE IF i = 1 THEN c ELSE Then(g[k])]
             q == AlongOf(p, v, c, k + 1)
  <2>2. \A i \in 1 .. k : g[i] = IF i = 1 THEN c ELSE Then(g[i - 1])
    BY <2>1 DEF AlongOf
  <2>3. \A i \in 1 .. k + 1 : p[i] = q[i]
    <3> TAKE i \in 1 .. k + 1
    <3>1. q[i] = IF i = 1 THEN c ELSE Then(p[i - 1])
      BY DEF AlongOf
    <3> HIDE DEF Then, q
    <3>2. CASE i = 1
      BY <2>2, <3>1, <3>2
    <3>3. CASE i # 1
      <4>1. i - 1 \in 1 .. k /\ p[i - 1] = g[i - 1]
        BY <3>3
      <4>2. p[i] = Then(g[i - 1])
        <5>1. CASE i <= k
          BY <2>2, <3>3, <5>1
        <5>2. CASE ~(i <= k)
          <6>1. i - 1 = k
            BY <5>2
          <6> QED
            BY <3>3, <5>2, <6>1
        <5> QED
          BY <5>1, <5>2
      <4> QED
        BY <3>1, <3>3, <4>1, <4>2
    <3> QED
      BY <3>2, <3>3
  <2>4. p = q
    BY <2>3 DEF AlongOf
  <2> QED
    BY <2>4
<1>3. n \in S
  BY <1>1, <1>2, SetInduction
<1>4. Along(v, c, n) = CHOOSE g : g = AlongOf(g, v, c, n)
  BY DEF Along, AlongOf
<1> QED
  BY <1>3, <1>4

\* Along meets the clusters of a chain in their order.
LEMMA AlongChain ==
    ASSUME NEW v, NEW c, NEW n \in Nat, NEW m \in Nat, NEW f, IsChain(v, f, c, m)
    PROVE  \A i \in 1 .. n : i <= m => Along(v, c, n)[i] = f[i - 1]
<1> DEFINE at == Along(v, c, n)
           S == {k \in Nat : k + 1 <= n /\ k + 1 <= m => at[k + 1] = f[k]}
<1>1. \A i \in 1 .. n : at[i] = IF i = 1 THEN c
                               ELSE IF at[i - 1] \in DOMAIN v.fat THEN v.fat[at[i - 1]] ELSE End
  BY AlongIs DEF AlongOf
<1>2. f[0] = c /\ \A i \in 1 .. m - 1 : f[i - 1] \in DOMAIN v.fat /\ f[i] = v.fat[f[i - 1]]
  BY DEF IsChain
<1> HIDE DEF at
<1>3. 0 \in S
  BY <1>1, <1>2
<1>4. ASSUME NEW k \in S PROVE k + 1 \in S
  <2> SUFFICES ASSUME (k + 1) + 1 <= n, (k + 1) + 1 <= m PROVE at[(k + 1) + 1] = f[k + 1]
    OBVIOUS
  <2>1. k \in Nat /\ (k + 1) + 1 \in 1 .. n /\ (k + 1) + 1 # 1 /\ ((k + 1) + 1) - 1 = k + 1
    OBVIOUS
  <2>2. at[k + 1] = f[k]
    BY <2>1
  <2>3. k + 1 \in 1 .. m - 1 /\ (k + 1) - 1 = k
    BY <2>1
  <2>4. f[k] \in DOMAIN v.fat /\ f[k + 1] = v.fat[f[k]]
    BY <1>2, <2>3
  <2> QED
    BY <1>1, <2>1, <2>2, <2>4
<1>5. S = Nat
  BY <1>3, <1>4, SetInduction
<1>6. ASSUME NEW i \in 1 .. n, i <= m PROVE at[i] = f[i - 1]
  <2>1. i - 1 \in Nat /\ (i - 1) + 1 = i
    OBVIOUS
  <2>2. i - 1 \in S
    BY <1>5, <2>1
  <2> QED
    BY <1>6, <2>1, <2>2
<1> QED
  BY <1>6 DEF at

\* A chain that ends has no more clusters than the FAT.
LEMMA ChainBound ==
    ASSUME NEW v \in Volumes, NEW c, NEW m \in Nat, NEW f, IsChain(v, f, c, m), Ends(v, c)
    PROVE  m <= Cardinality(DOMAIN v.fat)
<1> DEFINE N == Cardinality(DOMAIN v.fat)
           at == Along(v, c, N + 1)
<1>1. N \in Nat /\ End \notin Nat
  BY OfVolume
<1>2. DOMAIN at = 1 .. N + 1
  BY <1>1, AlongIs DEF AlongOf
<1>3. PICK i \in DOMAIN at : at[i] = End
  BY DEF Ends
<1>4. \A j \in 1 .. N + 1 : j <= m => at[j] = f[j - 1]
  BY <1>1, AlongChain
<1> HIDE DEF N, at
<1> SUFFICES ASSUME ~(m <= N) PROVE FALSE
  BY DEF N
<1>5. i \in 1 .. N + 1 /\ i <= m /\ i - 1 \in 0 .. m - 1
  BY <1>1, <1>2, <1>3
<1>6. f[i - 1] \in Nat
  BY <1>5 DEF IsChain
<1> QED
  BY <1>1, <1>3, <1>4, <1>5, <1>6

\* A chain followed to its end is what Chain has.
LEMMA ChainIs ==
    ASSUME NEW v \in Volumes, NEW c, NEW m \in Nat \ {0}, NEW f, IsChain(v, f, c, m), Ends(v, c),
           f[m - 1] \in DOMAIN v.fat, v.fat[f[m - 1]] = End
    PROVE  Chain(v, c) = [i \in 1 .. m |-> f[i - 1]]
<1> DEFINE N == Cardinality(DOMAIN v.fat)
           at == Along(v, c, N)
           F == DOMAIN v.fat
           S == {k \in Nat : m + 1 + k <= N => at[m + 1 + k] = End}
<1>1. N \in Nat /\ End \notin Nat /\ F \subseteq Nat
  BY OfVolume
<1>2. m <= N
  BY ChainBound
<1>3. \A j \in 1 .. N : j <= m => at[j] = f[j - 1]
  BY <1>1, AlongChain
<1>4. /\ DOMAIN at = 1 .. N
      /\ \A i \in 1 .. N : i # 1 => at[i] = IF at[i - 1] \in F THEN v.fat[at[i - 1]] ELSE End
  BY <1>1, AlongIs DEF AlongOf
<1>5. Chain(v, c) = [i \in {j \in 1 .. N : at[j] # End} |-> at[i]]
  BY <1>4 DEF Chain
<1> HIDE DEF N, at, F
<1>6. 0 \in S
  <2> SUFFICES ASSUME m + 1 <= N PROVE at[m + 1] = End
    OBVIOUS
  <2>1. m + 1 \in 1 .. N /\ m + 1 # 1 /\ (m + 1) - 1 = m /\ m \in 1 .. N /\ m <= m
    BY <1>1
  <2>2. at[m] = f[m - 1]
    BY <1>3, <2>1
  <2> QED
    BY <1>4, <2>1, <2>2 DEF F
<1>7. ASSUME NEW k \in S PROVE k + 1 \in S
  <2> SUFFICES ASSUME m + 1 + (k + 1) <= N PROVE at[m + 1 + (k + 1)] = End
    OBVIOUS
  <2>1. /\ m + 1 + (k + 1) \in 1 .. N /\ m + 1 + (k + 1) # 1
        /\ (m + 1 + (k + 1)) - 1 = m + 1 + k /\ m + 1 + k <= N
    BY <1>1
  <2>2. at[m + 1 + k] = End
    BY <2>1
  <2> QED
    BY <1>1, <1>4, <2>1, <2>2
<1>8. S = Nat
  BY <1>6, <1>7, SetInduction
<1>9. \A j \in 1 .. N : at[j] # End <=> j <= m
  <2> TAKE j \in 1 .. N
  <2>1. CASE j <= m
    <3>1. j - 1 \in 0 .. m - 1
      BY <2>1
    <3>2. f[j - 1] \in Nat
      BY <3>1 DEF IsChain
    <3> QED
      BY <1>1, <1>3, <2>1, <3>2
  <2>2. CASE ~(j <= m)
    <3>1. j - m - 1 \in Nat /\ m + 1 + (j - m - 1) = j
      BY <1>1, <2>2
    <3>2. j - m - 1 \in S
      BY <1>8, <3>1
    <3>3. at[j] = End
      BY <1>1, <3>1, <3>2
    <3> QED
      BY <2>2, <3>3
  <2> QED
    BY <2>1, <2>2
<1> HIDE DEF S
<1>10. {j \in 1 .. N : at[j] # End} = 1 .. m
  BY <1>1, <1>2, <1>9
<1>11. \A i \in 1 .. m : at[i] = f[i - 1]
  BY <1>1, <1>2, <1>3
<1> QED
  BY <1>5, <1>10, <1>11

\* The places that the first k names lead to are the last of a sequence of steps.
LEMMA LedIs ==
    ASSUME NEW v, NEW path, NEW k \in Nat
    PROVE  \E g : g = LedOf(g, v, path, k) /\ Led(v, path, k) = g[k]
<1> DEFINE S == {n \in Nat : \E g : g = LedOf(g, v, path, n)}
<1>1. 0 \in S
  <2> DEFINE g == [n \in 0 .. 0 |-> {v.root}]
  <2>1. g = LedOf(g, v, path, 0)
    BY DEF LedOf
  <2> QED
    BY <2>1
<1>2. ASSUME NEW m \in S PROVE m + 1 \in S
  <2>1. PICK g : g = LedOf(g, v, path, m)
    OBVIOUS
  <2> DEFINE p == [n \in 0 .. m + 1 |-> IF n <= m THEN g[n] ELSE Onward(v, g[m], path[n])]
             q == LedOf(p, v, path, m + 1)
  <2>2. \A n \in 0 .. m : g[n] = IF n = 0 THEN {v.root} ELSE Onward(v, g[n - 1], path[n])
    BY <2>1 DEF LedOf
  <2>3. \A n \in 0 .. m + 1 : p[n] = q[n]
    <3> TAKE n \in 0 .. m + 1
    <3>1. q[n] = IF n = 0 THEN {v.root} ELSE Onward(v, p[n - 1], path[n])
      BY DEF LedOf
    <3> HIDE DEF q
    <3>2. CASE n = 0
      BY <2>2, <3>1, <3>2
    <3>3. CASE n # 0
      <4>1. n - 1 \in 0 .. m /\ p[n - 1] = g[n - 1]
        BY <3>3
      <4>2. p[n] = Onward(v, g[n - 1], path[n])
        <5>1. CASE n <= m
          BY <2>2, <3>3, <5>1
        <5>2. CASE ~(n <= m)
          <6>1. n - 1 = m
            BY <5>2
          <6> QED
            BY <5>2, <6>1
        <5> QED
          BY <5>1, <5>2
      <4> QED
        BY <3>1, <3>3, <4>1, <4>2
    <3> QED
      BY <3>2, <3>3
  <2>4. p = q
    BY <2>3 DEF LedOf
  <2> QED
    BY <2>4
<1>3. k \in S
  BY <1>1, <1>2, SetInduction
<1> DEFINE at == CHOOSE g : g = LedOf(g, v, path, k)
<1>4. at = LedOf(at, v, path, k)
  BY <1>3
<1>5. Led(v, path, k) = at[k]
  BY DEF Led, LedOf
<1> QED
  BY <1>4, <1>5

\* A path leads to the root first, and with each name further on.
LEMMA LedSteps ==
    ASSUME NEW v, NEW path
    PROVE  /\ Led(v, path, 0) = {v.root}
           /\ \A k \in Nat : Led(v, path, k + 1) = Onward(v, Led(v, path, k), path[k + 1])
<1>1. Led(v, path, 0) = {v.root}
  BY LedIs DEF LedOf
<1>2. ASSUME NEW k \in Nat PROVE Led(v, path, k + 1) = Onward(v, Led(v, path, k), path[k + 1])
  <2>1. PICK g : g = LedOf(g, v, path, k) /\ Led(v, path, k) = g[k]
    BY LedIs
  <2>2. PICK h : h = LedOf(h, v, path, k + 1) /\ Led(v, path, k + 1) = h[k + 1]
    BY LedIs
  <2> DEFINE S == {n \in Nat : n <= k => g[n] = h[n]}
  <2>3. \A n \in 0 .. k : g[n] = IF n = 0 THEN {v.root} ELSE Onward(v, g[n - 1], path[n])
    BY <2>1 DEF LedOf
  <2>4. \A n \in 0 .. k + 1 : h[n] = IF n = 0 THEN {v.root} ELSE Onward(v, h[n - 1], path[n])
    BY <2>2 DEF LedOf
  <2>5. 0 \in S
    BY <2>3, <2>4
  <2>6. ASSUME NEW n \in S PROVE n + 1 \in S
    <3> SUFFICES ASSUME n + 1 <= k PROVE g[n + 1] = h[n + 1]
      OBVIOUS
    <3>1. n + 1 \in 0 .. k /\ n + 1 \in 0 .. k + 1 /\ n + 1 # 0 /\ (n + 1) - 1 = n /\ g[n] = h[n]
      OBVIOUS
    <3> QED
      BY <2>3, <2>4, <3>1
  <2>7. k \in S
    BY <2>5, <2>6, SetInduction
  <2>8. k + 1 \in 0 .. k + 1 /\ k + 1 # 0 /\ (k + 1) - 1 = k /\ g[k] = h[k]
    BY <2>7
  <2> QED
    BY <2>1, <2>2, <2>4, <2>8
<1> QED
  BY <1>1, <1>2

-----------------------------------------------------------------------------
(* Which file is found.  While no sector is lost, nobody called fat_fstat  *)
(* and the volume is plain, a buffer holds the sectors of the chain it was *)
(* asked for, and fat_fopen is where the path leads.                       *)

Smooth == lost = 0 /\ ~stated /\ IsPlain(volume)

\* A buffer holds the sectors of a whole chain.
Whole(v, b) ==
    /\ b.root \in DOMAIN v.fat /\ Chain(v, b.root) \in Seq(DOMAIN v.fat)
    /\ b.data = SectorsOf(v, b.root) /\ b.size = Len(b.data)

\* As many clusters as are not left were read, from the first on.
SoFar(v, b) ==
    LET chain == Chain(v, b.root)
        k     == Len(chain) - b.left
    IN /\ b.root \in DOMAIN v.fat /\ chain \in Seq(DOMAIN v.fat)
       /\ \A i \in 1 .. Len(chain) - 1 : chain[i + 1] = v.fat[chain[i]]
       /\ b.left \in 1 .. Len(chain) /\ b.num = chain[k + 1]
       /\ b.data = [i \in 1 .. v.sectorsPerCluster * k |-> SectorsOf(v, b.root)[i]]
       /\ b.size = Len(b.data)

\* Decoding at slot r takes the long name of the entry along.
TakesLong(slots, r) ==
    r > 1 /\ r \in DOMAIN slots /\ slots[r - 1].attr = "lfn" => slots[r].attr \notin {"dir", "file"}

IsFopen(c) == c.path \in Paths /\ c.path # <<>>

\* The directory at root is where the first names of the path lead, and those in
\* todo are to come.
Heading(v, c, root) ==
    \E k \in 0 .. Len(c.path) - 1 :
        c.todo = SubSeq(c.path, k + 1, Len(c.path) - 1) /\ root \in Led(v, c.path, k)

\* The dirent of fat_opendir is not that of the directory it looks for.
IsOther(out, name) == ~(out.d_type = "dir" /\ out.d_name = name)

FileOf(path) == path[Len(path)]

\* fat_fopen looks for the file in a directory its path leads to.
Searching(v, path, d) == Whole(v, d.buf) /\ d.buf.root \in Led(v, path, Len(path) - 1)

\* Files of that name it has passed have a short name, and a long one was in the way.
SearchesOn(v, path, d) ==
    LET slots == SlotsOf(v, d.buf.root)
    IN /\ TakesLong(slots, d.readptr)
       /\ \A i \in FilesAt(v, d.buf.root, FileOf(path)) :
             i < d.readptr => ~HasLongName(slots, i) /\ HasTail(v)

\* It has found the file, whose chain begins at root.
Found(v, path, d, root) ==
    /\ d.readptr - 1 \in FilesAt(v, d.buf.root, FileOf(path))
    /\ root = Cluster(SlotsOf(v, d.buf.root)[d.readptr - 1])

\* A call of fat_fopen while it reads for the step then.
Underway(then) ==
    /\ then = "scan" => Heading(volume, call, buf.root) /\ call.todo # <<>> /\ readptr = 1
    /\ then = "open" => Heading(volume, call, buf.root) /\ call.todo = <<>>
    /\ then = "file" => Searching(volume, call.path, fdir) /\ Found(volume, call.path, fdir, buf.root)

Fopening ==
    /\ IsFopen(call)
    /\ pc \in {"count", "read"} => Underway(call.then)
    /\ pc = "scan" => /\ Heading(volume, call, buf.root) /\ call.todo # <<>> /\ readptr > 0
                      /\ TakesLong(SlotsOf(volume, buf.root), readptr)
                      /\ readptr > 1 => IsOther(dir, Head(call.todo))
    /\ pc = "open" => Underway("open")
    /\ pc = "search" => Searching(volume, call.path, fdir) /\ SearchesOn(volume, call.path, fdir)
    /\ pc = "file" => Underway("file")

OnTheWay ==
    /\ pc \notin {"off", "none", "wild"} => firstdatalba = volume.start
    /\ pc = "count" => buf.data = <<>> /\ buf.size = 0
    /\ pc = "read" => SoFar(volume, buf)
    /\ pc \in {"scan", "open", "file"} => Whole(volume, buf)
    /\ InCall /\ call.op = "fopen" => Fopening

NInv ==
    /\ rdir.tail => HasTail(volume)
    /\ pc = "off" => ret = NoCall
    /\ pc \in {"off", "idle"} => readptr = 1
    /\ Smooth => OnTheWay
    /\ FileIsTheNamed /\ FopenFinds

\* The sectors of a chain on a plain volume, cluster after cluster.
LEMMA SectorsAre ==
    ASSUME NEW v \in Volumes, IsPlain(v), NEW c, Chain(v, c) \in Seq(DOMAIN v.fat)
    PROVE  LET s     == v.sectorsPerCluster
               chain == Chain(v, c)
               secs  == SectorsOf(v, c)
           IN /\ secs \in Seq(DOMAIN v.card) /\ Len(secs) = s * Len(chain) /\ DOMAIN secs = 1 .. s * Len(chain)
              /\ \A k \in 0 .. Len(chain) - 1 : \A r \in 0 .. s - 1 :
                    secs[s * k + r + 1] = v.start + s * (chain[k + 1] - 2) + r
<1> DEFINE s == v.sectorsPerCluster
           chain == Chain(v, c)
           secs == SectorsOf(v, c)
           L == Len(chain)
           C == DOMAIN v.card
           Lba(x, r) == v.start + s * (x - 2) + r
<1>1. s \in Nat \ {0} /\ L \in Nat
  BY OfVolume
<1>2. \A x \in DOMAIN v.fat : \A r \in 0 .. s - 1 : Lba(x, r) \in C
  BY DEF IsPlain
<1>3. \A i \in 1 .. L : chain[i] \in DOMAIN v.fat
  OBVIOUS
<1>4. secs = [i \in 1 .. s * L |-> v.start + s * (chain[(i - 1) \div s + 1] - 2) + ((i - 1) % s)]
  BY DEF SectorsOf
<1> HIDE DEF s, chain, secs, L, C
<1>5. s * L \in Nat
  BY <1>1, Times
<1>6. ASSUME NEW i \in 1 .. s * L
      PROVE  /\ secs[i] = Lba(chain[(i - 1) \div s + 1], (i - 1) % s) /\ secs[i] \in C
  <2> DEFINE a == i - 1
             k == a \div s
             r == a % s
  <2>1. a \in Nat /\ a < s * L
    BY <1>5
  <2>2. k \in Nat /\ r \in 0 .. s - 1 /\ k < L
    BY <1>1, <2>1, Divides, DividesWithin
  <2>3. secs[i] = Lba(chain[k + 1], r)
    BY <1>4
  <2> HIDE DEF a, k, r, Lba
  <2>4. k + 1 \in 1 .. L
    BY <1>1, <2>2
  <2>5. Lba(chain[k + 1], r) \in C
    BY <1>2, <1>3, <2>2, <2>4
  <2> QED
    BY <2>3, <2>5 DEF k, r, a
<1>7. secs \in [1 .. s * L -> C]
  BY <1>4, <1>6
<1>8. secs \in Seq(C) /\ Len(secs) = s * L /\ DOMAIN secs = 1 .. s * L
  BY <1>5, <1>7
<1>9. ASSUME NEW k \in 0 .. L - 1, NEW r \in 0 .. s - 1
      PROVE  secs[s * k + r + 1] = Lba(chain[k + 1], r)
  <2> DEFINE a == s * k + r
             i == a + 1
  <2>1. k \in Nat /\ k + 1 <= L
    BY <1>1
  <2>2. a \in Nat /\ a \div s = k /\ a % s = r
    <3>1. s * k \in Nat
      BY <1>1, <2>1, Times
    <3> QED
      BY <1>1, <2>1, <3>1, DividesOnce
  <2> HIDE DEF a
  <2>3. a < s * L
    BY <1>1, <2>1, <2>2, DividesWithin
  <2>4. i \in 1 .. s * L /\ i - 1 = a
    BY <1>5, <2>2, <2>3
  <2>5. secs[i] = Lba(chain[(i - 1) \div s + 1], (i - 1) % s)
    BY <1>6, <2>4
  <2> HIDE DEF Lba
  <2>6. secs[i] = Lba(chain[k + 1], r)
    BY <2>2, <2>4, <2>5
  <2> QED
    BY <2>6 DEF a
<1> QED
  BY <1>8, <1>9 DEF s, chain, secs, L, C

\* The slots of a buffer that holds a chain are those of the chain.
LEMMA SlotsAre ==
    ASSUME volume \in Volumes, IsPlain(volume), NEW b, Whole(volume, b)
    PROVE  LET slots == SlotsOf(volume, b.root)
           IN /\ EndOfData(b) \in Nat /\ DOMAIN slots = 1 .. EndOfData(b)
              /\ \A i \in Nat \ {0} :
                    /\ IsKnown(b, i) <=> i \in DOMAIN slots
                    /\ i \in DOMAIN slots => Slot(b, i) = slots[i] /\ IsSlot(slots[i])
<1> DEFINE secs == SectorsOf(volume, b.root)
           slots == SlotsOf(volume, b.root)
           L == Len(secs)
           C == DOMAIN volume.card
<1>1. PerSector \in Nat \ {0}
  BY OfVolume
<1>2. secs \in Seq(C)
  BY SectorsAre DEF Whole
<1>3. C \subseteq Nat
  BY Fat32Assumption DEF IsVolume
<1>4. \A x \in C : \A j \in 1 .. PerSector : IsSlot(volume.card[x][j])
  BY OfVolume
<1>5. b.data = secs /\ b.size = L
  BY DEF Whole
<1>6. slots = [i \in 1 .. PerSector * L |-> volume.card[secs[(i - 1) \div PerSector + 1]][((i - 1) % PerSector) + 1]]
  BY DEF SlotsOf
<1> HIDE DEF secs, slots, C, L
<1>7. L \in Nat /\ DOMAIN secs = 1 .. L /\ \A k \in 1 .. L : secs[k] \in C
  BY <1>2 DEF L
<1>8. EndOfData(b) = PerSector * L /\ PerSector * L \in Nat
  BY <1>1, <1>5, <1>7, Times DEF EndOfData
<1>9. DOMAIN slots = 1 .. EndOfData(b)
  BY <1>6, <1>8
<1>10. ASSUME NEW i \in Nat \ {0}
       PROVE  /\ IsKnown(b, i) <=> i \in DOMAIN slots
              /\ i \in DOMAIN slots => Slot(b, i) = slots[i] /\ IsSlot(slots[i])
  <2> DEFINE a == i - 1
             k == a \div PerSector
             r == a % PerSector
  <2>1. a \in Nat
    OBVIOUS
  <2>2. k \in Nat /\ r \in 0 .. PerSector - 1
    BY <1>1, <2>1, Divides
  <2>3. k < L <=> a < PerSector * L
    BY <1>1, <1>7, <2>1, DividesWithin
  <2>4. i \in 1 .. PerSector * L <=> a < PerSector * L
    BY <1>8
  <2>5. Sector(b, i) = k + 1
    BY DEF Sector
  <2>6. Slot(b, i) = IF IsKnown(b, i) THEN volume.card[b.data[Sector(b, i)]][r + 1] ELSE NoSlot
    BY DEF Slot
  <2>7. i \in 1 .. PerSector * L => slots[i] = volume.card[secs[k + 1]][r + 1]
    BY <1>6
  <2> HIDE DEF a, k, r
  <2>8. k + 1 \in 1 .. L <=> i \in DOMAIN slots
    BY <1>7, <1>8, <1>9, <2>2, <2>3, <2>4
  <2>9. k + 1 \in 1 .. L => secs[k + 1] # Hole
    <3>1. Hole \notin Nat
      BY DEF Hole
    <3> QED
      BY <1>3, <1>7, <3>1
  <2>10. IsKnown(b, i) <=> k + 1 \in 1 .. L
    BY <1>5, <1>7, <2>5, <2>9 DEF IsKnown
  <2>11. ASSUME i \in DOMAIN slots PROVE Slot(b, i) = slots[i] /\ IsSlot(slots[i])
    <3>1. k + 1 \in 1 .. L /\ secs[k + 1] \in C /\ r + 1 \in 1 .. PerSector
      BY <1>1, <1>7, <2>2, <2>8, <2>11
    <3>2. IsSlot(volume.card[secs[k + 1]][r + 1])
      BY <1>4, <3>1
    <3>3. slots[i] = volume.card[secs[k + 1]][r + 1]
      BY <1>8, <1>9, <2>7, <2>11
    <3>4. Slot(b, i) = volume.card[secs[k + 1]][r + 1]
      BY <1>5, <2>5, <2>6, <2>10, <3>1
    <3> QED
      BY <3>2, <3>3, <3>4
  <2> QED
    BY <2>8, <2>10, <2>11
<1> QED
  BY <1>8, <1>9, <1>10 DEF slots

\* A name in a buffer is a name on the card.
LEMMA NamesAreOnCard ==
    ASSUME volume \in Volumes, NEW b, IsBuf(volume, b), NEW i \in Nat \ {0}, IsKnown(b, i),
           Slot(b, i).name \in LongNames
    PROVE  HasTail(volume)
<1> DEFINE a == i - 1
           r == a % PerSector
           x == b.data[Sector(b, i)]
<1>1. PerSector \in Nat \ {0}
  BY OfVolume
<1>2. a \in Nat
  OBVIOUS
<1>3. r \in 0 .. PerSector - 1
  BY <1>1, <1>2, Divides
<1>4. x \in DOMAIN volume.card
  BY DEF IsKnown, IsBuf
<1>5. Slot(b, i) = volume.card[x][r + 1]
  BY DEF Slot
<1> HIDE DEF a, r, x
<1>6. r + 1 \in 1 .. PerSector
  BY <1>1, <1>3
<1> QED
  BY <1>4, <1>5, <1>6 DEF HasTail

\* The name that a dirent gets from the entry at slot e; tail says what was in it before.
Decoded(slots, e, tail) ==
    IF HasLongName(slots, e) THEN slots[e - 1].name ELSE IF tail = TRUE THEN Garbled ELSE slots[e].name

\* What fat_getdirent decodes at slot r of a chain: the entry at e, and its name.
LEMMA Decodes ==
    ASSUME volume \in Volumes, IsPlain(volume), NEW b, Whole(volume, b), NEW r \in Nat \ {0},
           ~LooksAstray(b, r), TakesLong(SlotsOf(volume, b.root), r), NEW out, out.tail \in BOOLEAN
    PROVE  LET slots == SlotsOf(volume, b.root)
               d == fat_getdirent(b, r, out)
               e == EntryAt(b, r)
           IN /\ r \in DOMAIN slots /\ e \in DOMAIN slots /\ e \in Nat \ {0}
              /\ Slot(b, r) = slots[r] /\ Slot(b, e) = slots[e] /\ IsSlot(slots[e])
              /\ e = IF slots[r].attr = "lfn" THEN r + 1 ELSE r
              /\ TakesLong(slots, r + Step(d.next))
              /\ d.next = -1 <=> slots[e].attr \notin {"dir", "file"}
              /\ d.next = -1 => d.out = out
              /\ d.next # -1 =>
                    /\ r + Step(d.next) = e + 1 /\ d.out.d_type = slots[e].attr
                    /\ HasLongName(slots, e) <=> e = r + 1
                    /\ d.out.d_name = Decoded(slots, e, out.tail)
<1> DEFINE slots == SlotsOf(volume, b.root)
           d == fat_getdirent(b, r, out)
           e == EntryAt(b, r)
           s == Slot(b, e)
<1>1. /\ EndOfData(b) \in Nat /\ DOMAIN slots = 1 .. EndOfData(b)
      /\ \A i \in Nat \ {0} :
            /\ IsKnown(b, i) <=> i \in DOMAIN slots
            /\ i \in DOMAIN slots => Slot(b, i) = slots[i] /\ IsSlot(slots[i])
  BY SlotsAre
<1>2. e \in Nat \ {0} /\ e = IF Slot(b, r).attr = "lfn" THEN r + 1 ELSE r
  BY DEF EntryAt
<1>3. /\ r \in DOMAIN slots /\ e \in DOMAIN slots
      /\ Slot(b, r) = slots[r] /\ s = slots[e] /\ IsSlot(slots[e])
  BY <1>1, <1>2 DEF LooksAstray
<1>4. e = IF slots[r].attr = "lfn" THEN r + 1 ELSE r
  BY <1>2, <1>3
<1>5. d = IF s.attr \notin {"dir", "file"} THEN [next |-> -1, out |-> out]
          ELSE IF e = r THEN [next |-> 1, out |-> Short(s, out)]
          ELSE [next |-> 2, out |-> Long(s, Slot(b, r).name, out)]
  BY DEF fat_getdirent
<1> HIDE DEF slots, d, e, s
<1>6. CASE s.attr \notin {"dir", "file"}
  <2>1. d.next = -1 /\ d.out = out /\ Step(d.next) = 1
    BY <1>5, <1>6 DEF Step
  <2>2. TakesLong(slots, r + 1)
    <3>1. slots[r].attr = "lfn" => slots[r + 1].attr \notin {"dir", "file"}
      BY <1>3, <1>4, <1>6
    <3> QED
      BY <3>1 DEF TakesLong
  <2>3. TakesLong(slots, r + Step(d.next))
    BY <2>1, <2>2
  <2> QED
    BY <1>2, <1>3, <1>4, <1>6, <2>1, <2>3 DEF slots, d, e, s
<1>7. CASE s.attr \in {"dir", "file"}
  <2>1. /\ d.next = (IF e = r THEN 1 ELSE 2) /\ d.out.d_type = s.attr
        /\ d.out.d_name = IF e = r THEN (IF out.tail THEN Garbled ELSE s.name) ELSE slots[r].name
    BY <1>3, <1>5, <1>7 DEF Short, Long
  <2>2. Step(d.next) = d.next /\ d.next # -1
    BY <2>1 DEF Step
  <2>3. r + Step(d.next) = e + 1
    BY <1>4, <2>1, <2>2
  <2>4. TakesLong(slots, r + Step(d.next))
    <3>1. slots[e].attr # "lfn" /\ (e + 1) - 1 = e
      BY <1>2, <1>3, <1>7
    <3>2. TakesLong(slots, e + 1)
      BY <3>1 DEF TakesLong
    <3> QED
      BY <2>3, <3>2
  <2>5. HasLongName(slots, e) <=> e = r + 1
    <3>1. CASE e = r + 1
      <4>1. e > 1 /\ e - 1 = r /\ slots[r].attr = "lfn"
        BY <1>4, <3>1
      <4> QED
        BY <3>1, <4>1 DEF HasLongName
    <3>2. CASE e = r
      <4>1. TakesLong(slots, r)
        BY DEF slots
      <4>2. ~(r > 1 /\ slots[r - 1].attr = "lfn")
        BY <1>3, <1>7, <3>2, <4>1 DEF TakesLong
      <4> QED
        BY <3>2, <4>2 DEF HasLongName
    <3> QED
      BY <1>4, <3>1, <3>2
  <2>6. d.out.d_name = Decoded(slots, e, out.tail)
    <3>1. CASE e = r + 1
      <4>1. e # r /\ e - 1 = r
        BY <3>1
      <4> QED
        BY <2>1, <2>5, <3>1, <4>1 DEF Decoded
    <3>2. CASE e = r
      <4>1. e # r + 1
        BY <3>2
      <4> QED
        BY <1>3, <2>1, <2>5, <3>2, <4>1 DEF Decoded
    <3> QED
      BY <1>4, <3>1, <3>2
  <2> QED
    BY <1>2, <1>3, <1>4, <1>7, <2>1, <2>2, <2>3, <2>4, <2>5, <2>6 DEF slots, d, e, s
<1> QED
  BY <1>6, <1>7

\* fat_readdir fills d_name[11] only from a long name of the card.
LEMMA TailIsOnCard ==
    ASSUME volume \in Volumes, NEW d, IsDir(volume, d), ~LooksAstray(d.buf, d.readptr),
           rdir.tail => HasTail(volume)
    PROVE  fat_readdir(d).rdir.tail => HasTail(volume)
<1> DEFINE i == d.readptr
           b == d.buf
           e == EntryAt(b, i)
           s == Slot(b, e)
           g == fat_getdirent(b, i, rdir)
<1>1. fat_readdir(d).rdir = g.out
  BY DEF fat_readdir
<1>2. IsBuf(volume, b) /\ i \in Nat \ {0}
  BY DEF IsDir
<1>3. IsKnown(b, i)
  BY DEF LooksAstray
<1>4. Slot(b, i).name \in LongNames => HasTail(volume)
  BY <1>2, <1>3, NamesAreOnCard
<1>5. \/ g = [next |-> -1, out |-> rdir] \/ g = [next |-> 1, out |-> Short(s, rdir)]
      \/ g = [next |-> 2, out |-> Long(s, Slot(b, i).name, rdir)]
  BY DEF fat_getdirent
<1> HIDE DEF g, s, b, i, e
<1> DEFINE name == Slot(b, i).name
<1>6. Short(s, rdir).tail = rdir.tail /\ Long(s, name, rdir).tail = (name \in LongNames \/ rdir.tail)
  BY DEF Short, Long
<1>7. \/ g.out = rdir \/ g.out = Short(s, rdir) \/ g.out = Long(s, name, rdir)
  BY <1>5
<1> QED
  BY <1>1, <1>4, <1>6, <1>7

\* fat_getclustercount leaves fat_getdata at the first cluster, with all to read.
LEMMA CountedAll ==
    ASSUME IInv, Smooth, OnTheWay, CountCluster, pc' = "read"
    PROVE  SoFar(volume, buf')
<1> DEFINE F == DOMAIN volume.fat
           N == Cardinality(F)
           n == buf.left
           chain == Chain(volume, buf.root)
           s == volume.sectorsPerCluster
<1>1. /\ volume \in Volumes /\ IsBuf(volume, buf) /\ Counting(volume, buf) /\ pc = "count"
      /\ IsPlain(volume) /\ buf.data = <<>> /\ buf.size = 0
  BY DEF IInv, Typed, Walking, CountCluster, Smooth, OnTheWay
<1>2. PICK f : /\ IsChain(volume, f, buf.root, n)
               /\ f[n - 1] = buf.num \/ (n = N + 1 /\ f[n - 1] \in F)
  BY <1>1 DEF Counting
<1>3. n \in Nat \ {0} /\ buf.num \in F /\ buf = [root |-> buf.root, num |-> buf.num, left |-> n, data |-> buf.data, size |-> buf.size]
  BY <1>1 DEF Counting, IsBuf, CountCluster
<1>4. volume.fat[buf.num] = End /\ buf' = [buf EXCEPT !.num = buf.root]
  BY <1>1 DEF CountCluster
<1>5. N \in Nat /\ s \in Nat
  BY <1>1, OfVolume
<1>6. /\ f \in [0 .. n - 1 -> Nat] /\ f[0] = buf.root
      /\ \A i \in 1 .. n - 1 : f[i - 1] \in F /\ f[i] = volume.fat[f[i - 1]]
  BY <1>2 DEF IsChain
<1>7. f[n - 1] \in F
  BY <1>2, <1>3
<1>8. \A i \in 0 .. n - 1 : f[i] \in F
  <2> HIDE DEF F, n
  <2> TAKE i \in 0 .. n - 1
  <2>1. CASE i = n - 1
    BY <1>7, <2>1
  <2>2. CASE i # n - 1
    <3>1. i + 1 \in 1 .. n - 1 /\ (i + 1) - 1 = i
      BY <1>3, <2>2
    <3> QED
      BY <1>6, <3>1
  <2> QED
    BY <2>1, <2>2
<1>9. buf.root \in F
  BY <1>3, <1>6, <1>8
<1>10. Ends(volume, buf.root)
  BY <1>1, <1>9 DEF IsPlain
<1>11. n <= N
  BY <1>1, <1>2, <1>3, <1>10, ChainBound
<1>12. f[n - 1] = buf.num
  BY <1>2, <1>3, <1>5, <1>11
<1>13. chain = [i \in 1 .. n |-> f[i - 1]]
  BY <1>1, <1>2, <1>3, <1>4, <1>10, <1>12, ChainIs
<1> HIDE DEF F, N, n, chain
<1>14. \A i \in 1 .. n : chain[i] \in F /\ chain[i] = f[i - 1]
  BY <1>3, <1>8, <1>13
<1>15. chain \in Seq(F) /\ Len(chain) = n
  <2>1. chain \in [1 .. n -> F]
    BY <1>13, <1>14
  <2> QED
    BY <1>3, <2>1
<1>16. ASSUME NEW i \in 1 .. n - 1 PROVE chain[i + 1] = volume.fat[chain[i]]
  <2>1. i \in 1 .. n /\ i + 1 \in 1 .. n /\ (i + 1) - 1 = i
    BY <1>3
  <2> QED
    BY <1>6, <1>14, <2>1
<1>17. /\ buf'.root = buf.root /\ buf'.num = buf.root /\ buf'.left = n /\ buf'.data = <<>> /\ buf'.size = 0
  BY <1>1, <1>3, <1>4
<1>18. buf'.num = chain[(n - n) + 1]
  <2>1. n - n = 0 /\ 1 \in 1 .. n
    BY <1>3
  <2>2. chain[1] = f[1 - 1]
    BY <1>14, <2>1
  <2> QED
    BY <1>6, <1>17, <2>1, <2>2
<1>19. buf'.data = [i \in 1 .. s * (n - n) |-> SectorsOf(volume, buf.root)[i]]
  <2>1. s * (n - n) = 0
    BY <1>3, <1>5
  <2>2. \A g : g = [i \in 1 .. 0 |-> SectorsOf(volume, buf.root)[i]] => g = <<>>
    OBVIOUS
  <2> QED
    BY <1>17, <2>1, <2>2
<1>20. buf'.left \in 1 .. n
  BY <1>3, <1>17
<1> QED
  BY <1>9, <1>15, <1>16, <1>17, <1>18, <1>19, <1>20 DEF SoFar, chain, F, s

\* One cluster more is in the buffer: the next one of the chain.
LEMMA ReadMore ==
    ASSUME IInv, Smooth, Smooth', OnTheWay, ReadCluster
    PROVE  /\ buf'.root = buf.root
           /\ IF buf.left = 1 THEN Whole(volume, buf') ELSE SoFar(volume, buf')
<1> DEFINE F == DOMAIN volume.fat
           C == DOMAIN volume.card
           chain == Chain(volume, buf.root)
           secs == SectorsOf(volume, buf.root)
           L == Len(chain)
           k == L - buf.left
           s == volume.sectorsPerCluster
           lba == fat_clustertolba(buf.num)
           sectors == lba .. lba + s - 1
<1>1. /\ volume \in Volumes /\ IsBuf(volume, buf) /\ pc = "read" /\ IsPlain(volume)
      /\ SoFar(volume, buf) /\ firstdatalba = volume.start /\ lost = 0 /\ lost' = 0
  BY DEF IInv, Typed, ReadCluster, Smooth, OnTheWay
<1>2. /\ buf.root \in F /\ chain \in Seq(F) /\ buf.left \in 1 .. L /\ buf.num = chain[k + 1]
      /\ \A i \in 1 .. L - 1 : chain[i + 1] = volume.fat[chain[i]]
      /\ buf.data = [i \in 1 .. s * k |-> secs[i]] /\ buf.size = Len(buf.data)
  BY <1>1 DEF SoFar
<1>3. s \in Nat \ {0} /\ F \subseteq Nat
  BY <1>1, OfVolume
<1>4. /\ secs \in Seq(C) /\ Len(secs) = s * L /\ DOMAIN secs = 1 .. s * L
      /\ \A j \in 0 .. L - 1 : \A r \in 0 .. s - 1 :
            secs[s * j + r + 1] = volume.start + s * (chain[j + 1] - 2) + r
  BY <1>1, <1>2, SectorsAre
<1>5. buf = [root |-> buf.root, num |-> buf.num, left |-> buf.left, data |-> buf.data, size |-> buf.size]
  BY <1>1 DEF IsBuf
<1>6. /\ L \in Nat /\ k \in 0 .. L - 1 /\ k + 1 \in 1 .. L /\ buf.num \in F
  BY <1>2
<1>7. lba = volume.start + s * (chain[k + 1] - 2)
  BY <1>1, <1>2 DEF fat_clustertolba
<1>8. PICK bad \in SUBSET (sectors \cap C) :
         /\ lost' = lost + Cardinality(bad)
         /\ LET good == (sectors \cap C) \ bad
            IN buf' = [buf EXCEPT
                  !.data = @ \o [i \in 1 .. s |-> IF lba + i - 1 \in good THEN lba + i - 1 ELSE Hole],
                  !.size = @ + Cardinality(good),
                  !.left = @ - 1,
                  !.num  = IF buf.left = 1 THEN @ ELSE volume.fat[@]]
  BY DEF ReadCluster
<1> DEFINE good == (sectors \cap C) \ bad
           more == [i \in 1 .. s |-> IF lba + i - 1 \in good THEN lba + i - 1 ELSE Hole]
           next == IF buf.left = 1 THEN buf.num ELSE volume.fat[buf.num]
<1>9. volume.start \in Int /\ \A x \in F : \A r \in 0 .. s - 1 : volume.start + s * (x - 2) + r \in C
  <2>1. volume.start \in Int
    BY <1>1 DEF IInv, Typed
  <2> QED
    BY <1>1, <2>1 DEF IsPlain
<1>10. buf' = [buf EXCEPT !.data = @ \o more, !.size = @ + Cardinality(good), !.left = @ - 1, !.num = next]
  BY <1>8
<1> HIDE DEF F, C, secs, L, k, s, chain
<1>11. lba \in Int /\ \A r \in 0 .. s - 1 : lba + r \in C
  <2>1. chain[k + 1] \in F /\ chain[k + 1] \in Int
    BY <1>2, <1>3, <1>6
  <2>2. s * (chain[k + 1] - 2) \in Int
    BY <1>3, <2>1
  <2> QED
    BY <1>7, <1>9, <2>1, <2>2
<1> HIDE DEF lba
<1>12. IsFiniteSet(sectors) /\ Cardinality(sectors) = s
  <2>1. lba + s - 1 \in Int
    BY <1>3, <1>11
  <2> QED
    BY <1>3, <1>11, <2>1, FS_Interval
<1>13. sectors \subseteq C
  <2> SUFFICES ASSUME NEW x \in sectors PROVE x \in C
    OBVIOUS
  <2>1. x - lba \in 0 .. s - 1 /\ lba + (x - lba) = x
    BY <1>3, <1>11
  <2> QED
    BY <1>11, <2>1
<1>14. bad = {}
  <2>1. IsFiniteSet(bad) /\ Cardinality(bad) \in Nat
    BY <1>12, FS_Subset, FS_CardinalityType
  <2>2. Cardinality(bad) = 0
    BY <1>1, <1>8, <2>1
  <2> QED
    BY <2>1, <2>2, FS_EmptySet
<1>15. good = sectors /\ Cardinality(good) = s
  BY <1>12, <1>13, <1>14
<1>16. /\ more \in [1 .. s -> Int] /\ more \in Seq(Int) /\ Len(more) = s
       /\ \A i \in 1 .. s : more[i] = lba + i - 1
  <2>1. \A i \in 1 .. s : lba + i - 1 \in good
    BY <1>3, <1>11, <1>15
  <2> HIDE DEF good, sectors
  <2>2. \A i \in 1 .. s : more[i] = lba + i - 1 /\ lba + i - 1 \in Int
    <3> TAKE i \in 1 .. s
    <3>1. more[i] = IF lba + i - 1 \in good THEN lba + i - 1 ELSE Hole
      OBVIOUS
    <3> HIDE DEF more
    <3>2. lba + i - 1 \in good
      BY <2>1
    <3>3. lba + i - 1 \in Int
      BY <1>3, <1>11
    <3> QED
      BY <3>1, <3>2, <3>3
  <2>3. more \in [1 .. s -> Int]
    BY <2>2
  <2> HIDE DEF more
  <2> QED
    BY <1>3, <2>2, <2>3
<1> HIDE DEF good, more, next, sectors
<1>17. /\ s * k \in Nat /\ s * (k + 1) = s * k + s /\ s * (k + 1) <= s * L /\ s * L \in Nat
  BY <1>3, <1>6, Times
<1>18. /\ buf.data \in Seq(C) /\ Len(buf.data) = s * k /\ \A i \in 1 .. s * k : buf.data[i] = secs[i]
  <2>1. \A i \in 1 .. s * k : secs[i] \in C
    <3> TAKE i \in 1 .. s * k
    <3>1. i \in DOMAIN secs
      BY <1>3, <1>4, <1>17
    <3> QED
      BY <1>4, <3>1
  <2>2. buf.data \in [1 .. s * k -> C]
    BY <1>2, <2>1
  <2> QED
    BY <1>2, <1>17, <2>2
<1> DEFINE data == buf.data \o more
<1>19. DOMAIN data = 1 .. s * (k + 1) /\ Len(data) = s * (k + 1)
       /\ data = [i \in 1 .. s * (k + 1) |-> data[i]]
  <2>1. buf.data \in Seq(C \cup Int) /\ more \in Seq(C \cup Int)
    <3>1. buf.data \in [1 .. s * k -> C \cup Int]
      BY <1>2, <1>17, <1>18
    <3>2. more \in [1 .. s -> C \cup Int]
      BY <1>16
    <3> HIDE DEF C
    <3> QED
      BY <1>3, <1>17, <3>1, <3>2
  <2>2. data \in Seq(C \cup Int) /\ Len(data) = Len(buf.data) + Len(more)
    BY <2>1
  <2> HIDE DEF data
  <2> QED
    BY <1>16, <1>17, <1>18, <2>2
<1>20. \A i \in 1 .. s * (k + 1) : data[i] = secs[i]
  <2> TAKE i \in 1 .. s * (k + 1)
  <2>1. CASE i <= s * k
    <3>1. data[i] = buf.data[i]
      BY <1>17, <1>18, <1>16, <2>1
    <3> QED
      BY <1>17, <1>18, <2>1, <3>1
  <2>2. CASE ~(i <= s * k)
    <3> DEFINE r == i - s * k - 1
    <3>1. r \in 0 .. s - 1 /\ r + 1 \in 1 .. s /\ i = s * k + r + 1 /\ i - s * k = r + 1
      BY <1>3, <1>17, <2>2
    <3>2. data[i] = more[r + 1]
      <4> DEFINE n == s * k
      <4>1. n \in Nat /\ Len(buf.data) = n /\ Len(more) = s /\ i - n = r + 1 /\ i > n /\ i \in 1 .. n + s
        BY <1>16, <1>17, <1>18, <2>2, <3>1
      <4> HIDE DEF n, r
      <4>2. data[i] = more[i - Len(buf.data)]
        BY <1>3, <1>16, <1>18, <4>1
      <4> QED
        BY <4>1, <4>2
    <3> HIDE DEF r, data
    <3>3. more[r + 1] = lba + r
      BY <1>11, <1>16, <3>1
    <3>4. secs[i] = volume.start + s * (chain[k + 1] - 2) + r
      BY <1>4, <1>6, <3>1
    <3> QED
      BY <1>7, <3>2, <3>3, <3>4 DEF lba
  <2> QED
    BY <2>1, <2>2
<1>21. data = [i \in 1 .. s * (k + 1) |-> secs[i]]
  <2> HIDE DEF data
  <2> QED
    BY <1>19, <1>20
<1> HIDE DEF data
<1>22. /\ buf'.root = buf.root /\ buf'.num = next /\ buf'.left = buf.left - 1
       /\ buf'.data = data /\ buf'.size = buf.size + s
  BY <1>5, <1>10, <1>15 DEF data
<1>23. buf'.size = Len(buf'.data)
  BY <1>2, <1>17, <1>18, <1>19, <1>22
<1>24. CASE buf.left = 1
  <2>1. k + 1 = L
    BY <1>6, <1>24 DEF k
  <2>2. data = secs
    <3>1. secs = [i \in 1 .. s * L |-> secs[i]]
      BY <1>4
    <3> QED
      BY <1>21, <2>1, <3>1
  <2>3. Whole(volume, buf')
    BY <1>2, <1>22, <1>23, <2>2 DEF Whole, secs, chain, F
  <2> QED
    BY <1>22, <1>24, <2>3
<1>25. CASE buf.left # 1
  <2> DEFINE j == L - buf'.left
  <2> DEFINE l == buf.left
             m == buf'.left
  <2>0. l \in 1 .. L /\ m = l - 1 /\ l # 1 /\ L \in Nat /\ k = L - l
    BY <1>2, <1>6, <1>22, <1>25 DEF k
  <2> HIDE DEF l, m
  <2>1. L - m = k + 1 /\ m \in 1 .. L /\ k + 1 \in 1 .. L - 1
    BY <2>0
  <2> USE DEF m
  <2>2. buf'.num = chain[j + 1]
    BY <1>2, <1>22, <1>25, <2>1 DEF next
  <2>3. buf'.data = [i \in 1 .. s * j |-> secs[i]]
    BY <1>21, <1>22, <2>1
  <2>4. SoFar(volume, buf')
    BY <1>2, <1>22, <1>23, <2>1, <2>2, <2>3 DEF SoFar, secs, chain, F, L, s
  <2> QED
    BY <1>22, <1>25, <2>4
<1> QED
  BY <1>24, <1>25

\* The card stays, and what was lost or overwritten stays so.
LEMMA StaysSmooth ==
    ASSUME IInv, [Next]_vars
    PROVE  volume \in Volumes /\ volume' = volume /\ (Smooth' => Smooth)
<1>1. volume \in Volumes /\ lost \in Nat /\ MaxLost \in Nat
  <2>1. volume \in Volumes /\ lost \in 0 .. MaxLost
    BY DEF IInv, Typed
  <2> QED
    BY <2>1, OfVolume
<1>2. volume' = volume
  BY DEF Next, vars, volVars, InitReadFails, InitAstray, init_fatfs, GetdataStep, OpendirStep, FopenStep, Opendir,
         Fopen, FopenNoName, ReadDir, ReadDirAstray, fat_rewinddir, fat_fstat, Astray, CountCluster, CountAstray,
         ReadCluster, ScanAstray, ScanNext, ScanInto, ScanLast, ScanEnd, OpenDone, SearchAstray, SearchNext,
         SearchHit, SearchEnd, FopenDone, Return, ReturnNull, BeginOpendir
<1>3. stated' = stated \/ stated' = TRUE
  BY DEF Next, vars, volVars, InitReadFails, InitAstray, init_fatfs, GetdataStep, OpendirStep, FopenStep, Opendir,
         Fopen, FopenNoName, ReadDir, ReadDirAstray, fat_rewinddir, fat_fstat, Astray, CountCluster, CountAstray,
         ReadCluster, ScanAstray, ScanNext, ScanInto, ScanLast, ScanEnd, OpenDone, SearchAstray, SearchNext,
         SearchHit, SearchEnd, FopenDone, Return, ReturnNull, BeginOpendir
<1>4. lost' = 0 => lost = 0
  <2>1. CASE ReadCluster
    <3> DEFINE s == volume.sectorsPerCluster
               lba == fat_clustertolba(buf.num)
               sectors == lba .. lba + s - 1
    <3>1. PICK bad \in SUBSET (sectors \cap DOMAIN volume.card) : lost' = lost + Cardinality(bad)
      BY <2>1 DEF ReadCluster
    <3>2. s \in Nat \ {0} /\ buf.num \in Nat /\ firstdatalba \in Nat
      BY <1>1, OfVolume DEF IInv, Typed, IsBuf
    <3>3. lba \in Int
      BY <3>2 DEF fat_clustertolba
    <3> HIDE DEF s, lba
    <3>4. lba + s - 1 \in Int
      BY <3>2, <3>3
    <3>5. IsFiniteSet(sectors)
      BY <3>3, <3>4, FS_Interval
    <3>6. Cardinality(bad) \in Nat
      BY <3>5, FS_Subset, FS_CardinalityType
    <3> QED
      BY <1>1, <3>1, <3>6
  <2>2. CASE ~ReadCluster
    <3>1. lost' = lost \/ lost' = lost + 1
      BY <2>2 DEF Next, vars, InitReadFails, InitAstray, init_fatfs, GetdataStep, OpendirStep, FopenStep, Opendir,
         Fopen, FopenNoName, ReadDir, ReadDirAstray, fat_rewinddir, fat_fstat, Astray, CountCluster, CountAstray,
         ScanAstray, ScanNext, ScanInto, ScanLast, ScanEnd, OpenDone, SearchAstray, SearchNext,
         SearchHit, SearchEnd, FopenDone, Return, ReturnNull, BeginOpendir
    <3> QED
      BY <1>1, <3>1
  <2> QED
    BY <2>1, <2>2
<1> QED
  BY <1>1, <1>2, <1>3, <1>4 DEF Smooth

\* While a call runs, nothing is said of what the last one returned.
LEMMA NotIdle ==
    ASSUME pc' \notin {"off", "idle"}, rdir'.tail => HasTail(volume)', Smooth' => OnTheWay'
    PROVE  NInv'
  BY DEF NInv, FileIsTheNamed, FopenFinds

\* A program astray is on no way.
LEMMA NamedAstray == ASSUME NInv, Astray PROVE NInv'
<1>1. pc' = "wild" /\ rdir' = rdir /\ volume' = volume
  BY DEF Astray, volVars
<1>2. OnTheWay'
  BY <1>1 DEF OnTheWay, InCall
<1> QED
  BY <1>1, <1>2, NotIdle DEF NInv

\* init_fatfs takes the first FAT32 partition: its data begins where the volume says.
LEMMA NamedInit == ASSUME IInv, NInv, InitReadFails \/ init_fatfs PROVE NInv'
<1>1. volume' = volume /\ rdir' = rdir /\ volume \in Volumes /\ pc = "off" /\ ret = NoCall /\ ret' = ret
      /\ readptr = 1 /\ readptr' = 1 /\ (rdir.tail => HasTail(volume))
  BY DEF IInv, Typed, NInv, InitReadFails, init_fatfs, volVars, locals, openVars
<1>2. FileIsTheNamed' /\ FopenFinds'
  BY <1>1 DEF FileIsTheNamed, FopenFinds, NoCall
<1>3. CASE InitReadFails
  <2>1. pc' = "none"
    BY <1>3 DEF InitReadFails
  <2>2. OnTheWay'
    BY <2>1 DEF OnTheWay, InCall
  <2> QED
    BY <1>1, <1>2, <2>1, <2>2 DEF NInv
<1>4. CASE init_fatfs
  <2>1. pc' = "idle" /\ firstdatalba' = FirstData /\ Fat32Partitions # {}
    BY <1>4 DEF init_fatfs
  <2> DEFINE P == Fat32Partitions
  <2>2. P # {} /\ \A p : p \in P <=> p \in 1 .. 4 /\ volume.parts[p].type = "fat32"
    BY <2>1 DEF Fat32Partitions
  <2> HIDE DEF P
  <2>3. \E p \in P : \A q \in P : p <= q
    <3>1. P \subseteq 1 .. 4
      BY <2>2
    <3>2. CASE 1 \in P
      BY <3>1, <3>2
    <3>3. CASE 1 \notin P /\ 2 \in P
      BY <3>1, <3>3
    <3>4. CASE 1 \notin P /\ 2 \notin P /\ 3 \in P
      BY <3>1, <3>4
    <3>5. CASE 1 \notin P /\ 2 \notin P /\ 3 \notin P
      <4>1. \A q \in P : q = 4
        BY <3>1, <3>5
      <4>2. PICK p \in P : TRUE
        BY <2>2
      <4> QED
        BY <4>1, <4>2
    <3> QED
      BY <3>2, <3>3, <3>4, <3>5
  <2>4. PICK p \in P : Tlbentry = volume.parts[p] /\ \A q \in P : p <= q
    BY <2>3 DEF Tlbentry, P
  <2>5. p \in 1 .. 4 /\ volume.parts[p].type = "fat32"
    BY <2>2
  <2>6. \A q \in 1 .. p - 1 : volume.parts[q].type # "fat32"
    <3> SUFFICES ASSUME NEW q \in 1 .. p - 1, volume.parts[q].type = "fat32" PROVE FALSE
      OBVIOUS
    <3>1. q \in 1 .. 4 /\ ~(p <= q)
      BY <2>5
    <3>2. q \in P
      BY <2>2, <3>1
    <3> QED
      BY <2>4, <3>1, <3>2
  <2>7. volume.start = volume.parts[p].LBA + volume.reservedSectors + volume.fatCnt * volume.sectorsPerFat
    <3>1. IsVolume(volume)
      BY <1>1, Fat32Assumption
    <3> QED
      BY <2>5, <2>6, <3>1 DEF IsVolume
  <2>8. firstdatalba' = volume.start
    <3>1. volume.fatCnt \in Nat /\ volume.sectorsPerFat \in Nat
      BY <1>1, OfVolume
    <3>2. volume.sectorsPerFat * volume.fatCnt = volume.fatCnt * volume.sectorsPerFat
      BY <3>1
    <3> QED
      BY <2>1, <2>4, <2>7, <3>2 DEF FirstData
  <2>9. OnTheWay'
    BY <1>1, <2>1, <2>8 DEF OnTheWay, InCall
  <2> QED
    BY <1>1, <1>2, <2>1, <2>9 DEF NInv
<1> QED
  BY <1>3, <1>4

\* When all is counted, as many clusters are left to read as the chain has.
LEMMA NamedCount == ASSUME IInv, NInv, CountCluster PROVE NInv'
<1>1. /\ pc = "count" /\ volume' = volume /\ rdir' = rdir /\ firstdatalba' = firstdatalba
      /\ call' = call /\ readptr' = readptr /\ fdir' = fdir /\ pc' \in {"count", "read"}
  BY DEF CountCluster, volVars
<1>2. Smooth' => Smooth
  BY DEF CountCluster, volVars, Smooth
<1>3. buf = [root |-> buf.root, num |-> buf.num, left |-> buf.left, data |-> buf.data, size |-> buf.size]
  BY DEF IInv, Typed, IsBuf
<1>4. buf'.root = buf.root /\ buf'.data = buf.data /\ buf'.size = buf.size
  BY <1>3 DEF CountCluster
<1>5. ASSUME Smooth' PROVE OnTheWay'
  <2>1. Smooth /\ OnTheWay
    BY <1>2, <1>5 DEF NInv
  <2>2. pc' = "read" => SoFar(volume, buf')
    BY <2>1, CountedAll
  <2>3. call.op = "fopen" => IsFopen(call) /\ Underway(call.then)
    BY <1>1, <2>1 DEF OnTheWay, InCall, Fopening
  <2>4. call'.op = "fopen" => Fopening'
    BY <1>1, <1>4, <2>3 DEF Fopening, Underway
  <2> QED
    BY <1>1, <1>4, <2>1, <2>2, <2>4 DEF OnTheWay
<1>6. rdir'.tail => HasTail(volume)'
  BY <1>1 DEF NInv
<1> QED
  BY <1>1, <1>5, <1>6, NotIdle

\* fat_getdata reads a cluster more; after the last one the buffer holds the chain.
LEMMA NamedRead == ASSUME IInv, NInv, ReadCluster PROVE NInv'
<1>1. /\ pc = "read" /\ volume' = volume /\ rdir' = rdir /\ firstdatalba' = firstdatalba
      /\ call' = call /\ readptr' = readptr /\ fdir' = fdir /\ dir' = dir
      /\ pc' = IF buf.left = 1 THEN call.then ELSE "read"
      /\ call.then \in {"scan", "open", "file"}
  BY DEF ReadCluster, volVars, IInv, Holding, Stage
<1>2. [Next]_vars
  BY DEF Next, GetdataStep
<1>3. ASSUME Smooth' PROVE OnTheWay'
  <2>1. Smooth /\ OnTheWay
    BY <1>2, <1>3, StaysSmooth DEF NInv
  <2>2. buf'.root = buf.root /\ IF buf.left = 1 THEN Whole(volume, buf') ELSE SoFar(volume, buf')
    BY <1>3, <2>1, ReadMore
  <2>3. call.op = "fopen" => IsFopen(call) /\ Underway(call.then)
    BY <1>1, <2>1 DEF OnTheWay, InCall, Fopening
  <2>4. call'.op = "fopen" => Fopening'
    <3> SUFFICES ASSUME call.op = "fopen" PROVE Fopening'
      BY <1>1
    <3>1. IsFopen(call)' /\ Underway(call.then)'
      BY <1>1, <2>2, <2>3 DEF Underway
    <3>2. CASE pc' = "scan"
      <4>1. Heading(volume, call, buf.root)' /\ call'.todo # <<>> /\ readptr' = 1
        BY <1>1, <3>1, <3>2 DEF Underway
      <4>2. TakesLong(SlotsOf(volume, buf.root), readptr)' /\ ~(readptr' > 1) /\ readptr' > 0
        BY <4>1 DEF TakesLong
      <4> QED
        BY <3>1, <3>2, <4>1, <4>2 DEF Fopening
    <3>3. CASE pc' \in {"read", "open", "file"}
      BY <1>1, <3>1, <3>3 DEF Fopening
    <3> QED
      BY <1>1, <3>2, <3>3
  <2> QED
    BY <1>1, <2>1, <2>2, <2>4 DEF OnTheWay
<1>4. rdir'.tail => HasTail(volume)'
  BY <1>1 DEF NInv
<1> QED
  BY <1>1, <1>3, <1>4, NotIdle

\* A call begins: the first directory is the root.
LEMMA NamedBegin ==
    ASSUME IInv, NInv, NEW path \in Paths, NEW slash \in BOOLEAN, Opendir(path) \/ Fopen(path, slash)
    PROVE  NInv'
<1> DEFINE op == IF Opendir(path) THEN "opendir" ELSE "fopen"
           names == IF Opendir(path) THEN path ELSE SubSeq(path, 1, Len(path) - 1)
           h == IF Opendir(path) THEN NoBlocks ELSE Strings(path, slash)
           then == IF names = <<>> THEN "open" ELSE "scan"
<1>1. pc = "idle" /\ BeginOpendir(op, path, names, h) /\ (op = "fopen" => path # <<>> /\ names = SubSeq(path, 1, Len(path) - 1))
  BY DEF Opendir, Fopen
<1> HIDE DEF op, names, h
<1>2. /\ call' = [op |-> op, path |-> path, todo |-> names, then |-> then]
      /\ buf' = [root |-> volume.root, num |-> volume.root, left |-> 1, data |-> <<>>, size |-> 0]
      /\ pc' = "count" /\ volume' = volume /\ rdir' = rdir /\ firstdatalba' = firstdatalba /\ readptr' = readptr
      /\ (Smooth' => Smooth)
  BY <1>1 DEF BeginOpendir, Getdata, volVars, Smooth
<1>3. /\ call'.op = op /\ call'.path = path /\ call'.todo = names /\ call'.then = then
      /\ buf'.root = volume.root /\ buf'.data = <<>> /\ buf'.size = 0
  BY <1>2
<1>4. ASSUME Smooth' PROVE OnTheWay'
  <2>1. Smooth /\ OnTheWay
    BY <1>2, <1>4 DEF NInv
  <2>2. ASSUME op = "fopen" PROVE Fopening'
    <3>1. path \in Seq(STRING \ {Garbled}) /\ path # <<>>
      BY <1>1, <2>2, Fat32Assumption
    <3>2. Len(path) \in Nat \ {0}
      BY <3>1
    <3>3. Heading(volume, call', volume.root)
      <4>1. 0 \in 0 .. Len(path) - 1 /\ volume.root \in Led(volume, path, 0)
        BY <3>2, LedSteps
      <4>2. names = SubSeq(path, 0 + 1, Len(path) - 1)
        BY <1>1, <2>2
      <4> QED
        BY <1>3, <4>1, <4>2 DEF Heading
    <3>4. IsFopen(call')
      BY <1>3, <3>1 DEF IsFopen
    <3>5. readptr' = 1
      BY <1>1, <1>2 DEF NInv
    <3>6. Underway(call.then)'
      BY <1>2, <1>3, <3>3, <3>5 DEF Underway
    <3> QED
      BY <1>2, <3>4, <3>6 DEF Fopening
  <2> QED
    BY <1>1, <1>2, <1>3, <2>1, <2>2 DEF OnTheWay
<1>5. rdir'.tail => HasTail(volume)'
  BY <1>2 DEF NInv
<1> QED
  BY <1>2, <1>4, <1>5, NotIdle

\* The names still to come are the rest of those of the directories.
LEMMA NamesToCome ==
    ASSUME NEW v, NEW c, IsFopen(c), NEW root, Heading(v, c, root)
    PROVE  /\ Len(c.path) \in Nat \ {0}
           /\ c.todo = <<>> => root \in Led(v, c.path, Len(c.path) - 1)
           /\ c.todo # <<>> =>
                 \E k \in 0 .. Len(c.path) - 2 :
                    /\ root \in Led(v, c.path, k)
                    /\ Len(c.todo) = Len(c.path) - 1 - k
                    /\ Head(c.todo) = c.path[k + 1] /\ Head(c.todo) # Garbled
                    /\ Tail(c.todo) = SubSeq(c.path, (k + 1) + 1, Len(c.path) - 1)
                    /\ Tail(c.todo) = <<>> <=> Len(c.todo) = 1
<1> DEFINE path == c.path
           n == Len(path)
<1>1. path \in Seq(STRING \ {Garbled}) /\ path # <<>>
  BY Fat32Assumption DEF IsFopen
<1>2. n \in Nat \ {0}
  BY <1>1
<1>3. PICK k \in 0 .. n - 1 : c.todo = SubSeq(path, k + 1, n - 1) /\ root \in Led(v, path, k)
  BY DEF Heading
<1> HIDE DEF path
<1>4. n - 1 <= n /\ k + 1 \in 1 .. n
  BY <1>2
<1>5. /\ c.todo \in Seq(STRING \ {Garbled}) /\ Len(c.todo) = n - 1 - k
      /\ \A i \in 1 .. n - 1 - k : c.todo[i] = path[k + i]
  <2>1. \A i \in 1 .. n : path[i] \in STRING \ {Garbled}
    BY <1>1
  <2>2. SubSeq(path, k + 1, n - 1) = [i \in 1 .. (n - 1) - (k + 1) + 1 |-> path[i + (k + 1) - 1]]
    OBVIOUS
  <2>3. (n - 1) - (k + 1) + 1 = n - 1 - k /\ n - 1 - k \in Nat
    BY <1>2
  <2> DEFINE m == n - 1 - k
  <2>4. c.todo = [i \in 1 .. m |-> path[i + (k + 1) - 1]]
    BY <1>3, <2>2, <2>3
  <2>5. \A i \in 1 .. m : i + (k + 1) - 1 = k + i /\ k + i \in 1 .. n
    BY <1>2
  <2>6. \A i \in 1 .. m : path[k + i] \in STRING \ {Garbled}
    BY <2>1, <2>5
  <2> HIDE DEF n
  <2>7. \A i \in 1 .. m : c.todo[i] = path[k + i]
    BY <2>4, <2>5
  <2>8. c.todo \in [1 .. m -> STRING \ {Garbled}]
    BY <2>4, <2>5, <2>6
  <2> HIDE DEF m
  <2>9. m \in Nat
    BY <2>3 DEF m
  <2>10. c.todo \in Seq(STRING \ {Garbled}) /\ Len(c.todo) = m
    BY <2>8, <2>9
  <2> QED
    BY <2>7, <2>10 DEF m
<1>6. ASSUME c.todo = <<>> PROVE root \in Led(v, path, n - 1)
  <2>1. n - 1 - k = 0
    BY <1>5, <1>6
  <2>2. k = n - 1
    BY <1>2, <2>1
  <2> QED
    BY <1>3, <2>2
<1>7. ASSUME c.todo # <<>>
      PROVE  /\ k \in 0 .. n - 2
             /\ Head(c.todo) = path[k + 1] /\ Head(c.todo) # Garbled
             /\ Tail(c.todo) = SubSeq(path, (k + 1) + 1, n - 1)
             /\ Tail(c.todo) = <<>> <=> Len(c.todo) = 1
  <2>1. Len(c.todo) # 0 /\ Len(c.todo) \in Nat
    BY <1>5, <1>7
  <2>2. k \in 0 .. n - 2 /\ 1 \in 1 .. n - 1 - k
    BY <1>2, <1>5, <2>1
  <2>3. Head(c.todo) = c.todo[1] /\ c.todo[1] \in STRING \ {Garbled}
    BY <1>5, <1>7, <2>1
  <2>4. Head(c.todo) = path[k + 1] /\ Head(c.todo) # Garbled
    BY <1>5, <2>2, <2>3
  <2>5. Tail(c.todo) = SubSeq(path, (k + 1) + 1, n - 1)
    <3> DEFINE m == n - 1 - k
               t == Tail(c.todo)
               u == SubSeq(path, (k + 1) + 1, n - 1)
    <3>1. t = [i \in 1 .. m - 1 |-> c.todo[i + 1]]
      BY <1>5, <1>7
    <3>2. u = [i \in 1 .. (n - 1) - ((k + 1) + 1) + 1 |-> path[i + ((k + 1) + 1) - 1]]
      OBVIOUS
    <3>3. (n - 1) - ((k + 1) + 1) + 1 = m - 1
      BY <1>2
    <3>4. ASSUME NEW i \in 1 .. m - 1 PROVE c.todo[i + 1] = path[i + ((k + 1) + 1) - 1]
      <4>1. i + 1 \in 1 .. m /\ k + (i + 1) = i + ((k + 1) + 1) - 1
        BY <1>2
      <4>2. c.todo[i + 1] = path[k + (i + 1)]
        BY <1>5, <4>1
      <4> QED
        BY <4>1, <4>2
    <3> HIDE DEF n, m, t, u
    <3>5. t = u
      BY <3>1, <3>2, <3>3, <3>4
    <3> QED
      BY <3>5 DEF t, u, n
  <2>6. Tail(c.todo) = <<>> <=> Len(c.todo) = 1
    <3> DEFINE t == Tail(c.todo)
    <3>1. t \in Seq(STRING \ {Garbled}) /\ Len(t) = Len(c.todo) - 1
      BY <1>5, <1>7
    <3> HIDE DEF t
    <3>2. t = <<>> <=> Len(t) = 0
      <4>1. ASSUME NEW S, NEW u \in Seq(S) PROVE u = <<>> <=> Len(u) = 0
        OBVIOUS
      <4> QED
        BY <3>1, <4>1
    <3>3. t = <<>> <=> Len(c.todo) = 1
      BY <2>1, <3>1, <3>2
    <3> QED
      BY <3>3 DEF t
  <2> QED
    BY <2>2, <2>4, <2>5, <2>6
<1> QED
  BY <1>2, <1>3, <1>5, <1>6, <1>7 DEF path

\* A slot on the way at which fat_opendir looks: what it decodes, and that a dirent
\* that matches was decoded there and is that of the directory looked for.
LEMMA ScanHere ==
    ASSUME IInv, Smooth, OnTheWay, pc = "scan", call.op = "fopen", ~LooksAstray(buf, readptr),
           NEW k \in 0 .. Len(call.path) - 2, buf.root \in Led(volume, call.path, k),
           Head(call.todo) = call.path[k + 1], Head(call.todo) # Garbled, readptr \in Nat \ {0}
    PROVE  LET slots == SlotsOf(volume, buf.root)
               e == EntryAt(buf, readptr)
           IN /\ TakesLong(slots, readptr + Step(Here.next))
              /\ Matches =>
                    /\ e \in DOMAIN slots /\ Slot(buf, e) = slots[e] /\ IsSlot(slots[e])
                    /\ Entitled(slots, e, Head(call.todo)) /\ slots[e].attr = "dir"
                    /\ Cluster(slots[e]) \in Led(volume, call.path, k + 1)
                    /\ k < Len(call.path) - 2 =>
                          Slot(buf, readptr).low = Cluster(slots[e])
<1> DEFINE slots == SlotsOf(volume, buf.root)
           e == EntryAt(buf, readptr)
           r == readptr
           name == Head(call.todo)
           d == fat_getdirent(buf, r, dir)
           n == Len(call.path)
<1>1. /\ volume \in Volumes /\ IsPlain(volume) /\ Whole(volume, buf) /\ dir.tail \in BOOLEAN
      /\ TakesLong(slots, r) /\ IsFopen(call) /\ (r > 1 => IsOther(dir, name))
  BY DEF IInv, Typed, Smooth, OnTheWay, Fopening, InCall
<1>2. n \in Nat
  BY <1>1, Fat32Assumption DEF IsFopen
<1>3. /\ r \in DOMAIN slots /\ e \in DOMAIN slots /\ e \in Nat \ {0}
      /\ Slot(buf, r) = slots[r] /\ Slot(buf, e) = slots[e] /\ IsSlot(slots[e])
      /\ e = IF slots[r].attr = "lfn" THEN r + 1 ELSE r
      /\ TakesLong(slots, r + Step(d.next))
      /\ d.next = -1 <=> slots[e].attr \notin {"dir", "file"}
      /\ d.next = -1 => d.out = dir
      /\ d.next # -1 =>
            /\ d.out.d_type = slots[e].attr /\ (HasLongName(slots, e) <=> e = r + 1)
            /\ d.out.d_name = Decoded(slots, e, dir.tail)
  BY <1>1, Decodes
<1>4. /\ AllEntriesBefore(slots, 2)
      /\ k + 1 < n - 1 => \A j \in DOMAIN slots :
            Entitled(slots, j, name) => ~HasLongName(slots, j) /\ slots[j].high = 0
  <2>1. k + 1 \in 1 .. n - 1 /\ (k + 1) - 1 = k /\ call.path \in Paths
    BY <1>1, <1>2 DEF IsFopen
  <2> QED
    BY <1>1, <2>1 DEF IsPlain
<1>5. Here = d
  BY DEF Here
<1> HIDE DEF slots, e, d, n, name
<1>6. ASSUME Matches
      PROVE  /\ Entitled(slots, e, name) /\ slots[e].attr = "dir"
             /\ Cluster(slots[e]) \in Led(volume, call.path, k + 1)
             /\ k < n - 2 => Slot(buf, r).low = Cluster(slots[e])
  <2>1. d.out.d_type = "dir" /\ d.out.d_name = name
    BY <1>5, <1>6 DEF Matches, name
  <2>2. d.next # -1
    <3>1. CASE r > 1
      BY <1>1, <1>3, <2>1, <3>1 DEF IsOther
    <3>2. CASE ~(r > 1)
      <4>1. r = 1 /\ 1 \in 1 .. 2 - 1
        BY <3>2
      <4>2. slots[1].attr \in {"dir", "file"} \/ (slots[1].attr = "lfn" /\ slots[1 + 1].attr \in {"dir", "file"})
        BY <1>4, <4>1 DEF AllEntriesBefore
      <4>3. slots[e].attr \in {"dir", "file"}
        BY <1>3, <4>1, <4>2
      <4> QED
        BY <1>3, <4>3
    <3> QED
      BY <3>1, <3>2
  <2>3. Entitled(slots, e, name) /\ slots[e].attr = "dir"
    <3>1. slots[e].attr = "dir" /\ Decoded(slots, e, dir.tail) = name /\ name # Garbled
      BY <1>3, <2>1, <2>2 DEF name
    <3> QED
      BY <3>1 DEF Decoded, Entitled
  <2>4. Cluster(slots[e]) \in Led(volume, call.path, k + 1)
    <3>1. k \in Nat
      BY <1>2 DEF n
    <3>2. \A j \in Nat : Led(volume, call.path, j + 1) = Onward(volume, Led(volume, call.path, j), call.path[j + 1])
      BY LedSteps
    <3>3. Led(volume, call.path, k + 1) = Onward(volume, Led(volume, call.path, k), call.path[k + 1])
      BY <3>1, <3>2
    <3>4. Cluster(slots[e]) \in {Cluster(slots[i]) : i \in {j \in DOMAIN slots : Entitled(slots, j, name) /\ slots[j].attr = "dir"}}
      BY <1>3, <2>3
    <3>5. Cluster(slots[e]) \in Onward(volume, Led(volume, call.path, k), name)
      BY <3>4 DEF Onward, slots
    <3> QED
      BY <3>3, <3>5 DEF name
  <2>5. ASSUME k < n - 2 PROVE Slot(buf, r).low = Cluster(slots[e])
    <3>1. ~HasLongName(slots, e) /\ slots[e].high = 0
      BY <1>2, <1>3, <1>4, <2>3, <2>5
    <3>2. e = r
      BY <1>3, <2>2, <3>1
    <3>3. Half \in Nat /\ slots[e].low \in Nat
      <4>1. Half \in Nat \ {0}
        BY <1>1, OfVolume
      <4> QED
        BY <1>3, <4>1 DEF IsSlot
    <3>4. Cluster(slots[e]) = slots[e].low
      BY <3>1, <3>3 DEF Cluster
    <3> QED
      BY <1>3, <3>2, <3>4
  <2> QED
    BY <2>3, <2>4, <2>5
<1> QED
  BY <1>3, <1>5, <1>6 DEF slots, e, d, n, name

\* The loop of fat_opendir moves on by an entry that is another.
LEMMA NamedScanNext == ASSUME IInv, NInv, ScanNext PROVE NInv'
<1>1. /\ pc = "scan" /\ pc' = "scan" /\ ~LooksAstray(buf, readptr) /\ ~Matches
      /\ dir' = Here.out /\ readptr' = readptr + Step(Here.next)
      /\ volume' = volume /\ firstdatalba' = firstdatalba /\ rdir' = rdir /\ buf' = buf /\ call' = call
      /\ (Smooth' => Smooth)
  BY DEF ScanNext, InData, volVars, Smooth
<1>2. ASSUME Smooth' PROVE OnTheWay'
  <2>1. Smooth /\ OnTheWay
    BY <1>1, <1>2 DEF NInv
  <2>2. ASSUME call.op = "fopen" PROVE Fopening'
    <3>1. /\ IsFopen(call) /\ Heading(volume, call, buf.root) /\ call.todo # <<>> /\ readptr \in Nat \ {0}
      BY <1>1, <2>1, <2>2 DEF OnTheWay, InCall, Fopening, IInv, Typed
    <3>2. PICK k \in 0 .. Len(call.path) - 2 :
             buf.root \in Led(volume, call.path, k) /\ Head(call.todo) = call.path[k + 1] /\ Head(call.todo) # Garbled
      BY <3>1, NamesToCome
    <3>3. TakesLong(SlotsOf(volume, buf.root), readptr + Step(Here.next))
      BY <1>1, <2>1, <2>2, <3>1, <3>2, ScanHere
    <3>4. readptr' > 0
      <4>1. dir.tail \in BOOLEAN
        BY DEF IInv, Typed
      <4>2. Step(Here.next) \in {1, 2}
        BY <4>1, DirentTyped DEF Here
      <4> QED
        BY <1>1, <3>1, <4>2
    <3>5. IsOther(dir', Head(call.todo))
      BY <1>1 DEF IsOther, Matches
    <3> QED
      BY <1>1, <3>1, <3>3, <3>4, <3>5 DEF Fopening
  <2> QED
    BY <1>1, <2>1, <2>2 DEF OnTheWay
<1>3. rdir'.tail => HasTail(volume)'
  BY <1>1 DEF NInv
<1> QED
  BY <1>1, <1>2, <1>3, NotIdle

\* fat_opendir goes on in the directory it has found, by the low half of its cluster.
LEMMA NamedScanInto == ASSUME IInv, NInv, ScanInto PROVE NInv'
<1> DEFINE root == Slot(buf, readptr).low
<1>1. /\ pc = "scan" /\ pc' = "count" /\ ~LooksAstray(buf, readptr) /\ Matches /\ Len(call.todo) > 1
      /\ call' = [call EXCEPT !.todo = Tail(call.todo)] /\ readptr' = 1
      /\ buf' = [root |-> root, num |-> root, left |-> 1, data |-> <<>>, size |-> 0]
      /\ volume' = volume /\ firstdatalba' = firstdatalba /\ rdir' = rdir /\ (Smooth' => Smooth)
  BY DEF ScanInto, InData, Getdata, volVars, Smooth
<1>2. /\ call = [op |-> call.op, path |-> call.path, todo |-> call.todo, then |-> call.then] /\ call.then = "scan"
  BY <1>1 DEF IInv, Typed, Holding
<1>3. /\ call'.op = call.op /\ call'.path = call.path /\ call'.todo = Tail(call.todo) /\ call'.then = "scan"
      /\ buf'.root = root /\ buf'.data = <<>> /\ buf'.size = 0
  BY <1>1, <1>2
<1>4. ASSUME Smooth' PROVE OnTheWay'
  <2>1. Smooth /\ OnTheWay
    BY <1>1, <1>4 DEF NInv
  <2>2. ASSUME call.op = "fopen" PROVE Fopening'
    <3>1. /\ IsFopen(call) /\ Heading(volume, call, buf.root) /\ call.todo # <<>> /\ readptr \in Nat \ {0}
      BY <1>1, <2>1, <2>2 DEF OnTheWay, InCall, Fopening, IInv, Typed
    <3>2. PICK k \in 0 .. Len(call.path) - 2 :
             /\ buf.root \in Led(volume, call.path, k)
             /\ Len(call.todo) = Len(call.path) - 1 - k
             /\ Head(call.todo) = call.path[k + 1] /\ Head(call.todo) # Garbled
             /\ Tail(call.todo) = SubSeq(call.path, (k + 1) + 1, Len(call.path) - 1)
             /\ Tail(call.todo) = <<>> <=> Len(call.todo) = 1
      BY <3>1, NamesToCome
    <3>3. Len(call.path) \in Nat
      BY <3>1, NamesToCome
    <3>4. k < Len(call.path) - 2 /\ k + 1 \in 0 .. Len(call.path) - 1 /\ Tail(call.todo) # <<>>
      <4> DEFINE n == Len(call.path)
                 m == Len(call.todo)
      <4>1. n \in Nat /\ k \in 0 .. n - 2 /\ m = n - 1 - k /\ m > 1
        BY <1>1, <3>2, <3>3
      <4> HIDE DEF n, m
      <4>2. k < n - 2 /\ k + 1 \in 0 .. n - 1 /\ m # 1
        BY <4>1
      <4> QED
        BY <3>2, <4>2 DEF n, m
    <3>5. root \in Led(volume, call.path, k + 1)
      BY <1>1, <2>1, <2>2, <3>1, <3>2, <3>4, ScanHere
    <3>6. Heading(volume, call', buf'.root)
      BY <1>3, <3>2, <3>4, <3>5 DEF Heading
    <3>7. Underway(call.then)'
      BY <1>1, <1>3, <3>4, <3>6 DEF Underway
    <3> QED
      BY <1>1, <1>3, <3>1, <3>7 DEF Fopening, IsFopen
  <2> QED
    BY <1>1, <1>3, <2>1, <2>2 DEF OnTheWay
<1>5. rdir'.tail => HasTail(volume)'
  BY <1>1 DEF NInv
<1> QED
  BY <1>1, <1>4, <1>5, NotIdle

\* fat_opendir has found the last directory.
LEMMA NamedScanLast == ASSUME IInv, NInv, ScanLast PROVE NInv'
<1> DEFINE root == Cluster(Slot(buf, EntryAt(buf, readptr)))
<1>1. /\ pc = "scan" /\ pc' = "count" /\ ~LooksAstray(buf, readptr) /\ Matches /\ Len(call.todo) = 1
      /\ call' = [call EXCEPT !.todo = <<>>, !.then = "open"]
      /\ buf' = [root |-> root, num |-> root, left |-> 1, data |-> <<>>, size |-> 0]
      /\ volume' = volume /\ firstdatalba' = firstdatalba /\ rdir' = rdir /\ (Smooth' => Smooth)
  BY DEF ScanLast, InData, Getdata, volVars, Smooth
<1>2. call = [op |-> call.op, path |-> call.path, todo |-> call.todo, then |-> call.then]
  BY DEF IInv, Typed
<1>3. /\ call'.op = call.op /\ call'.path = call.path /\ call'.todo = <<>> /\ call'.then = "open"
      /\ buf'.root = root /\ buf'.data = <<>> /\ buf'.size = 0
  BY <1>1, <1>2
<1>4. ASSUME Smooth' PROVE OnTheWay'
  <2>1. Smooth /\ OnTheWay
    BY <1>1, <1>4 DEF NInv
  <2>2. ASSUME call.op = "fopen" PROVE Fopening'
    <3>1. /\ IsFopen(call) /\ Heading(volume, call, buf.root) /\ call.todo # <<>> /\ readptr \in Nat \ {0}
      BY <1>1, <2>1, <2>2 DEF OnTheWay, InCall, Fopening, IInv, Typed
    <3>2. PICK k \in 0 .. Len(call.path) - 2 :
             /\ buf.root \in Led(volume, call.path, k)
             /\ Len(call.todo) = Len(call.path) - 1 - k
             /\ Head(call.todo) = call.path[k + 1] /\ Head(call.todo) # Garbled
             /\ Tail(call.todo) = SubSeq(call.path, (k + 1) + 1, Len(call.path) - 1)
             /\ Tail(call.todo) = <<>> <=> Len(call.todo) = 1
      BY <3>1, NamesToCome
    <3>3. Len(call.path) \in Nat
      BY <3>1, NamesToCome
    <3>4. k + 1 \in 0 .. Len(call.path) - 1
      BY <3>2, <3>3
    <3>5. <<>> = SubSeq(call.path, (k + 1) + 1, Len(call.path) - 1)
      <4>1. Tail(call.todo) = <<>>
        BY <1>1, <3>2
      <4> QED
        BY <3>2, <4>1
    <3>6. root \in Led(volume, call.path, k + 1)
      BY <1>1, <2>1, <2>2, <3>1, <3>2, ScanHere
    <3>7. Heading(volume, call', buf'.root)
      BY <1>3, <3>4, <3>5, <3>6 DEF Heading
    <3>8. Underway(call.then)'
      BY <1>1, <1>3, <3>7 DEF Underway
    <3> QED
      BY <1>1, <1>3, <3>1, <3>8 DEF Fopening, IsFopen
  <2> QED
    BY <1>1, <1>3, <2>1, <2>2 DEF OnTheWay
<1>5. rdir'.tail => HasTail(volume)'
  BY <1>1 DEF NInv
<1> QED
  BY <1>1, <1>4, <1>5, NotIdle

\* fat_opendir has read the directory: fat_fopen begins to look for the file in it.
LEMMA NamedOpenDone == ASSUME IInv, NInv, OpenDone PROVE NInv'
<1>1. /\ pc = "open" /\ volume \in Volumes /\ volume' = volume /\ firstdatalba' = firstdatalba /\ rdir' = rdir
      /\ call.op \in {"opendir", "fopen"} /\ (Smooth' => Smooth)
      /\ (rdir.tail => HasTail(volume))
  BY DEF OpenDone, Return, volVars, Smooth, IInv, Typed, Holding, Stage, NInv
<1>2. CASE call.op = "opendir"
  <2>1. pc' = "idle" /\ ret'.op = "opendir" /\ readptr' = 1
    BY <1>2 DEF OpenDone, Return, Forget
  <2>2. Smooth' => OnTheWay'
    BY <1>1, <2>1 DEF NInv, OnTheWay, InCall
  <2> QED
    BY <1>1, <2>1, <2>2 DEF NInv, FileIsTheNamed, FopenFinds
<1>3. CASE call.op = "fopen"
  <2>1. pc' = "search" /\ fdir' = [buf |-> buf, readptr |-> 1] /\ call' = call
    BY <1>3 DEF OpenDone
  <2>2. fdir'.buf = buf /\ fdir'.readptr = 1
    BY <2>1
  <2>3. ASSUME Smooth' PROVE OnTheWay'
    <3>1. Smooth /\ OnTheWay
      BY <1>1, <2>3 DEF NInv
    <3>2. /\ IsFopen(call) /\ Heading(volume, call, buf.root) /\ call.todo = <<>>
          /\ IsPlain(volume) /\ Whole(volume, buf)
      BY <1>1, <1>3, <3>1 DEF Smooth, OnTheWay, InCall, Fopening, Underway
    <3>3. Searching(volume, call.path, fdir')
      BY <2>2, <3>2, NamesToCome DEF Searching
    <3>4. SearchesOn(volume, call.path, fdir')
      <4> DEFINE slots == SlotsOf(volume, buf.root)
      <4>1. EndOfData(buf) \in Nat /\ DOMAIN slots = 1 .. EndOfData(buf)
        BY <1>1, <3>2, SlotsAre
      <4>2. \A i \in DOMAIN slots : ~(i < 1)
        BY <4>1
      <4>3. TakesLong(slots, 1)
        BY DEF TakesLong
      <4> HIDE DEF slots
      <4>4. \A i \in FilesAt(volume, buf.root, FileOf(call.path)) : ~(i < 1)
        BY <4>2 DEF FilesAt, slots
      <4> QED
        BY <2>2, <4>3, <4>4 DEF SearchesOn, slots
    <3> QED
      BY <1>1, <2>1, <3>1, <3>2, <3>3, <3>4 DEF OnTheWay, Fopening
  <2>4. rdir'.tail => HasTail(volume)'
    BY <1>1
  <2> QED
    BY <2>1, <2>3, <2>4, NotIdle
<1> QED
  BY <1>1, <1>2, <1>3

\* A path of no names names no file.
LEMMA NamedFopenNoName == ASSUME NInv, FopenNoName PROVE NInv'
<1>1. /\ pc = "idle" /\ pc' = "idle" /\ volume' = volume /\ firstdatalba' = firstdatalba /\ rdir' = rdir
      /\ readptr' = readptr /\ ret'.then = "NULL" /\ ret'.path = <<>> /\ (Smooth' => Smooth)
  BY DEF FopenNoName, volVars, locals, Smooth
<1>2. Smooth' => OnTheWay'
  BY <1>1 DEF NInv, OnTheWay, InCall
<1>3. Len(ret'.path) # 1
  BY <1>1
<1> QED
  BY <1>1, <1>2, <1>3 DEF NInv, FileIsTheNamed, FopenFinds

\* What fat_readdir lists next in the directory fat_fopen looks through.
LEMMA ListsHere ==
    ASSUME IInv, Smooth, OnTheWay, pc = "search", ~LooksAstray(fdir.buf, fdir.readptr)
    PROVE  LET slots == SlotsOf(volume, fdir.buf.root)
               r == fdir.readptr
               e == EntryAt(fdir.buf, r)
               name == FileOf(call.path)
           IN /\ IsFopen(call) /\ name # Garbled /\ r \in Nat \ {0} /\ e \in Nat \ {0}
              /\ Searching(volume, call.path, fdir) /\ SearchesOn(volume, call.path, fdir)
              /\ e \in DOMAIN slots /\ Slot(fdir.buf, e) = slots[e]
              /\ e = IF slots[r].attr = "lfn" THEN r + 1 ELSE r
              /\ Listed.dir.buf = fdir.buf /\ TakesLong(slots, Listed.dir.readptr)
              /\ ~Listed.found => slots[e].attr \notin {"dir", "file"}
              /\ Listed.found =>
                    /\ Listed.dir.readptr = e + 1 /\ Listed.rdir.d_type = slots[e].attr
                    /\ Listed.rdir.d_name = name => Entitled(slots, e, name)
                    /\ Entitled(slots, e, name) /\ Listed.rdir.d_name # name =>
                          ~HasLongName(slots, e) /\ rdir.tail = TRUE
<1> DEFINE b == fdir.buf
           r == fdir.readptr
           slots == SlotsOf(volume, b.root)
           e == EntryAt(b, r)
           name == FileOf(call.path)
           g == fat_getdirent(b, r, rdir)
<1>1. call.op = "fopen"
  BY DEF IInv, Holding
<1>2. /\ volume \in Volumes /\ IsPlain(volume) /\ rdir.tail \in BOOLEAN /\ IsDir(volume, fdir)
      /\ IsFopen(call) /\ Searching(volume, call.path, fdir) /\ SearchesOn(volume, call.path, fdir)
  BY <1>1 DEF IInv, Typed, Smooth, OnTheWay, InCall, Fopening
<1>3. Whole(volume, b) /\ TakesLong(slots, r) /\ r \in Nat \ {0}
  BY <1>2 DEF Searching, SearchesOn, IsDir
<1>4. name # Garbled
  <2>1. call.path \in Seq(STRING \ {Garbled}) /\ call.path # <<>>
    BY <1>2, Fat32Assumption DEF IsFopen
  <2>2. Len(call.path) \in 1 .. Len(call.path)
    BY <2>1
  <2> QED
    BY <2>1, <2>2 DEF FileOf
<1>5. /\ e \in DOMAIN slots /\ e \in Nat \ {0} /\ Slot(b, e) = slots[e]
      /\ e = IF slots[r].attr = "lfn" THEN r + 1 ELSE r
      /\ TakesLong(slots, r + Step(g.next))
      /\ g.next = -1 <=> slots[e].attr \notin {"dir", "file"}
      /\ g.next # -1 =>
            /\ r + Step(g.next) = e + 1 /\ g.out.d_type = slots[e].attr
            /\ g.out.d_name = Decoded(slots, e, rdir.tail)
  <2>1. volume \in Volumes /\ IsPlain(volume) /\ rdir.tail \in BOOLEAN /\ ~LooksAstray(b, r)
    BY <1>2
  <2> HIDE DEF b, r
  <2> QED
    BY <1>3, <2>1, Decodes
<1>6. fdir = [buf |-> b, readptr |-> r]
  BY <1>2 DEF IsDir
<1> HIDE DEF b, r, g
<1>7. Listed.dir = [fdir EXCEPT !.readptr = @ + Step(g.next)] /\ Listed.rdir = g.out /\ Listed.found = (g.next # -1)
  BY DEF Listed, fat_readdir, g, b, r
<1>8. Listed.dir.buf = b /\ Listed.dir.readptr = r + Step(g.next)
  BY <1>6, <1>7
<1> HIDE DEF e, slots, name
<1>9. ASSUME Listed.found
      PROVE  /\ Listed.dir.readptr = e + 1 /\ Listed.rdir.d_type = slots[e].attr
             /\ Listed.rdir.d_name = name => Entitled(slots, e, name)
             /\ Entitled(slots, e, name) /\ Listed.rdir.d_name # name => ~HasLongName(slots, e) /\ rdir.tail = TRUE
  <2>1. /\ Listed.dir.readptr = e + 1 /\ Listed.rdir.d_type = slots[e].attr
        /\ Listed.rdir.d_name = Decoded(slots, e, rdir.tail) /\ slots[e].attr \in {"dir", "file"}
    BY <1>5, <1>7, <1>8, <1>9
  <2> QED
    BY <1>2, <1>4, <2>1 DEF Decoded, Entitled
<1>10. TakesLong(slots, Listed.dir.readptr) /\ (~Listed.found => slots[e].attr \notin {"dir", "file"})
  BY <1>5, <1>7, <1>8
<1> QED
  BY <1>2, <1>3, <1>4, <1>5, <1>8, <1>9, <1>10 DEF b, r, e, slots, name

\* fat_fopen passes an entry that is not the file, or hides behind a long name.
LEMMA NamedSearchNext == ASSUME IInv, NInv, SearchNext PROVE NInv'
<1>1. /\ pc = "search" /\ pc' = "search" /\ ~LooksAstray(fdir.buf, fdir.readptr) /\ Listed.found
      /\ ~IsWanted(Listed.rdir) /\ fdir' = Listed.dir /\ rdir' = Listed.rdir
      /\ volume' = volume /\ firstdatalba' = firstdatalba /\ call' = call /\ (Smooth' => Smooth)
  BY DEF SearchNext, volVars, Smooth
<1>2. volume \in Volumes /\ IsDir(volume, fdir) /\ (rdir.tail => HasTail(volume)) /\ call.op = "fopen"
  BY <1>1 DEF IInv, Typed, Holding, NInv
<1>3. rdir'.tail => HasTail(volume)'
  BY <1>1, <1>2, TailIsOnCard DEF Listed
<1>4. ASSUME Smooth' PROVE OnTheWay'
  <2> DEFINE slots == SlotsOf(volume, fdir.buf.root)
             r == fdir.readptr
             e == EntryAt(fdir.buf, r)
             name == FileOf(call.path)
  <2>1. Smooth /\ OnTheWay
    BY <1>1, <1>4 DEF NInv
  <2>2. /\ IsFopen(call) /\ r \in Nat \ {0} /\ e \in Nat \ {0}
        /\ Searching(volume, call.path, fdir) /\ SearchesOn(volume, call.path, fdir)
        /\ e = IF slots[r].attr = "lfn" THEN r + 1 ELSE r
        /\ Listed.dir.buf = fdir.buf /\ TakesLong(slots, Listed.dir.readptr)
        /\ Listed.dir.readptr = e + 1 /\ Listed.rdir.d_type = slots[e].attr
        /\ Entitled(slots, e, name) /\ Listed.rdir.d_name # name => ~HasLongName(slots, e) /\ rdir.tail = TRUE
    BY <1>1, <2>1, ListsHere
  <2>3. ASSUME NEW i \in FilesAt(volume, fdir.buf.root, name), i < e + 1
        PROVE  ~HasLongName(slots, i) /\ HasTail(volume)
    <3>1. i \in DOMAIN slots /\ Entitled(slots, i, name) /\ slots[i].attr = "file"
      BY DEF FilesAt
    <3>2. i \in Nat
      <4>1. Whole(volume, fdir.buf) /\ IsPlain(volume)
        BY <2>1, <2>2 DEF Searching, Smooth
      <4>2. EndOfData(fdir.buf) \in Nat /\ DOMAIN slots = 1 .. EndOfData(fdir.buf)
        BY <1>2, <4>1, SlotsAre
      <4> QED
        BY <3>1, <4>2
    <3>3. CASE i < r
      BY <2>2, <3>3 DEF SearchesOn
    <3>4. CASE i = e
      <4>1. Listed.rdir.d_type = "file" /\ name = FileName
        BY <2>2, <3>1, <3>4 DEF FileOf, FileName
      <4>2. Listed.rdir.d_name # name
        BY <1>1, <4>1 DEF IsWanted
      <4> QED
        BY <1>2, <2>2, <3>1, <3>4, <4>2
    <3>5. CASE i = r /\ e = r + 1
      BY <2>2, <3>1, <3>5
    <3> QED
      BY <2>2, <2>3, <3>2, <3>3, <3>4, <3>5
  <2>4. SearchesOn(volume, call.path, fdir')
    BY <1>1, <2>2, <2>3 DEF SearchesOn
  <2>5. Searching(volume, call.path, fdir')
    BY <1>1, <2>2 DEF Searching
  <2> QED
    BY <1>1, <2>1, <2>2, <2>4, <2>5 DEF OnTheWay, Fopening
<1> QED
  BY <1>1, <1>3, <1>4, NotIdle

\* fat_fopen has found an entry that has the name of the file, and reads its chain.
LEMMA NamedSearchHit == ASSUME IInv, NInv, SearchHit PROVE NInv'
<1> DEFINE root == Cluster(Filedirent(fdir'))
<1>1. /\ pc = "search" /\ pc' = "count" /\ ~LooksAstray(fdir.buf, fdir.readptr) /\ Listed.found
      /\ IsWanted(Listed.rdir) /\ fdir' = Listed.dir /\ rdir' = Listed.rdir
      /\ call' = [call EXCEPT !.then = "file"]
      /\ buf' = [root |-> root, num |-> root, left |-> 1, data |-> <<>>, size |-> 0]
      /\ volume' = volume /\ firstdatalba' = firstdatalba /\ (Smooth' => Smooth)
  BY DEF SearchHit, Getdata, volVars, Smooth
<1>2. /\ volume \in Volumes /\ IsDir(volume, fdir) /\ (rdir.tail => HasTail(volume)) /\ call.op = "fopen"
      /\ call = [op |-> call.op, path |-> call.path, todo |-> call.todo, then |-> call.then]
  BY <1>1 DEF IInv, Typed, Holding, NInv
<1>3. /\ call'.op = call.op /\ call'.path = call.path /\ call'.then = "file"
      /\ buf'.root = root /\ buf'.data = <<>> /\ buf'.size = 0
  BY <1>1, <1>2
<1>4. rdir'.tail => HasTail(volume)'
  BY <1>1, <1>2, TailIsOnCard DEF Listed
<1>5. ASSUME Smooth' PROVE OnTheWay'
  <2> DEFINE slots == SlotsOf(volume, fdir.buf.root)
             r == fdir.readptr
             e == EntryAt(fdir.buf, r)
             name == FileOf(call.path)
  <2>1. Smooth /\ OnTheWay
    BY <1>1, <1>5 DEF NInv
  <2>2. /\ IsFopen(call) /\ e \in Nat \ {0} /\ e \in DOMAIN slots /\ Slot(fdir.buf, e) = slots[e]
        /\ Searching(volume, call.path, fdir) /\ Listed.dir.buf = fdir.buf
        /\ Listed.dir.readptr = e + 1 /\ Listed.rdir.d_type = slots[e].attr
        /\ Listed.rdir.d_name = name => Entitled(slots, e, name)
    BY <1>1, <2>1, ListsHere
  <2>3. Entitled(slots, e, name) /\ slots[e].attr = "file"
    BY <1>1, <2>2 DEF IsWanted, FileName, FileOf
  <2>4. fdir'.buf = fdir.buf /\ fdir'.readptr - 1 = e
    BY <1>1, <2>2
  <2>5. e \in FilesAt(volume, fdir.buf.root, name)
    BY <2>2, <2>3 DEF FilesAt
  <2>6. root = Cluster(slots[e])
    BY <2>2, <2>4 DEF Filedirent
  <2>7. Found(volume, call.path, fdir', root)
    BY <2>4, <2>5, <2>6 DEF Found
  <2>8. Searching(volume, call.path, fdir')
    BY <2>2, <2>4 DEF Searching
  <2> HIDE DEF root
  <2>9. Underway(call.then)'
    BY <1>1, <1>3, <2>7, <2>8 DEF Underway
  <2> QED
    BY <1>1, <1>3, <2>1, <2>2, <2>9 DEF OnTheWay, Fopening, IsFopen
<1> QED
  BY <1>1, <1>4, <1>5, NotIdle

\* fat_fopen returns NULL because it found no way to the directory.
LEMMA NamedScanEnd == ASSUME IInv, NInv, ScanEnd PROVE NInv'
<1>1. /\ pc = "scan" /\ pc' = "idle" /\ readptr' = 1 /\ ret'.op = call.op /\ ret'.path = call.path /\ ret'.then = "NULL"
      /\ volume' = volume /\ firstdatalba' = firstdatalba /\ rdir' = rdir
      /\ (~stated' => ~stated) /\ (lost' = 0 => lost = 0) /\ (Smooth' => Smooth)
  BY DEF ScanEnd, ReturnNull, Return, Forget, volVars, Smooth
<1>2. Smooth' => OnTheWay'
  BY <1>1 DEF NInv, OnTheWay, InCall
<1>3. FopenFinds'
  <2> SUFFICES ASSUME call.op = "fopen", Len(call.path) = 1, ~stated, lost = 0, IsPlain(volume) PROVE FALSE
    BY <1>1 DEF FopenFinds
  <2>1. Smooth /\ OnTheWay
    BY DEF NInv, Smooth
  <2>2. IsFopen(call) /\ Heading(volume, call, buf.root) /\ call.todo # <<>>
    BY <1>1, <2>1 DEF OnTheWay, InCall, Fopening
  <2>3. \E k \in 0 .. Len(call.path) - 2 : TRUE
    BY <2>2, NamesToCome
  <2> QED
    BY <2>3
<1> QED
  BY <1>1, <1>2, <1>3 DEF NInv, FileIsTheNamed

\* fat_fopen returns NULL because the search in the directory came to an end.
LEMMA NamedSearchEnd == ASSUME IInv, NInv, SearchEnd PROVE NInv'
<1>1. /\ pc = "search" /\ pc' = "idle" /\ readptr' = 1 /\ ret'.op = call.op /\ ret'.path = call.path /\ ret'.then = "NULL"
      /\ volume' = volume /\ firstdatalba' = firstdatalba /\ rdir' = rdir /\ call.op = "fopen"
      /\ (~stated' => ~stated) /\ (lost' = 0 => lost = 0) /\ (Smooth' => Smooth)
      /\ ~MayRead(fdir) \/ (~LooksAstray(fdir.buf, fdir.readptr) /\ ~Listed.found)
  BY DEF SearchEnd, ReturnNull, Return, Forget, volVars, Smooth, IInv, Holding
<1>2. Smooth' => OnTheWay'
  BY <1>1 DEF NInv, OnTheWay, InCall
<1>3. FopenFinds'
  <2> DEFINE slots == SlotsOf(volume, volume.root)
             r == fdir.readptr
             name == FileOf(call.path)
  <2> SUFFICES ASSUME Len(call.path) = 1, ~stated, lost = 0, IsPlain(volume),
                      NEW i \in FilesAt(volume, volume.root, name)
               PROVE  ~AllEntriesBefore(slots, i) \/ (~HasLongName(slots, i) /\ HasTail(volume))
    BY <1>1 DEF FopenFinds, FileOf
  <2>1. Smooth /\ OnTheWay /\ volume \in Volumes /\ IsDir(volume, fdir)
    BY DEF NInv, Smooth, IInv, Typed
  <2>2. Searching(volume, call.path, fdir) /\ SearchesOn(volume, call.path, fdir)
    BY <1>1, <2>1 DEF OnTheWay, InCall, Fopening
  <2>3. fdir.buf.root = volume.root
    <3>1. fdir.buf.root \in Led(volume, call.path, 1 - 1) /\ 1 - 1 = 0
      BY <2>2 DEF Searching
    <3>2. Led(volume, call.path, 0) = {volume.root}
      BY LedSteps
    <3> QED
      BY <3>1, <3>2
  <2>4. EndOfData(fdir.buf) \in Nat /\ DOMAIN slots = 1 .. EndOfData(fdir.buf)
    BY <2>1, <2>2, <2>3, SlotsAre DEF Searching
  <2>5. i \in DOMAIN slots /\ i \in Nat \ {0} /\ i <= EndOfData(fdir.buf) /\ slots[i].attr = "file"
    BY <2>4 DEF FilesAt
  <2>6. r \in Nat
    BY <2>1 DEF IsDir
  <2>7. CASE i < r
    BY <2>2, <2>3, <2>7 DEF SearchesOn
  <2>8. CASE ~(i < r)
    <3> DEFINE e == EntryAt(fdir.buf, r)
    <3>1. ~LooksAstray(fdir.buf, r) /\ ~Listed.found
      BY <1>1, <2>4, <2>5, <2>6, <2>8 DEF MayRead
    <3>2. /\ r \in Nat \ {0}
          /\ e = IF slots[r].attr = "lfn" THEN r + 1 ELSE r
          /\ slots[e].attr \notin {"dir", "file"}
      BY <1>1, <2>1, <2>3, <3>1, ListsHere
    <3>3. i # r
      BY <2>5, <3>2
    <3>4. r \in 1 .. i - 1
      BY <2>5, <2>8, <3>2, <3>3
    <3>5. ~AllEntriesBefore(slots, i)
      BY <3>2, <3>4 DEF AllEntriesBefore
    <3> QED
      BY <3>5
  <2> QED
    BY <2>7, <2>8
<1>4. FileIsTheNamed'
  BY <1>1 DEF FileIsTheNamed
<1>5. rdir'.tail => HasTail(volume)'
  BY <1>1 DEF NInv
<1> QED
  BY <1>1, <1>2, <1>3, <1>4, <1>5 DEF NInv

\* fat_fopen returns the file: its chain was read whole.
LEMMA NamedFopenDone == ASSUME IInv, NInv, FopenDone PROVE NInv'
<1>1. /\ pc = "file" /\ pc' = "idle" /\ readptr' = 1 /\ ret'.op = call.op /\ ret'.path = call.path /\ ret'.then = "file"
      /\ file' = [data |-> buf.data, buffersize |-> buf.size, filesize |-> Filedirent(fdir).size]
      /\ volume' = volume /\ firstdatalba' = firstdatalba /\ rdir' = rdir /\ call.op = "fopen"
      /\ (~stated' => ~stated) /\ (lost' = 0 => lost = 0) /\ (Smooth' => Smooth)
  BY DEF FopenDone, Return, Forget, volVars, Smooth, IInv, Holding, Stage
<1>2. Smooth' => OnTheWay'
  BY <1>1 DEF NInv, OnTheWay, InCall
<1>3. FileIsTheNamed'
  <2> DEFINE root == fdir.buf.root
             name == FileOf(call.path)
             i == fdir.readptr - 1
             slot == SlotsOf(volume, root)[i]
  <2>1. SUFFICES ASSUME ~stated, lost = 0, IsPlain(volume)
                 PROVE  \E c \in Parents(call.path) : \E j \in FilesAt(volume, c, name) :
                           LET s == SlotsOf(volume, c)[j]
                           IN /\ Cluster(s) # 0 => file'.data = SectorsOf(volume, Cluster(s))
                              /\ file'.buffersize = Len(file'.data)
                              /\ file'.filesize = s.size
    BY <1>1 DEF FileIsTheNamed, Parents, FileOf
  <2>2. Smooth /\ OnTheWay /\ volume \in Volumes
    BY <2>1 DEF NInv, Smooth, IInv, Typed
  <2>3. Whole(volume, buf) /\ Searching(volume, call.path, fdir) /\ Found(volume, call.path, fdir, buf.root)
    BY <1>1, <2>2 DEF OnTheWay, InCall, Fopening, Underway
  <2>4. root \in Parents(call.path) /\ i \in FilesAt(volume, root, name) /\ buf.root = Cluster(slot)
    BY <2>3 DEF Searching, Found, Parents
  <2>5. file'.data = SectorsOf(volume, Cluster(slot)) /\ file'.buffersize = Len(file'.data)
    BY <1>1, <2>3, <2>4 DEF Whole
  <2>6. file'.filesize = slot.size
    <3>1. Whole(volume, fdir.buf) /\ i \in DOMAIN SlotsOf(volume, root)
      BY <2>3, <2>4 DEF Searching, FilesAt
    <3>2. EndOfData(fdir.buf) \in Nat /\ DOMAIN SlotsOf(volume, root) = 1 .. EndOfData(fdir.buf)
      BY <2>1, <2>2, <3>1, SlotsAre
    <3>3. i \in Nat \ {0}
      BY <3>1, <3>2
    <3>4. Slot(fdir.buf, i) = slot
      BY <2>1, <2>2, <3>1, <3>3, SlotsAre
    <3> QED
      BY <1>1, <3>4 DEF Filedirent
  <2> HIDE DEF slot, i, root, name
  <2> QED
    BY <2>4, <2>5, <2>6 DEF slot
<1>4. rdir'.tail => HasTail(volume)'
  BY <1>1 DEF NInv
<1> QED
  BY <1>1, <1>2, <1>3, <1>4 DEF NInv, FopenFinds

\* The calls on what is open touch neither the file nor what was returned; after
\* fat_fstat nothing is said.
LEMMA NamedOpened == ASSUME IInv, NInv, ReadDir \/ fat_rewinddir \/ fat_fstat PROVE NInv'
<1>1. /\ pc = "idle" /\ pc' = "idle" /\ volume' = volume /\ readptr' = readptr /\ ret' = ret /\ file' = file /\ lost' = lost
      /\ volume \in Volumes /\ readptr = 1 /\ (rdir.tail => HasTail(volume)) /\ rdir.tail \in BOOLEAN
      /\ (odir # NULL => IsDir(volume, odir)) /\ FileIsTheNamed /\ FopenFinds
  BY DEF ReadDir, fat_rewinddir, fat_fstat, volVars, locals, openVars, IInv, Typed, NInv
<1>2. stated' = TRUE \/ (stated' = stated /\ firstdatalba' = firstdatalba)
  BY DEF ReadDir, fat_rewinddir, fat_fstat, volVars
<1>3. FileIsTheNamed' /\ FopenFinds'
  BY <1>1, <1>2 DEF FileIsTheNamed, FopenFinds, Parents
<1>4. Smooth' => OnTheWay'
  BY <1>1, <1>2 DEF NInv, Smooth, OnTheWay, InCall
<1>5. rdir'.tail => HasTail(volume)'
  <2>1. CASE ReadDir
    <3>1. odir # NULL /\ ~LooksAstray(odir.buf, odir.readptr) /\ rdir' = fat_readdir(odir).rdir
      BY <2>1 DEF ReadDir
    <3> QED
      BY <1>1, <3>1, TailIsOnCard
  <2>2. CASE fat_rewinddir \/ fat_fstat
    BY <1>1, <2>2 DEF fat_rewinddir, fat_fstat, openVars
  <2> QED
    BY <2>1, <2>2
<1> QED
  BY <1>1, <1>3, <1>4, <1>5 DEF NInv

\* No step leaves the way.
LEMMA NamedStep == IInv /\ NInv /\ [Next]_vars => NInv'
<1> SUFFICES ASSUME IInv, NInv, [Next]_vars PROVE NInv'
  OBVIOUS
<1>1. CASE InitReadFails \/ init_fatfs
  BY <1>1, NamedInit
<1>2. CASE InitAstray \/ CountAstray \/ ScanAstray \/ SearchAstray \/ ReadDirAstray
  <2>1. Astray
    BY <1>2 DEF InitAstray, CountAstray, ScanAstray, SearchAstray, ReadDirAstray
  <2> QED
    BY <2>1, NamedAstray
<1>3. CASE CountCluster
  BY <1>3, NamedCount
<1>4. CASE ReadCluster
  BY <1>4, NamedRead
<1>5. CASE ScanNext
  BY <1>5, NamedScanNext
<1>6. CASE ScanInto
  BY <1>6, NamedScanInto
<1>7. CASE ScanLast
  BY <1>7, NamedScanLast
<1>8. CASE ScanEnd
  BY <1>8, NamedScanEnd
<1>9. CASE OpenDone
  BY <1>9, NamedOpenDone
<1>10. CASE SearchNext
  BY <1>10, NamedSearchNext
<1>11. CASE SearchHit
  BY <1>11, NamedSearchHit
<1>12. CASE SearchEnd
  BY <1>12, NamedSearchEnd
<1>13. CASE FopenDone
  BY <1>13, NamedFopenDone
<1>14. CASE \E path \in Paths : Opendir(path) \/ \E slash \in BOOLEAN : Fopen(path, slash)
  BY <1>14, NamedBegin
<1>15. CASE FopenNoName
  BY <1>15, NamedFopenNoName
<1>16. CASE ReadDir \/ fat_rewinddir \/ fat_fstat
  BY <1>16, NamedOpened
<1>17. CASE UNCHANGED vars
  <2>1. /\ volume' = volume /\ firstdatalba' = firstdatalba /\ stated' = stated /\ lost' = lost /\ pc' = pc
        /\ call' = call /\ buf' = buf /\ readptr' = readptr /\ dir' = dir /\ fdir' = fdir /\ rdir' = rdir
        /\ file' = file /\ ret' = ret
    BY <1>17 DEF vars, volVars, locals, openVars
  <2>2. FileIsTheNamed' /\ FopenFinds'
    BY <2>1 DEF NInv, FileIsTheNamed, FopenFinds, Parents
  <2>3. Fopening => Fopening'
    BY <2>1 DEF Fopening, Underway
  <2>4. Smooth' => OnTheWay'
    BY <2>1, <2>3 DEF NInv, Smooth, OnTheWay, InCall
  <2> QED
    BY <2>1, <2>2, <2>4 DEF NInv
<1> QED
  BY <1>1, <1>2, <1>3, <1>4, <1>5, <1>6, <1>7, <1>8, <1>9, <1>10, <1>11, <1>12, <1>13, <1>14, <1>15, <1>16, <1>17
  DEF Next, GetdataStep, OpendirStep, FopenStep

\* Before init_fatfs nothing was called.
LEMMA NamedFirst == Init => NInv
<1> SUFFICES ASSUME Init PROVE NInv
  OBVIOUS
<1>1. pc = "off" /\ ret = NoCall /\ readptr = 1 /\ rdir.tail = FALSE
  BY DEF Init, NoDirent
<1>2. OnTheWay
  BY <1>1 DEF OnTheWay, InCall
<1>3. FileIsTheNamed /\ FopenFinds
  BY <1>1 DEF FileIsTheNamed, FopenFinds
<1> QED
  BY <1>1, <1>2, <1>3 DEF NInv

-----------------------------------------------------------------------------
(* The theorems *)

\* The invariant holds for every card, every set of paths and any sectors the card
\* fails to deliver.
THEOREM Invariant == Spec => [](IInv /\ StringsHeld)
<1>1. Init => StringsHeld
  BY DEF Init, StringsHeld, InCall, NoBlocks, Blocks
<1> QED
  BY <1>1, InitInvariant, StepInvariant, StringsStep, PTL DEF Spec

\* Types are kept: no block is freed that is not held, a buffer never counts more
\* sectors than it has, and no readptr is more than a slot behind its data.
THEOREM TypeCorrect == Spec => []TypeOK
<1>1. IInv => TypeOK
  <2> SUFFICES ASSUME IInv PROVE TypeOK
    OBVIOUS
  <2>1. \A b \in {buf, fdir.buf} : b.size <= Len(b.data) /\ b.left <= MaxCount
    BY DEF IInv, Typed, IsBuf, IsDir, MaxCount
  <2>2. \A d \in {fdir} \cup ({odir} \ {NULL}) : d.readptr \in 1 .. EndOfData(d.buf) + 2
    BY DEF IInv, Typed, IsDir
  <2> QED
    BY <2>1, <2>2 DEF IInv, Typed, Holding, TypeOK
<1> QED
  BY <1>1, Invariant, PTL

\* Whatever way a call takes, it leaves allocated what it returned, and fat_fopen
\* the directory and the dirent it looked through, the copy of a path of no names,
\* and a pathto that reads "/": nothing else, and nothing is freed twice.
THEOREM NothingElseLeaks == Spec => []OnlyKnownLeaks
<1>1. IInv /\ StringsHeld => OnlyKnownLeaks
  <2> SUFFICES ASSUME IInv, StringsHeld, pc = "idle", ret.op # "none"
               PROVE  /\ held["dir"] = 0
                      /\ held["copy"] = (IF ret.op = "fopen" /\ ret.path = <<>> THEN 1 ELSE 0)
                      /\ held["pathto"] = 0 \/ (held["pathto"] = 1 /\ ret.op = "fopen" /\ Len(ret.path) = 1)
                      /\ held["buffer"] = held["odir"] + held["fatfile"]
                      /\ held["odir"] <= 1 /\ held["rdirent"] <= 1
                      /\ (held["odir"] = 1) = (ret.then # "NULL" \/ held["rdirent"] = 1)
    BY DEF OnlyKnownLeaks
  <2>1. Left(held, ret)
    BY DEF IInv, Holding
  <2>2. held["pathto"] = 0 \/ (held["pathto"] = 1 /\ ret.op = "fopen" /\ Len(ret.path) = 1)
    BY DEF StringsHeld
  <2> QED
    BY <2>1, <2>2 DEF Left, Holds
<1> QED
  BY <1>1, Invariant, PTL

\* A file that fat_fopen returns, on a volume where the code keeps to it and while no
\* sector was lost and fat_fstat not called, is one its path leads to, with the
\* sectors of its chain in order and the size of its entry.
THEOREM FilesAreNamed == Spec => []FileIsTheNamed
<1>1. Init => NInv
  BY NamedFirst
<1>2. IInv /\ NInv /\ [Next]_vars => NInv'
  BY NamedStep
<1>3. IInv /\ NInv => FileIsTheNamed
  BY DEF NInv
<1> QED
  BY <1>1, <1>2, <1>3, Invariant, PTL DEF Spec

\* There, fat_fopen misses a file of the root only behind a slot that is no entry, or
\* if it has a short name and a long one on the card may have left a character.
THEOREM NoFileIsMissed == Spec => []FopenFinds
<1>1. Init => NInv
  BY NamedFirst
<1>2. IInv /\ NInv /\ [Next]_vars => NInv'
  BY NamedStep
<1>3. IInv /\ NInv => FopenFinds
  BY DEF NInv
<1> QED
  BY <1>1, <1>2, <1>3, Invariant, PTL DEF Spec

=============================================================================
