------------------------------ MODULE MCFat32 ------------------------------
(***************************************************************************)
(* Cards of clusters with one sector of two slots each; clusters 1 and 0   *)
(* lie in the FAT before them.  Cluster numbers below eight fit in the low *)
(* half of an entry.                                                       *)
(***************************************************************************)
EXTENDS Fat32, TLC

Lfn(n)         == [attr |-> "lfn", name |-> n, high |-> 1, low |-> 0, size |-> 0]
DirAt(n, c)     == [attr |-> "dir", name |-> n, high |-> c \div 8, low |-> c % 8, size |-> 0]
FileAt(n, c, s) == [attr |-> "file", name |-> n, high |-> c \div 8, low |-> c % 8, size |-> s]
Label           == NoSlot

\* Three sectors before the data: a reserved one and two FATs.  Its slots are the
\* slots of cluster 2 onwards.
CardOf(parts, fat, slots, spc) ==
    LET lba == IF parts[1].type = "fat32" THEN parts[1].LBA ELSE parts[2].LBA
    IN [parts |-> parts, reservedSectors |-> 1, fatCnt |-> 2, sectorsPerFat |-> 1,
        sectorsPerCluster |-> spc, root |-> 2, fat |-> fat, start |-> lba + 3,
        card |-> [s \in 0 .. lba + 2 + Len(slots) |->
                    IF s < lba + 3 THEN <<Label, Label>> ELSE slots[s - lba - 2]]]

Parts(t1, l1, t2, l2) ==
    <<[type |-> t1, LBA |-> l1], [type |-> t2, LBA |-> l2],
      [type |-> "other", LBA |-> 0], [type |-> "other", LBA |-> 0]>>

Data == <<Label, Label>>

\* A plain volume: the root in clusters 2 and 4, roms in 3 with a file in 5 and 7,
\* sub below roms in 9, where only the high half of the number leads.
Plain ==
    CardOf(Parts("fat32", 1, "other", 0),
           (0 :> End @@ 1 :> End @@ 2 :> 4 @@ 3 :> 6 @@ 4 :> End @@ 5 :> 7 @@ 6 :> End
              @@ 7 :> End @@ 8 :> End @@ 9 :> End),
           << <<DirAt("roms", 3), Lfn("b.txt")>>,               \* 2
              <<DirAt(".", 3), Lfn("rom.nes")>>,                \* 3
              <<FileAt("B", 7, 1), FileAt("a", 8, 1)>>,         \* 4
              Data,                                             \* 5
              <<FileAt("ROM", 5, 4), DirAt("sub", 9)>>,         \* 6
              Data, Data,                                       \* 7, 8
              <<DirAt(".", 9), FileAt("a", 5, 3)>> >>, 1)       \* 9

\* The second partition, two sectors in a cluster; the root begins with a label, and
\* has a long name of more than 11 characters before a short one.
Labelled ==
    CardOf(Parts("other", 0, "fat32", 2),
           (0 :> End @@ 1 :> End @@ 2 :> End @@ 3 :> 4 @@ 4 :> End),
           << <<Label, Lfn("roms")>>, <<DirAt("ROMS", 3), FileAt("a", 4, 2)>>,
              <<Lfn("a long rom.nes"), FileAt("ALON", 4, 2)>>, <<FileAt("a", 0, 0), FileAt("rom.nes", 4, 2)>>,
              Data, Data >>, 2)

\* The long name stands in the way of the short one; a directory of its own name.
Tailed ==
    CardOf(Parts("fat32", 0, "fat32", 2),
           (0 :> End @@ 1 :> End @@ 2 :> 3 @@ 3 :> End @@ 4 :> End),
           << <<Lfn("a long rom.nes"), FileAt("ALON", 4, 2)>>, <<FileAt("a", 4, 1), DirAt("roms", 4)>>,
              <<DirAt("roms", 4), FileAt("a", 3, 1)>> >>, 1)

\* A chain that leads back, and one that leads outside.
Cyclic ==
    CardOf(Parts("fat32", 0, "other", 0),
           (0 :> End @@ 1 :> End @@ 2 :> End @@ 3 :> 4 @@ 4 :> 3 @@ 5 :> 77),
           << <<FileAt("a", 3, 2), DirAt("roms", 5)>>, Data, Data, Data >>, 1)

\* No FAT32 file system.
Foreign == [Plain EXCEPT !.parts = Parts("other", 0, "other", 0)]

SomeCards == {Plain, Labelled, Tailed, Cyclic, Foreign}

SomePaths ==
    {<<>>, <<"a">>, <<"b.txt">>, <<"a long rom.nes">>, <<"roms", "rom.nes">>, <<"roms", "a">>,
     <<"roms">>, <<"roms", "roms", "a">>, <<"roms", "sub", "a">>}
=============================================================================
