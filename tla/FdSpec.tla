------------------------------- MODULE FdSpec -------------------------------
(***************************************************************************)
(* What the C library expects of _open, _read, _close and _fstat: a        *)
(* descriptor stands for one opening of one file, has a place of its own   *)
(* in it, and is not handed out again before it is closed.  ret is the     *)
(* last call with its result, and whether the card failed to deliver a     *)
(* sector to it.  The promise about paths is for calls to which every      *)
(* sector is delivered; it ends with the first _fstat of an open file, see *)
(* Vfs, and what is open by then can still be read.                        *)
(***************************************************************************)
EXTENDS Integers

CONSTANTS
    Fds,        \* descriptors that may be handed out
    Files,      \* files that exist
    Readable    \* units of data that can be read of each file, and of what "other" is

VARIABLES
    fs,        \* "none", "sound", or "lost" when paths lead anywhere
    table,     \* for each open descriptor its file and the place in it
    ret

\* f with the value v at k.
Added(f, k, v) == [x \in DOMAIN f \cup {k} |-> IF x = k THEN v ELSE f[x]]

\* A call and its result; data is the set of units of a file that a read delivered.
Result(call, path, fd, value, data, lost) ==
    [call |-> call, path |-> path, fd |-> fd, value |-> value, data |-> data, lost |-> lost]

Mounted(lost)          == Result("mount", "none", -1, 0, {}, lost)
Opened(path, fd, lost) == Result("open", path, -1, fd, {}, lost)
DidRead(fd, n, data)   == Result("read", "none", fd, n, data, FALSE)
DidClose(fd, value)    == Result("close", "none", fd, value, {}, FALSE)
DidStat(value)         == Result("stat", "none", -1, value, {}, FALSE)

Init ==
    /\ fs = "none"
    /\ table = [fd \in {} |-> 0]
    /\ ret = Opened("none", -1, FALSE)

\* A mount to which every sector is delivered is sound.
Mount(lost) ==
    /\ fs = "none"
    /\ fs' = "sound" \/ (lost /\ fs' = "lost")
    /\ ret' = Mounted(lost)
    /\ UNCHANGED table

Open(f, fd, lost) ==
    /\ fs = "sound"
    /\ fd \notin DOMAIN table
    /\ table' = Added(table, fd, [file |-> f, pos |-> 0])
    /\ ret' = Opened(f, fd, lost)

\* Something is opened, nobody knows what.
OpenLost(fd, lost) ==
    /\ fs = "lost" \/ lost
    /\ fd \notin DOMAIN table
    /\ table' = Added(table, fd, [file |-> "other", pos |-> 0])
    /\ ret' = Opened(ret'.path, fd, lost)

\* When every sector is delivered, opening a file that exists fails only for want
\* of a descriptor.
OpenFails(lost) ==
    /\ ret'.call = "open" /\ ret' = Opened(ret'.path, -1, lost)
    /\ fs # "sound" \/ lost \/ ret'.path \notin Files \/ Fds \subseteq DOMAIN table
    /\ UNCHANGED table

\* A read delivers the next units of the file, as many as were asked for and
\* there are, and fails at the end of the file.  (To ask for more than the whole
\* file is to ask for all of it.)
Read(fd, n) ==
    LET f     == table[fd].file
        pos   == table[fd].pos
        end   == IF pos + n > Readable[f] THEN Readable[f] ELSE pos + n
    IN IF end = pos
       THEN ret' = DidRead(fd, -1, {}) /\ UNCHANGED table
       ELSE /\ table' = [table EXCEPT ![fd].pos = end]
            /\ ret' = DidRead(fd, end - pos, {f} \X (pos + 1 .. end))

\* Nothing is promised about the size, nor about which file is looked at: a call
\* that succeeds has found one that is open.
Stat ==
    /\ \/ DOMAIN table # {} /\ fs' = "lost" /\ ret' = DidStat(0)
       \/ fs' = fs /\ ret' = DidStat(-1)
    /\ UNCHANGED table

Close(fd) ==
    /\ table' = [d \in DOMAIN table \ {fd} |-> table[d]]
    /\ ret' = DidClose(fd, 0)

\* A read and a close fail on a descriptor that is not open.
FailsOnClosed(fd) ==
    /\ fd \notin DOMAIN table
    /\ ret' \in {DidRead(fd, -1, {}), DidClose(fd, -1)}
    /\ UNCHANGED table

Call ==
    \/ \E lost \in BOOLEAN :
          \/ OpenFails(lost)
          \/ \E fd \in Fds : OpenLost(fd, lost) \/ \E f \in Files : Open(f, fd, lost)
    \/ \E fd \in Fds : FailsOnClosed(fd)
    \/ \E fd \in DOMAIN table :
          Close(fd) \/ \E n \in 1 .. Readable[table[fd].file] + 1 : Read(fd, n)

Next ==
    \/ \E lost \in BOOLEAN : Mount(lost)
    \/ Call /\ UNCHANGED fs
    \/ Stat

Spec == Init /\ [][Next]_<<fs, table, ret>>
=============================================================================
