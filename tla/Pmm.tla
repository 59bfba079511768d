-------------------------------- MODULE Pmm --------------------------------
(***************************************************************************)
(* The physical memory manager of pmm.c: a list of free chunks whose       *)
(* headers live in the first frame of each chunk, searched and updated by  *)
(* allocPage and freePage.  The kernel runs one thread with interrupts off *)
(* so calls do not interleave; each iteration of a loop is a step here,    *)
(* because two of the loops have iterations that change nothing.           *)
(*                                                                         *)
(* Addresses are frame numbers.  The callers are the page hooks of         *)
(* malloc.c: they free exactly the blocks they were given.                 *)
(***************************************************************************)
EXTENDS PageFrames, FiniteSets

CONSTANTS
    PageSize,     \* bytes of a frame: 4096
    Word,         \* 2^32, where the uint32_t counters wrap
    SysMem,       \* SYS_MEM of the makefile, a number of megabytes: 128
    MaxRequest,   \* bound: the largest number of frames a caller asks for
    Junk          \* what the owner of a frame leaves in it, read as a header

ASSUME PmmAssumption ==
    /\ PageSize \in Nat \ {0}
    /\ Word \in Nat \ {0}
    /\ SysMem \in Nat
    /\ MaxRequest \in Nat \ {0}
    /\ (FirstPage + NumPages) * PageSize <= Word

VARIABLES
    rootMemNode,   \* head of the list of free chunks
    header,        \* what the first words of each frame hold
    MemUsed,       \* the counter of pmm.c, a uint32_t
    block,         \* the blocks the callers hold, see PageSpec
    pc,            \* the function being executed, "idle" between calls
    addr,          \* parameter of freePage
    numOfPages,    \* parameter of both
    memChunkPtr    \* the iterator of both loops

vars == <<rootMemNode, header, MemUsed, block, pc, addr, numOfPages, memChunkPtr>>

MemChunk == [pageCount : Nat, prev : Pages \cup {NULL}, next : Pages \cup {NULL}]

\* MemFree of init_pmm, in bytes; no code changes it afterwards.
MemFree == NumPages * PageSize

Init ==
    /\ rootMemNode = FirstPage
    /\ header = [p \in Pages |->
                    IF p = FirstPage
                    THEN [pageCount |-> MemFree \div PageSize, prev |-> NULL, next |-> NULL]
                    ELSE Junk]
    /\ MemUsed = (SysMem - MemFree) % Word     \* megabytes minus bytes, wraps
    /\ block = [b \in Pages |-> 0]
    /\ pc = "idle"
    /\ addr = NULL
    /\ numOfPages = 0
    /\ memChunkPtr = NULL

\* A call ends: its parameters and locals are gone.
Return ==
    /\ pc' = "idle"
    /\ addr' = NULL
    /\ numOfPages' = 0
    /\ memChunkPtr' = NULL

-----------------------------------------------------------------------------
(* allocPage *)

CallAllocPage(n) ==
    /\ pc = "idle"
    /\ pc' = "allocPage"
    /\ numOfPages' = n
    /\ memChunkPtr' = rootMemNode
    /\ UNCHANGED <<rootMemNode, header, MemUsed, block, addr>>

\* The list is empty: allocPage returns NULL.
AllocNoMemory ==
    /\ pc = "allocPage"
    /\ memChunkPtr = NULL
    /\ Return
    /\ UNCHANGED <<rootMemNode, header, MemUsed, block>>

\* allocPage returns memChunkPtr: its frames are the caller's.
ReturnChunk ==
    /\ MemUsed' = (MemUsed + numOfPages * PageSize) % Word
    /\ block' = [block EXCEPT ![memChunkPtr] = numOfPages]
    /\ Return

\* Mutant: the exact chunk is returned and stays in the list.
AllocExactKept ==
    /\ pc = "allocPage"
    /\ memChunkPtr # NULL
    /\ header[memChunkPtr].pageCount = numOfPages
    /\ UNCHANGED <<rootMemNode, header>>
    /\ ReturnChunk

\* The chunk has the size asked for: it leaves the list.
AllocExact ==
    /\ pc = "allocPage"
    /\ memChunkPtr # NULL
    /\ header[memChunkPtr].pageCount = numOfPages
    /\ LET chunk == header[memChunkPtr]
       IN IF chunk.prev # NULL
          THEN /\ header' = [header EXCEPT ![chunk.prev].next = chunk.next]
               /\ UNCHANGED rootMemNode
          ELSE /\ rootMemNode' = chunk.next
               /\ UNCHANGED header
    /\ ReturnChunk

\* The chunk memChunkPtr is replaced in the list by one at newChunk.
ReplaceChunk(newChunk, newHeader) ==
    LET chunk == header[memChunkPtr]
        split == [header EXCEPT ![newChunk] = newHeader]
    IN IF chunk.prev # NULL
       THEN /\ header' = [split EXCEPT ![chunk.prev].next = newChunk]
            /\ UNCHANGED rootMemNode
       ELSE /\ header' = split
            /\ rootMemNode' = newChunk

\* Mutant: the remaining chunk is linked back to the one handed out.
RemainderLinkedBack(chunk) ==
    [pageCount |-> chunk.pageCount - numOfPages, prev |-> memChunkPtr, next |-> chunk.next]

\* The header of what remains of a chunk when numOfPages frames leave it.
Remainder(chunk) ==
    [pageCount |-> chunk.pageCount - numOfPages, prev |-> chunk.prev, next |-> chunk.next]

\* Mutant: the break address is one frame short.
BreakAddrShort == memChunkPtr + numOfPages - 1

BreakAddr == memChunkPtr + numOfPages

\* The chunk is larger: its tail becomes a chunk that takes its place.
AllocSplit ==
    /\ pc = "allocPage"
    /\ memChunkPtr # NULL
    /\ header[memChunkPtr].pageCount > numOfPages
    /\ ReplaceChunk(BreakAddr, Remainder(header[memChunkPtr]))
    /\ ReturnChunk

\* The chunk is too small: the statement that moves the iterator stands in the
\* branch taken when the chunk is large enough, so the iteration does nothing.
AllocTooSmall ==
    /\ pc = "allocPage"
    /\ memChunkPtr # NULL
    /\ header[memChunkPtr].pageCount < numOfPages
    /\ UNCHANGED vars

-----------------------------------------------------------------------------
(* freePage *)

\* The headers h after MergeChunks(prior, freed, post).
MergeChunks(h, prior, freed, post) ==
    LET joins == prior # NULL /\ prior + h[prior].pageCount = freed
        h1    == IF joins
                 THEN [h EXCEPT ![prior].pageCount = @ + h[freed].pageCount,
                                ![prior].next = post]
                 ELSE h
        base  == IF joins THEN prior ELSE freed
    IN IF post # NULL /\ base + h1[base].pageCount = post
       THEN [h1 EXCEPT ![base].pageCount = @ + h1[post].pageCount,
                       ![base].next = h1[post].next]
       ELSE h1

\* A caller gives back a block it holds, which passes the sanity check.
CallFreePage(b) ==
    /\ pc = "idle"
    /\ block[b] # 0
    /\ pc' = "freePage"
    /\ addr' = b
    /\ numOfPages' = block[b]
    /\ memChunkPtr' = rootMemNode
    /\ block' = [block EXCEPT ![b] = 0]
    /\ UNCHANGED <<rootMemNode, header, MemUsed>>

\* Mutant: the counter goes below zero.
ReturnFreedSigned ==
    /\ MemUsed' = MemUsed - numOfPages * PageSize
    /\ Return
    /\ UNCHANGED block

\* Mutant: the counter is left alone.
ReturnFreedUncounted ==
    /\ Return
    /\ UNCHANGED <<MemUsed, block>>

ReturnFreed ==
    /\ MemUsed' = (MemUsed - numOfPages * PageSize) % Word
    /\ Return
    /\ UNCHANGED block

\* Mutant: the frame after the block, where memory has one, joins the new list.
FreeOneTooMany ==
    /\ pc = "freePage"
    /\ rootMemNode = NULL
    /\ rootMemNode' = addr
    /\ header' = [header EXCEPT ![addr] =
                     [pageCount |-> Cardinality(Run(addr, numOfPages + 1) \cap Pages), prev |-> NULL, next |-> NULL]]
    /\ ReturnFreed

\* Memory had run out: the freed block is the new list.
FreeIntoEmptyList ==
    /\ pc = "freePage"
    /\ rootMemNode = NULL
    /\ rootMemNode' = addr
    /\ header' = [header EXCEPT ![addr] =
                     [pageCount |-> numOfPages, prev |-> NULL, next |-> NULL]]
    /\ ReturnFreed

\* Mutant: a block that touches the chunk is not seen to lie before it.
LiesWellBefore == addr + numOfPages < memChunkPtr

LiesBefore == addr < memChunkPtr

\* The freed block lies before the chunk: it points at the chunk and is merged
\* with it when they touch.  rootMemNode and the chunk's prev keep their values.
FreeBeforeChunk ==
    /\ pc = "freePage"
    /\ memChunkPtr # NULL
    /\ LiesBefore
    /\ LET prior == header[memChunkPtr].prev
           freed == [header EXCEPT ![addr] =
                        [pageCount |-> numOfPages, prev |-> prior, next |-> memChunkPtr]]
       IN header' = MergeChunks(freed, prior, addr, memChunkPtr)
    /\ UNCHANGED rootMemNode
    /\ ReturnFreed

\* The freed block does not lie before the chunk: nothing moves the iterator.
FreeNotBefore ==
    /\ pc = "freePage"
    /\ memChunkPtr # NULL
    /\ ~LiesBefore
    /\ UNCHANGED vars

-----------------------------------------------------------------------------

\* The holder of a block uses it: any header in its frames is lost.
OwnerWrites(b) ==
    /\ pc = "idle"
    /\ \E p \in Run(b, block[b]) : header[p] # Junk
    /\ header' = [p \in Pages |-> IF p \in Run(b, block[b]) THEN Junk ELSE header[p]]
    /\ UNCHANGED <<rootMemNode, MemUsed, block, pc, addr, numOfPages, memChunkPtr>>

AllocPage == AllocNoMemory \/ AllocExact \/ AllocSplit \/ AllocTooSmall

FreePage == FreeIntoEmptyList \/ FreeBeforeChunk \/ FreeNotBefore

Next ==
    \/ \E n \in 1 .. MaxRequest : CallAllocPage(n)
    \/ \E b \in Pages : CallFreePage(b)
    \/ \E b \in Pages : OwnerWrites(b)
    \/ AllocPage
    \/ FreePage

\* A call that was made keeps executing: there is one thread and no interrupt.
Spec == Init /\ [][Next]_vars /\ WF_vars(AllocPage \/ FreePage)
-----------------------------------------------------------------------------
(* What should hold *)

Held == UNION {Run(b, block[b]) : b \in Pages}

\* The frames of the chunk the list starts with.
FreeRun == IF rootMemNode = NULL THEN {} ELSE Run(rootMemNode, header[rootMemNode].pageCount)

\* The frames freePage is about to take back.
InTransit == IF pc = "freePage" THEN Run(addr, numOfPages) ELSE {}

\* Frames that no caller holds and no call can hand out again.
Lost == Pages \ (Held \cup FreeRun \cup InTransit)

\* Every variable has its type; the chunk at the head of the list has a header.
TypeOK ==
    /\ rootMemNode \in Pages \cup {NULL}
    /\ header \in [Pages -> MemChunk \cup {Junk}]
    /\ MemUsed \in 0 .. Word - 1
    /\ block \in [Pages -> Nat]
    /\ pc \in {"idle", "allocPage", "freePage"}
    /\ addr \in Pages \cup {NULL}
    /\ numOfPages \in Nat
    /\ memChunkPtr \in Pages \cup {NULL}

\* A frame has one holder: the blocks callers hold, the frames being freed and
\* the chunk at the head of the list share no frame, and all lie in memory.
\* allocPage's split and freePage's merge both write headers by address
\* arithmetic; a mistake in either gives one frame to two callers.
OneHolder ==
    /\ \A b \in Pages : Run(b, block[b]) \subseteq Pages
    /\ \A a, b \in Pages : a # b => Run(a, block[a]) \cap Run(b, block[b]) = {}
    /\ FreeRun \subseteq Pages /\ InTransit \subseteq Pages
    /\ FreeRun \cap Held = {} /\ FreeRun \cap InTransit = {} /\ InTransit \cap Held = {}

\* The list has at most one chunk, linked to nothing, in every reachable state:
\* no sequence of calls makes the links prev and next, or the branches that
\* follow them, come into play.  The chunk is never in a caller's hands, so its
\* header is intact.
ListIsOneChunk ==
    rootMemNode # NULL =>
        /\ header[rootMemNode] \in MemChunk
        /\ header[rootMemNode].pageCount > 0
        /\ header[rootMemNode].prev = NULL
        /\ header[rootMemNode].next = NULL

\* Between calls MemUsed is what init_pmm set plus the bytes callers hold, on
\* a 32-bit counter that init_pmm starts at a wrapped value, frames lost included.
MemUsedCountsHeld ==
    pc = "idle" =>
        MemUsed = (SysMem - MemFree + PageSize * Cardinality(Held)) % Word

\* What is lost stays lost: no later call, whatever its order, brings a frame
\* that freePage failed to link back into the list.
LostStaysLost == [][Lost \subseteq Lost']_vars

\* The list grows only out of nothing: while it has a chunk, no call adds a
\* frame to it, so memory is reclaimed only after all of it was handed out.
ReclaimedOnlyWhenEmpty ==
    [][FreeRun # {} => FreeRun' \subseteq FreeRun]_vars

\* A call the list can serve returns: an allocation no larger than the chunk at
\* the head, and the return of a block that lies before it.
ServableCallsReturn ==
    /\ (pc = "allocPage" /\ (rootMemNode = NULL \/ header[rootMemNode].pageCount >= numOfPages))
           ~> (pc = "idle")
    /\ (pc = "freePage" /\ (rootMemNode = NULL \/ addr < rootMemNode)) ~> (pc = "idle")

\* pmm.c implements the contract of pmm.h for the blocks callers hold.
Contract == INSTANCE PageSpec
ImplementsContract == Contract!Spec

-----------------------------------------------------------------------------
(* What comments say and the code does not do *)

\* "Iterate to the next chunk to see if the next one has space for the
\* allocation" (pmm.c:145): a search goes on past a chunk that is too small, and
\* so ends, with a chunk or with NULL.
EveryAllocReturns == (pc = "allocPage") ~> (pc = "idle")
=============================================================================
