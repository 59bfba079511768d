----------------------------- MODULE PmmProofs -----------------------------
(***************************************************************************)
(* Theorems about Pmm for every number of frames, frame size, word size    *)
(* and request bound.  The argument: the list has at most one chunk, the   *)
(* iterator of a call in progress points at it, and the frames of that     *)
(* chunk, of the blocks held and of the block being freed are apart.  The  *)
(* conjunction is inductive; none of its parts is, because a split keeps   *)
(* frames apart only when the chunk it cuts lies apart from every block.   *)
(* The counter follows from the same invariant: a run handed out or taken  *)
(* back shares nothing with the frames already counted.                    *)
(***************************************************************************)
EXTENDS Pmm, FiniteSetTheorems, TLAPS

\* The locals of a call in progress; between calls there are none.
Locals ==
    /\ pc = "idle" => addr = NULL /\ numOfPages = 0 /\ memChunkPtr = NULL
    /\ pc # "idle" => memChunkPtr = rootMemNode /\ numOfPages > 0
    /\ pc = "freePage" => addr \in Pages

IInv == TypeOK /\ OneHolder /\ ListIsOneChunk /\ Locals

\* A step brings no frame back that was in nobody's hands, and adds none to a
\* list that has some.
FramesKept ==
    /\ (Held \cup FreeRun \cup InTransit)' \subseteq Held \cup FreeRun \cup InTransit
    /\ FreeRun # {} => FreeRun' \subseteq FreeRun

-----------------------------------------------------------------------------

\* Dividing the bytes init_pmm found by the frame size gives the frames back.
LEMMA PagesOfMemFree == MemFree \div PageSize = NumPages
  BY PmmAssumption, PageFramesAssumption DEF MemFree

\* A 32-bit counter stays in its range whatever is added to it.
LEMMA WrapInRange == \A i \in Int : i % Word \in 0 .. Word - 1
  BY PmmAssumption

\* Frame numbers are integers above the null pointer.
LEMMA PagesAreInts == NULL = 0 /\ NULL \notin Pages /\ Pages \subseteq Int
  BY PageFramesAssumption DEF Pages, NULL

\* Held, element by element.
LEMMA HeldElement == \A p : p \in Held <=> \E b \in Pages : p \in Run(b, block[b])
  BY DEF Held

-----------------------------------------------------------------------------

\* After init_pmm all frames are in the one chunk of the list.
THEOREM InitInvariant == Init => IInv
<1> SUFFICES ASSUME Init PROVE IInv
  OBVIOUS
<1> USE PmmAssumption, PageFramesAssumption, PagesAreInts
<1>1. header[FirstPage] = [pageCount |-> NumPages, prev |-> NULL, next |-> NULL]
      /\ FirstPage \in Pages
  BY PagesOfMemFree DEF Init, Pages
<1>2. TypeOK
  BY <1>1, PagesOfMemFree, WrapInRange DEF Init, TypeOK, MemChunk, MemFree
<1>3. FreeRun = Pages
  BY <1>1 DEF Init, FreeRun, Run, Pages
<1>4. Held = {}
  BY HeldElement DEF Init, Run, Pages
<1>5. OneHolder
  BY <1>3, <1>4 DEF Init, OneHolder, InTransit, Run, Pages
<1>6. ListIsOneChunk
  BY <1>1 DEF Init, ListIsOneChunk, MemChunk
<1>7. Locals
  BY DEF Init, Locals
<1> QED
  BY <1>2, <1>5, <1>6, <1>7 DEF IInv

\* The same parts of the state, the same invariant.
LEMMA SameState ==
    ASSUME IInv, UNCHANGED vars
    PROVE  IInv' /\ FramesKept
  BY DEF IInv, vars, TypeOK, OneHolder, ListIsOneChunk, Locals, Held, FreeRun, InTransit, FramesKept

\* Entering allocPage sets the locals and touches no frame.
LEMMA CallAllocPageKeeps ==
    ASSUME IInv, NEW n \in 1 .. MaxRequest, CallAllocPage(n)
    PROVE  IInv' /\ FramesKept
<1> USE PmmAssumption, PageFramesAssumption
<1>1. UNCHANGED <<rootMemNode, header, block, Held, FreeRun>> /\ InTransit = {} /\ InTransit' = {}
  BY DEF CallAllocPage, Held, FreeRun, InTransit
<1>2. TypeOK'
  BY DEF IInv, TypeOK, CallAllocPage
<1>3. OneHolder'
  BY <1>1 DEF IInv, OneHolder
<1>4. ListIsOneChunk' /\ Locals'
  BY <1>1 DEF IInv, ListIsOneChunk, Locals, CallAllocPage
<1> QED
  BY <1>1, <1>2, <1>3, <1>4 DEF IInv, FramesKept

\* Finding no memory only ends the call.
LEMMA AllocNoMemoryKeeps ==
    ASSUME IInv, AllocNoMemory
    PROVE  IInv' /\ FramesKept
<1>1. UNCHANGED <<rootMemNode, header, block, Held, FreeRun>> /\ InTransit = {} /\ InTransit' = {}
  BY DEF AllocNoMemory, Return, Held, FreeRun, InTransit
<1>2. TypeOK'
  BY DEF IInv, TypeOK, AllocNoMemory, Return
<1>3. OneHolder'
  BY <1>1 DEF IInv, OneHolder
<1>4. ListIsOneChunk' /\ Locals'
  BY <1>1 DEF IInv, ListIsOneChunk, Locals, AllocNoMemory, Return
<1> QED
  BY <1>1, <1>2, <1>3, <1>4 DEF IInv, FramesKept

\* A block of n frames taken from unheld frames at b leaves blocks apart.
LEMMA NewBlock ==
    ASSUME TypeOK, OneHolder, NEW b \in Pages, NEW n \in Nat,
           block[b] = 0,
           Run(b, n) \subseteq Pages, Run(b, n) \cap Held = {},
           block' = [block EXCEPT ![b] = n]
    PROVE  /\ Held' = Held \cup Run(b, n)
           /\ \A a \in Pages : Run(a, block'[a]) \subseteq Pages
           /\ \A a, c \in Pages : a # c => Run(a, block'[a]) \cap Run(c, block'[c]) = {}
<1> USE PagesAreInts
<1>1. \A a \in Pages : block'[a] = IF a = b THEN n ELSE block[a]
  BY DEF TypeOK
<1>2. Run(b, 0) = {}
  BY DEF Run
<1>3. Held' = Held \cup Run(b, n)
  BY <1>1, <1>2 DEF Held
<1>4. \A a \in Pages : Run(a, block[a]) \subseteq Held
  BY HeldElement
<1>5. \A a \in Pages : Run(a, block'[a]) \subseteq Pages
  BY <1>1 DEF OneHolder
<1>6. ASSUME NEW a \in Pages, NEW c \in Pages, a # c
      PROVE  Run(a, block'[a]) \cap Run(c, block'[c]) = {}
  BY <1>1, <1>4, <1>6 DEF OneHolder
<1> QED
  BY <1>3, <1>5, <1>6

\* What an allocation finds: the chunk at the head, whole, with no block in it.
LEMMA HeadChunk ==
    ASSUME IInv, pc = "allocPage", memChunkPtr # NULL
    PROVE  /\ memChunkPtr = rootMemNode /\ rootMemNode \in Pages
           /\ header[rootMemNode] \in MemChunk
           /\ header[rootMemNode].pageCount \in Nat \ {0}
           /\ header[rootMemNode].prev = NULL /\ header[rootMemNode].next = NULL
           /\ FreeRun = Run(rootMemNode, header[rootMemNode].pageCount)
           /\ FreeRun \subseteq Pages /\ FreeRun \cap Held = {}
           /\ numOfPages \in Nat \ {0}
           /\ block[rootMemNode] = 0
<1>1. /\ memChunkPtr = rootMemNode /\ rootMemNode \in Pages
      /\ header[rootMemNode] \in MemChunk
      /\ header[rootMemNode].pageCount \in Nat \ {0}
      /\ header[rootMemNode].prev = NULL /\ header[rootMemNode].next = NULL
      /\ numOfPages \in Nat \ {0}
  BY DEF IInv, TypeOK, ListIsOneChunk, Locals, MemChunk
<1>2. FreeRun = Run(rootMemNode, header[rootMemNode].pageCount)
  BY <1>1 DEF FreeRun
<1>3. FreeRun \subseteq Pages /\ FreeRun \cap Held = {}
  BY DEF IInv, OneHolder
<1>4. rootMemNode \in FreeRun
  BY <1>1, <1>2, PagesAreInts DEF Run
<1>5. block[rootMemNode] = 0
  BY <1>1, <1>3, <1>4, HeldElement, PagesAreInts DEF Run, IInv, TypeOK
<1> QED
  BY <1>1, <1>2, <1>3, <1>5

\* An exact fit empties the list and hands the chunk over.
LEMMA AllocExactKeeps ==
    ASSUME IInv, AllocExact
    PROVE  IInv' /\ FramesKept
<1> USE PagesAreInts
<1>1. /\ pc = "allocPage" /\ memChunkPtr # NULL
      /\ header[memChunkPtr].pageCount = numOfPages
      /\ ReturnChunk
  BY DEF AllocExact
<1>2. TypeOK /\ OneHolder
  BY DEF IInv
<1>3. rootMemNode' = NULL /\ header' = header
  BY <1>1, HeadChunk DEF AllocExact
<1>4. FreeRun' = {} /\ InTransit' = {}
  BY <1>1, <1>3 DEF FreeRun, InTransit, ReturnChunk, Return
<1>5. /\ \A a \in Pages : Run(a, block'[a]) \subseteq Pages
      /\ \A a, c \in Pages : a # c => Run(a, block'[a]) \cap Run(c, block'[c]) = {}
  BY <1>1, <1>2, HeadChunk, NewBlock DEF ReturnChunk
<1>6. OneHolder'
  BY <1>4, <1>5 DEF OneHolder
<1>7. TypeOK'
  <2>1. MemUsed + numOfPages * PageSize \in Int
    BY <1>2, PmmAssumption DEF TypeOK
  <2>2. MemUsed' \in 0 .. Word - 1
    BY <1>1, <2>1, WrapInRange DEF ReturnChunk
  <2>3. block' \in [Pages -> Nat]
    BY <1>1, <1>2 DEF ReturnChunk, TypeOK
  <2> QED
    BY <1>1, <1>2, <1>3, <2>2, <2>3 DEF TypeOK, ReturnChunk, Return
<1>8. ListIsOneChunk' /\ Locals'
  BY <1>1, <1>3 DEF ListIsOneChunk, Locals, ReturnChunk, Return
<1>9. FramesKept
  <2>1. Held' = Held \cup FreeRun
    BY <1>1, <1>2, HeadChunk, NewBlock DEF ReturnChunk
  <2> QED
    BY <1>4, <2>1 DEF FramesKept
<1> QED
  BY <1>6, <1>7, <1>8, <1>9 DEF IInv

\* A run of m frames is one of n frames and the rest behind it.
LEMMA SplitRun ==
    ASSUME NEW b \in Int, NEW m \in Nat, NEW n \in Nat \ {0}, m > n
    PROVE  /\ Run(b, m) = Run(b, n) \cup Run(b + n, m - n)
           /\ Run(b, n) \cap Run(b + n, m - n) = {}
           /\ b + n \in Run(b, m)
<1>1. \A p \in Int : p \in Run(b, m) <=> p \in Run(b, n) \/ p \in Run(b + n, m - n)
  BY DEF Run
<1>2. \A p \in Int : ~(p \in Run(b, n) /\ p \in Run(b + n, m - n))
  BY DEF Run
<1>3. Run(b, m) \subseteq Int /\ Run(b, n) \subseteq Int /\ Run(b + n, m - n) \subseteq Int
  BY DEF Run
<1>4. b + n \in Run(b, m)
  BY DEF Run
<1> QED
  BY <1>1, <1>2, <1>3, <1>4, Zenon

\* A split hands over the head of the chunk and keeps its tail.
LEMMA AllocSplitKeeps ==
    ASSUME IInv, AllocSplit
    PROVE  IInv' /\ FramesKept
<1> USE PagesAreInts
<1> DEFINE count == header[rootMemNode].pageCount
           tail  == rootMemNode + numOfPages
<1>1. /\ pc = "allocPage" /\ memChunkPtr # NULL
      /\ header[memChunkPtr].pageCount > numOfPages
      /\ ReturnChunk
  BY DEF AllocSplit
<1>2. TypeOK /\ OneHolder
  BY DEF IInv
<1>3. count \in Nat /\ numOfPages \in Nat \ {0} /\ count > numOfPages /\ rootMemNode \in Int
  BY <1>1, HeadChunk
<1>4. FreeRun = Run(rootMemNode, numOfPages) \cup Run(tail, count - numOfPages)
      /\ Run(rootMemNode, numOfPages) \cap Run(tail, count - numOfPages) = {}
      /\ tail \in FreeRun
  <2>1. FreeRun = Run(rootMemNode, count)
    BY <1>1, HeadChunk
  <2> HIDE DEF count
  <2> QED
    BY <1>3, <2>1, SplitRun
<1>5. tail \in Pages
  BY <1>1, <1>4, HeadChunk
<1>6. /\ rootMemNode' = tail
      /\ header' = [header EXCEPT ![tail] = [pageCount |-> count - numOfPages, prev |-> NULL, next |-> NULL]]
  BY <1>1, HeadChunk DEF AllocSplit, ReplaceChunk, Remainder, BreakAddr
<1>7. header'[tail] = [pageCount |-> count - numOfPages, prev |-> NULL, next |-> NULL]
  BY <1>2, <1>5, <1>6 DEF TypeOK
<1>8. FreeRun' = Run(tail, count - numOfPages) /\ InTransit' = {}
  BY <1>1, <1>5, <1>6, <1>7 DEF FreeRun, InTransit, ReturnChunk, Return
<1>9. /\ Held' = Held \cup Run(rootMemNode, numOfPages)
      /\ \A a \in Pages : Run(a, block'[a]) \subseteq Pages
      /\ \A a, c \in Pages : a # c => Run(a, block'[a]) \cap Run(c, block'[c]) = {}
  BY <1>1, <1>2, <1>4, HeadChunk, NewBlock DEF ReturnChunk
<1>10. OneHolder'
  BY <1>1, <1>4, <1>8, <1>9, HeadChunk DEF OneHolder
<1>11. TypeOK'
  <2>1. MemUsed + numOfPages * PageSize \in Int
    BY <1>2, PmmAssumption DEF TypeOK
  <2>2. MemUsed' \in 0 .. Word - 1
    BY <1>1, <2>1, WrapInRange DEF ReturnChunk
  <2>3. block' \in [Pages -> Nat]
    BY <1>1, <1>2 DEF ReturnChunk, TypeOK
  <2>4. header' \in [Pages -> MemChunk \cup {Junk}]
    <3>1. [pageCount |-> count - numOfPages, prev |-> NULL, next |-> NULL] \in MemChunk
      BY <1>3 DEF MemChunk
    <3> QED
      BY <1>2, <1>5, <1>6, <3>1 DEF TypeOK
  <2> QED
    BY <1>1, <1>2, <1>5, <1>6, <2>2, <2>3, <2>4 DEF TypeOK, ReturnChunk, Return
<1>12. ListIsOneChunk'
  BY <1>3, <1>6, <1>7 DEF ListIsOneChunk, MemChunk
<1>13. Locals'
  BY <1>1 DEF Locals, ReturnChunk, Return
<1>14. FramesKept
  BY <1>4, <1>8, <1>9 DEF FramesKept
<1> QED
  BY <1>10, <1>11, <1>12, <1>13, <1>14 DEF IInv

\* A block given back leaves the map and is in transit.
LEMMA CallFreePageKeeps ==
    ASSUME IInv, NEW b \in Pages, CallFreePage(b)
    PROVE  IInv' /\ FramesKept
<1> USE PagesAreInts
<1>1. TypeOK /\ OneHolder
  BY DEF IInv
<1>2. \A a \in Pages : block'[a] = IF a = b THEN 0 ELSE block[a]
  BY <1>1 DEF CallFreePage, TypeOK
<1>3. Run(b, 0) = {}
  BY DEF Run
<1>4. InTransit' = Run(b, block[b]) /\ FreeRun' = FreeRun
  BY DEF CallFreePage, InTransit, FreeRun
<1>5. Held' \subseteq Held /\ Held' \cap Run(b, block[b]) = {}
  <2>1. ASSUME NEW p \in Held'
        PROVE  p \in Held /\ p \notin Run(b, block[b])
    <3>1. PICK a \in Pages : p \in Run(a, block'[a])
      BY DEF Held
    <3>2. a # b /\ p \in Run(a, block[a])
      BY <1>2, <1>3, <3>1
    <3> QED
      BY <1>1, <3>2, HeldElement DEF OneHolder
  <2> QED
    BY <2>1
<1>6. Run(b, block[b]) \subseteq Held
  BY HeldElement
<1>7. OneHolder'
  BY <1>1, <1>2, <1>3, <1>4, <1>5, <1>6 DEF OneHolder
<1>8. TypeOK' /\ ListIsOneChunk' /\ Locals'
  BY DEF IInv, TypeOK, ListIsOneChunk, Locals, CallFreePage
<1>9. FramesKept
  BY <1>4, <1>5, <1>6 DEF FramesKept
<1> QED
  BY <1>7, <1>8, <1>9 DEF IInv

\* What freePage finds: a block of frames apart from everything else.
LEMMA BlockInTransit ==
    ASSUME IInv, pc = "freePage"
    PROVE  /\ addr \in Pages /\ addr \in Int /\ numOfPages \in Nat \ {0}
           /\ InTransit = Run(addr, numOfPages) /\ addr \in InTransit
           /\ InTransit \subseteq Pages
           /\ InTransit \cap FreeRun = {} /\ InTransit \cap Held = {}
           /\ memChunkPtr = rootMemNode
<1>1. addr \in Pages /\ addr \in Int /\ numOfPages \in Nat \ {0} /\ memChunkPtr = rootMemNode
  BY PagesAreInts DEF IInv, TypeOK, Locals
<1>2. InTransit = Run(addr, numOfPages) /\ addr \in InTransit
  BY <1>1 DEF InTransit, Run
<1> QED
  BY <1>1, <1>2 DEF IInv, OneHolder

\* The counter and the locals after freePage returns have their types.
LEMMA ReturnFreedTypes ==
    ASSUME TypeOK, ReturnFreed
    PROVE  /\ MemUsed' \in 0 .. Word - 1
           /\ pc' = "idle" /\ addr' = NULL /\ numOfPages' = 0 /\ memChunkPtr' = NULL
           /\ InTransit' = {} /\ block' = block /\ Held' = Held
<1>1. MemUsed - numOfPages * PageSize \in Int
  BY PmmAssumption DEF TypeOK
<1> QED
  BY <1>1, WrapInRange DEF ReturnFreed, Return, InTransit, Held

\* The first block freed after memory ran out becomes the list.
LEMMA FreeIntoEmptyListKeeps ==
    ASSUME IInv, FreeIntoEmptyList
    PROVE  IInv' /\ FramesKept
<1> USE PagesAreInts
<1> DEFINE fresh == [pageCount |-> numOfPages, prev |-> NULL, next |-> NULL]
<1>1. /\ pc = "freePage" /\ rootMemNode' = addr
      /\ header' = [header EXCEPT ![addr] = fresh]
      /\ ReturnFreed
  BY DEF FreeIntoEmptyList
<1>2. TypeOK /\ OneHolder
  BY DEF IInv
<1>3. fresh \in MemChunk
  BY <1>1, BlockInTransit DEF MemChunk
<1>4. header'[addr] = fresh /\ header' \in [Pages -> MemChunk \cup {Junk}]
  BY <1>1, <1>2, <1>3, BlockInTransit DEF TypeOK
<1>5. TypeOK'
  BY <1>1, <1>2, <1>4, BlockInTransit, ReturnFreedTypes DEF TypeOK
<1>6. FreeRun' = InTransit
  BY <1>1, <1>4, BlockInTransit DEF FreeRun
<1>7. OneHolder'
  BY <1>1, <1>2, <1>6, BlockInTransit, ReturnFreedTypes DEF OneHolder
<1>8. ListIsOneChunk' /\ Locals'
  BY <1>1, <1>2, <1>3, <1>4, BlockInTransit, ReturnFreedTypes DEF ListIsOneChunk, Locals
<1>9. FramesKept
  <2>1. FreeRun = {}
    BY DEF FreeIntoEmptyList, FreeRun
  <2> QED
    BY <1>1, <1>6, <2>1, <1>2, ReturnFreedTypes DEF FramesKept
<1> QED
  BY <1>5, <1>7, <1>8, <1>9 DEF IInv

\* A block freed before the chunk gets a header, merged or not; the chunk at the
\* head of the list and its header stay as they were.
LEMMA FreeBeforeChunkKeeps ==
    ASSUME IInv, FreeBeforeChunk
    PROVE  IInv' /\ FramesKept
<1> USE PagesAreInts
<1> DEFINE fresh == [pageCount |-> numOfPages, prev |-> NULL, next |-> rootMemNode]
           freed == [header EXCEPT ![addr] = fresh]
           total == numOfPages + header[rootMemNode].pageCount
           merged == [pageCount |-> total, prev |-> NULL, next |-> NULL]
<1>1. /\ pc = "freePage" /\ rootMemNode # NULL /\ rootMemNode' = rootMemNode
      /\ header' = MergeChunks([header EXCEPT ![addr] = [pageCount |-> numOfPages,
                                  prev |-> header[rootMemNode].prev, next |-> rootMemNode]],
                                header[rootMemNode].prev, addr, rootMemNode)
      /\ ReturnFreed
  BY BlockInTransit DEF FreeBeforeChunk
<1>2. TypeOK /\ OneHolder /\ ListIsOneChunk
  BY DEF IInv
<1>3. /\ rootMemNode \in Pages /\ header[rootMemNode] \in MemChunk
      /\ header[rootMemNode].prev = NULL /\ header[rootMemNode].next = NULL
      /\ header[rootMemNode].pageCount \in Nat \ {0}
  BY <1>1, <1>2 DEF TypeOK, ListIsOneChunk, MemChunk
<1>4. addr # rootMemNode
  BY <1>1, <1>3, BlockInTransit DEF FreeRun, Run
<1>5. freed[addr] = fresh /\ freed[rootMemNode] = header[rootMemNode]
  BY <1>1, <1>2, <1>3, <1>4, BlockInTransit DEF TypeOK
<1>6. \E h \in MemChunk : header' = [header EXCEPT ![addr] = h]
  <2>1. header' = MergeChunks(freed, NULL, addr, rootMemNode)
    BY <1>1, <1>3
  <2>2. fresh \in MemChunk /\ merged \in MemChunk
    BY <1>1, <1>3, BlockInTransit DEF MemChunk
  <2>3. CASE addr + numOfPages = rootMemNode
    <3>1. header' = [freed EXCEPT ![addr].pageCount = @ + freed[rootMemNode].pageCount,
                                  ![addr].next = freed[rootMemNode].next]
      BY <1>1, <1>5, <2>1, <2>3 DEF MergeChunks
    <3>2. header' = [header EXCEPT ![addr] = merged]
      BY <1>1, <1>2, <1>3, <1>5, <3>1, BlockInTransit DEF TypeOK
    <3> QED
      BY <2>2, <3>2
  <2>4. CASE addr + numOfPages # rootMemNode
    <3>1. header' = freed
      BY <1>5, <2>1, <2>4 DEF MergeChunks
    <3> QED
      BY <2>2, <3>1
  <2> QED
    BY <2>3, <2>4
<1>7. header'[rootMemNode] = header[rootMemNode] /\ header' \in [Pages -> MemChunk \cup {Junk}]
  BY <1>2, <1>3, <1>4, <1>6 DEF TypeOK
<1>8. TypeOK'
  <2>1. ReturnFreed /\ rootMemNode' = rootMemNode
    BY <1>1
  <2> HIDE DEF fresh, freed, total, merged
  <2> QED
    BY <1>2, <1>7, <2>1, ReturnFreedTypes DEF TypeOK
<1>9. FreeRun' = FreeRun
  BY <1>1, <1>7 DEF FreeRun
<1>10. OneHolder'
  BY <1>1, <1>2, <1>9, ReturnFreedTypes DEF OneHolder
<1>11. ListIsOneChunk' /\ Locals'
  BY <1>1, <1>2, <1>7, ReturnFreedTypes DEF ListIsOneChunk, Locals
<1>12. ReturnFreed
  BY <1>1
<1>13. FramesKept
  BY <1>2, <1>9, <1>12, ReturnFreedTypes DEF FramesKept
<1> QED
  BY <1>8, <1>10, <1>11, <1>13 DEF IInv

\* The holder of a block writes in its own frames, so not in the chunk's header.
LEMMA OwnerWritesKeeps ==
    ASSUME IInv, NEW b \in Pages, OwnerWrites(b)
    PROVE  IInv' /\ FramesKept
<1>1. TypeOK /\ OneHolder /\ ListIsOneChunk
  BY DEF IInv
<1>2. UNCHANGED <<rootMemNode, MemUsed, block, pc, addr, numOfPages, memChunkPtr>>
      /\ header' = [p \in Pages |-> IF p \in Run(b, block[b]) THEN Junk ELSE header[p]]
  BY DEF OwnerWrites
<1>3. rootMemNode # NULL => rootMemNode \in FreeRun /\ rootMemNode \in Pages
  BY <1>1, PagesAreInts DEF FreeRun, Run, TypeOK, ListIsOneChunk, MemChunk
<1>4. rootMemNode # NULL => rootMemNode \notin Run(b, block[b])
  BY <1>1, <1>3, HeldElement DEF OneHolder
<1>5. rootMemNode # NULL => header'[rootMemNode] = header[rootMemNode]
  BY <1>2, <1>3, <1>4
<1>6. UNCHANGED <<Held, FreeRun, InTransit>>
  BY <1>2, <1>5 DEF Held, FreeRun, InTransit
<1>7. OneHolder'
  BY <1>1, <1>2, <1>6 DEF OneHolder
<1>8. TypeOK'
  BY <1>1, <1>2 DEF TypeOK
<1>9. ListIsOneChunk' /\ Locals'
  BY <1>1, <1>2, <1>5 DEF IInv, ListIsOneChunk, Locals
<1> QED
  BY <1>6, <1>7, <1>8, <1>9 DEF IInv, FramesKept

\* Every step of the allocator and of its callers keeps the invariant.
THEOREM StepInvariant == IInv /\ [Next]_vars => IInv' /\ FramesKept
<1> SUFFICES ASSUME IInv, [Next]_vars PROVE IInv' /\ FramesKept
  OBVIOUS
<1>1. CASE \E n \in 1 .. MaxRequest : CallAllocPage(n)
  BY <1>1, CallAllocPageKeeps
<1>2. CASE \E b \in Pages : CallFreePage(b)
  BY <1>2, CallFreePageKeeps
<1>3. CASE \E b \in Pages : OwnerWrites(b)
  BY <1>3, OwnerWritesKeeps
<1>4. CASE AllocPage
  <2>1. CASE AllocNoMemory
    BY <2>1, AllocNoMemoryKeeps
  <2>2. CASE AllocExact
    BY <2>2, AllocExactKeeps
  <2>3. CASE AllocSplit
    BY <2>3, AllocSplitKeeps
  <2>4. CASE AllocTooSmall
    BY <2>4, SameState DEF AllocTooSmall
  <2> QED
    BY <1>4, <2>1, <2>2, <2>3, <2>4 DEF AllocPage
<1>5. CASE FreePage
  <2>1. CASE FreeIntoEmptyList
    BY <2>1, FreeIntoEmptyListKeeps
  <2>2. CASE FreeBeforeChunk
    BY <2>2, FreeBeforeChunkKeeps
  <2>3. CASE FreeNotBefore
    BY <2>3, SameState DEF FreeNotBefore
  <2> QED
    BY <1>5, <2>1, <2>2, <2>3 DEF FreePage
<1>6. CASE UNCHANGED vars
  BY <1>6, SameState
<1> QED
  BY <1>1, <1>2, <1>3, <1>4, <1>5, <1>6 DEF Next

\* The inductive invariant holds in every reachable state.
THEOREM Invariant == Spec => []IInv
  BY InitInvariant, StepInvariant, PTL DEF Spec

\* The allocator's variables keep their types, whatever the callers do.
THEOREM TypeCorrect == Spec => []TypeOK
<1>1. IInv => TypeOK
  BY DEF IInv
<1> QED
  BY <1>1, Invariant, PTL

\* allocPage never gives a frame to two callers, and freePage never puts a frame
\* a caller holds back into the list.
THEOREM OneHolderAlways == Spec => []OneHolder
<1>1. IInv => OneHolder
  BY DEF IInv
<1> QED
  BY <1>1, Invariant, PTL

\* The list never has two chunks: the links and the code that follows them are
\* never used.
THEOREM OneChunkAlways == Spec => []ListIsOneChunk
<1>1. IInv => ListIsOneChunk
  BY DEF IInv
<1> QED
  BY <1>1, Invariant, PTL

\* A frame that is lost stays lost for ever: no call can link it back.
THEOREM LostForEver == Spec => LostStaysLost
<1>1. IInv /\ [Next]_vars => [Lost \subseteq Lost']_vars
  <2>1. Pages' = Pages
    BY DEF Pages
  <2> QED
    BY <2>1, StepInvariant DEF Lost, FramesKept
<1> QED
  BY <1>1, Invariant, PTL DEF Spec, LostStaysLost

\* While the list has a chunk it never gains a frame.
THEOREM NeverGrows == Spec => ReclaimedOnlyWhenEmpty
<1>1. IInv /\ [Next]_vars => [FreeRun # {} => FreeRun' \subseteq FreeRun]_vars
  BY StepInvariant DEF FramesKept
<1> QED
  BY <1>1, Invariant, PTL DEF Spec, ReclaimedOnlyWhenEmpty

-----------------------------------------------------------------------------
(* The contract of pmm.h *)

\* PageSpec, instantiated, speaks of the same frames, runs and blocks.
LEMMA ContractTerms ==
    /\ Contract!Pages = Pages
    /\ \A b, n : Contract!Run(b, n) = Run(b, n)
    /\ Contract!Held = Held
  BY DEF Contract!Pages, Pages, Contract!Run, Run, Contract!Held, Held

\* Every step is a step of PageSpec, or leaves the blocks alone.
LEMMA StepContract == IInv /\ [Next]_vars => [Contract!Next]_block
<1> SUFFICES ASSUME IInv, Next, block' # block
             PROVE  Contract!Next
  BY DEF vars
<1> USE PagesAreInts, ContractTerms
<1>2. ASSUME NEW b \in Pages, CallFreePage(b)
      PROVE  Contract!Next
  <2>1. Contract!Release(b)
    BY <1>2 DEF CallFreePage, Contract!Release, IInv, TypeOK
  <2> QED
    BY <2>1 DEF Contract!Next
<1>3. ASSUME pc = "allocPage", memChunkPtr # NULL,
             header[memChunkPtr].pageCount >= numOfPages, ReturnChunk
      PROVE  Contract!Next
  <2>1. /\ rootMemNode \in Pages /\ numOfPages \in Nat \ {0}
        /\ header[rootMemNode].pageCount \in Nat
        /\ header[rootMemNode].pageCount >= numOfPages
    BY <1>3, HeadChunk
  <2>2. Run(rootMemNode, numOfPages) \subseteq FreeRun
    BY <1>3, <2>1, HeadChunk DEF Run
  <2>3. Contract!Grab(rootMemNode, numOfPages)
    BY <1>3, <2>2, HeadChunk DEF Contract!Grab, ReturnChunk
  <2>4. numOfPages \in 1 .. NumPages
    <3>1. rootMemNode + numOfPages - 1 \in Pages /\ rootMemNode \in Pages
      BY <1>3, <2>1, <2>2, HeadChunk DEF Run
    <3> QED
      BY <2>1, <3>1, PageFramesAssumption DEF Pages
  <2> QED
    BY <2>1, <2>3, <2>4 DEF Contract!Next
<1>4. CASE AllocPage
  <2>1. CASE AllocExact
    BY <1>3, <2>1, HeadChunk DEF AllocExact
  <2>2. CASE AllocSplit
    <3>1. header[memChunkPtr].pageCount >= numOfPages
      BY <2>2, HeadChunk DEF AllocSplit
    <3> QED
      BY <1>3, <2>2, <3>1 DEF AllocSplit
  <2> QED
    BY <1>4, <2>1, <2>2 DEF AllocPage, AllocNoMemory, AllocTooSmall, vars
<1>5. CASE FreePage
  BY <1>5, ReturnFreedTypes DEF IInv, FreePage, FreeIntoEmptyList, FreeBeforeChunk, FreeNotBefore,
     vars, ReturnFreed
<1> QED
  BY <1>2, <1>4, <1>5 DEF Next, CallAllocPage, OwnerWrites

\* pmm.c implements PageSpec.
THEOREM Implements == Spec => ImplementsContract
<1>1. Init => Contract!Init
  BY ContractTerms DEF Init, Contract!Init
<1> QED
  BY <1>1, Invariant, StepContract, PTL DEF Spec, ImplementsContract, Contract!Spec

-----------------------------------------------------------------------------
(* The counter *)

\* The frames that are a caller's, or were until freePage was called.
Taken == Held \cup InTransit

\* The counter at any time: freePage takes off what it took back as it returns.
Counter == MemUsed = (SysMem - MemFree + PageSize * Cardinality(Taken)) % Word

\* A number is its quotient and its remainder, and has no other.
LEMMA Remainders ==
    /\ \A x \in Int : x % Word \in 0 .. Word - 1 /\ \E q \in Int : x = Word * q + (x % Word)
    /\ \A q \in Int : \A r \in 0 .. Word - 1 : (Word * q + r) % Word = r
<1> USE PmmAssumption
<1>1. \A x \in Int : x % Word \in 0 .. Word - 1 /\ x \div Word \in Int /\ x = Word * (x \div Word) + (x % Word)
  OBVIOUS
<1>2. ASSUME NEW q \in Int, NEW r \in 0 .. Word - 1 PROVE (Word * q + r) % Word = r
  <2> DEFINE x == Word * q + r
             p == x \div Word
             s == x % Word
  <2>1. x \in Int /\ x = Word * q + r
    OBVIOUS
  <2> HIDE DEF x
  <2>2. p \in Int /\ s \in 0 .. Word - 1 /\ x = Word * p + s
    BY <1>1, <2>1
  <2> HIDE DEF p, s
  <2>3. p = q
    <3>1. CASE p < q
      <4>1. Word * (p + 1) <= Word * q /\ Word * (p + 1) = Word * p + Word
        BY <2>2, <3>1
      <4> QED
        BY <2>1, <2>2, <4>1
    <3>2. CASE p > q
      <4>1. Word * (q + 1) <= Word * p /\ Word * (q + 1) = Word * q + Word
        BY <2>2, <3>2
      <4> QED
        BY <2>1, <2>2, <4>1
    <3> QED
      BY <2>2, <3>1, <3>2
  <2>4. s = r
    BY <2>1, <2>2, <2>3
  <2> QED
    BY <2>4 DEF s, x
<1> QED
  BY <1>1, <1>2

\* Wrapping a counter before adding to it changes nothing.
LEMMA WrapTwice == \A x, y \in Int : ((x % Word) + y) % Word = (x + y) % Word
<1> USE PmmAssumption
<1> SUFFICES ASSUME NEW x \in Int, NEW y \in Int PROVE ((x % Word) + y) % Word = (x + y) % Word
  OBVIOUS
<1>1. PICK p \in Int : x = Word * p + (x % Word)
  BY Remainders
<1>2. (x % Word) + y \in Int /\ x % Word \in Int
  BY Remainders
<1>3. PICK q \in Int : (x % Word) + y = Word * q + (((x % Word) + y) % Word)
  BY <1>2, Remainders
<1> DEFINE r == ((x % Word) + y) % Word
           m == x % Word
<1>4. r \in 0 .. Word - 1 /\ m + y = Word * q + r /\ x = Word * p + m /\ m \in Int
  BY <1>1, <1>2, <1>3, Remainders
<1> HIDE DEF r, m
<1>5. Word * (p + q) = Word * p + Word * q /\ Word * p \in Int /\ Word * q \in Int
  OBVIOUS
<1>6. x + y = Word * (p + q) + r
  BY <1>4, <1>5
<1>7. p + q \in Int
  OBVIOUS
<1> HIDE DEF r
<1>8. (Word * (p + q) + r) % Word = r
  BY <1>4, <1>7, Remainders
<1> QED
  BY <1>6, <1>8 DEF r

\* The frames taken lie in memory, and so are finitely many.
LEMMA TakenAreFinite == ASSUME IInv PROVE IsFiniteSet(Taken) /\ Cardinality(Taken) \in Nat
<1>1. Taken \subseteq Pages
  BY HeldElement DEF IInv, OneHolder, Taken
<1>2. IsFiniteSet(Pages)
  BY PageFramesAssumption, FS_Interval DEF Pages
<1>3. IsFiniteSet(Taken)
  BY <1>1, <1>2, FS_Subset
<1> QED
  BY <1>3, FS_CardinalityType

\* A run has as many frames as it says.
LEMMA RunCounts ==
    ASSUME NEW b \in Int, NEW n \in Nat
    PROVE  IsFiniteSet(Run(b, n)) /\ Cardinality(Run(b, n)) = n
<1>1. b + n - 1 \in Int
  OBVIOUS
<1>2. IsFiniteSet(b .. b + n - 1) /\ Cardinality(b .. b + n - 1) = IF b > b + n - 1 THEN 0 ELSE (b + n - 1) - b + 1
  BY <1>1, FS_Interval
<1> QED
  BY <1>2 DEF Run

\* Sets that share nothing, counted together.
LEMMA CountBoth ==
    ASSUME NEW S, NEW T, IsFiniteSet(S), IsFiniteSet(T), S \cap T = {}
    PROVE  Cardinality(S \cup T) = Cardinality(S) + Cardinality(T)
<1>1. /\ Cardinality(S \cup T) = Cardinality(S) + Cardinality(T) - Cardinality(S \cap T)
      /\ Cardinality(S) \in Nat /\ Cardinality(T) \in Nat
  BY FS_Union, FS_CardinalityType
<1>2. Cardinality(S \cap T) = 0
  BY FS_EmptySet
<1> QED
  BY <1>1, <1>2

\* The frames of a chunk that is handed out are taken, and counted.
LEMMA ReturnChunkCounts ==
    ASSUME IInv, Counter, pc = "allocPage", memChunkPtr # NULL,
           header[memChunkPtr].pageCount >= numOfPages, ReturnChunk
    PROVE  Counter'
<1> DEFINE run == Run(rootMemNode, numOfPages)
<1>1. /\ memChunkPtr = rootMemNode /\ rootMemNode \in Pages /\ rootMemNode \in Int
      /\ numOfPages \in Nat /\ block[rootMemNode] = 0 /\ run \subseteq FreeRun
      /\ FreeRun \subseteq Pages /\ FreeRun \cap Held = {}
  <2>1. /\ memChunkPtr = rootMemNode /\ rootMemNode \in Pages /\ rootMemNode \in Int
        /\ numOfPages \in Nat /\ block[rootMemNode] = 0
        /\ FreeRun \subseteq Pages /\ FreeRun \cap Held = {}
    BY HeadChunk, PagesAreInts
  <2>2. run \subseteq FreeRun
    BY <2>1, HeadChunk DEF Run
  <2> QED
    BY <2>1, <2>2
<1>2. Held' = Held \cup run
  BY <1>1, NewBlock DEF IInv, ReturnChunk
<1>3. Taken = Held /\ Taken' = Taken \cup run /\ Taken \cap run = {}
  BY <1>1, <1>2 DEF Taken, InTransit, ReturnChunk, Return
<1>4. IsFiniteSet(Taken) /\ Cardinality(Taken) \in Nat /\ IsFiniteSet(run) /\ Cardinality(run) = numOfPages
  BY <1>1, TakenAreFinite, RunCounts
<1> HIDE DEF run
<1>5. Cardinality(Taken)' = Cardinality(Taken) + numOfPages
  BY <1>3, <1>4, CountBoth
<1> DEFINE c == Cardinality(Taken)
           x == SysMem - MemFree + PageSize * c
           y == numOfPages * PageSize
<1>6. SysMem \in Int /\ MemFree \in Int /\ PageSize \in Int
  BY PmmAssumption, PageFramesAssumption DEF MemFree
<1>7. x \in Int /\ y \in Int
  BY <1>1, <1>4, <1>6
<1>8. MemUsed' = ((x % Word) + y) % Word
  BY DEF Counter, ReturnChunk
<1>9. SysMem - MemFree + PageSize * (c + numOfPages) = x + y
  <2>1. c \in Int
    BY <1>4
  <2> HIDE DEF c
  <2>2. PageSize * (c + numOfPages) = PageSize * c + numOfPages * PageSize
    BY <1>1, <1>6, <2>1
  <2> QED
    BY <1>1, <1>6, <2>1, <2>2
<1> HIDE DEF c, x, y
<1>10. MemUsed' = (x + y) % Word
  BY <1>7, <1>8, WrapTwice
<1>11. Cardinality(Taken)' = c + numOfPages
  BY <1>5 DEF c
<1>12. MemUsed' = (SysMem - MemFree + PageSize * Cardinality(Taken)') % Word
  BY <1>9, <1>10, <1>11
<1> QED
  BY <1>12 DEF Counter, MemFree

\* The frames of a block taken back are taken no more, and counted off.
LEMMA ReturnFreedCounts ==
    ASSUME IInv, Counter, pc = "freePage", ReturnFreed
    PROVE  Counter'
<1> DEFINE run == Run(addr, numOfPages)
<1>1. /\ addr \in Int /\ numOfPages \in Nat /\ InTransit = run /\ InTransit \cap Held = {}
  BY BlockInTransit
<1>2. Taken' = Held /\ Taken = Held \cup run /\ Held \cap run = {}
  BY <1>1, ReturnFreedTypes DEF Taken, IInv
<1>3. IsFiniteSet(Taken) /\ Cardinality(Taken) \in Nat /\ IsFiniteSet(run) /\ Cardinality(run) = numOfPages
  BY <1>1, TakenAreFinite, RunCounts
<1>4. IsFiniteSet(Held) /\ Cardinality(Held) \in Nat
  BY <1>2, <1>3, FS_Subset, FS_CardinalityType
<1> HIDE DEF run
<1>5. Cardinality(Taken) = Cardinality(Held) + numOfPages /\ Cardinality(Taken)' = Cardinality(Held)
  BY <1>2, <1>3, <1>4, CountBoth
<1> DEFINE c == Cardinality(Held)
           x == SysMem - MemFree + PageSize * Cardinality(Taken)
           y == -(numOfPages * PageSize)
<1>6. SysMem \in Int /\ MemFree \in Int /\ PageSize \in Int
  BY PmmAssumption, PageFramesAssumption DEF MemFree
<1>7. x \in Int /\ y \in Int
  BY <1>1, <1>3, <1>6
<1>8. MemUsed' = ((x % Word) + y) % Word
  <2>1. MemUsed' = (MemUsed - numOfPages * PageSize) % Word /\ MemUsed = x % Word /\ MemUsed \in Int
    BY PmmAssumption DEF Counter, ReturnFreed, IInv, TypeOK
  <2>2. MemUsed - numOfPages * PageSize = MemUsed + y
    BY <1>1, <1>6, <2>1
  <2> QED
    BY <2>1, <2>2
<1>9. x + y = SysMem - MemFree + PageSize * c
  <2>1. c \in Int /\ x = SysMem - MemFree + PageSize * (c + numOfPages)
    BY <1>4, <1>5
  <2> HIDE DEF c, x
  <2>2. PageSize * (c + numOfPages) = PageSize * c + numOfPages * PageSize
    BY <1>1, <1>6, <2>1
  <2> QED
    BY <1>1, <1>6, <2>1, <2>2
<1> HIDE DEF c, x, y
<1>10. MemUsed' = (x + y) % Word
  BY <1>7, <1>8, WrapTwice
<1>11. Cardinality(Taken)' = c
  BY <1>5 DEF c
<1>12. MemUsed' = (SysMem - MemFree + PageSize * Cardinality(Taken)') % Word
  BY <1>9, <1>10, <1>11
<1> QED
  BY <1>12 DEF Counter, MemFree

\* A step that takes nothing and gives nothing back leaves the counter alone.
LEMMA NothingTaken == ASSUME Counter, MemUsed' = MemUsed, Taken' = Taken PROVE Counter'
  BY DEF Counter, MemFree

\* Every step keeps the counter.
LEMMA StepCounter == IInv /\ Counter /\ [Next]_vars => Counter'
<1> SUFFICES ASSUME IInv, Counter, [Next]_vars PROVE Counter'
  OBVIOUS
<1>1. ASSUME NEW n \in 1 .. MaxRequest, CallAllocPage(n) PROVE Counter'
  BY <1>1, NothingTaken DEF CallAllocPage, Taken, Held, InTransit
<1>2. ASSUME NEW b \in Pages, CallFreePage(b) PROVE Counter'
  <2>1. TypeOK /\ OneHolder /\ InTransit = {} /\ InTransit' = Run(b, block[b]) /\ MemUsed' = MemUsed
    BY <1>2 DEF IInv, CallFreePage, InTransit
  <2>2. \A a \in Pages : block'[a] = IF a = b THEN 0 ELSE block[a]
    BY <1>2, <2>1 DEF CallFreePage, TypeOK
  <2>3. Run(b, 0) = {}
    BY PagesAreInts DEF Run
  <2>4. \A p : p \in Held <=> p \in Held' \/ p \in Run(b, block[b])
    <3>1. \A p : p \in Held' <=> \E a \in Pages : p \in Run(a, block'[a])
      BY DEF Held
    <3> QED
      BY <2>2, <2>3, <3>1, HeldElement
  <2>5. Taken' = Taken
    BY <2>1, <2>4 DEF Taken
  <2> QED
    BY <2>1, <2>5, NothingTaken
<1>3. ASSUME NEW b \in Pages, OwnerWrites(b) PROVE Counter'
  BY <1>3, NothingTaken DEF OwnerWrites, Taken, Held, InTransit
<1>4. CASE AllocNoMemory
  BY <1>4, NothingTaken DEF AllocNoMemory, Return, Taken, Held, InTransit
<1>5. CASE AllocExact
  BY <1>5, HeadChunk, ReturnChunkCounts DEF AllocExact
<1>6. CASE AllocSplit
  <2>1. header[memChunkPtr].pageCount >= numOfPages
    BY <1>6, HeadChunk DEF AllocSplit
  <2> QED
    BY <1>6, <2>1, ReturnChunkCounts DEF AllocSplit
<1>7. CASE FreeIntoEmptyList \/ FreeBeforeChunk
  BY <1>7, ReturnFreedCounts DEF FreeIntoEmptyList, FreeBeforeChunk
<1>8. CASE AllocTooSmall \/ FreeNotBefore \/ UNCHANGED vars
  BY <1>8, NothingTaken DEF AllocTooSmall, FreeNotBefore, vars, Taken, Held, InTransit
<1> QED
  BY <1>1, <1>2, <1>3, <1>4, <1>5, <1>6, <1>7, <1>8 DEF Next, AllocPage, FreePage

\* The counter of pmm.c is what init_pmm set and the bytes callers hold, on 32
\* bits: what freePage loses is not counted.
THEOREM CounterIsRight == Spec => []MemUsedCountsHeld
<1>1. Init => Counter
  <2> SUFFICES ASSUME Init PROVE Counter
    OBVIOUS
  <2>1. Run(FirstPage, 0) = {} /\ \A b \in Pages : Run(b, 0) = {}
    BY PagesAreInts, PageFramesAssumption DEF Run
  <2>2. Taken = {}
    BY <2>1, HeldElement DEF Init, Taken, InTransit
  <2>3. PageSize * Cardinality(Taken) = 0 /\ SysMem - MemFree \in Int
    BY <2>2, FS_EmptySet, PmmAssumption, PageFramesAssumption DEF MemFree
  <2> QED
    BY <2>3 DEF Init, Counter
<1>2. Counter => MemUsedCountsHeld
  BY DEF Counter, MemUsedCountsHeld, Taken, InTransit
<1> QED
  BY <1>1, <1>2, Invariant, StepCounter, PTL DEF Spec

====
