------------------------------ MODULE LibAlloc ------------------------------
(***************************************************************************)
(* The heap of liballoc.c.  Each run of frames obtained from the page      *)
(* hooks of malloc.c is cut into blocks headed by boundary tags, which are *)
(* linked twice: split_left and split_right lead to the neighbours in the  *)
(* run, next and prev to the free tags of the same size class.             *)
(*                                                                         *)
(* The lock hooks are empty and the kernel has one thread, so calls do not *)
(* interleave; the loops of malloc and free take one step an iteration.    *)
(* The page hooks keep the contract of PageSpec: they hand out any run of  *)
(* frames nobody holds, or NULL (frames that freePage lost are not told    *)
(* apart from frames in use), or never return, as allocPage and freePage   *)
(* do when their list's head does not suit them: no fairness is assumed of *)
(* them.  A tag is identified with its address; the words of a tag that    *)
(* was melted into its neighbour are not kept, since no pointer leads to   *)
(* them.                                                                   *)
(***************************************************************************)
EXTENDS PageFrames, FiniteSets

CONSTANTS
    l_pageSize,    \* bytes of a frame: 4096
    l_pageCount,   \* least number of frames asked for at once: 16
    TagSize,       \* sizeof(struct boundary_tag): 32
    MINEXP,        \* exponent of the smallest size class: 8
    MAXEXP,        \* exponents are below this: 32
    MAXCOMPLETE,   \* whole runs kept for each size class: 5
    Sizes          \* bound: the sizes callers ask for

ASSUME LibAllocAssumption ==
    /\ l_pageSize \in Nat \ {0} /\ l_pageCount \in Nat \ {0}
    /\ TagSize \in Nat \ {0} /\ TagSize < l_pageSize
    /\ MINEXP \in Nat /\ MAXEXP \in Nat /\ MINEXP < MAXEXP
    /\ l_pageCount * l_pageSize - TagSize >= 2 ^ MINEXP
    /\ MAXCOMPLETE \in Nat
    /\ Sizes \subseteq Nat      \* sums of sizes stay below 2^32

Addresses == FirstPage * l_pageSize .. (FirstPage + NumPages) * l_pageSize - 1

Classes == MINEXP .. MAXEXP - 1

VARIABLES
    tags,              \* the boundary tags in use, by address
    l_freePages,       \* first free tag of each size class
    l_completePages,   \* how many of them are whole runs
    block,             \* frames held, see PageSpec
    live,              \* blocks callers hold, see HeapSpec
    pc,                \* where the call in progress is, "idle" between calls
    caller,            \* the entry point: malloc, calloc, realloc or free
    tag,               \* the local of malloc and of free
    size,              \* parameter of malloc
    oldptr,            \* parameter p of realloc
    ptr                \* what malloc returned to calloc or realloc

heap == <<tags, l_freePages, l_completePages, block>>
locals == <<caller, tag, size, oldptr, ptr>>
vars == <<tags, l_freePages, l_completePages, block, live, pc, caller, tag, size, oldptr, ptr>>

Init ==
    /\ tags = [t \in {} |-> NULL]
    /\ l_freePages = [i \in Classes |-> NULL]
    /\ l_completePages = [i \in Classes |-> 0]
    /\ block = [b \in Pages |-> 0]
    /\ live = [q \in {} |-> 0]
    /\ pc = "idle"
    /\ caller = "none" /\ tag = NULL /\ size = 0 /\ oldptr = NULL /\ ptr = NULL

-----------------------------------------------------------------------------
(* Helpers.  A pair h of tags and list heads goes through them as through  *)
(* the statements of the code.                                             *)

\* The exponent of the size class of n bytes, -1 below the smallest.
getexp(n) ==
    IF n < 2 ^ MINEXP
    THEN -1
    ELSE (CHOOSE s \in MINEXP .. MAXEXP :
             /\ s = MAXEXP \/ 2 ^ s > n
             /\ \A r \in MINEXP .. s - 1 : ~(2 ^ r > n)) - 1

\* The class in which malloc looks for n bytes, and to which free returns them.
Class(n) == IF getexp(n) < MINEXP THEN MINEXP ELSE getexp(n)

Lists == [tags |-> tags, free |-> l_freePages]

\* f with the value v at k, a place it did not have.
Added(f, k, v) == [x \in DOMAIN f \cup {k} |-> IF x = k THEN v ELSE f[x]]

\* Mutant: the list's first tag is not linked back to the tag put before it.
insert_tag_oneway(h, t) ==
    LET i == Class(h.tags[t].real_size - TagSize)
    IN [tags |-> [h.tags EXCEPT ![t].index = i, ![t].next = h.free[i]],
        free |-> [h.free EXCEPT ![i] = t]]

\* Tag t becomes the first of the list of its class.
insert_tag(h, t) ==
    LET i     == Class(h.tags[t].real_size - TagSize)
        first == h.free[i]
        tagged == [h.tags EXCEPT ![t].index = i]
    IN [tags |-> IF first = NULL
                 THEN tagged
                 ELSE [tagged EXCEPT ![first].prev = t, ![t].next = first],
        free |-> [h.free EXCEPT ![i] = t]]

\* Mutant: the head of the list still leads to the tag.
remove_tag_kept(h, t) ==
    LET tg == h.tags[t]
        h1 == IF tg.prev # NULL THEN [h.tags EXCEPT ![tg.prev].next = tg.next] ELSE h.tags
        h2 == IF tg.next # NULL THEN [h1 EXCEPT ![tg.next].prev = tg.prev] ELSE h1
    IN [tags |-> [h2 EXCEPT ![t].next = NULL, ![t].prev = NULL, ![t].index = -1],
        free |-> h.free]

\* Tag t leaves its list.
remove_tag(h, t) ==
    LET tg == h.tags[t]
        h1 == IF tg.prev # NULL THEN [h.tags EXCEPT ![tg.prev].next = tg.next] ELSE h.tags
        h2 == IF tg.next # NULL THEN [h1 EXCEPT ![tg.next].prev = tg.prev] ELSE h1
    IN [tags |-> [h2 EXCEPT ![t].next = NULL, ![t].prev = NULL, ![t].index = -1],
        free |-> IF h.free[tg.index] = t
                 THEN [h.free EXCEPT ![tg.index] = tg.next]
                 ELSE h.free]

\* Mutant: the tag after b is not linked back to a.
JoinTwo(ts, a, b) ==
    LET joined == [ts EXCEPT ![a].real_size = @ + ts[b].real_size,
                             ![a].split_right = ts[b].split_right]
    IN [t \in DOMAIN ts \ {b} |-> joined[t]]

\* Tag b is joined to its left neighbour a, and its words are no longer a tag.
Join(ts, a, b) ==
    LET right  == ts[b].split_right
        joined == [ts EXCEPT ![a].real_size = @ + ts[b].real_size,
                             ![a].split_right = right]
        linked == IF right # NULL THEN [joined EXCEPT ![right].split_left = a] ELSE joined
    IN [t \in DOMAIN ts \ {b} |-> linked[t]]

\* The bytes of tag t after the first n are headed by a tag of their own, which
\* is free.
split_tag(h, t, n) ==
    LET new   == t + TagSize + n
        right == h.tags[t].split_right
        rest  == [size |-> 0, real_size |-> h.tags[t].real_size - TagSize - n, index |-> -1,
                  split_left |-> t, split_right |-> right, next |-> NULL, prev |-> NULL]
        linked == IF right # NULL THEN [h.tags EXCEPT ![right].split_left = new] ELSE h.tags
        cut   == [linked EXCEPT ![t].split_right = new, ![t].real_size = @ - rest.real_size]
    IN insert_tag([tags |-> Added(cut, new, rest), free |-> h.free], new)

\* Mutant: the rest is split off at a word, below the end of the block.
CarveWords(h, t, n) ==
    LET sized     == [h EXCEPT !.tags[t].size = n]
        remainder == h.tags[t].real_size - n - 2 * TagSize
    IN IF remainder > 0 /\ getexp(remainder) >= 0
       THEN split_tag(sized, t, n - (n % 4))
       ELSE sized

\* malloc gives n bytes of tag t to the caller, and splits off the rest when it
\* has room for a tag and for the smallest class.
Carve(h, t, n) ==
    LET sized     == [h EXCEPT !.tags[t].size = n]
        remainder == h.tags[t].real_size - n - 2 * TagSize
    IN IF remainder > 0 /\ getexp(remainder) >= 0 THEN split_tag(sized, t, n) ELSE sized

Whole(tg) == tg.split_left = NULL /\ tg.split_right = NULL

SetLists(h) == tags' = h.tags /\ l_freePages' = h.free

\* The frames asked for to hold n bytes, and returned with a run of that size.
PagesFor(n) ==
    LET pages == n \div l_pageSize + (IF n % l_pageSize # 0 THEN 1 ELSE 0)
    IN IF pages < l_pageCount THEN l_pageCount ELSE pages

EndCall ==
    /\ pc' = "idle"
    /\ caller' = "none" /\ tag' = NULL /\ size' = 0 /\ oldptr' = NULL /\ ptr' = NULL

-----------------------------------------------------------------------------
(* malloc *)

\* The statements of malloc before its loop.
EnterMalloc(n) ==
    /\ pc' = "search"
    /\ size' = n
    /\ tag' = l_freePages[Class(n)]
    /\ ptr' = NULL
    /\ UNCHANGED <<heap, live>>

CallMalloc(n) ==
    /\ pc = "idle"
    /\ EnterMalloc(n)
    /\ caller' = "malloc"
    /\ UNCHANGED oldptr

\* calloc asks malloc for the product of its parameters.
CallCalloc(n) ==
    /\ pc = "idle"
    /\ EnterMalloc(n)
    /\ caller' = "calloc"
    /\ UNCHANGED oldptr

\* malloc returns q, or NULL: to its caller, or into calloc or realloc.
ReturnFromMalloc(q) ==
    /\ live' = IF q = NULL THEN live ELSE Added(live, q, size)
    /\ IF caller = "malloc"
       THEN EndCall
       ELSE /\ pc' = "fill"
            /\ ptr' = q
            /\ UNCHANGED <<caller, tag, size, oldptr>>

Fits(tg) == tg.real_size - TagSize >= size + TagSize

\* Mutant: the search starts again.
NextTagAgain == l_freePages[Class(size)]

NextTag == tags[tag].next

\* The tag is too small: on to the next of its class.
SearchNext ==
    /\ pc = "search" /\ tag # NULL
    /\ ~Fits(tags[tag])
    /\ tag' = NextTag
    /\ UNCHANGED <<heap, live, pc, caller, size, oldptr, ptr>>

\* Mutant: a whole run that is handed out is still counted.
CountTakenNever == l_completePages

\* One whole run fewer stands by when the tag taken is one.
CountTaken ==
    IF Whole(tags[tag]) THEN [l_completePages EXCEPT ![Class(size)] = @ - 1] ELSE l_completePages

\* The tag is large enough: it leaves its list, whole runs are counted, and the
\* rest of it is split off.
TakeFreeTag ==
    /\ pc = "search" /\ tag # NULL
    /\ Fits(tags[tag])
    /\ SetLists(Carve(remove_tag(Lists, tag), tag, size))
    /\ l_completePages' = CountTaken
    /\ ReturnFromMalloc(tag + TagSize)
    /\ UNCHANGED block

Held == UNION {Run(b, block[b]) : b \in Pages}

\* The tag allocate_new_tag puts on a run of n frames for the request.
NewTag(n) ==
    [size |-> size, real_size |-> n * l_pageSize, index |-> -1,
     split_left |-> NULL, split_right |-> NULL, next |-> NULL, prev |-> NULL]

\* No tag of the class fits: a new run of frames, b, headed by a tag.
TakeNewPages(b) ==
    /\ pc = "search" /\ tag = NULL
    /\ LET pages == PagesFor(size + TagSize)
           new   == b * l_pageSize
       IN /\ Run(b, pages) \subseteq Pages /\ Run(b, pages) \cap Held = {}
          /\ block' = [block EXCEPT ![b] = pages]
          /\ SetLists(Carve([Lists EXCEPT !.tags = Added(@, new, NewTag(pages))], new, size))
          /\ ReturnFromMalloc(new + TagSize)
    /\ UNCHANGED l_completePages

\* No tag of the class fits and the page hook returns NULL, as allocPage does
\* when its list is empty (be it that freePage lost the frames): so does malloc.
NoPages ==
    /\ pc = "search" /\ tag = NULL
    /\ ReturnFromMalloc(NULL)
    /\ UNCHANGED heap

-----------------------------------------------------------------------------
(* free, of a pointer that malloc returned; one whose tag does not hold the *)
(* magic number is ignored                                                  *)

EnterFree(q) ==
    /\ pc' = "free"
    /\ tag' = q - TagSize
    /\ live' = [r \in DOMAIN live \ {q} |-> live[r]]
    /\ UNCHANGED heap

CallFree(q) ==
    /\ pc = "idle"
    /\ EnterFree(q)
    /\ caller' = "free"
    /\ UNCHANGED <<size, oldptr, ptr>>

IsFree(t) == t # NULL /\ tags[t].index >= 0

\* Mutant: the right neighbour is not looked at.
RightNotLookedAt == FALSE

LeftIsFree  == IsFree(tags[tag].split_left)
RightIsFree == IsFree(tags[tag].split_right)

\* The left neighbour is free: it takes the tag over and leaves its list.
MeltLeft ==
    /\ pc = "free"
    /\ LeftIsFree
    /\ LET left == tags[tag].split_left
       IN /\ SetLists(remove_tag([Lists EXCEPT !.tags = Join(@, left, tag)], left))
          /\ tag' = left
    /\ UNCHANGED <<l_completePages, block, live, pc, caller, size, oldptr, ptr>>

\* The right neighbour is free: it leaves its list and is taken over.
AbsorbRight ==
    /\ pc = "free"
    /\ ~LeftIsFree /\ RightIsFree
    /\ LET right   == tags[tag].split_right
           removed == remove_tag(Lists, right)
       IN SetLists([removed EXCEPT !.tags = Join(@, tag, right)])
    /\ UNCHANGED <<l_completePages, block, live, pc, caller, tag, size, oldptr, ptr>>

TagClass == Class(tags[tag].real_size - TagSize)

\* Enough whole runs of this class stand by: the run goes back to the page hook.
IsSurplus == Whole(tags[tag]) /\ l_completePages[TagClass] = MAXCOMPLETE

\* Mutant: one frame too few goes back.
ReturnedPagesShort == PagesFor(tags[tag].real_size) - 1

ReturnedPages == PagesFor(tags[tag].real_size)

ReleasePages ==
    /\ pc = "free"
    /\ ~LeftIsFree /\ ~RightIsFree
    /\ IsSurplus
    /\ block' = [block EXCEPT ![tag \div l_pageSize] = @ - ReturnedPages]
    /\ tags' = [t \in DOMAIN tags \ {tag} |-> tags[t]]
    /\ EndCall
    /\ UNCHANGED <<l_freePages, l_completePages, live>>

\* The tag joins the list of its class; a whole run is counted.
KeepTag ==
    /\ pc = "free"
    /\ ~LeftIsFree /\ ~RightIsFree
    /\ ~IsSurplus
    /\ SetLists(insert_tag(Lists, tag))
    /\ l_completePages' = IF Whole(tags[tag])
                          THEN [l_completePages EXCEPT ![TagClass] = @ + 1]
                          ELSE l_completePages
    /\ EndCall
    /\ UNCHANGED <<block, live>>

-----------------------------------------------------------------------------
(* realloc, and the ends of calloc and realloc *)

\* realloc of a block to n bytes: 0 bytes frees it, NULL is malloc.
CallRealloc(q, n) ==
    /\ pc = "idle"
    /\ IF n = 0
       THEN /\ EnterFree(q)
            /\ UNCHANGED <<size, oldptr, ptr>>
       ELSE /\ EnterMalloc(n)
            /\ oldptr' = q
    /\ caller' = "realloc"

\* calloc clears the bytes it asked for, at the pointer malloc returned.
Clear ==
    /\ pc = "fill" /\ caller = "calloc"
    /\ EndCall
    /\ UNCHANGED <<heap, live>>

\* realloc copies what both blocks hold to the pointer malloc returned, then
\* frees the old block.
CopyAndFree ==
    /\ pc = "fill" /\ caller = "realloc"
    /\ EnterFree(oldptr)
    /\ UNCHANGED <<caller, size, oldptr, ptr>>

MallocStep == SearchNext \/ TakeFreeTag \/ (\E b \in Pages : TakeNewPages(b)) \/ NoPages

FreeStep == MeltLeft \/ AbsorbRight \/ ReleasePages \/ KeepTag

\* The call waits in a page hook, for a new run or to give a surplus one back.
InPageHook ==
    \/ pc = "search" /\ tag = NULL
    \/ pc = "free" /\ ~LeftIsFree /\ ~RightIsFree /\ IsSurplus

Step == MallocStep \/ FreeStep \/ Clear \/ CopyAndFree

Next ==
    \/ \E n \in Sizes : CallMalloc(n) \/ CallCalloc(n)
    \/ \E q \in DOMAIN live : CallFree(q) \/ \E n \in Sizes : CallRealloc(q, n)
    \/ Step

\* A call that was made keeps executing: there is one thread and no interrupt.
\* Nothing is promised of the page hooks, in which it may stay for ever.
Spec == Init /\ [][Next]_vars /\ WF_vars(~InPageHook /\ Step)

-----------------------------------------------------------------------------
(* What should hold *)

Tag == [size : Nat, real_size : Nat, index : Classes \cup {-1},
        split_left : Addresses \cup {NULL}, split_right : Addresses \cup {NULL},
        next : Addresses \cup {NULL}, prev : Addresses \cup {NULL}]

\* Every variable has its type, and every pointer that the code would follow
\* leads to a tag in use.
TypeOK ==
    /\ DOMAIN tags \subseteq Addresses
    /\ \A t \in DOMAIN tags : tags[t] \in Tag
    /\ l_freePages \in [Classes -> DOMAIN tags \cup {NULL}]
    /\ l_completePages \in [Classes -> 0 .. MAXCOMPLETE]
    /\ block \in [Pages -> Nat]
    /\ \A q \in DOMAIN live : q - TagSize \in DOMAIN tags /\ live[q] \in Nat
    /\ pc \in {"idle", "search", "fill", "free"}
    /\ caller \in {"none", "malloc", "calloc", "realloc", "free"}
    /\ tag \in DOMAIN tags \cup {NULL}
    /\ size \in Nat
    /\ oldptr \in DOMAIN live \cup {NULL} \/ (caller = "realloc" /\ pc = "free")
    /\ ptr \in DOMAIN live \cup {NULL}

RunStart(b) == b * l_pageSize
RunEnd(b)   == (b + block[b]) * l_pageSize
Runs        == {b \in Pages : block[b] > 0}
TagEnd(t)   == t + tags[t].real_size

\* The tags tile every run of frames held: each byte belongs to one tag, and the
\* split links lead from each tag to the ones before and after it in its run.
\* split_tag, melt_left and absorb_right each rewrite up to three tags, and
\* forgetting the third (the neighbour's neighbour) shows only calls later.
Tiling ==
    /\ \A b \in Runs : RunStart(b) \in DOMAIN tags
    /\ \A t \in DOMAIN tags :
          LET tg == tags[t]
          IN /\ \E b \in Runs : RunStart(b) <= t /\ TagEnd(t) <= RunEnd(b)
             /\ ~\E u \in DOMAIN tags : t < u /\ u < TagEnd(t)
             /\ tg.split_right = (IF \E b \in Runs : TagEnd(t) = RunEnd(b) /\ RunStart(b) <= t
                                  THEN NULL ELSE TagEnd(t))
             /\ tg.split_right # NULL =>
                   tg.split_right \in DOMAIN tags /\ tags[tg.split_right].split_left = t
             /\ (tg.split_left = NULL) <=> (\E b \in Runs : t = RunStart(b))

\* The tags met from the head of the list of class i, NULL after the last.
Walk(i) ==
    LET met[n \in 0 .. Cardinality(DOMAIN tags)] ==
          IF n = 0 THEN l_freePages[i]
          ELSE LET before == met[n - 1] IN IF before = NULL THEN NULL ELSE tags[before].next
    IN met

\* The list of each class ends, leads back by prev to where it came from, and
\* holds the free tags of that class and no other.
FreeListsHoldFreeTags ==
    \A i \in Classes :
        LET met == Walk(i)
            n   == Cardinality(DOMAIN tags)
        IN /\ met[n] = NULL
           /\ {met[k] : k \in 0 .. n} \ {NULL} =
                 {t \in DOMAIN tags : tags[t].index = i}
           /\ \A k \in 1 .. n : met[k] # NULL => tags[met[k]].prev = met[k - 1]
           /\ met[0] # NULL => tags[met[0]].prev = NULL
           /\ \A t \in DOMAIN tags :
                 tags[t].index = i => i = Class(tags[t].real_size - TagSize)

\* Two neighbours are never both free: what is freed is joined with what is free
\* on either side, whatever the order in which blocks were freed.
Coalesced ==
    \A t \in DOMAIN tags : ~(IsFree(t) /\ IsFree(tags[t].split_right))

\* l_completePages counts the whole runs on each list: if it drifted, runs would
\* be kept for ever or returned too early, many calls after the mistake.
CompletePagesCounted ==
    \A i \in Classes :
        l_completePages[i] =
            Cardinality({t \in DOMAIN tags : tags[t].index = i /\ Whole(tags[t])})

\* A tag that is in no list belongs to a block a caller holds, or to the one
\* being freed, and has room for it: no sequence of calls leaks a tag.
UsedTagsAreHeld ==
    /\ {t \in DOMAIN tags : tags[t].index = -1} =
          {q - TagSize : q \in DOMAIN live} \cup (IF pc = "free" THEN {tag} ELSE {})
    /\ \A q \in DOMAIN live : tags[q - TagSize].real_size >= TagSize + live[q]

HeapContract == INSTANCE HeapSpec
PageContract == INSTANCE PageSpec

\* malloc, free and realloc keep the promise of HeapSpec to their callers, and
\* keep that of PageSpec towards the page hooks: a run goes back where it came
\* from and whole.
KeepsContracts == HeapContract!Spec /\ PageContract!Spec

\* Every call returns, or waits for a page hook: the lists malloc follows end,
\* and so do the two loops that join neighbours.  A hook that answers brings the
\* call back under the same promise, up to its end or to the next hook.
CallsReturn == (pc # "idle") ~> (pc = "idle" \/ InPageHook)
=============================================================================
