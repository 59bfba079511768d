--------------------------- MODULE LibAllocProofs ---------------------------
(***************************************************************************)
(* Proofs about the heap, for every memory, frame size, tag size, range of *)
(* size classes, number of whole runs kept and set of sizes asked for.     *)
(*                                                                         *)
(* The properties of LibAlloc speak of whole runs and whole lists, which a *)
(* step changes in a few tags.  The invariant says the same tag by tag:    *)
(* Laid of where a tag and its neighbours lie, Listed of its links, and    *)
(* Ends, that the tags of a list can be ranked, each above the next; that  *)
(* Walk ends and meets every tag follows from the ranks at the end.  Sized *)
(* and Parted say which list a tag is in and that no two neighbours are in *)
(* lists, HeldTags and Locals relate the tags in no list to the blocks of  *)
(* the callers and to the call in progress.                                *)
(*                                                                         *)
(* The lemmas before the invariant are about a map T of tags, heads F of   *)
(* lists and a map B of runs: what removing, inserting, joining, splitting *)
(* and releasing tags does to them.  A step of malloc or free is one or    *)
(* two of these.                                                           *)
(***************************************************************************)
EXTENDS LibAlloc, FiniteSetTheorems, WellFoundedInduction, TLAPS

\* A map from addresses to tags.
Typed(T) == DOMAIN T \subseteq Addresses /\ T \in [DOMAIN T -> Tag]

\* The lists, tag by tag: a tag that is in none has no links, and the links of a
\* tag that is in one lead both ways between tags of its class.
Listed(T, F) ==
    /\ F \in [Classes -> DOMAIN T \cup {NULL}]
    /\ \A i \in Classes : F[i] # NULL => T[F[i]].index = i /\ T[F[i]].prev = NULL
    /\ \A t \in DOMAIN T :
          LET tg == T[t]
          IN /\ tg.index = -1 => tg.next = NULL /\ tg.prev = NULL
             /\ tg.index # -1 /\ tg.prev = NULL => F[tg.index] = t
             /\ tg.prev # NULL =>
                   tg.prev \in DOMAIN T /\ T[tg.prev].next = t /\ T[tg.prev].index = tg.index
             /\ tg.next # NULL =>
                   tg.next \in DOMAIN T /\ T[tg.next].prev = t /\ T[tg.next].index = tg.index

\* Every list ends: its tags can be ranked, each above the next.
Ranks(T, n, rank) ==
    /\ rank \in [DOMAIN T -> 0 .. n]
    /\ \A t \in DOMAIN T : T[t].next # NULL => rank[T[t].next] < rank[t]

Ends(T) == \E n \in Nat : \E rank \in [DOMAIN T -> 0 .. n] : Ranks(T, n, rank)

\* The tags, in their lists.
Linked(T, F) == Typed(T) /\ Listed(T, F) /\ Ends(T)

\* Two maps whose tags lie in the same places and are as large.
SameShape(T, U) ==
    /\ DOMAIN U = DOMAIN T
    /\ \A t \in DOMAIN T :
          /\ U[t].real_size = T[t].real_size
          /\ U[t].split_left = T[t].split_left /\ U[t].split_right = T[t].split_right

-----------------------------------------------------------------------------
\* The null pointer is no address.
LEMMA NoAddressIsNull == Addresses \subseteq Nat \ {NULL}
<1>1. FirstPage * l_pageSize \in Nat \ {0}
  BY PageFramesAssumption, LibAllocAssumption
<1> QED
  BY <1>1 DEF Addresses, NULL

\* A set of natural numbers that is not empty has a least element.
LEMMA LeastElement ==
    ASSUME NEW S \in SUBSET Nat, S # {}
    PROVE  \E m \in S : \A k \in S : m <= k
<1>1. PICK m \in S : \A k \in S : ~(<<k, m>> \in OpToRel(<, Nat))
  BY WFMin, NatLessThanWellFounded, Zenon
<1>2. \A k \in S : ~(k < m)
  BY <1>1, Zenon DEF OpToRel
<1> QED
  BY <1>2

\* getexp gives a size class whenever it gives one at all, and Class always does.
LEMMA ClassIsAClass ==
    ASSUME NEW n \in Int
    PROVE  getexp(n) \in Classes \cup {-1} /\ Class(n) \in Classes
<1> USE LibAllocAssumption
<1> DEFINE S == {s \in MINEXP .. MAXEXP : s = MAXEXP \/ 2 ^ s > n}
<1>1. CASE n < 2 ^ MINEXP
  BY <1>1 DEF getexp, Class, Classes
<1>2. CASE ~(n < 2 ^ MINEXP)
  <2>1. S \in SUBSET Nat /\ S # {}
    <3>1. MAXEXP \in S
      OBVIOUS
    <3> QED
      BY <3>1
  <2>2. PICK m \in S : \A k \in S : m <= k
    BY <2>1, LeastElement
  <2>3. \A r \in MINEXP .. m - 1 : ~(2 ^ r > n)
    <3> TAKE r \in MINEXP .. m - 1
    <3> SUFFICES ASSUME 2 ^ r > n PROVE FALSE
      OBVIOUS
    <3>1. r \in S
      OBVIOUS
    <3> QED
      BY <2>2, <3>1
  <2> DEFINE P(s) == (s = MAXEXP \/ 2 ^ s > n) /\ \A r \in MINEXP .. s - 1 : ~(2 ^ r > n)
             s0 == CHOOSE s \in MINEXP .. MAXEXP : P(s)
  <2>4. s0 \in MINEXP .. MAXEXP /\ P(s0)
    BY <2>2, <2>3
  <2>5. s0 # MINEXP
    BY <1>2, <2>4
  <2>6. getexp(n) = s0 - 1
    BY <1>2 DEF getexp
  <2> HIDE DEF s0
  <2>7. s0 - 1 \in Classes
    BY <2>4, <2>5 DEF Classes
  <2> QED
    BY <2>6, <2>7 DEF Class, Classes
<1> QED
  BY <1>1, <1>2

\* Tags that are in no list come and go without touching the lists.
LEMMA LinksKept ==
    ASSUME NEW T, NEW F, NEW U, Linked(T, F), Typed(U),
           \A t \in DOMAIN T \ DOMAIN U : T[t].index = -1,
           \A t \in DOMAIN U :
              IF t \in DOMAIN T
              THEN U[t].index = T[t].index /\ U[t].next = T[t].next /\ U[t].prev = T[t].prev
              ELSE U[t].index = -1 /\ U[t].next = NULL /\ U[t].prev = NULL
    PROVE  Linked(U, F)
<1> USE DEF Linked
<1>1. \A t \in DOMAIN T : T[t].index # -1 => t \in DOMAIN U
  OBVIOUS
<1>2. -1 \notin Classes
  BY LibAllocAssumption DEF Classes
<1>3. \A i \in Classes : F[i] # NULL => F[i] \in DOMAIN U
  BY <1>1, <1>2 DEF Listed
<1>4. F \in [Classes -> DOMAIN U \cup {NULL}]
  BY <1>3 DEF Listed
<1>5. \A t \in DOMAIN U : U[t].next # NULL \/ U[t].prev # NULL => t \in DOMAIN T /\ T[t].index # -1
  BY DEF Listed
<1>6. Listed(U, F)
  BY <1>1, <1>2, <1>3, <1>4, <1>5 DEF Listed
<1>7. Ends(U)
  <2>1. PICK n \in Nat : \E rank \in [DOMAIN T -> 0 .. n] : Ranks(T, n, rank)
    BY DEF Ends
  <2>2. PICK rank \in [DOMAIN T -> 0 .. n] : Ranks(T, n, rank)
    BY <2>1
  <2> DEFINE r2 == [t \in DOMAIN U |-> IF t \in DOMAIN T THEN rank[t] ELSE 0]
  <2>3. r2 \in [DOMAIN U -> 0 .. n]
    OBVIOUS
  <2>4. \A t \in DOMAIN U : U[t].next # NULL => r2[U[t].next] < r2[t]
    <3> TAKE t \in DOMAIN U
    <3> HAVE U[t].next # NULL
    <3>1. t \in DOMAIN T /\ U[t].next = T[t].next
      BY <1>5
    <3>2. U[t].next \in DOMAIN U /\ U[t].next \in DOMAIN T
      BY <1>6, <3>1 DEF Listed
    <3> QED
      BY <2>2, <3>1, <3>2 DEF Ranks
  <2> QED
    BY <2>3, <2>4 DEF Ends, Ranks
<1> QED
  BY <1>6, <1>7

\* remove_tag takes the tag out of its list, and keeps the other lists and where
\* the tags lie.
LEMMA RemoveTag ==
    ASSUME NEW T, NEW F, NEW t \in DOMAIN T, Linked(T, F), T[t].index # -1
    PROVE  LET r == remove_tag([tags |-> T, free |-> F], t)
           IN /\ Linked(r.tags, r.free) /\ SameShape(T, r.tags)
              /\ \A u \in DOMAIN T : r.tags[u].index = IF u = t THEN -1 ELSE T[u].index
<1> DEFINE r  == remove_tag([tags |-> T, free |-> F], t)
           U  == r.tags
           G  == r.free
           tg == T[t]
           i  == tg.index
<1> USE DEF Linked
<1>1. tg \in Tag /\ i \in Classes /\ -1 \notin Classes /\ NULL \notin DOMAIN T
  BY NoAddressIsNull, LibAllocAssumption DEF Typed, Tag, Classes
<1>2. /\ tg.prev # NULL => tg.prev \in DOMAIN T /\ T[tg.prev].next = t /\ T[tg.prev].index = i
      /\ tg.next # NULL => tg.next \in DOMAIN T /\ T[tg.next].prev = t /\ T[tg.next].index = i
  BY DEF Listed
<1>3. tg.prev # t /\ tg.next # t
  <2>1. tg.next # t
    <3>1. PICK n \in Nat : \E rank \in [DOMAIN T -> 0 .. n] : Ranks(T, n, rank)
      BY DEF Ends
    <3>2. PICK rank \in [DOMAIN T -> 0 .. n] : Ranks(T, n, rank)
      BY <3>1
    <3> QED
      BY <1>1, <1>2, <3>2 DEF Ranks
  <2> QED
    BY <1>1, <1>2, <2>1
<1>4. /\ U \in [DOMAIN T -> Tag] /\ DOMAIN U = DOMAIN T
      /\ \A u \in DOMAIN T :
            /\ U[u].size = T[u].size /\ U[u].real_size = T[u].real_size
            /\ U[u].split_left = T[u].split_left /\ U[u].split_right = T[u].split_right
            /\ U[u].index = IF u = t THEN -1 ELSE T[u].index
            /\ U[u].next = IF u = t THEN NULL ELSE IF u = tg.prev THEN tg.next ELSE T[u].next
            /\ U[u].prev = IF u = t THEN NULL ELSE IF u = tg.next THEN tg.prev ELSE T[u].prev
  <2> DEFINE h1 == IF tg.prev # NULL THEN [T EXCEPT ![tg.prev].next = tg.next] ELSE T
             h2 == IF tg.next # NULL THEN [h1 EXCEPT ![tg.next].prev = tg.prev] ELSE h1
  <2>1. tg.prev \in Addresses \cup {NULL} /\ tg.next \in Addresses \cup {NULL} /\ T \in [DOMAIN T -> Tag]
    BY <1>1 DEF Typed, Tag
  <2>2. /\ h1 \in [DOMAIN T -> Tag]
        /\ \A u \in DOMAIN T :
              /\ h1[u].size = T[u].size /\ h1[u].real_size = T[u].real_size
              /\ h1[u].split_left = T[u].split_left /\ h1[u].split_right = T[u].split_right
              /\ h1[u].index = T[u].index /\ h1[u].prev = T[u].prev
              /\ h1[u].next = IF u = tg.prev THEN tg.next ELSE T[u].next
    BY <1>1, <1>2, <2>1 DEF Tag
  <2> HIDE DEF h1
  <2>3. /\ h2 \in [DOMAIN T -> Tag]
        /\ \A u \in DOMAIN T :
              /\ h2[u].size = T[u].size /\ h2[u].real_size = T[u].real_size
              /\ h2[u].split_left = T[u].split_left /\ h2[u].split_right = T[u].split_right
              /\ h2[u].index = T[u].index
              /\ h2[u].next = IF u = tg.prev THEN tg.next ELSE T[u].next
              /\ h2[u].prev = IF u = tg.next THEN tg.prev ELSE T[u].prev
    BY <1>1, <1>2, <2>1, <2>2 DEF Tag
  <2>4. U = [h2 EXCEPT ![t].next = NULL, ![t].prev = NULL, ![t].index = -1]
    BY DEF remove_tag, h1
  <2> HIDE DEF h2, U
  <2> QED
    BY <2>3, <2>4 DEF Tag
<1>5. G = IF F[i] = t THEN [F EXCEPT ![i] = tg.next] ELSE F
  BY DEF remove_tag
<1> HIDE DEF U, G, r
<1>6. Typed(U) /\ SameShape(T, U)
  BY <1>4 DEF Typed, SameShape
<1>7. G \in [Classes -> DOMAIN U \cup {NULL}]
  BY <1>1, <1>2, <1>4, <1>5 DEF Listed
<1>8. \A j \in Classes : G[j] # NULL => U[G[j]].index = j /\ U[G[j]].prev = NULL
  <2> SUFFICES ASSUME NEW j \in Classes, G[j] # NULL PROVE U[G[j]].index = j /\ U[G[j]].prev = NULL
    OBVIOUS
  <2>1. CASE F[i] = t /\ j = i
    <3>1. G[j] = tg.next /\ tg.prev = NULL
      BY <1>5, <2>1, <1>1 DEF Listed
    <3> QED
      BY <1>2, <1>3, <1>4, <2>1, <3>1
  <2>2. CASE F[i] # t \/ j # i
    <3>1. G[j] = F[j] /\ F[j] \in DOMAIN T /\ T[F[j]].index = j /\ T[F[j]].prev = NULL
      BY <1>5, <2>2, <1>1 DEF Listed
    <3>2. F[j] # t
      BY <2>2, <3>1
    <3>3. F[j] # tg.next
      BY <1>1, <1>2, <3>1
    <3> QED
      BY <1>4, <3>1, <3>2, <3>3
  <2> QED
    BY <2>1, <2>2
<1>9. \A u \in DOMAIN U :
         /\ U[u].index = -1 => U[u].next = NULL /\ U[u].prev = NULL
         /\ U[u].index # -1 /\ U[u].prev = NULL => G[U[u].index] = u
  <2> SUFFICES ASSUME NEW u \in DOMAIN U
               PROVE  /\ U[u].index = -1 => U[u].next = NULL /\ U[u].prev = NULL
                      /\ U[u].index # -1 /\ U[u].prev = NULL => G[U[u].index] = u
    OBVIOUS
  <2>1. U[u].index = -1 => U[u].next = NULL /\ U[u].prev = NULL
    BY <1>1, <1>2, <1>4 DEF Listed
  <2>2. ASSUME U[u].index # -1, U[u].prev = NULL PROVE G[U[u].index] = u
    <3>1. u # t /\ u \in DOMAIN T /\ U[u].index = T[u].index /\ T[u].index \in Classes
      BY <1>4, <2>2 DEF Tag
    <3>2. CASE u = tg.next
      <4>1. tg.prev = NULL /\ T[u].index = i
        BY <1>1, <1>2, <1>4, <2>2, <3>1, <3>2
      <4>2. F[i] = t
        BY <1>1, <4>1 DEF Listed
      <4> QED
        BY <1>1, <1>5, <3>1, <3>2, <4>1, <4>2 DEF Listed
    <3>3. CASE u # tg.next
      <4>1. F[T[u].index] = u
        BY <1>4, <2>2, <3>1, <3>3 DEF Listed
      <4> QED
        BY <1>1, <1>5, <3>1, <4>1 DEF Listed
    <3> QED
      BY <3>2, <3>3
  <2> QED
    BY <2>1, <2>2
<1>10. \A u \in DOMAIN U : U[u].prev # NULL =>
          U[u].prev \in DOMAIN U /\ U[U[u].prev].next = u /\ U[U[u].prev].index = U[u].index
  <2> SUFFICES ASSUME NEW u \in DOMAIN U, U[u].prev # NULL
               PROVE  U[u].prev \in DOMAIN U /\ U[U[u].prev].next = u /\ U[U[u].prev].index = U[u].index
    OBVIOUS
  <2>1. u # t /\ u \in DOMAIN T
    BY <1>4
  <2>2. CASE u = tg.next
    BY <1>1, <1>2, <1>3, <1>4, <2>1, <2>2
  <2>3. CASE u # tg.next
    <3>1. U[u].prev = T[u].prev /\ T[u].prev \in DOMAIN T /\ T[T[u].prev].next = u /\ T[T[u].prev].index = T[u].index
      BY <1>4, <2>1, <2>3 DEF Listed
    <3>2. T[u].prev # t /\ T[u].prev # tg.prev
      BY <1>1, <1>2, <2>1, <2>3, <3>1
    <3> QED
      BY <1>4, <2>1, <3>1, <3>2
  <2> QED
    BY <2>2, <2>3
<1>11. \A u \in DOMAIN U : U[u].next # NULL =>
          U[u].next \in DOMAIN U /\ U[U[u].next].prev = u /\ U[U[u].next].index = U[u].index
  <2> SUFFICES ASSUME NEW u \in DOMAIN U, U[u].next # NULL
               PROVE  U[u].next \in DOMAIN U /\ U[U[u].next].prev = u /\ U[U[u].next].index = U[u].index
    OBVIOUS
  <2>1. u # t /\ u \in DOMAIN T
    BY <1>4
  <2>2. CASE u = tg.prev
    BY <1>1, <1>2, <1>3, <1>4, <2>1, <2>2
  <2>3. CASE u # tg.prev
    <3>1. U[u].next = T[u].next /\ T[u].next \in DOMAIN T /\ T[T[u].next].prev = u /\ T[T[u].next].index = T[u].index
      BY <1>4, <2>1, <2>3 DEF Listed
    <3>2. T[u].next # t /\ T[u].next # tg.next
      BY <1>1, <1>2, <2>1, <2>3, <3>1
    <3> QED
      BY <1>4, <2>1, <3>1, <3>2
  <2> QED
    BY <2>2, <2>3
<1>12. Listed(U, G)
  BY <1>7, <1>8, <1>9, <1>10, <1>11 DEF Listed
<1>13. Ends(U)
  <2>1. PICK n \in Nat : \E rank \in [DOMAIN T -> 0 .. n] : Ranks(T, n, rank)
    BY DEF Ends
  <2>2. PICK rank \in [DOMAIN T -> 0 .. n] : Ranks(T, n, rank)
    BY <2>1
  <2>3. \A u \in DOMAIN T : U[u].next # NULL => rank[U[u].next] < rank[u]
    <3> SUFFICES ASSUME NEW u \in DOMAIN T, U[u].next # NULL PROVE rank[U[u].next] < rank[u]
      OBVIOUS
    <3>1. u # t
      BY <1>4
    <3>2. CASE u = tg.prev
      <4>1. rank[tg.next] < rank[t] /\ rank[t] < rank[u] /\ U[u].next = tg.next
        BY <1>1, <1>2, <1>4, <2>2, <3>1, <3>2 DEF Ranks
      <4>2. rank[t] \in Int /\ rank[u] \in Int /\ rank[tg.next] \in Int
        BY <1>1, <1>2, <1>4, <3>1, <3>2, <2>2
      <4> QED
        BY <4>1, <4>2
    <3>3. CASE u # tg.prev
      BY <1>4, <2>2, <3>1, <3>3 DEF Ranks
    <3> QED
      BY <3>2, <3>3
  <2>4. Ranks(U, n, rank)
    BY <1>4, <2>2, <2>3 DEF Ranks
  <2> QED
    BY <1>4, <2>4 DEF Ends
<1>14. \A u \in DOMAIN T : U[u].index = IF u = t THEN -1 ELSE T[u].index
  BY <1>4
<1> QED
  BY <1>6, <1>12, <1>13, <1>14 DEF U, G, r

\* insert_tag puts a tag that is in no list at the head of the list of its
\* class, and keeps the other lists and where the tags lie.
LEMMA InsertTag ==
    ASSUME NEW T, NEW F, NEW t \in DOMAIN T, Linked(T, F), T[t].index = -1
    PROVE  LET r == insert_tag([tags |-> T, free |-> F], t)
           IN /\ Linked(r.tags, r.free) /\ SameShape(T, r.tags)
              /\ \A u \in DOMAIN T :
                    r.tags[u].index = IF u = t THEN Class(T[t].real_size - TagSize) ELSE T[u].index
<1> DEFINE r  == insert_tag([tags |-> T, free |-> F], t)
           U  == r.tags
           G  == r.free
           i  == Class(T[t].real_size - TagSize)
           f  == F[i]
<1> USE DEF Linked
<1>1. T[t] \in Tag /\ i \in Classes /\ -1 \notin Classes /\ NULL \notin DOMAIN T
  <2>1. T[t] \in Tag /\ T[t].real_size - TagSize \in Int
    BY LibAllocAssumption DEF Typed, Tag
  <2> QED
    BY <2>1, NoAddressIsNull, LibAllocAssumption, ClassIsAClass DEF Typed, Classes
<1> HIDE DEF i
<1>2. f \in DOMAIN T \cup {NULL} /\ (f # NULL => T[f].index = i /\ T[f].prev = NULL) /\ f # t
  BY <1>1 DEF Listed
<1>3. T[t].next = NULL /\ T[t].prev = NULL
  BY DEF Listed
<1>4. /\ U \in [DOMAIN T -> Tag] /\ DOMAIN U = DOMAIN T
      /\ \A u \in DOMAIN T :
            /\ U[u].size = T[u].size /\ U[u].real_size = T[u].real_size
            /\ U[u].split_left = T[u].split_left /\ U[u].split_right = T[u].split_right
            /\ U[u].index = IF u = t THEN i ELSE T[u].index
            /\ U[u].next = IF u = t THEN f ELSE T[u].next
            /\ U[u].prev = IF u = f THEN t ELSE T[u].prev
  <2>1. T \in [DOMAIN T -> Tag] /\ t \in Addresses /\ DOMAIN T \subseteq Addresses
    BY DEF Typed
  <2> DEFINE tagged == [T EXCEPT ![t].index = i]
  <2>2. U = IF f = NULL THEN tagged ELSE [tagged EXCEPT ![f].prev = t, ![t].next = f]
    BY DEF insert_tag, i
  <2>3. /\ tagged \in [DOMAIN T -> Tag]
        /\ \A u \in DOMAIN T :
              /\ tagged[u].size = T[u].size /\ tagged[u].real_size = T[u].real_size
              /\ tagged[u].split_left = T[u].split_left /\ tagged[u].split_right = T[u].split_right
              /\ tagged[u].index = IF u = t THEN i ELSE T[u].index
              /\ tagged[u].next = T[u].next /\ tagged[u].prev = T[u].prev
    BY <1>1, <2>1 DEF Tag
  <2> HIDE DEF tagged, U
  <2>4. CASE f = NULL
    BY <1>1, <1>3, <2>2, <2>3, <2>4
  <2>5. CASE f # NULL
    <3>1. f \in DOMAIN T /\ f # t /\ U = [tagged EXCEPT ![f].prev = t, ![t].next = f]
      BY <1>2, <2>2, <2>5
    <3> DEFINE e1 == [tagged EXCEPT ![f].prev = t]
    <3>2. U = [e1 EXCEPT ![t].next = f] /\ f \in Addresses
      BY <2>1, <3>1
    <3>3. /\ e1 \in [DOMAIN T -> Tag]
          /\ \A u \in DOMAIN T :
                /\ e1[u].size = T[u].size /\ e1[u].real_size = T[u].real_size
                /\ e1[u].split_left = T[u].split_left /\ e1[u].split_right = T[u].split_right
                /\ e1[u].index = IF u = t THEN i ELSE T[u].index
                /\ e1[u].next = T[u].next
                /\ e1[u].prev = IF u = f THEN t ELSE T[u].prev
      BY <2>1, <2>3, <3>1 DEF Tag
    <3> HIDE DEF e1
    <3> QED
      BY <2>1, <3>2, <3>3 DEF Tag
  <2> QED
    BY <2>4, <2>5
<1>5. G = [F EXCEPT ![i] = t]
  BY DEF insert_tag, i
<1> HIDE DEF U, G, r
<1>6. Typed(U) /\ SameShape(T, U)
  BY <1>4 DEF Typed, SameShape
<1>7. G \in [Classes -> DOMAIN U \cup {NULL}]
  BY <1>1, <1>4, <1>5 DEF Listed
<1>8. \A u \in DOMAIN T : u # t => T[u].next # t /\ T[u].prev # t
  BY <1>1, <1>3 DEF Listed
<1>9. \A j \in Classes : G[j] # NULL => U[G[j]].index = j /\ U[G[j]].prev = NULL
  <2> SUFFICES ASSUME NEW j \in Classes, G[j] # NULL PROVE U[G[j]].index = j /\ U[G[j]].prev = NULL
    OBVIOUS
  <2>1. CASE j = i
    BY <1>1, <1>2, <1>3, <1>4, <1>5, <2>1 DEF Listed
  <2>2. CASE j # i
    <3>1. G[j] = F[j] /\ F[j] \in DOMAIN T /\ T[F[j]].index = j /\ T[F[j]].prev = NULL
      BY <1>1, <1>5, <2>2 DEF Listed
    <3>2. F[j] # t /\ F[j] # f
      BY <1>1, <1>2, <2>2, <3>1
    <3> QED
      BY <1>4, <3>1, <3>2
  <2> QED
    BY <2>1, <2>2
<1>10. \A u \in DOMAIN U :
         /\ U[u].index = -1 => U[u].next = NULL /\ U[u].prev = NULL
         /\ U[u].index # -1 /\ U[u].prev = NULL => G[U[u].index] = u
  <2> SUFFICES ASSUME NEW u \in DOMAIN U
               PROVE  /\ U[u].index = -1 => U[u].next = NULL /\ U[u].prev = NULL
                      /\ U[u].index # -1 /\ U[u].prev = NULL => G[U[u].index] = u
    OBVIOUS
  <2>1. CASE u = t
    BY <1>1, <1>4, <1>5, <2>1 DEF Listed
  <2>2. CASE u # t /\ u = f
    BY <1>1, <1>2, <1>4, <2>2
  <2>3. CASE u # t /\ u # f
    <3>1. U[u].index = T[u].index /\ U[u].next = T[u].next /\ U[u].prev = T[u].prev
      BY <1>4, <2>3
    <3>2. T[u].index # -1 /\ T[u].prev = NULL => F[T[u].index] = u /\ T[u].index \in Classes
      BY <1>4 DEF Listed, Typed, Tag
    <3>3. T[u].index # -1 /\ T[u].prev = NULL => G[T[u].index] = u
      BY <1>1, <1>5, <2>3, <3>2 DEF Listed
    <3> QED
      BY <1>4, <3>1, <3>3 DEF Listed
  <2> QED
    BY <2>1, <2>2, <2>3
<1>11. \A u \in DOMAIN U : U[u].prev # NULL =>
          U[u].prev \in DOMAIN U /\ U[U[u].prev].next = u /\ U[U[u].prev].index = U[u].index
  <2> SUFFICES ASSUME NEW u \in DOMAIN U, U[u].prev # NULL
               PROVE  U[u].prev \in DOMAIN U /\ U[U[u].prev].next = u /\ U[U[u].prev].index = U[u].index
    OBVIOUS
  <2>1. CASE u = f
    BY <1>1, <1>2, <1>4, <2>1
  <2>2. CASE u # f
    <3>1. u # t /\ u \in DOMAIN T /\ U[u].prev = T[u].prev
      BY <1>3, <1>4, <2>2
    <3>2. T[u].prev \in DOMAIN T /\ T[T[u].prev].next = u /\ T[T[u].prev].index = T[u].index
      BY <2>2, <3>1 DEF Listed
    <3>3. T[u].prev # t
      BY <1>8, <3>1
    <3> QED
      BY <1>4, <3>1, <3>2, <3>3
  <2> QED
    BY <2>1, <2>2
<1>12. \A u \in DOMAIN U : U[u].next # NULL =>
          U[u].next \in DOMAIN U /\ U[U[u].next].prev = u /\ U[U[u].next].index = U[u].index
  <2> SUFFICES ASSUME NEW u \in DOMAIN U, U[u].next # NULL
               PROVE  U[u].next \in DOMAIN U /\ U[U[u].next].prev = u /\ U[U[u].next].index = U[u].index
    OBVIOUS
  <2>1. CASE u = t
    BY <1>1, <1>2, <1>4, <2>1
  <2>2. CASE u # t
    <3>1. u \in DOMAIN T /\ U[u].next = T[u].next
      BY <1>4, <2>2
    <3>2. T[u].next \in DOMAIN T /\ T[T[u].next].prev = u /\ T[T[u].next].index = T[u].index
      BY <2>2, <3>1 DEF Listed
    <3>3. T[u].next # t /\ T[u].next # f
      BY <1>1, <1>2, <1>8, <2>2, <3>1, <3>2
    <3> QED
      BY <1>4, <2>2, <3>1, <3>2, <3>3
  <2> QED
    BY <2>1, <2>2
<1>13. Listed(U, G)
  BY <1>7, <1>9, <1>10, <1>11, <1>12 DEF Listed
<1>14. Ends(U)
  <2>1. PICK n \in Nat : \E rank \in [DOMAIN T -> 0 .. n] : Ranks(T, n, rank)
    BY DEF Ends
  <2>2. PICK rank \in [DOMAIN T -> 0 .. n] : Ranks(T, n, rank)
    BY <2>1
  <2> DEFINE r2 == [u \in DOMAIN U |-> IF u = t THEN n + 1 ELSE rank[u]]
  <2>3. r2 \in [DOMAIN U -> 0 .. n + 1]
    BY <1>4
  <2>4. \A u \in DOMAIN U : U[u].next # NULL => r2[U[u].next] < r2[u]
    <3> SUFFICES ASSUME NEW u \in DOMAIN U, U[u].next # NULL PROVE r2[U[u].next] < r2[u]
      OBVIOUS
    <3>1. U[u].next \in DOMAIN U /\ U[u].next # t
      BY <1>2, <1>4, <1>8, <1>12
    <3>2. CASE u = t
      BY <1>4, <3>1, <3>2
    <3>3. CASE u # t
      BY <1>4, <2>2, <3>1, <3>3 DEF Ranks
    <3> QED
      BY <3>2, <3>3
  <2>5. n + 1 \in Nat /\ Ranks(U, n + 1, r2)
    BY <2>3, <2>4 DEF Ranks
  <2> QED
    BY <2>3, <2>5 DEF Ends
<1>15. \A u \in DOMAIN T : U[u].index = IF u = t THEN i ELSE T[u].index
  BY <1>4
<1> QED
  BY <1>6, <1>13, <1>14, <1>15 DEF U, G, r, i

-----------------------------------------------------------------------------
(* Where tags lie *)

\* The end of the run at frame b when B says how many frames it has.
EndOf(B, b) == (b + B[b]) * l_pageSize

\* The runs of frames lie in the memory, apart from each other, and none is
\* shorter than malloc asks for.
RunsLie(B) ==
    /\ B \in [Pages -> Nat]
    /\ \A b \in Pages : B[b] > 0 => B[b] >= l_pageCount /\ b + B[b] <= FirstPage + NumPages
    /\ \A b, c \in Pages : B[b] > 0 /\ B[c] > 0 /\ b < c => b + B[b] <= c

\* Tag t lies in the run at b.
Inside(T, B, b, t) == B[b] > 0 /\ RunStart(b) <= t /\ t + T[t].real_size <= EndOf(B, b)

\* Tiling, tag by tag, with the links of neighbours leading both ways.
Laid(T, B) ==
    /\ \A b \in Pages : B[b] > 0 => RunStart(b) \in DOMAIN T /\ T[RunStart(b)].split_left = NULL
    /\ \A t \in DOMAIN T :
          LET tg == T[t]
          IN /\ tg.real_size >= TagSize
             /\ \E b \in Pages : Inside(T, B, b, t)
             /\ \A u \in DOMAIN T : t < u => t + tg.real_size <= u
             /\ tg.split_left = NULL => \E b \in Pages : B[b] > 0 /\ t = RunStart(b)
             /\ tg.split_left # NULL => tg.split_left \in DOMAIN T /\ T[tg.split_left].split_right = t
             /\ tg.split_right = NULL =>
                   \A b \in Pages : Inside(T, B, b, t) => t + tg.real_size = EndOf(B, b)
             /\ tg.split_right # NULL =>
                   /\ tg.split_right = t + tg.real_size /\ tg.split_right \in DOMAIN T
                   /\ T[tg.split_right].split_left = t
                   /\ \A b \in Pages : Inside(T, B, b, t) => Inside(T, B, b, tg.split_right)

\* A run ends behind its start, runs end before others start, and what lies in
\* one are addresses.
LEMMA RunsApart ==
    ASSUME NEW B, RunsLie(B)
    PROVE  /\ \A b \in Pages : RunStart(b) \in Nat /\ EndOf(B, b) \in Nat
           /\ \A b \in Pages : B[b] > 0 => RunStart(b) < EndOf(B, b)
           /\ \A b, c \in Pages : B[b] > 0 /\ B[c] > 0 /\ b # c =>
                 EndOf(B, b) <= RunStart(c) \/ EndOf(B, c) <= RunStart(b)
           /\ \A b \in Pages : \A x \in Int :
                 B[b] > 0 /\ RunStart(b) <= x /\ x < EndOf(B, b) => x \in Addresses
<1> USE PageFramesAssumption, LibAllocAssumption
<1>1. l_pageSize \in Nat \ {0} /\ FirstPage \in Nat /\ NumPages \in Nat /\ Pages \subseteq Nat
  BY DEF Pages
<1>2. \A m, n \in Nat : m <= n => m * l_pageSize <= n * l_pageSize
  BY <1>1
<1>3. \A m, n \in Nat : m < n => m * l_pageSize < n * l_pageSize
  BY <1>1
<1>4. \A b \in Pages : B[b] \in Nat /\ b \in Nat /\ b >= FirstPage /\ b + B[b] \in Nat
  BY <1>1 DEF RunsLie, Pages
<1>5. \A b \in Pages : RunStart(b) \in Nat /\ EndOf(B, b) \in Nat
  BY <1>1, <1>4 DEF RunStart, EndOf
<1>6. \A b \in Pages : B[b] > 0 => RunStart(b) < EndOf(B, b)
  BY <1>3, <1>4 DEF RunStart, EndOf
<1>7. \A b, c \in Pages : B[b] > 0 /\ B[c] > 0 /\ b < c => EndOf(B, b) <= RunStart(c)
  BY <1>2, <1>4 DEF RunStart, EndOf, RunsLie
<1>8. \A b, c \in Pages : B[b] > 0 /\ B[c] > 0 /\ b # c =>
         EndOf(B, b) <= RunStart(c) \/ EndOf(B, c) <= RunStart(b)
  BY <1>4, <1>7
<1>9. ASSUME NEW b \in Pages, NEW x \in Int, B[b] > 0, RunStart(b) <= x, x < EndOf(B, b)
      PROVE  x \in Addresses
  <2>1. FirstPage * l_pageSize <= RunStart(b) /\ FirstPage * l_pageSize \in Nat
    BY <1>1, <1>2, <1>4 DEF RunStart
  <2>2. EndOf(B, b) <= (FirstPage + NumPages) * l_pageSize /\ (FirstPage + NumPages) * l_pageSize \in Nat
    <3>1. b + B[b] <= FirstPage + NumPages /\ FirstPage + NumPages \in Nat
      BY <1>1, <1>9 DEF RunsLie
    <3> QED
      BY <1>1, <1>2, <1>4, <3>1 DEF EndOf
  <2> QED
    BY <1>5, <1>9, <2>1, <2>2 DEF Addresses
<1> QED
  BY <1>5, <1>6, <1>8, <1>9

\* A tag lies in one run only.
LEMMA InsideOne ==
    ASSUME NEW T, NEW B, Typed(T), RunsLie(B), NEW t \in DOMAIN T, NEW b \in Pages, NEW c \in Pages,
           B[b] > 0, RunStart(b) <= t, t < EndOf(B, b), B[c] > 0, RunStart(c) <= t, t < EndOf(B, c)
    PROVE  b = c
  BY RunsApart, NoAddressIsNull DEF Typed

\* Where tags lie depends on their sizes and split links only.
LEMMA ShapeIsLaid ==
    ASSUME NEW T, NEW U, NEW B, Laid(T, B), SameShape(T, U)
    PROVE  Laid(U, B)
<1>1. \A b \in Pages : \A t \in DOMAIN T : Inside(U, B, b, t) = Inside(T, B, b, t)
  BY DEF Inside, SameShape
<1>2. \A t \in DOMAIN T : T[t].split_right # NULL => T[t].split_right \in DOMAIN T
  BY DEF Laid
<1> QED
  BY <1>1, <1>2 DEF Laid, SameShape

\* What Join makes of the tags T, where it joins b to a.
JoinOf(T, J, a, b) ==
    /\ b \in DOMAIN T /\ a # b /\ T[b].split_left = a /\ DOMAIN J = DOMAIN T \ {b}
    /\ \A u \in DOMAIN J :
          /\ J[u].size = T[u].size /\ J[u].index = T[u].index
          /\ J[u].next = T[u].next /\ J[u].prev = T[u].prev
          /\ J[u].real_size = IF u = a THEN T[a].real_size + T[b].real_size ELSE T[u].real_size
          /\ J[u].split_right = IF u = a THEN T[b].split_right ELSE T[u].split_right
          /\ J[u].split_left = IF u = T[b].split_right THEN a ELSE T[u].split_left

\* Join leaves the tags tiled: the neighbour of the neighbour is linked back.
LEMMA JoinTags ==
    ASSUME NEW T, NEW B, Typed(T), RunsLie(B), Laid(T, B),
           NEW a \in DOMAIN T, NEW b, T[a].split_right = b, b # NULL
    PROVE  LET J == Join(T, a, b) IN Typed(J) /\ Laid(J, B) /\ JoinOf(T, J, a, b)
<1> DEFINE J == Join(T, a, b)
           right == T[b].split_right
<1>1. b \in DOMAIN T /\ b = a + T[a].real_size /\ T[b].split_left = a
  BY DEF Laid
<1>2. /\ T \in [DOMAIN T -> Tag] /\ DOMAIN T \subseteq Addresses /\ DOMAIN T \subseteq Nat \ {NULL}
      /\ \A t \in DOMAIN T : T[t] \in Tag /\ T[t].real_size \in Nat /\ T[t].real_size >= TagSize
      /\ TagSize \in Nat \ {0}
  BY NoAddressIsNull, LibAllocAssumption DEF Typed, Tag, Laid
<1>3. a # b /\ a < b
  BY <1>1, <1>2
<1>4. right \in DOMAIN T \cup {NULL} /\ right # b /\ right # a
  <2>1. right # NULL => right \in DOMAIN T /\ right = b + T[b].real_size
    BY <1>1 DEF Laid
  <2> QED
    BY <1>1, <1>2, <1>3, <2>1
<1>5. /\ DOMAIN J = DOMAIN T \ {b} /\ J \in [DOMAIN J -> Tag]
      /\ \A u \in DOMAIN J :
            /\ J[u].size = T[u].size /\ J[u].index = T[u].index
            /\ J[u].next = T[u].next /\ J[u].prev = T[u].prev
            /\ J[u].real_size = IF u = a THEN T[a].real_size + T[b].real_size ELSE T[u].real_size
            /\ J[u].split_right = IF u = a THEN right ELSE T[u].split_right
            /\ J[u].split_left = IF u = right THEN a ELSE T[u].split_left
  <2> DEFINE joined == [T EXCEPT ![a].real_size = @ + T[b].real_size, ![a].split_right = right]
             linked == IF right # NULL THEN [joined EXCEPT ![right].split_left = a] ELSE joined
  <2>1. /\ joined \in [DOMAIN T -> Tag]
        /\ \A u \in DOMAIN T :
              /\ joined[u].size = T[u].size /\ joined[u].index = T[u].index
              /\ joined[u].next = T[u].next /\ joined[u].prev = T[u].prev
              /\ joined[u].real_size = IF u = a THEN T[a].real_size + T[b].real_size ELSE T[u].real_size
              /\ joined[u].split_right = IF u = a THEN right ELSE T[u].split_right
              /\ joined[u].split_left = T[u].split_left
    <3>1. right \in Addresses \cup {NULL} /\ T[a].real_size + T[b].real_size \in Nat
      BY <1>1, <1>2, <1>4
    <3> DEFINE sum == T[a].real_size + T[b].real_size
               larger == [T EXCEPT ![a].real_size = sum]
    <3>2. joined = [larger EXCEPT ![a].split_right = right]
      BY <1>2 DEF Tag
    <3> HIDE DEF right, sum, joined
    <3>3. /\ larger \in [DOMAIN T -> Tag]
          /\ \A u \in DOMAIN T :
                /\ larger[u].size = T[u].size /\ larger[u].index = T[u].index
                /\ larger[u].next = T[u].next /\ larger[u].prev = T[u].prev
                /\ larger[u].real_size = IF u = a THEN sum ELSE T[u].real_size
                /\ larger[u].split_right = T[u].split_right
                /\ larger[u].split_left = T[u].split_left
      <4>1. sum \in Nat
        BY <3>1 DEF sum
      <4> QED
        BY <1>2, <4>1 DEF Tag
    <3> HIDE DEF larger
    <3> QED
      BY <3>1, <3>2, <3>3 DEF Tag, sum
  <2> HIDE DEF joined
  <2>2. /\ linked \in [DOMAIN T -> Tag]
        /\ \A u \in DOMAIN T :
              /\ linked[u].size = T[u].size /\ linked[u].index = T[u].index
              /\ linked[u].next = T[u].next /\ linked[u].prev = T[u].prev
              /\ linked[u].real_size = IF u = a THEN T[a].real_size + T[b].real_size ELSE T[u].real_size
              /\ linked[u].split_right = IF u = a THEN right ELSE T[u].split_right
              /\ linked[u].split_left = IF u = right THEN a ELSE T[u].split_left
    <3> HIDE DEF right
    <3> QED
      BY <1>2, <1>4, <2>1 DEF Tag
  <2>3. J = [t \in DOMAIN T \ {b} |-> linked[t]]
    BY DEF Join, joined
  <2> HIDE DEF linked, J
  <2> QED
    BY <2>2, <2>3
<1> HIDE DEF J
<1>6. Typed(J)
  BY <1>2, <1>5 DEF Typed
<1>7. \A c \in Pages : \A u \in DOMAIN J :
         Inside(J, B, c, u) <=> IF u = a THEN Inside(T, B, c, a) /\ Inside(T, B, c, b) ELSE Inside(T, B, c, u)
  <2> TAKE c \in Pages
  <2>1. Inside(T, B, c, a) => Inside(T, B, c, b)
    BY DEF Laid
  <2>2. ASSUME NEW u \in DOMAIN J, u # a PROVE Inside(J, B, c, u) <=> Inside(T, B, c, u)
    BY <1>5, <2>2 DEF Inside
  <2>3. Inside(J, B, c, a) <=> Inside(T, B, c, a) /\ Inside(T, B, c, b)
    <3>1. J[a].real_size = T[a].real_size + T[b].real_size
      BY <1>3, <1>5
    <3>2. ASSUME B[c] > 0, RunStart(c) <= a, a + T[a].real_size + T[b].real_size <= EndOf(B, c)
          PROVE  Inside(T, B, c, a) /\ Inside(T, B, c, b)
      <4>1. b + T[b].real_size = a + T[a].real_size + T[b].real_size
        BY <1>1, <1>2
      <4>2. RunStart(c) \in Int /\ EndOf(B, c) \in Int
        BY RunsApart
      <4> QED
        BY <1>1, <1>2, <1>3, <3>2, <4>1, <4>2 DEF Inside
    <3> QED
      BY <1>1, <1>2, <3>1, <3>2 DEF Inside
  <2> QED
    BY <2>2, <2>3
<1>8. \A u \in DOMAIN T : u # a => T[u].split_right # b
  BY <1>1, <1>2 DEF Laid
<1>9. \A c \in Pages : B[c] > 0 => RunStart(c) \in DOMAIN J /\ J[RunStart(c)].split_left = NULL
  <2> SUFFICES ASSUME NEW c \in Pages, B[c] > 0 PROVE RunStart(c) \in DOMAIN J /\ J[RunStart(c)].split_left = NULL
    OBVIOUS
  <2>1. RunStart(c) \in DOMAIN T /\ T[RunStart(c)].split_left = NULL
    BY DEF Laid
  <2>2. RunStart(c) # b
    BY <1>1, <1>2, <2>1
  <2>3. RunStart(c) # right
    <3>1. right # NULL => T[right].split_left = b
      BY <1>1 DEF Laid
    <3> QED
      BY <1>1, <1>2, <2>1, <3>1
  <2> QED
    BY <1>5, <2>1, <2>2, <2>3
<1>10. ASSUME NEW u \in DOMAIN J
       PROVE  /\ J[u].real_size >= TagSize
              /\ \E c \in Pages : Inside(J, B, c, u)
              /\ J[u].split_left = NULL => \E c \in Pages : B[c] > 0 /\ u = RunStart(c)
  <2>1. J[u].real_size >= TagSize
    BY <1>1, <1>2, <1>5
  <2>2. \E c \in Pages : Inside(J, B, c, u)
    <3>1. PICK c \in Pages : Inside(T, B, c, u)
      BY <1>5 DEF Laid
    <3>2. u = a => Inside(T, B, c, b)
      BY <1>1, <1>2, <3>1 DEF Laid
    <3> QED
      BY <1>7, <3>1, <3>2
  <2>3. J[u].split_left = NULL => \E c \in Pages : B[c] > 0 /\ u = RunStart(c)
    <3>1. J[u].split_left = NULL => T[u].split_left = NULL /\ u \in DOMAIN T
      BY <1>2, <1>5
    <3> QED
      BY <3>1 DEF Laid
  <2> QED
    BY <2>1, <2>2, <2>3
<1>11. ASSUME NEW u \in DOMAIN J, NEW v \in DOMAIN J, u < v
       PROVE  u + J[u].real_size <= v
  <2>1. u \in DOMAIN T /\ v \in DOMAIN T /\ v # b /\ u + T[u].real_size <= v
    BY <1>5, <1>11 DEF Laid
  <2>2. CASE u = a
    <3>1. b < v
      BY <1>1, <1>2, <2>1, <2>2
    <3>2. b + T[b].real_size <= v
      BY <1>1, <2>1, <3>1 DEF Laid
    <3> QED
      BY <1>1, <1>2, <1>5, <2>1, <2>2, <3>2
  <2>3. CASE u # a
    BY <1>5, <2>1, <2>3
  <2> QED
    BY <2>2, <2>3
<1>12. ASSUME NEW u \in DOMAIN J, J[u].split_left # NULL
       PROVE  J[u].split_left \in DOMAIN J /\ J[J[u].split_left].split_right = u
  <2>1. CASE u = right
    BY <1>3, <1>5, <2>1
  <2>2. CASE u # right
    <3>1. J[u].split_left = T[u].split_left /\ u \in DOMAIN T /\ u # b
      BY <1>5, <2>2
    <3>2. T[u].split_left \in DOMAIN T /\ T[T[u].split_left].split_right = u
      BY <1>12, <3>1 DEF Laid
    <3>3. T[u].split_left # b /\ T[u].split_left # a
      BY <2>2, <3>1, <3>2
    <3> QED
      BY <1>5, <3>1, <3>2, <3>3
  <2> QED
    BY <2>1, <2>2
<1>13. ASSUME NEW u \in DOMAIN J, J[u].split_right = NULL, NEW c \in Pages, Inside(J, B, c, u)
       PROVE  u + J[u].real_size = EndOf(B, c)
  <2>1. CASE u = a
    <3>1. Inside(T, B, c, b) /\ right = NULL
      BY <1>5, <1>7, <1>13, <2>1
    <3>2. b + T[b].real_size = EndOf(B, c)
      BY <1>1, <3>1 DEF Laid
    <3> QED
      BY <1>1, <1>2, <1>5, <2>1, <3>2
  <2>2. CASE u # a
    <3>1. Inside(T, B, c, u) /\ T[u].split_right = NULL /\ u \in DOMAIN T /\ J[u].real_size = T[u].real_size
      BY <1>5, <1>7, <1>13, <2>2
    <3> QED
      BY <3>1 DEF Laid
  <2> QED
    BY <2>1, <2>2
<1>14. ASSUME NEW u \in DOMAIN J, J[u].split_right # NULL
       PROVE  /\ J[u].split_right = u + J[u].real_size /\ J[u].split_right \in DOMAIN J
              /\ J[J[u].split_right].split_left = u
              /\ \A c \in Pages : Inside(J, B, c, u) => Inside(J, B, c, J[u].split_right)
  <2>1. CASE u = a
    <3>1. J[u].split_right = right /\ right \in DOMAIN T /\ right = b + T[b].real_size
      BY <1>1, <1>5, <1>14, <2>1 DEF Laid
    <3>2. right \in DOMAIN J /\ J[right].split_left = a
      BY <1>4, <1>5, <3>1
    <3>3. \A c \in Pages : Inside(J, B, c, a) => Inside(J, B, c, right)
      <4> SUFFICES ASSUME NEW c \in Pages, Inside(J, B, c, a) PROVE Inside(J, B, c, right)
        OBVIOUS
      <4>1. Inside(T, B, c, b)
        BY <1>3, <1>5, <1>7
      <4>2. Inside(T, B, c, right)
        BY <1>1, <1>14, <2>1, <3>1, <4>1 DEF Laid
      <4> QED
        BY <1>4, <1>7, <3>2, <4>2
    <3>4. u + J[u].real_size = right
      BY <1>1, <1>2, <1>5, <2>1, <3>1
    <3> QED
      BY <2>1, <3>1, <3>2, <3>3, <3>4
  <2>2. CASE u # a
    <3> DEFINE v == T[u].split_right
    <3>1. J[u].split_right = v /\ v # NULL /\ u \in DOMAIN T
      BY <1>5, <1>14, <2>2
    <3>2. /\ v = u + T[u].real_size /\ v \in DOMAIN T /\ T[v].split_left = u
          /\ \A c \in Pages : Inside(T, B, c, u) => Inside(T, B, c, v)
      BY <3>1 DEF Laid
    <3>3. v # b /\ u # b
      BY <1>5, <1>8, <2>2, <3>1
    <3>4. v # right
      <4>1. right # NULL => T[right].split_left = b
        BY <1>1 DEF Laid
      <4> QED
        BY <3>1, <3>2, <3>3, <4>1
    <3>5. v \in DOMAIN J /\ J[v].split_left = u /\ J[u].real_size = T[u].real_size
      BY <1>5, <2>2, <3>2, <3>3, <3>4
    <3>6. \A c \in Pages : Inside(J, B, c, u) => Inside(J, B, c, v)
      <4> SUFFICES ASSUME NEW c \in Pages, Inside(J, B, c, u) PROVE Inside(J, B, c, v)
        OBVIOUS
      <4>1. Inside(T, B, c, v)
        BY <1>7, <2>2, <3>2
      <4>2. v = a => Inside(T, B, c, b)
        BY <1>1, <4>1 DEF Laid
      <4> QED
        BY <1>7, <3>5, <4>1, <4>2
    <3> QED
      BY <3>1, <3>2, <3>5, <3>6
  <2> QED
    BY <2>1, <2>2
<1>15. Laid(J, B)
  BY <1>9, <1>10, <1>11, <1>12, <1>13, <1>14 DEF Laid
<1> QED
  BY <1>1, <1>3, <1>5, <1>6, <1>15 DEF J, JoinOf

\* What split_tag does before it inserts the new tag: the tags stay tiled, and
\* the right neighbour is linked back to the new tag.
SplitTags(T, t, n) ==
    LET new   == t + TagSize + n
        right == T[t].split_right
        rest  == [size |-> 0, real_size |-> T[t].real_size - TagSize - n, index |-> -1,
                  split_left |-> t, split_right |-> right, next |-> NULL, prev |-> NULL]
        linked == IF right # NULL THEN [T EXCEPT ![right].split_left = new] ELSE T
    IN Added([linked EXCEPT ![t].split_right = new, ![t].real_size = @ - rest.real_size], new, rest)

\* split_tag puts the new tag, which SplitTags cuts off, into its list.
LEMMA SplitIs ==
    ASSUME NEW T, NEW F, NEW t, NEW n
    PROVE  split_tag([tags |-> T, free |-> F], t, n) =
              insert_tag([tags |-> SplitTags(T, t, n), free |-> F], t + TagSize + n)
  BY DEF split_tag, SplitTags

\* What split_tag makes of the tags T, where it splits t.
SplitOf(T, U, t, n) ==
    LET new == t + TagSize + n
    IN /\ new \notin DOMAIN T /\ DOMAIN U = DOMAIN T \cup {new}
       /\ \A u \in DOMAIN T :
             /\ U[u].size = T[u].size /\ U[u].index = T[u].index
             /\ U[u].next = T[u].next /\ U[u].prev = T[u].prev
             /\ U[u].real_size = IF u = t THEN TagSize + n ELSE T[u].real_size
             /\ U[u].split_right = IF u = t THEN new ELSE T[u].split_right
             /\ U[u].split_left = IF u = T[t].split_right THEN new ELSE T[u].split_left
       /\ U[new].index = -1 /\ U[new].next = NULL /\ U[new].prev = NULL
       /\ U[new].split_left = t /\ U[new].split_right = T[t].split_right
       /\ U[new].real_size = T[t].real_size - TagSize - n

\* A tag cut in two lies where it lay, and so does the part cut off.
LEMMA SplitTagsLaid ==
    ASSUME NEW T, NEW B, Typed(T), RunsLie(B), Laid(T, B), NEW t \in DOMAIN T, NEW n \in Nat,
           T[t].real_size > n + 2 * TagSize
    PROVE  LET U == SplitTags(T, t, n) IN Typed(U) /\ Laid(U, B) /\ SplitOf(T, U, t, n)
<1> DEFINE U == SplitTags(T, t, n)
           new == t + TagSize + n
           right == T[t].split_right
           size2 == T[t].real_size - TagSize - n
           rest == [size |-> 0, real_size |-> size2, index |-> -1,
                    split_left |-> t, split_right |-> right, next |-> NULL, prev |-> NULL]
           linked == IF right # NULL THEN [T EXCEPT ![right].split_left = new] ELSE T
           cut == [linked EXCEPT ![t].split_right = new, ![t].real_size = @ - rest.real_size]
<1>1. /\ T \in [DOMAIN T -> Tag] /\ DOMAIN T \subseteq Addresses /\ DOMAIN T \subseteq Nat \ {NULL}
      /\ \A u \in DOMAIN T : T[u] \in Tag /\ T[u].real_size \in Nat /\ T[u].real_size >= TagSize
      /\ TagSize \in Nat \ {0}
  BY NoAddressIsNull, LibAllocAssumption DEF Typed, Tag, Laid
<1>2. /\ size2 \in Nat /\ size2 >= TagSize /\ TagSize + n \in Nat
      /\ new \in Nat /\ t < new /\ new + size2 = t + T[t].real_size /\ new < t + T[t].real_size
      /\ T[t].real_size - size2 = TagSize + n
  BY <1>1
<1>3. PICK d \in Pages : Inside(T, B, d, t)
  BY DEF Laid
<1>4. /\ \A b \in Pages : RunStart(b) \in Nat /\ EndOf(B, b) \in Nat
      /\ B[d] > 0 /\ RunStart(d) <= t /\ t < EndOf(B, d) /\ RunStart(d) <= new /\ new < EndOf(B, d)
      /\ t + T[t].real_size <= EndOf(B, d)
  BY <1>1, <1>2, <1>3, RunsApart DEF Inside
<1>5. new \in Addresses
  BY <1>2, <1>4, RunsApart
<1>6. \A u \in DOMAIN T : u # new /\ (t < u => t + T[t].real_size <= u)
  BY <1>1, <1>2 DEF Laid
<1>7. right # NULL => right \in DOMAIN T /\ right = t + T[t].real_size /\ T[right].split_left = t
  BY DEF Laid
<1>8. right # t /\ right # new
  <2>1. t \in Nat /\ t # NULL /\ T[t].real_size \in Nat /\ T[t].real_size > 0
    BY <1>1
  <2> HIDE DEF right
  <2>2. CASE right = NULL
    BY <1>2, <2>1, <2>2 DEF NULL
  <2>3. CASE right # NULL
    <3>1. right \in DOMAIN T /\ right = t + T[t].real_size
      BY <1>7, <2>3
    <3>2. right # new
      BY <1>6, <3>1
    <3>3. right # t
      BY <2>1, <3>1
    <3> QED
      BY <3>2, <3>3
  <2> QED
    BY <2>2, <2>3
<1>9. \A c \in Pages : \A u \in DOMAIN T : Inside(T, B, c, u) =>
         RunStart(c) <= u /\ u < EndOf(B, c) /\ u + T[u].real_size <= EndOf(B, c) /\ B[c] > 0
  BY <1>1, <1>4 DEF Inside
<1>10. /\ Typed(U) /\ DOMAIN U = DOMAIN T \cup {new} /\ U[new] = rest
       /\ \A u \in DOMAIN T :
             /\ U[u].size = T[u].size /\ U[u].index = T[u].index
             /\ U[u].next = T[u].next /\ U[u].prev = T[u].prev
             /\ U[u].real_size = IF u = t THEN TagSize + n ELSE T[u].real_size
             /\ U[u].split_right = IF u = t THEN new ELSE T[u].split_right
             /\ U[u].split_left = IF u = right THEN new ELSE T[u].split_left
  <2>1. /\ linked \in [DOMAIN T -> Tag]
        /\ \A u \in DOMAIN T :
              /\ linked[u].size = T[u].size /\ linked[u].index = T[u].index
              /\ linked[u].next = T[u].next /\ linked[u].prev = T[u].prev
              /\ linked[u].real_size = T[u].real_size
              /\ linked[u].split_right = T[u].split_right
              /\ linked[u].split_left = IF u = right THEN new ELSE T[u].split_left
    <3> HIDE DEF right, new
    <3> QED
      BY <1>1, <1>5, <1>7 DEF Tag
  <2>2. rest.real_size = size2 /\ rest \in Tag
    <3>1. right \in Addresses \cup {NULL} /\ t \in Addresses
      BY <1>1, <1>7
    <3> HIDE DEF right, size2
    <3> QED
      BY <1>2, <3>1 DEF Tag
  <2> DEFINE joined == [linked EXCEPT ![t].split_right = new]
  <2>3. cut = [joined EXCEPT ![t].real_size = linked[t].real_size - size2]
    <3> HIDE DEF linked, new, size2, right
    <3> QED
      BY <2>1, <2>2 DEF Tag
  <2>4. linked[t].real_size - size2 = TagSize + n
    BY <1>2, <2>1
  <2>5. U = Added(cut, new, rest)
    BY DEF SplitTags
  <2> HIDE DEF linked, cut, rest, U, new, size2, right
  <2>6. /\ joined \in [DOMAIN T -> Tag]
        /\ \A u \in DOMAIN T :
              /\ joined[u].size = T[u].size /\ joined[u].index = T[u].index
              /\ joined[u].next = T[u].next /\ joined[u].prev = T[u].prev
              /\ joined[u].real_size = T[u].real_size
              /\ joined[u].split_right = IF u = t THEN new ELSE T[u].split_right
              /\ joined[u].split_left = IF u = right THEN new ELSE T[u].split_left
    BY <1>5, <2>1 DEF Tag
  <2> HIDE DEF joined
  <2>7. /\ cut \in [DOMAIN T -> Tag]
        /\ \A u \in DOMAIN T :
              /\ cut[u].size = T[u].size /\ cut[u].index = T[u].index
              /\ cut[u].next = T[u].next /\ cut[u].prev = T[u].prev
              /\ cut[u].real_size = IF u = t THEN TagSize + n ELSE T[u].real_size
              /\ cut[u].split_right = IF u = t THEN new ELSE T[u].split_right
              /\ cut[u].split_left = IF u = right THEN new ELSE T[u].split_left
    BY <1>2, <2>3, <2>4, <2>6 DEF Tag
  <2>8. U = [x \in DOMAIN T \cup {new} |-> IF x = new THEN rest ELSE cut[x]]
    BY <2>5, <2>7 DEF Added
  <2>9. \A u \in DOMAIN T : u # new
    BY <1>6
  <2>10. DOMAIN U = DOMAIN T \cup {new} /\ U[new] = rest /\ \A u \in DOMAIN T : U[u] = cut[u]
    BY <2>8, <2>9
  <2>11. Typed(U)
    BY <1>1, <1>5, <2>2, <2>7, <2>8 DEF Typed
  <2> QED
    BY <2>7, <2>10, <2>11
<1> HIDE DEF U
<1>11. /\ U[new].index = -1 /\ U[new].next = NULL /\ U[new].prev = NULL
       /\ U[new].split_left = t /\ U[new].split_right = right /\ U[new].real_size = size2
  BY <1>10
<1> HIDE DEF rest, linked, cut, new, right, size2
<1>12. new \notin DOMAIN T
  BY <1>6
<1>13. \A c \in Pages : \A u \in DOMAIN T : u # t => (Inside(U, B, c, u) <=> Inside(T, B, c, u))
  BY <1>10 DEF Inside
<1>14. \A c \in Pages : Inside(U, B, c, t) => c = d
  <2> SUFFICES ASSUME NEW c \in Pages, Inside(U, B, c, t) PROVE c = d
    OBVIOUS
  <2>1. B[c] > 0 /\ RunStart(c) <= t /\ t < EndOf(B, c)
    BY <1>1, <1>4, <1>10 DEF Inside
  <2> QED
    BY <1>4, <2>1, InsideOne
<1>15. \A c \in Pages : Inside(U, B, c, new) => c = d
  <2> SUFFICES ASSUME NEW c \in Pages, Inside(U, B, c, new) PROVE c = d
    OBVIOUS
  <2>1. B[c] > 0 /\ RunStart(c) <= new /\ new < EndOf(B, c)
    BY <1>1, <1>2, <1>4, <1>11 DEF Inside
  <2>2. new \in DOMAIN U
    BY <1>10
  <2> QED
    BY <1>4, <1>10, <2>1, <2>2, InsideOne
<1>16. Inside(U, B, d, t) /\ Inside(U, B, d, new)
  BY <1>1, <1>2, <1>4, <1>10, <1>11 DEF Inside
<1>17. \A c \in Pages : B[c] > 0 => RunStart(c) \in DOMAIN U /\ U[RunStart(c)].split_left = NULL
  <2> SUFFICES ASSUME NEW c \in Pages, B[c] > 0 PROVE RunStart(c) \in DOMAIN U /\ U[RunStart(c)].split_left = NULL
    OBVIOUS
  <2>1. RunStart(c) \in DOMAIN T /\ T[RunStart(c)].split_left = NULL
    BY DEF Laid
  <2>2. RunStart(c) # right
    BY <1>1, <1>7, <2>1
  <2> QED
    BY <1>10, <2>1, <2>2
<1>18. ASSUME NEW u \in DOMAIN U
       PROVE  /\ U[u].real_size >= TagSize
              /\ \E c \in Pages : Inside(U, B, c, u)
              /\ U[u].split_left = NULL => \E c \in Pages : B[c] > 0 /\ u = RunStart(c)
  <2>1. CASE u = new
    BY <1>1, <1>2, <1>11, <1>16, <2>1
  <2>2. CASE u \in DOMAIN T
    <3>1. U[u].real_size >= TagSize
      BY <1>1, <1>2, <1>10, <2>2
    <3>2. \E c \in Pages : Inside(U, B, c, u)
      BY <1>13, <1>16, <2>2 DEF Laid
    <3>3. U[u].split_left = NULL => T[u].split_left = NULL
      BY <1>5, <1>10, <2>2, NoAddressIsNull
    <3> QED
      BY <2>2, <3>1, <3>2, <3>3 DEF Laid
  <2> QED
    BY <1>10, <2>1, <2>2
<1>19. ASSUME NEW u \in DOMAIN U, NEW v \in DOMAIN U, u < v
       PROVE  u + U[u].real_size <= v
  <2>1. CASE u = new
    <3>1. v \in DOMAIN T /\ t < v
      BY <1>1, <1>2, <1>10, <1>19, <2>1
    <3> QED
      BY <1>1, <1>2, <1>6, <1>11, <2>1, <3>1
  <2>2. CASE u = t
    <3>1. CASE v = new
      BY <1>1, <1>10, <2>2, <3>1 DEF new
    <3>2. CASE v \in DOMAIN T
      BY <1>1, <1>2, <1>6, <1>10, <1>19, <2>2, <3>2
    <3> QED
      BY <1>10, <3>1, <3>2
  <2>3. CASE u \in DOMAIN T /\ u # t
    <3>1. U[u].real_size = T[u].real_size
      BY <1>10, <2>3
    <3>2. CASE v = new
      <4>1. u < t
        BY <1>1, <1>2, <1>6, <1>19, <2>3, <3>2
      <4>2. u + T[u].real_size <= t
        BY <2>3, <4>1 DEF Laid
      <4> QED
        BY <1>1, <1>2, <2>3, <3>1, <3>2, <4>2
    <3>3. CASE v \in DOMAIN T
      BY <1>19, <2>3, <3>1, <3>3 DEF Laid
    <3> QED
      BY <1>10, <3>2, <3>3
  <2> QED
    BY <1>10, <2>1, <2>2, <2>3
<1>20. ASSUME NEW u \in DOMAIN U, U[u].split_left # NULL
       PROVE  U[u].split_left \in DOMAIN U /\ U[U[u].split_left].split_right = u
  <2>1. CASE u = new
    BY <1>10, <1>11, <2>1
  <2>2. CASE u = right
    BY <1>7, <1>8, <1>10, <1>11, <1>20, <2>2
  <2>3. CASE u \in DOMAIN T /\ u # right
    <3>1. U[u].split_left = T[u].split_left
      BY <1>10, <2>3
    <3>2. T[u].split_left \in DOMAIN T /\ T[T[u].split_left].split_right = u
      BY <1>20, <2>3, <3>1 DEF Laid
    <3>3. T[u].split_left # t
      BY <2>3, <3>2 DEF right
    <3> QED
      BY <1>10, <3>1, <3>2, <3>3
  <2> QED
    BY <1>10, <2>1, <2>2, <2>3
<1>21. ASSUME NEW u \in DOMAIN U, U[u].split_right = NULL, NEW c \in Pages, Inside(U, B, c, u)
       PROVE  u + U[u].real_size = EndOf(B, c)
  <2>1. CASE u = new
    <3>1. c = d /\ right = NULL
      BY <1>11, <1>15, <1>21, <2>1
    <3>2. t + T[t].real_size = EndOf(B, d)
      BY <1>3, <3>1 DEF Laid, right
    <3> QED
      BY <1>2, <1>11, <2>1, <3>1, <3>2
  <2>2. CASE u = t
    <3>1. new # NULL
      BY <1>2, <1>1 DEF NULL
    <3> QED
      BY <1>10, <1>21, <2>2, <3>1
  <2>3. CASE u \in DOMAIN T /\ u # t
    <3>1. Inside(T, B, c, u) /\ T[u].split_right = NULL /\ U[u].real_size = T[u].real_size
      BY <1>10, <1>13, <1>21, <2>3
    <3> QED
      BY <2>3, <3>1 DEF Laid
  <2> QED
    BY <1>10, <2>1, <2>2, <2>3
<1>22. ASSUME NEW u \in DOMAIN U, U[u].split_right # NULL
       PROVE  /\ U[u].split_right = u + U[u].real_size /\ U[u].split_right \in DOMAIN U
              /\ U[U[u].split_right].split_left = u
              /\ \A c \in Pages : Inside(U, B, c, u) => Inside(U, B, c, U[u].split_right)
  <2>1. CASE u = new
    <3>1. U[u].split_right = right /\ right \in DOMAIN T /\ right = t + T[t].real_size
      BY <1>7, <1>11, <1>22, <2>1
    <3>2. right \in DOMAIN U /\ U[right].split_left = new
      BY <1>10, <3>1
    <3>3. \A c \in Pages : Inside(U, B, c, new) => Inside(U, B, c, right)
      <4> SUFFICES ASSUME NEW c \in Pages, Inside(U, B, c, new) PROVE Inside(U, B, c, right)
        OBVIOUS
      <4>1. c = d
        BY <1>15
      <4>2. Inside(T, B, d, right)
        BY <1>3, <1>22, <2>1, <3>1, <1>11 DEF Laid, right
      <4> QED
        BY <1>8, <1>13, <3>1, <4>1, <4>2
    <3>4. u + U[u].real_size = right
      BY <1>2, <1>11, <2>1, <3>1
    <3> QED
      BY <2>1, <3>1, <3>2, <3>3, <3>4
  <2>2. CASE u = t
    <3>1. U[t].split_right = new /\ new = t + U[t].real_size
      <4>1. U[t].split_right = new /\ U[t].real_size = TagSize + n
        BY <1>10
      <4> QED
        BY <1>1, <4>1 DEF new
    <3>2. new \in DOMAIN U /\ U[new].split_left = t
      BY <1>10, <1>11
    <3>3. \A c \in Pages : Inside(U, B, c, t) => Inside(U, B, c, new)
      BY <1>14, <1>16
    <3> QED
      BY <2>2, <3>1, <3>2, <3>3
  <2>3. CASE u \in DOMAIN T /\ u # t
    <3> DEFINE v == T[u].split_right
    <3>1. U[u].split_right = v /\ v # NULL /\ U[u].real_size = T[u].real_size
      BY <1>10, <1>22, <2>3
    <3>2. /\ v = u + T[u].real_size /\ v \in DOMAIN T /\ T[v].split_left = u
          /\ \A c \in Pages : Inside(T, B, c, u) => Inside(T, B, c, v)
      BY <2>3, <3>1 DEF Laid
    <3>3. v # right
      BY <1>7, <2>3, <3>1, <3>2
    <3>4. v \in DOMAIN U /\ U[v].split_left = u
      BY <1>10, <3>2, <3>3
    <3>5. \A c \in Pages : Inside(U, B, c, u) => Inside(U, B, c, v)
      <4> SUFFICES ASSUME NEW c \in Pages, Inside(U, B, c, u) PROVE Inside(U, B, c, v)
        OBVIOUS
      <4>1. Inside(T, B, c, v)
        BY <1>13, <2>3, <3>2
      <4>2. CASE v = t
        <5>1. c = d
          <6>1. B[c] > 0 /\ RunStart(c) <= t /\ t < EndOf(B, c)
            BY <1>9, <3>2, <4>1, <4>2
          <6> QED
            BY <1>4, <6>1, InsideOne
        <5> QED
          BY <1>16, <4>2, <5>1
      <4>3. CASE v # t
        BY <1>13, <3>2, <4>1, <4>3
      <4> QED
        BY <4>2, <4>3
    <3> QED
      BY <3>1, <3>2, <3>4, <3>5
  <2> QED
    BY <1>10, <2>1, <2>2, <2>3
<1>23. Laid(U, B)
  BY <1>17, <1>18, <1>19, <1>20, <1>21, <1>22 DEF Laid
<1> QED
  BY <1>10, <1>11, <1>12, <1>23 DEF U, new, right, size2, SplitOf

-----------------------------------------------------------------------------
(* The heap between two statements of malloc or free *)

\* A tag in a list is in the list of its class.
Sized(T) == \A t \in DOMAIN T : T[t].index # -1 => T[t].index = Class(T[t].real_size - TagSize)

\* No two neighbours are both in lists.
Parted(T) ==
    \A t \in DOMAIN T : T[t].index # -1 /\ T[t].split_right # NULL => T[T[t].split_right].index = -1

\* The tags as malloc and free find them and leave them.
Sound(T, F, B) == Linked(T, F) /\ Laid(T, B) /\ Sized(T) /\ Parted(T)

\* What Carve does, with the pair of tags and list heads taken apart.
LEMMA CarveIs ==
    ASSUME NEW T, NEW F, NEW t, NEW n
    PROVE  LET S == [T EXCEPT ![t].size = n]
               remainder == T[t].real_size - n - 2 * TagSize
           IN Carve([tags |-> T, free |-> F], t, n) =
                 IF remainder > 0 /\ getexp(remainder) >= 0
                 THEN split_tag([tags |-> S, free |-> F], t, n)
                 ELSE [tags |-> S, free |-> F]
  BY DEF Carve

\* Carve gives a tag of which the caller can use n bytes, and a rest, if any,
\* that is in a list; the other tags stay what they were.
LEMMA CarveSound ==
    ASSUME NEW T, NEW F, NEW B, Sound(T, F, B), RunsLie(B), NEW t \in DOMAIN T, NEW n \in Nat,
           T[t].index = -1, T[t].real_size >= n + TagSize,
           T[t].split_right # NULL => T[T[t].split_right].index = -1
    PROVE  LET r == Carve([tags |-> T, free |-> F], t, n)
               V == r.tags
           IN /\ Sound(V, r.free, B) /\ DOMAIN T \subseteq DOMAIN V
              /\ V[t].real_size >= n + TagSize
              /\ \A u \in DOMAIN T :
                    /\ V[u].index = T[u].index
                    /\ u # t => V[u].real_size = T[u].real_size /\ (Whole(V[u]) <=> Whole(T[u]))
              /\ \A u \in DOMAIN V \ DOMAIN T : V[u].index # -1 /\ ~Whole(V[u])
<1> DEFINE r == Carve([tags |-> T, free |-> F], t, n)
           V == r.tags
           S == [T EXCEPT ![t].size = n]
           remainder == T[t].real_size - n - 2 * TagSize
<1>1. Typed(T) /\ T[t] \in Tag /\ TagSize \in Nat \ {0} /\ T[t].real_size \in Nat /\ NULL \notin DOMAIN T
  BY NoAddressIsNull, LibAllocAssumption DEF Sound, Linked, Typed, Tag
<1>2. /\ DOMAIN S = DOMAIN T /\ S \in [DOMAIN T -> Tag]
      /\ \A u \in DOMAIN T :
            /\ S[u].real_size = T[u].real_size /\ S[u].index = T[u].index
            /\ S[u].split_left = T[u].split_left /\ S[u].split_right = T[u].split_right
            /\ S[u].next = T[u].next /\ S[u].prev = T[u].prev
  BY <1>1 DEF Typed, Tag
<1> HIDE DEF S
<1>3. Typed(S) /\ SameShape(T, S)
  BY <1>1, <1>2 DEF Typed, SameShape
<1>4. Linked(S, F)
  BY <1>2, <1>3, LinksKept DEF Sound
<1>5. Laid(S, B)
  BY <1>3, ShapeIsLaid DEF Sound
<1>6. \A u \in DOMAIN T : T[u].split_right # NULL => T[u].split_right \in DOMAIN T
  BY DEF Sound, Laid
<1>7. Sized(S) /\ Parted(S)
  BY <1>2, <1>6 DEF Sound, Sized, Parted
<1>8. CASE ~(remainder > 0 /\ getexp(remainder) >= 0)
  <2>1. r = [tags |-> S, free |-> F]
    BY <1>8, CarveIs DEF S
  <2>2. V = S /\ r.free = F
    BY <2>1
  <2> HIDE DEF V, r, remainder
  <2>3. Sound(V, r.free, B)
    BY <1>4, <1>5, <1>7, <2>2 DEF Sound
  <2>4. /\ DOMAIN V = DOMAIN T /\ V[t].real_size >= n + TagSize
        /\ \A u \in DOMAIN T :
              V[u].index = T[u].index /\ V[u].real_size = T[u].real_size /\ (Whole(V[u]) <=> Whole(T[u]))
    BY <1>2, <2>2 DEF Whole
  <2> QED
    BY <2>3, <2>4 DEF V, r
<1>9. CASE remainder > 0 /\ getexp(remainder) >= 0
  <2> DEFINE U   == SplitTags(S, t, n)
             new == t + TagSize + n
             i   == Class(U[new].real_size - TagSize)
  <2>1. S[t].real_size > n + 2 * TagSize /\ t \in DOMAIN S
    BY <1>1, <1>2, <1>9
  <2>0. Typed(U) /\ Laid(U, B) /\ SplitOf(S, U, t, n)
    BY <1>3, <1>5, <2>1, SplitTagsLaid
  <2> HIDE DEF U
  <2>2. /\ new \notin DOMAIN S /\ DOMAIN U = DOMAIN S \cup {new}
        /\ \A u \in DOMAIN S :
              /\ U[u].size = S[u].size /\ U[u].index = S[u].index
              /\ U[u].next = S[u].next /\ U[u].prev = S[u].prev
              /\ U[u].real_size = IF u = t THEN TagSize + n ELSE S[u].real_size
              /\ U[u].split_right = IF u = t THEN new ELSE S[u].split_right
              /\ U[u].split_left = IF u = S[t].split_right THEN new ELSE S[u].split_left
        /\ U[new].index = -1 /\ U[new].next = NULL /\ U[new].prev = NULL
        /\ U[new].split_left = t /\ U[new].split_right = S[t].split_right
    BY <2>0 DEF SplitOf
  <2>3. r = insert_tag([tags |-> U, free |-> F], new)
    <3>1. r = split_tag([tags |-> S, free |-> F], t, n)
      BY <1>9, CarveIs DEF S
    <3> QED
      BY <3>1, SplitIs DEF U
  <2> HIDE DEF U, new, r
  <2>4. Linked(U, F)
    BY <1>4, <2>0, <2>2, LinksKept
  <2>5. /\ Linked(V, r.free) /\ SameShape(U, V)
        /\ \A u \in DOMAIN U : V[u].index = IF u = new THEN i ELSE U[u].index
    BY <2>2, <2>3, <2>4, InsertTag
  <2>6. i \in Classes /\ i # -1
    <3>1. U[new].real_size - TagSize \in Int
      BY <1>1, <2>0, <2>2 DEF Typed, Tag
    <3>2. i \in Classes
      BY <3>1, ClassIsAClass
    <3> QED
      BY <3>2, LibAllocAssumption DEF Classes
  <2> HIDE DEF i, V
  <2>7. Laid(V, B)
    BY <2>0, <2>5, ShapeIsLaid
  <2>8. /\ DOMAIN V = DOMAIN T \cup {new} /\ new \notin DOMAIN T
        /\ V[new].index = i /\ V[new].split_left = t /\ V[new].split_right = T[t].split_right
        /\ V[new].real_size = U[new].real_size
        /\ \A u \in DOMAIN T :
              /\ V[u].index = T[u].index
              /\ V[u].real_size = IF u = t THEN TagSize + n ELSE T[u].real_size
              /\ V[u].split_right = IF u = t THEN new ELSE T[u].split_right
              /\ V[u].split_left = IF u = T[t].split_right THEN new ELSE T[u].split_left
    BY <1>2, <2>2, <2>5 DEF SameShape
  <2>9. Sized(V)
    <3>1. ASSUME NEW u \in DOMAIN T, V[u].index # -1 PROVE V[u].index = Class(V[u].real_size - TagSize)
      <4>1. u # t
        BY <2>8, <3>1
      <4> QED
        BY <2>8, <3>1, <4>1 DEF Sound, Sized
    <3>2. V[new].index = Class(V[new].real_size - TagSize)
      BY <2>8 DEF i
    <3> QED
      BY <2>8, <3>1, <3>2 DEF Sized
  <2>10. Parted(V)
    <3>1. ASSUME NEW u \in DOMAIN T, V[u].index # -1, V[u].split_right # NULL
          PROVE  V[V[u].split_right].index = -1
      <4>1. u # t /\ V[u].split_right = T[u].split_right /\ T[u].split_right \in DOMAIN T
        BY <1>6, <2>8, <3>1
      <4>2. T[T[u].split_right].index = -1
        BY <2>8, <3>1, <4>1 DEF Sound, Parted
      <4> QED
        BY <2>8, <4>1, <4>2
    <3>2. V[new].split_right # NULL => V[V[new].split_right].index = -1
      BY <1>6, <2>8
    <3> QED
      BY <2>8, <3>1, <3>2 DEF Parted
  <2>11. \A u \in DOMAIN T : u # t => V[u].real_size = T[u].real_size /\ (Whole(V[u]) <=> Whole(T[u]))
    <3> SUFFICES ASSUME NEW u \in DOMAIN T, u # t
                 PROVE  V[u].real_size = T[u].real_size /\ (Whole(V[u]) <=> Whole(T[u]))
      OBVIOUS
    <3>1. CASE u # T[t].split_right
      BY <2>8, <3>1 DEF Whole
    <3>2. CASE u = T[t].split_right
      <4>1. T[t].split_right # NULL
        BY <1>1, <3>2
      <4>2. T[u].split_left = t /\ V[u].split_left = new
        BY <2>8, <3>2, <4>1 DEF Sound, Laid
      <4>3. t # NULL /\ new # NULL
        BY <1>1, <2>0, <2>2, NoAddressIsNull DEF Typed
      <4> QED
        BY <2>8, <4>2, <4>3 DEF Whole
    <3> QED
      BY <3>1, <3>2
  <2>12. V[t].real_size >= n + TagSize /\ V[new].index # -1 /\ ~Whole(V[new])
    BY <1>1, <2>6, <2>8 DEF Whole
  <2> QED
    BY <2>5, <2>7, <2>8, <2>9, <2>10, <2>11, <2>12 DEF Sound, V, r
<1> QED
  BY <1>8, <1>9

-----------------------------------------------------------------------------
(* Frames and bytes *)

\* Division with remainder.
LEMMA DivMod ==
    ASSUME NEW n \in Nat, NEW d \in Nat \ {0}
    PROVE  /\ n \div d \in Nat /\ n % d \in 0 .. d - 1
           /\ n = d * (n \div d) + (n % d)
  OBVIOUS

\* A multiple of d, divided by d.
LEMMA DivOfTimes ==
    ASSUME NEW m \in Nat, NEW d \in Nat \ {0}
    PROVE  (m * d) \div d = m /\ (m * d) % d = 0
<1> DEFINE n == m * d
           q == n \div d
           r == n % d
<1>1. n \in Nat /\ n = d * m
  OBVIOUS
<1> HIDE DEF n
<1>2. q \in Nat /\ r \in 0 .. d - 1 /\ n = d * q + r
  BY <1>1, DivMod
<1> HIDE DEF q, r
<1>3. q = m
  <2>1. CASE q < m
    <3>1. d * (q + 1) <= d * m
      BY <1>2, <2>1
    <3>2. d * (q + 1) = d * q + d
      BY <1>2
    <3> QED
      BY <1>1, <1>2, <3>1, <3>2
  <2>2. CASE q > m
    <3>1. d * (m + 1) <= d * q
      BY <1>2, <2>2
    <3>2. d * (m + 1) = d * m + d
      OBVIOUS
    <3> QED
      BY <1>1, <1>2, <3>1, <3>2
  <2> QED
    BY <1>2, <2>1, <2>2
<1>4. r = 0
  BY <1>1, <1>2, <1>3
<1> QED
  BY <1>3, <1>4 DEF n, q, r

\* malloc asks for frames enough for what it is asked for.
LEMMA PagesForIsEnough ==
    ASSUME NEW n \in Nat
    PROVE  PagesFor(n) \in Nat /\ PagesFor(n) >= l_pageCount /\ PagesFor(n) > 0 /\ PagesFor(n) * l_pageSize >= n
<1> DEFINE d == l_pageSize
           q == n \div d
           r == n % d
           p == q + (IF r # 0 THEN 1 ELSE 0)
<1>1. l_pageSize \in Nat \ {0} /\ l_pageCount \in Nat \ {0}
  BY LibAllocAssumption
<1>2. q \in Nat /\ r \in 0 .. d - 1 /\ n = d * q + r
  BY <1>1, DivMod
<1>3. PagesFor(n) = IF p < l_pageCount THEN l_pageCount ELSE p
  BY DEF PagesFor
<1> HIDE DEF q, r
<1>4. p \in Nat /\ p * d >= n
  <2>1. CASE r = 0
    BY <1>1, <1>2, <2>1
  <2>2. CASE r # 0
    <3>1. p = q + 1 /\ (q + 1) * d = d * q + d
      BY <1>1, <1>2, <2>2
    <3> QED
      BY <1>1, <1>2, <3>1
  <2> QED
    BY <2>1, <2>2
<1> HIDE DEF p, d
<1>5. p < l_pageCount => p * d <= l_pageCount * d
  BY <1>1, <1>4 DEF d
<1>6. l_pageCount * d \in Nat /\ p * d \in Nat
  BY <1>1, <1>4 DEF d
<1> QED
  BY <1>1, <1>3, <1>4, <1>5, <1>6 DEF d

\* free returns a run of m frames with the size it has.
LEMMA PagesForRun ==
    ASSUME NEW m \in Nat, m >= l_pageCount
    PROVE  PagesFor(m * l_pageSize) = m
<1>1. l_pageSize \in Nat \ {0} /\ l_pageCount \in Nat \ {0}
  BY LibAllocAssumption
<1>2. (m * l_pageSize) \div l_pageSize = m /\ (m * l_pageSize) % l_pageSize = 0
  BY <1>1, DivOfTimes
<1> QED
  BY <1>1, <1>2 DEF PagesFor

\* Memory holds finitely many addresses, and so tags.
LEMMA TagsAreFinite ==
    ASSUME NEW T, DOMAIN T \subseteq Addresses
    PROVE  IsFiniteSet(DOMAIN T)
<1>1. FirstPage * l_pageSize \in Int /\ (FirstPage + NumPages) * l_pageSize - 1 \in Int
  BY PageFramesAssumption, LibAllocAssumption
<1>2. IsFiniteSet(Addresses)
  BY <1>1, FS_Interval DEF Addresses
<1> QED
  BY <1>2, FS_Subset

-----------------------------------------------------------------------------
(* What each step of malloc and free does to the heap *)

WholeOf(T, i) == {t \in DOMAIN T : T[t].index = i /\ Whole(T[t])}

Counted(T, C) ==
    /\ C \in [Classes -> 0 .. MAXCOMPLETE]
    /\ \A i \in Classes : C[i] = Cardinality(WholeOf(T, i))

\* A tag leaves the lists: so does the whole run it may be.
LEMMA RemoveSound ==
    ASSUME NEW T, NEW F, NEW B, Sound(T, F, B), NEW t \in DOMAIN T, T[t].index # -1
    PROVE  LET r == remove_tag([tags |-> T, free |-> F], t)
           IN /\ Sound(r.tags, r.free, B) /\ SameShape(T, r.tags)
              /\ \A u \in DOMAIN T : r.tags[u].index = IF u = t THEN -1 ELSE T[u].index
              /\ T[t].split_right # NULL => r.tags[T[t].split_right].index = -1
<1> DEFINE r == remove_tag([tags |-> T, free |-> F], t)
           R == r.tags
<1>1. /\ Linked(R, r.free) /\ SameShape(T, R)
      /\ \A u \in DOMAIN T : R[u].index = IF u = t THEN -1 ELSE T[u].index
  BY RemoveTag DEF Sound
<1> HIDE DEF r, R
<1>2. Laid(R, B)
  BY <1>1, ShapeIsLaid DEF Sound
<1>3. Sized(R)
  BY <1>1 DEF Sound, Sized, SameShape
<1>4. \A u \in DOMAIN T : T[u].split_right # NULL => T[u].split_right \in DOMAIN T
  BY DEF Sound, Laid
<1>5. Parted(R)
  BY <1>1, <1>4 DEF Sound, Parted, SameShape
<1>6. T[t].split_right # NULL => R[T[t].split_right].index = -1
  BY <1>1, <1>4 DEF Sound, Parted
<1> QED
  BY <1>1, <1>2, <1>3, <1>5, <1>6 DEF Sound, R, r

\* V and G are T and its list heads after tag t left its list to hold n bytes: a
\* rest of it may be a new tag in a list, and a whole run it was is one no more.
TagTaken(T, V, G, B, t, n) ==
    /\ Sound(V, G, B) /\ DOMAIN T \subseteq DOMAIN V
    /\ V[t].real_size >= n + TagSize /\ V[t].index = -1
    /\ \A u \in DOMAIN T : u # t =>
          V[u].index = T[u].index /\ V[u].real_size = T[u].real_size
    /\ \A u \in DOMAIN V \ DOMAIN T : V[u].index # -1
    /\ \A i \in Classes : WholeOf(V, i) = WholeOf(T, i) \ {t}

\* TakeFreeTag.
LEMMA TakeSound ==
    ASSUME NEW T, NEW F, NEW B, Sound(T, F, B), RunsLie(B), NEW t \in DOMAIN T, NEW n \in Nat,
           T[t].index # -1, T[t].real_size >= n + TagSize
    PROVE  LET r == Carve(remove_tag([tags |-> T, free |-> F], t), t, n)
           IN TagTaken(T, r.tags, r.free, B, t, n)
<1> DEFINE q == remove_tag([tags |-> T, free |-> F], t)
           R == q.tags
           G == q.free
           r == Carve(q, t, n)
           V == r.tags
<1>1. /\ Sound(R, G, B) /\ SameShape(T, R)
      /\ \A u \in DOMAIN T : R[u].index = IF u = t THEN -1 ELSE T[u].index
      /\ T[t].split_right # NULL => R[T[t].split_right].index = -1
  BY RemoveSound
<1>2. q = [tags |-> R, free |-> G]
  BY DEF remove_tag
<1> HIDE DEF q, R, G
<1>3. /\ DOMAIN R = DOMAIN T
      /\ \A u \in DOMAIN T :
            R[u].real_size = T[u].real_size /\ R[u].split_right = T[u].split_right /\ (Whole(R[u]) <=> Whole(T[u]))
  BY <1>1 DEF SameShape, Whole
<1>4. r = Carve([tags |-> R, free |-> G], t, n)
  BY <1>2
<1> HIDE DEF r
<1>5. /\ t \in DOMAIN R /\ R[t].index = -1 /\ R[t].real_size >= n + TagSize
      /\ R[t].split_right # NULL => R[R[t].split_right].index = -1
  BY <1>1, <1>3
<1>6. /\ Sound(V, r.free, B) /\ DOMAIN R \subseteq DOMAIN V
      /\ V[t].real_size >= n + TagSize
      /\ \A u \in DOMAIN R :
            /\ V[u].index = R[u].index
            /\ u # t => V[u].real_size = R[u].real_size /\ (Whole(V[u]) <=> Whole(R[u]))
      /\ \A u \in DOMAIN V \ DOMAIN R : V[u].index # -1 /\ ~Whole(V[u])
  BY <1>1, <1>4, <1>5, CarveSound
<1> HIDE DEF V
<1>7. V[t].index = -1
  BY <1>1, <1>3, <1>6
<1>8. -1 \notin Classes
  BY LibAllocAssumption DEF Classes
<1>9. \A i \in Classes : WholeOf(V, i) = WholeOf(T, i) \ {t}
  <2> SUFFICES ASSUME NEW i \in Classes, NEW u
               PROVE  u \in WholeOf(V, i) <=> u \in WholeOf(T, i) /\ u # t
    OBVIOUS
  <2>1. CASE u \in DOMAIN T /\ u # t
    BY <1>1, <1>3, <1>6, <2>1 DEF WholeOf
  <2>2. CASE u = t
    BY <1>7, <1>8, <2>2 DEF WholeOf
  <2>3. CASE u \notin DOMAIN T
    BY <1>3, <1>6, <2>3 DEF WholeOf
  <2> QED
    BY <2>1, <2>2, <2>3
<1> QED
  BY <1>1, <1>3, <1>6, <1>7, <1>9 DEF TagTaken, V, r, q

\* V and G are T and its list heads after tag a took its neighbour b over and is
\* in no list.
TagJoined(T, V, G, B, a, b) ==
    /\ Sound(V, G, B) /\ DOMAIN V = DOMAIN T \ {b} /\ V[a].index = -1
    /\ \A u \in DOMAIN V : u # a =>
          V[u].index = T[u].index /\ V[u].real_size = T[u].real_size
    /\ \A i \in Classes : WholeOf(V, i) = WholeOf(T, i)

\* MeltLeft.
LEMMA MeltSound ==
    ASSUME NEW T, NEW F, NEW B, Sound(T, F, B), RunsLie(B), NEW t \in DOMAIN T, T[t].index = -1,
           NEW left, T[t].split_left = left, left # NULL, T[left].index # -1
    PROVE  LET r == remove_tag([tags |-> Join(T, left, t), free |-> F], left)
           IN left \in DOMAIN T /\ left # t /\ TagJoined(T, r.tags, r.free, B, left, t)
<1> DEFINE J == Join(T, left, t)
           r == remove_tag([tags |-> J, free |-> F], left)
           V == r.tags
           right == T[t].split_right
<1>1. left \in DOMAIN T /\ T[left].split_right = t /\ t # NULL /\ DOMAIN T \subseteq Nat \ {NULL}
  BY NoAddressIsNull DEF Sound, Laid, Linked, Typed
<1>2. Typed(J) /\ Laid(J, B) /\ JoinOf(T, J, left, t)
  BY <1>1, JoinTags DEF Sound, Linked
<1> HIDE DEF J
<1>3. Linked(J, F)
  BY <1>2, LinksKept DEF Sound, JoinOf
<1>4. left \in DOMAIN J /\ J[left].index # -1
  BY <1>1, <1>2 DEF JoinOf
<1>5. /\ Linked(V, r.free) /\ SameShape(J, V)
      /\ \A u \in DOMAIN J : V[u].index = IF u = left THEN -1 ELSE J[u].index
  BY <1>3, <1>4, RemoveTag
<1> HIDE DEF V, r
<1>6. Laid(V, B)
  BY <1>2, <1>5, ShapeIsLaid
<1>7. /\ DOMAIN V = DOMAIN T \ {t} /\ V[left].index = -1
      /\ \A u \in DOMAIN V : u # left =>
            /\ V[u].index = T[u].index /\ V[u].real_size = T[u].real_size
            /\ V[u].split_right = T[u].split_right
            /\ V[u].split_left = IF u = right THEN left ELSE T[u].split_left
  BY <1>1, <1>2, <1>5 DEF SameShape, JoinOf
<1>8. Sized(V)
  BY <1>7 DEF Sound, Sized
<1>9. Parted(V)
  <2> SUFFICES ASSUME NEW u \in DOMAIN V, V[u].index # -1, V[u].split_right # NULL
               PROVE  V[V[u].split_right].index = -1
    BY DEF Parted
  <2>1. u \in DOMAIN T /\ V[u].split_right = T[u].split_right /\ T[u].index # -1
    BY <1>7
  <2>2. T[T[u].split_right].index = -1
    BY <2>1 DEF Sound, Parted
  <2>3. V[u].split_right \in DOMAIN V
    BY <1>6 DEF Laid
  <2> QED
    BY <1>7, <2>1, <2>2, <2>3
<1>10. \A i \in Classes : WholeOf(V, i) = WholeOf(T, i)
  <2>1. -1 \notin Classes
    BY LibAllocAssumption DEF Classes
  <2>2. ~Whole(T[left])
    BY <1>1 DEF Whole
  <2>3. ASSUME NEW u \in DOMAIN V, u # left PROVE Whole(V[u]) <=> Whole(T[u])
    <3>1. CASE u = right
      <4>1. T[u].split_left = t
        BY <1>1, <1>7, <2>3, <3>1 DEF Sound, Laid
      <4> QED
        BY <1>1, <1>7, <2>3, <3>1, <4>1 DEF Whole
    <3>2. CASE u # right
      BY <1>7, <2>3, <3>2 DEF Whole
    <3> QED
      BY <3>1, <3>2
  <2> SUFFICES ASSUME NEW i \in Classes, NEW u
               PROVE  u \in WholeOf(V, i) <=> u \in WholeOf(T, i)
    OBVIOUS
  <2>4. CASE u = left
    BY <1>7, <2>1, <2>2, <2>4 DEF WholeOf
  <2>5. CASE u = t
    BY <1>7, <2>1, <2>5 DEF WholeOf
  <2>6. CASE u # left /\ u # t
    BY <1>7, <2>3, <2>6 DEF WholeOf
  <2> QED
    BY <2>4, <2>5, <2>6
<1> QED
  BY <1>1, <1>2, <1>5, <1>6, <1>7, <1>8, <1>9, <1>10 DEF TagJoined, Sound, V, r, J, JoinOf

\* AbsorbRight.
LEMMA AbsorbSound ==
    ASSUME NEW T, NEW F, NEW B, Sound(T, F, B), RunsLie(B), NEW t \in DOMAIN T, T[t].index = -1,
           NEW right, T[t].split_right = right, right # NULL, T[right].index # -1
    PROVE  LET r == remove_tag([tags |-> T, free |-> F], right)
           IN right \in DOMAIN T /\ right # t /\ TagJoined(T, Join(r.tags, t, right), r.free, B, t, right)
<1> DEFINE r == remove_tag([tags |-> T, free |-> F], right)
           R == r.tags
           G == r.free
           V == Join(R, t, right)
           after == R[right].split_right
<1>1. right \in DOMAIN T /\ T[right].split_left = t /\ t # NULL
  BY NoAddressIsNull DEF Sound, Laid, Linked, Typed
<1>2. /\ Sound(R, G, B) /\ SameShape(T, R)
      /\ \A u \in DOMAIN T : R[u].index = IF u = right THEN -1 ELSE T[u].index
  BY <1>1, RemoveSound
<1> HIDE DEF r, R, G
<1>3. t \in DOMAIN R /\ DOMAIN R = DOMAIN T /\ R[t].split_right = right
  BY <1>2 DEF SameShape
<1>4. Typed(V) /\ Laid(V, B) /\ JoinOf(R, V, t, right)
  BY <1>2, <1>3, JoinTags DEF Sound, Linked
<1> HIDE DEF V
<1>5. Linked(V, G)
  <2>1. \A u \in DOMAIN R \ DOMAIN V : R[u].index = -1
    BY <1>1, <1>2, <1>3, <1>4 DEF JoinOf
  <2> QED
    BY <1>2, <1>4, <2>1, LinksKept DEF Sound, JoinOf
<1>6. /\ DOMAIN V = DOMAIN T \ {right} /\ V[t].index = -1
      /\ \A u \in DOMAIN V : u # t =>
            /\ V[u].index = T[u].index /\ V[u].real_size = T[u].real_size
            /\ V[u].split_right = T[u].split_right
            /\ V[u].split_left = IF u = after THEN t ELSE T[u].split_left
  BY <1>1, <1>2, <1>3, <1>4 DEF SameShape, JoinOf
<1>7. Sized(V)
  BY <1>6 DEF Sound, Sized
<1>8. Parted(V)
  <2> SUFFICES ASSUME NEW u \in DOMAIN V, V[u].index # -1, V[u].split_right # NULL
               PROVE  V[V[u].split_right].index = -1
    BY DEF Parted
  <2>1. u \in DOMAIN T /\ V[u].split_right = T[u].split_right /\ T[u].index # -1
    BY <1>6
  <2>2. T[T[u].split_right].index = -1
    BY <2>1 DEF Sound, Parted
  <2>3. V[u].split_right \in DOMAIN V
    BY <1>4 DEF Laid
  <2> QED
    BY <1>6, <2>1, <2>2, <2>3
<1>9. \A i \in Classes : WholeOf(V, i) = WholeOf(T, i)
  <2>1. -1 \notin Classes
    BY LibAllocAssumption DEF Classes
  <2>2. ~Whole(T[right])
    BY <1>1 DEF Whole
  <2>3. ASSUME NEW u \in DOMAIN V, u # t PROVE Whole(V[u]) <=> Whole(T[u])
    <3>1. CASE u = after
      <4>1. after # NULL
        BY <1>6, <2>3, <3>1, NoAddressIsNull DEF Sound, Linked, Typed
      <4>2. R[after].split_left = right
        BY <1>1, <1>2, <1>3, <4>1 DEF Sound, Laid
      <4>3. T[u].split_left = right
        BY <1>2, <1>6, <2>3, <3>1, <4>2 DEF SameShape
      <4> QED
        BY <1>1, <1>6, <2>3, <3>1, <4>3 DEF Whole
    <3>2. CASE u # after
      BY <1>6, <2>3, <3>2 DEF Whole
    <3> QED
      BY <3>1, <3>2
  <2> SUFFICES ASSUME NEW i \in Classes, NEW u
               PROVE  u \in WholeOf(V, i) <=> u \in WholeOf(T, i)
    OBVIOUS
  <2>4. CASE u = t
    BY <1>6, <2>1, <2>4 DEF WholeOf
  <2>5. CASE u = right
    BY <1>6, <2>2, <2>5 DEF WholeOf
  <2>6. CASE u # right /\ u # t
    BY <1>6, <2>3, <2>6 DEF WholeOf
  <2> QED
    BY <2>4, <2>5, <2>6
<1> QED
  BY <1>1, <1>4, <1>5, <1>6, <1>7, <1>8, <1>9 DEF TagJoined, Sound, V, R, G, r, JoinOf

\* V and G are T and its list heads after tag t joined the list of class i.
TagKept(T, V, G, B, t, i) ==
    /\ Sound(V, G, B) /\ SameShape(T, V) /\ i \in Classes
    /\ \A u \in DOMAIN T : V[u].index = IF u = t THEN i ELSE T[u].index
    /\ \A j \in Classes :
          WholeOf(V, j) = IF Whole(T[t]) /\ j = i THEN WholeOf(T, j) \cup {t} ELSE WholeOf(T, j)

\* KeepTag.
LEMMA KeepSound ==
    ASSUME NEW T, NEW F, NEW B, Sound(T, F, B), NEW t \in DOMAIN T, T[t].index = -1,
           T[t].split_left # NULL => T[T[t].split_left].index = -1,
           T[t].split_right # NULL => T[T[t].split_right].index = -1
    PROVE  LET r == insert_tag([tags |-> T, free |-> F], t)
           IN TagKept(T, r.tags, r.free, B, t, Class(T[t].real_size - TagSize))
<1> DEFINE r == insert_tag([tags |-> T, free |-> F], t)
           V == r.tags
           i == Class(T[t].real_size - TagSize)
<1>1. /\ Linked(V, r.free) /\ SameShape(T, V)
      /\ \A u \in DOMAIN T : V[u].index = IF u = t THEN i ELSE T[u].index
  BY InsertTag DEF Sound
<1>2. i \in Classes /\ -1 \notin Classes /\ NULL \notin DOMAIN T
  <2>1. T[t].real_size - TagSize \in Int
    BY LibAllocAssumption DEF Sound, Linked, Typed, Tag
  <2> QED
    BY <2>1, ClassIsAClass, NoAddressIsNull, LibAllocAssumption DEF Classes, Sound, Linked, Typed
<1> HIDE DEF r, V
<1>3. Laid(V, B)
  BY <1>1, ShapeIsLaid DEF Sound
<1>4. Sized(V)
  BY <1>1 DEF Sound, Sized, SameShape
<1> HIDE DEF i
<1>5. Parted(V)
  <2> SUFFICES ASSUME NEW u \in DOMAIN T, V[u].index # -1, V[u].split_right # NULL
               PROVE  V[V[u].split_right].index = -1
    BY <1>1 DEF Parted, SameShape
  <2>1. V[u].split_right = T[u].split_right /\ T[u].split_right \in DOMAIN T /\ T[T[u].split_right].split_left = u
    BY <1>1 DEF Sound, Laid, SameShape
  <2>2. CASE u = t
    <3>1. T[u].split_right # t
      <4>1. T[u].split_right = u + T[u].real_size /\ T[u].real_size > 0 /\ u \in Nat /\ T[u].real_size \in Nat
        BY <2>1, NoAddressIsNull, LibAllocAssumption DEF Sound, Laid, Linked, Typed, Tag
      <4> QED
        BY <2>2, <4>1
    <3> QED
      BY <1>1, <2>1, <2>2, <3>1
  <2>3. CASE u # t
    <3>1. T[u].index # -1
      BY <1>1, <2>3
    <3>2. T[T[u].split_right].index = -1
      BY <2>1, <3>1 DEF Sound, Parted
    <3>3. T[u].split_right # t
      BY <1>2, <2>1, <3>1
    <3> QED
      BY <1>1, <2>1, <3>2, <3>3
  <2> QED
    BY <2>2, <2>3
<1>6. \A u \in DOMAIN T : Whole(V[u]) <=> Whole(T[u])
  BY <1>1 DEF SameShape, Whole
<1>7. \A j \in Classes :
         WholeOf(V, j) = IF Whole(T[t]) /\ j = i THEN WholeOf(T, j) \cup {t} ELSE WholeOf(T, j)
  <2> SUFFICES ASSUME NEW j \in Classes, NEW u
               PROVE  u \in WholeOf(V, j) <=> u \in WholeOf(T, j) \/ (Whole(T[t]) /\ j = i /\ u = t)
    OBVIOUS
  <2>1. DOMAIN V = DOMAIN T
    BY <1>1 DEF SameShape
  <2>2. CASE u = t
    BY <1>1, <1>2, <1>6, <2>1, <2>2 DEF WholeOf
  <2>3. CASE u # t
    BY <1>1, <1>6, <2>1, <2>3 DEF WholeOf
  <2> QED
    BY <2>2, <2>3
<1> QED
  BY <1>1, <1>2, <1>3, <1>4, <1>5, <1>7 DEF TagKept, Sound, V, r, i

\* ReleasePages: what goes back is the run, whole.
LEMMA ReleaseSound ==
    ASSUME NEW T, NEW F, NEW B, Sound(T, F, B), RunsLie(B), NEW t \in DOMAIN T, T[t].index = -1, Whole(T[t])
    PROVE  LET d  == t \div l_pageSize
               B2 == [B EXCEPT ![d] = 0]
               V  == [u \in DOMAIN T \ {t} |-> T[u]]
           IN /\ d \in Pages /\ B[d] > 0 /\ PagesFor(T[t].real_size) = B[d]
              /\ Sound(V, F, B2) /\ RunsLie(B2)
              /\ \A i \in Classes : WholeOf(V, i) = WholeOf(T, i)
<1> DEFINE d  == t \div l_pageSize
           B2 == [B EXCEPT ![d] = 0]
           V  == [u \in DOMAIN T \ {t} |-> T[u]]
<1>1. T[t].split_left = NULL /\ T[t].split_right = NULL
  BY DEF Whole
<1>2. PICK b \in Pages : B[b] > 0 /\ t = RunStart(b)
  BY <1>1 DEF Sound, Laid
<1>3. b \in Nat /\ B[b] \in Nat /\ l_pageSize \in Nat \ {0} /\ B[b] >= l_pageCount
  BY <1>2, LibAllocAssumption, PageFramesAssumption DEF RunsLie, Pages
<1>4. d = b
  BY <1>2, <1>3, DivOfTimes DEF RunStart
<1>5. /\ DOMAIN T \subseteq Nat \ {NULL} /\ Typed(T)
      /\ \A u \in DOMAIN T : T[u].real_size \in Nat /\ T[u].real_size > 0
  BY NoAddressIsNull, LibAllocAssumption DEF Sound, Linked, Typed, Laid, Tag
<1>6. \A c \in Pages : RunStart(c) \in Nat /\ EndOf(B, c) \in Nat
  BY RunsApart
<1>7. t + T[t].real_size = EndOf(B, b) /\ Inside(T, B, b, t)
  <2>1. PICK c \in Pages : Inside(T, B, c, t)
    BY DEF Sound, Laid
  <2>2. RunStart(c) <= t /\ t < EndOf(B, c) /\ B[c] > 0
    BY <1>5, <1>6, <2>1 DEF Inside
  <2>3. RunStart(b) <= t /\ t < EndOf(B, b)
    BY <1>2, RunsApart
  <2>4. b = c
    BY <1>2, <1>5, <2>2, <2>3, InsideOne
  <2> QED
    BY <1>1, <2>1, <2>4 DEF Sound, Laid
<1>8. T[t].real_size = B[b] * l_pageSize
  BY <1>2, <1>3, <1>5, <1>7 DEF RunStart, EndOf
<1>9. PagesFor(T[t].real_size) = B[b]
  BY <1>3, <1>8, PagesForRun
<1> HIDE DEF d
<1>10. /\ B2 \in [Pages -> Nat] /\ B2[b] = 0
       /\ \A c \in Pages : c # b => B2[c] = B[c] /\ EndOf(B2, c) = EndOf(B, c)
  BY <1>4 DEF RunsLie, EndOf
<1> HIDE DEF B2
<1>11. RunsLie(B2)
  BY <1>10 DEF RunsLie
<1>12. /\ DOMAIN V = DOMAIN T \ {t} /\ \A u \in DOMAIN V : V[u] = T[u]
       /\ Typed(T) => V \in [DOMAIN V -> Tag]
  BY DEF Typed
<1> HIDE DEF V
<1>13. Linked(V, F)
  <2>1. Typed(V)
    BY <1>5, <1>12 DEF Typed
  <2> QED
    BY <1>12, <2>1, LinksKept DEF Sound
<1>14. \A c \in Pages : \A u \in DOMAIN V : Inside(V, B2, c, u) <=> Inside(T, B, c, u)
  <2> SUFFICES ASSUME NEW c \in Pages, NEW u \in DOMAIN V
               PROVE  Inside(V, B2, c, u) <=> Inside(T, B, c, u)
    OBVIOUS
  <2>1. CASE c # b
    BY <1>10, <1>12, <2>1 DEF Inside
  <2>2. CASE c = b
    <3>1. ~Inside(V, B2, c, u)
      BY <1>10, <2>2 DEF Inside
    <3>2. ASSUME Inside(T, B, b, u) PROVE FALSE
      <4>1. t < u
        BY <1>2, <1>5, <1>12, <3>2 DEF Inside
      <4>2. t + T[t].real_size <= u
        BY <1>12, <4>1 DEF Sound, Laid
      <4> QED
        BY <1>5, <1>6, <1>7, <1>12, <3>2, <4>2 DEF Inside
    <3> QED
      BY <2>2, <3>1, <3>2
  <2> QED
    BY <2>1, <2>2
<1>15. \A u \in DOMAIN V : T[u].split_left # t /\ T[u].split_right # t
  BY <1>1, <1>5, <1>12 DEF Sound, Laid
<1>16. Laid(V, B2)
  <2>1. \A c \in Pages : B2[c] > 0 => RunStart(c) \in DOMAIN V /\ V[RunStart(c)].split_left = NULL
    <3> SUFFICES ASSUME NEW c \in Pages, B2[c] > 0
                 PROVE  RunStart(c) \in DOMAIN V /\ V[RunStart(c)].split_left = NULL
      OBVIOUS
    <3>1. c # b /\ B[c] > 0
      BY <1>10
    <3>2. RunStart(c) # t
      BY <1>2, <1>6, <3>1, RunsApart
    <3> QED
      BY <1>12, <3>1, <3>2 DEF Sound, Laid
  <2>2. ASSUME NEW u \in DOMAIN V
        PROVE  /\ V[u].real_size >= TagSize
               /\ \E c \in Pages : Inside(V, B2, c, u)
               /\ \A v \in DOMAIN V : u < v => u + V[u].real_size <= v
    BY <1>12, <1>14, <2>2 DEF Sound, Laid
  <2>3. ASSUME NEW u \in DOMAIN V, V[u].split_left = NULL
        PROVE  \E c \in Pages : B2[c] > 0 /\ u = RunStart(c)
    <3>1. PICK c \in Pages : B[c] > 0 /\ u = RunStart(c)
      BY <1>12, <2>3 DEF Sound, Laid
    <3>2. c # b
      BY <1>2, <1>12, <3>1
    <3> QED
      BY <1>10, <3>1, <3>2
  <2>4. ASSUME NEW u \in DOMAIN V
        PROVE  /\ V[u].split_left # NULL => V[u].split_left \in DOMAIN V /\ V[V[u].split_left].split_right = u
               /\ V[u].split_right = NULL =>
                     \A c \in Pages : Inside(V, B2, c, u) => u + V[u].real_size = EndOf(B2, c)
    <3>1. V[u].split_left # NULL => V[u].split_left \in DOMAIN V /\ V[V[u].split_left].split_right = u
      BY <1>12, <1>15, <2>4 DEF Sound, Laid
    <3>2. ASSUME V[u].split_right = NULL, NEW c \in Pages, Inside(V, B2, c, u)
          PROVE  u + V[u].real_size = EndOf(B2, c)
      <4>1. c # b
        BY <1>10, <3>2 DEF Inside
      <4>2. Inside(T, B, c, u)
        BY <1>14, <3>2
      <4>3. u + T[u].real_size = EndOf(B, c)
        BY <1>12, <3>2, <4>2 DEF Sound, Laid
      <4> QED
        BY <1>10, <1>12, <4>1, <4>3
    <3> QED
      BY <3>1, <3>2
  <2>5. ASSUME NEW u \in DOMAIN V, V[u].split_right # NULL
        PROVE  /\ V[u].split_right = u + V[u].real_size /\ V[u].split_right \in DOMAIN V
               /\ V[V[u].split_right].split_left = u
               /\ \A c \in Pages : Inside(V, B2, c, u) => Inside(V, B2, c, V[u].split_right)
    <3>1. /\ T[u].split_right = u + T[u].real_size /\ T[u].split_right \in DOMAIN T
          /\ T[T[u].split_right].split_left = u
          /\ \A c \in Pages : Inside(T, B, c, u) => Inside(T, B, c, T[u].split_right)
      BY <1>12, <2>5 DEF Sound, Laid
    <3>2. V[u].split_right \in DOMAIN V /\ V[u] = T[u]
      BY <1>12, <1>15, <3>1
    <3> QED
      BY <1>12, <1>14, <3>1, <3>2
  <2> QED
    BY <2>1, <2>2, <2>3, <2>4, <2>5 DEF Laid
<1>17. Sized(V) /\ Parted(V)
  <2>1. Sized(V)
    BY <1>12 DEF Sound, Sized
  <2>2. \A u \in DOMAIN V : V[u].split_right # NULL => V[u].split_right \in DOMAIN V
    BY <1>16 DEF Laid
  <2> QED
    BY <1>12, <2>1, <2>2 DEF Sound, Parted
<1>18. \A i \in Classes : WholeOf(V, i) = WholeOf(T, i)
  <2>1. -1 \notin Classes
    BY LibAllocAssumption DEF Classes
  <2> QED
    BY <1>12, <2>1 DEF WholeOf
<1> QED
  BY <1>2, <1>4, <1>9, <1>11, <1>13, <1>16, <1>17, <1>18 DEF Sound, V, B2, d

\* The n frames from b on are in the memory, and nobody holds them.
RunFits(B, b, n) ==
    /\ n >= l_pageCount /\ Run(b, n) \subseteq Pages
    /\ \A c \in Pages : Run(b, n) \cap Run(c, B[c]) = {}

\* The one tag of a run of n frames.
IsRunTag(tg, n) ==
    /\ tg \in Tag /\ tg.real_size = n * l_pageSize /\ tg.index = -1
    /\ tg.split_left = NULL /\ tg.split_right = NULL /\ tg.next = NULL /\ tg.prev = NULL

\* V is T with tag tg at new, which heads the run that C has more.
RunAdded(T, V, F, C, new, tg) ==
    /\ Sound(V, F, C) /\ RunsLie(C)
    /\ new \notin DOMAIN T /\ DOMAIN V = DOMAIN T \cup {new}
    /\ V[new] = tg /\ \A u \in DOMAIN T : V[u] = T[u]
    /\ \A i \in Classes : WholeOf(V, i) = WholeOf(T, i)

\* TakeNewPages, before the tag of the new run is carved.
LEMMA GrowSound ==
    ASSUME NEW T, NEW F, NEW B, Sound(T, F, B), RunsLie(B), NEW b \in Pages, NEW n \in Nat,
           RunFits(B, b, n), NEW tg, IsRunTag(tg, n)
    PROVE  LET new == b * l_pageSize
           IN /\ B[b] = 0 /\ n <= NumPages
              /\ RunAdded(T, Added(T, new, tg), F, [B EXCEPT ![b] = n], new, tg)
<1> DEFINE new == b * l_pageSize
           B2  == [B EXCEPT ![b] = n]
           V   == Added(T, new, tg)
<1> USE DEF RunFits, IsRunTag
<1>1. /\ Pages \subseteq Nat /\ b \in Nat /\ n > 0 /\ B \in [Pages -> Nat] /\ l_pageSize \in Nat \ {0}
      /\ b + n <= FirstPage + NumPages /\ n <= NumPages
  <2>1. FirstPage \in Nat /\ NumPages \in Nat /\ l_pageCount \in Nat \ {0} /\ l_pageSize \in Nat \ {0}
    BY PageFramesAssumption, LibAllocAssumption
  <2>2. b + n - 1 \in Pages
    <3>1. b \in Nat /\ n > 0
      BY <2>1 DEF Pages
    <3>2. b + n - 1 \in Run(b, n)
      BY <3>1 DEF Run
    <3> QED
      BY <3>2
  <2>3. Pages \subseteq Nat /\ b \in Nat /\ n > 0 /\ b + n <= FirstPage + NumPages /\ n <= NumPages
    BY <2>1, <2>2 DEF Pages
  <2> QED
    BY <2>1, <2>2, <2>3 DEF RunsLie
<1>2. \A c \in Pages : B[c] > 0 =>
         c # b /\ (b < c => b + n <= c) /\ (c < b => c + B[c] <= b)
  <2> SUFFICES ASSUME NEW c \in Pages, B[c] > 0
               PROVE  c # b /\ (b < c => b + n <= c) /\ (c < b => c + B[c] <= b)
    OBVIOUS
  <2>1. B[c] \in Nat /\ c \in Nat /\ c \in Run(c, B[c]) /\ b \in Run(b, n)
    BY <1>1 DEF Run
  <2>2. c \notin Run(b, n) /\ b \notin Run(c, B[c])
    BY <2>1
  <2> QED
    BY <1>1, <2>1, <2>2 DEF Run
<1>3. B[b] = 0
  BY <1>1, <1>2
<1>4. B2 \in [Pages -> Nat] /\ B2[b] = n /\ \A c \in Pages : c # b => B2[c] = B[c]
  BY <1>1
<1> HIDE DEF B2
<1>5. RunsLie(B2)
  BY <1>1, <1>2, <1>4 DEF RunsLie
<1>6. \A c \in Pages : c # b => EndOf(B2, c) = EndOf(B, c)
  BY <1>4 DEF EndOf
<1>7. /\ DOMAIN T \subseteq Nat \ {NULL} /\ Typed(T)
      /\ \A u \in DOMAIN T : T[u].real_size \in Nat /\ T[u].real_size > 0
  BY NoAddressIsNull, LibAllocAssumption DEF Sound, Linked, Typed, Laid, Tag
<1>8. \A c \in Pages : RunStart(c) \in Nat /\ EndOf(B2, c) \in Nat
  BY <1>5, RunsApart
<1>9. new = RunStart(b) /\ new \in Nat /\ new \in Addresses /\ new + tg.real_size = EndOf(B2, b) /\ B2[b] > 0
      /\ tg.real_size \in Nat /\ tg.real_size > 0 /\ tg.real_size >= TagSize
  <2>1. new = RunStart(b)
    BY DEF RunStart
  <2>2. RunStart(b) < EndOf(B2, b) /\ B2[b] > 0
    BY <1>1, <1>4, <1>5, RunsApart
  <2>3. new \in Addresses
    BY <1>5, <1>8, <2>1, <2>2, RunsApart
  <2>4. new + n * l_pageSize = EndOf(B2, b) /\ n * l_pageSize >= l_pageSize /\ n * l_pageSize \in Nat
    BY <1>1, <1>4 DEF EndOf
  <2> QED
    BY <1>1, <1>8, <2>1, <2>2, <2>3, <2>4, LibAllocAssumption
<1> HIDE DEF new
<1>10. ASSUME NEW u \in DOMAIN T
       PROVE  \E c \in Pages : /\ c # b /\ B2[c] > 0 /\ Inside(T, B, c, u)
                               /\ RunStart(c) <= u /\ u + T[u].real_size <= EndOf(B2, c)
  <2>1. PICK c \in Pages : Inside(T, B, c, u)
    BY DEF Sound, Laid
  <2> QED
    BY <1>2, <1>4, <1>6, <2>1 DEF Inside
<1>11. ASSUME NEW u \in DOMAIN T
       PROVE  IF u < new THEN u + T[u].real_size <= new ELSE EndOf(B2, b) <= u /\ new < u
  <2>1. PICK c \in Pages : /\ c # b /\ B2[c] > 0
                           /\ RunStart(c) <= u /\ u + T[u].real_size <= EndOf(B2, c)
    BY <1>10
  <2>2. EndOf(B2, b) <= RunStart(c) \/ EndOf(B2, c) <= RunStart(b)
    BY <1>5, <1>9, <2>1, RunsApart
  <2> QED
    BY <1>7, <1>8, <1>9, <2>1, <2>2
<1>12. new \notin DOMAIN T
  BY <1>9, <1>11
<1>13. DOMAIN V = DOMAIN T \cup {new} /\ V[new] = tg /\ \A u \in DOMAIN T : V[u] = T[u]
  BY <1>12 DEF Added
<1>14. Typed(V)
  <2>1. V = [x \in DOMAIN T \cup {new} |-> IF x = new THEN tg ELSE T[x]]
    BY DEF Added
  <2> HIDE DEF V
  <2> QED
    BY <1>7, <1>9, <1>13, <2>1 DEF Typed
<1> HIDE DEF V
<1>15. Linked(V, F)
  BY <1>12, <1>13, <1>14, LinksKept DEF Sound
<1>16. \A c \in Pages : \A u \in DOMAIN T : Inside(V, B2, c, u) <=> Inside(T, B, c, u)
  <2> SUFFICES ASSUME NEW c \in Pages, NEW u \in DOMAIN T
               PROVE  Inside(V, B2, c, u) <=> Inside(T, B, c, u)
    OBVIOUS
  <2>1. CASE c # b
    BY <1>4, <1>6, <1>13, <2>1 DEF Inside
  <2>2. CASE c = b
    <3>1. ~Inside(T, B, b, u)
      BY <1>3 DEF Inside
    <3>2. ~(new <= u /\ u + T[u].real_size <= EndOf(B2, b))
      BY <1>7, <1>8, <1>9, <1>11
    <3> QED
      BY <1>9, <1>13, <2>2, <3>1, <3>2 DEF Inside
  <2> QED
    BY <2>1, <2>2
<1>17. \A c \in Pages : Inside(V, B2, c, new) <=> c = b
  <2> TAKE c \in Pages
  <2>1. ASSUME Inside(V, B2, c, new) PROVE c = b
    <3>1. B2[c] > 0 /\ RunStart(c) <= new /\ new < EndOf(B2, c)
      BY <1>8, <1>9, <1>13, <2>1 DEF Inside
    <3>2. RunStart(b) <= new /\ new < EndOf(B2, b) /\ new \in DOMAIN V
      BY <1>8, <1>9, <1>13
    <3> QED
      BY <1>5, <1>9, <1>14, <3>1, <3>2, InsideOne
  <2>2. Inside(V, B2, b, new)
    BY <1>8, <1>9, <1>13 DEF Inside
  <2> QED
    BY <2>1, <2>2
<1>18. \A u \in DOMAIN T : T[u].split_left # NULL => T[u].split_left \in DOMAIN T
  BY DEF Sound, Laid
<1>19. \A u \in DOMAIN T : T[u].split_right # NULL => T[u].split_right \in DOMAIN T
  BY DEF Sound, Laid
<1>20. Laid(V, B2)
  <2>1. \A c \in Pages : B2[c] > 0 => RunStart(c) \in DOMAIN V /\ V[RunStart(c)].split_left = NULL
    BY <1>4, <1>9, <1>13 DEF Sound, Laid
  <2>2. ASSUME NEW u \in DOMAIN V
        PROVE  /\ V[u].real_size >= TagSize
               /\ \E c \in Pages : Inside(V, B2, c, u)
    BY <1>9, <1>13, <1>16, <1>17, <2>2 DEF Sound, Laid
  <2>3. ASSUME NEW u \in DOMAIN V, NEW v \in DOMAIN V, u < v
        PROVE  u + V[u].real_size <= v
    <3>1. CASE u \in DOMAIN T /\ v \in DOMAIN T
      BY <1>13, <2>3, <3>1 DEF Sound, Laid
    <3>2. CASE u = new /\ v \in DOMAIN T
      BY <1>7, <1>9, <1>11, <1>13, <2>3, <3>2
    <3>3. CASE u \in DOMAIN T /\ v = new
      BY <1>11, <1>13, <2>3, <3>3
    <3>4. CASE u = new /\ v = new
      BY <1>9, <2>3, <3>4
    <3> QED
      BY <1>13, <3>1, <3>2, <3>3, <3>4
  <2>4. ASSUME NEW u \in DOMAIN V, V[u].split_left = NULL
        PROVE  \E c \in Pages : B2[c] > 0 /\ u = RunStart(c)
    <3>1. CASE u = new
      BY <1>9, <3>1
    <3>2. CASE u \in DOMAIN T
      <4>1. PICK c \in Pages : B[c] > 0 /\ u = RunStart(c)
        BY <1>13, <2>4, <3>2 DEF Sound, Laid
      <4> QED
        BY <1>2, <1>4, <4>1
    <3> QED
      BY <1>13, <3>1, <3>2
  <2>5. ASSUME NEW u \in DOMAIN V, V[u].split_left # NULL
        PROVE  V[u].split_left \in DOMAIN V /\ V[V[u].split_left].split_right = u
    BY <1>13, <1>18, <2>5 DEF Sound, Laid
  <2>6. ASSUME NEW u \in DOMAIN V, V[u].split_right = NULL, NEW c \in Pages, Inside(V, B2, c, u)
        PROVE  u + V[u].real_size = EndOf(B2, c)
    <3>1. CASE u = new
      BY <1>9, <1>13, <1>17, <2>6, <3>1
    <3>2. CASE u \in DOMAIN T
      <4>1. Inside(T, B, c, u) /\ T[u].split_right = NULL
        BY <1>13, <1>16, <2>6, <3>2
      <4>2. u + T[u].real_size = EndOf(B, c) /\ c # b
        BY <1>3, <3>2, <4>1 DEF Sound, Laid, Inside
      <4> QED
        BY <1>6, <1>13, <3>2, <4>2
    <3> QED
      BY <1>13, <3>1, <3>2
  <2>7. ASSUME NEW u \in DOMAIN V, V[u].split_right # NULL
        PROVE  /\ V[u].split_right = u + V[u].real_size /\ V[u].split_right \in DOMAIN V
               /\ V[V[u].split_right].split_left = u
               /\ \A c \in Pages : Inside(V, B2, c, u) => Inside(V, B2, c, V[u].split_right)
    <3>1. u \in DOMAIN T /\ V[u] = T[u]
      BY <1>13, <2>7
    <3>2. /\ T[u].split_right = u + T[u].real_size /\ T[u].split_right \in DOMAIN T
          /\ T[T[u].split_right].split_left = u
          /\ \A c \in Pages : Inside(T, B, c, u) => Inside(T, B, c, T[u].split_right)
      BY <2>7, <3>1 DEF Sound, Laid
    <3> QED
      BY <1>13, <1>16, <3>1, <3>2
  <2> QED
    BY <2>1, <2>2, <2>3, <2>4, <2>5, <2>6, <2>7 DEF Laid
<1>21. Sized(V) /\ Parted(V)
  BY <1>13, <1>19 DEF Sound, Sized, Parted
<1>22. \A i \in Classes : WholeOf(V, i) = WholeOf(T, i)
  <2>1. -1 \notin Classes
    BY LibAllocAssumption DEF Classes
  <2> QED
    BY <1>12, <1>13, <2>1 DEF WholeOf
<1> QED
  BY <1>1, <1>3, <1>5, <1>12, <1>13, <1>15, <1>20, <1>21, <1>22 DEF RunAdded, Sound, V, B2, new


-----------------------------------------------------------------------------
(* The inductive invariant *)

\* The tags of the blocks callers hold are in no list and have room for them,
\* and a tag in no list is such a tag or the one being freed.
HeldTags ==
    /\ DOMAIN live \subseteq Int
    /\ \A q \in DOMAIN live :
          /\ q - TagSize \in DOMAIN tags /\ live[q] \in Nat
          /\ tags[q - TagSize].index = -1
          /\ tags[q - TagSize].real_size >= live[q] + TagSize
    /\ \A t \in DOMAIN tags :
          tags[t].index = -1 => t + TagSize \in DOMAIN live \/ (pc = "free" /\ t = tag)

\* What the locals are at each place of a call.
Locals ==
    /\ pc \in {"idle", "search", "fill", "free"}
    /\ tag \in DOMAIN tags \cup {NULL} /\ size \in Nat
    /\ ptr \in DOMAIN live \cup {NULL}
    /\ oldptr # NULL /\ pc # "free" => oldptr \in DOMAIN live
    /\ pc = "idle" => caller = "none" /\ tag = NULL /\ size = 0 /\ oldptr = NULL /\ ptr = NULL
    /\ pc = "search" =>
          /\ caller \in {"malloc", "calloc", "realloc"} /\ ptr = NULL
          /\ tag # NULL => tags[tag].index = Class(size)
    /\ pc = "fill" => caller \in {"calloc", "realloc"} /\ (ptr # NULL => ptr # oldptr)
    /\ pc \in {"search", "fill"} /\ caller = "realloc" => oldptr # NULL
    /\ pc = "free" =>
          /\ caller \in {"free", "realloc"} /\ (caller = "free" => oldptr = NULL)
          /\ tag # NULL /\ tags[tag].index = -1 /\ tag + TagSize \notin DOMAIN live

IInv ==
    /\ RunsLie(block) /\ Sound(tags, l_freePages, block) /\ Counted(tags, l_completePages)
    /\ HeldTags /\ Locals

-----------------------------------------------------------------------------
(* The lists, from their heads *)

\* Induction, over a set of numbers.
LEMMA SetInduction ==
    ASSUME NEW S \in SUBSET Nat, 0 \in S, \A k \in S : k + 1 \in S
    PROVE  S = Nat
<1> SUFFICES ASSUME Nat \ S # {} PROVE FALSE
  OBVIOUS
<1>1. PICK m \in Nat \ S : \A k \in Nat \ S : m <= k
  BY LeastElement
<1>2. m - 1 \in Nat /\ m - 1 \in S
  BY <1>1
<1>3. m \in S
  BY <1>2
<1> QED
  BY <1>1, <1>3

\* The first k + 1 tags met on a list, as a function of itself.
MetOf(m, i, k) ==
    [n \in 0 .. k |-> IF n = 0 THEN l_freePages[i]
                      ELSE IF m[n - 1] = NULL THEN NULL ELSE tags[m[n - 1]].next]

\* There is such a function, and Walk is one.
LEMMA WalkIs ==
    ASSUME NEW i, IsFiniteSet(DOMAIN tags)
    PROVE  Walk(i) = MetOf(Walk(i), i, Cardinality(DOMAIN tags))
<1> DEFINE N == Cardinality(DOMAIN tags)
           S == {k \in Nat : \E m : m = MetOf(m, i, k)}
<1>1. 0 \in S
  <2> DEFINE m == [n \in 0 .. 0 |-> l_freePages[i]]
  <2>1. m = MetOf(m, i, 0)
    BY DEF MetOf
  <2> QED
    BY <2>1
<1>2. ASSUME NEW k \in S PROVE k + 1 \in S
  <2>1. PICK m : m = MetOf(m, i, k)
    OBVIOUS
  <2> DEFINE p == [n \in 0 .. k + 1 |->
                     IF n <= k THEN m[n] ELSE IF m[k] = NULL THEN NULL ELSE tags[m[k]].next]
             q == MetOf(p, i, k + 1)
  <2>2. \A n \in 0 .. k : m[n] = IF n = 0 THEN l_freePages[i]
                                 ELSE IF m[n - 1] = NULL THEN NULL ELSE tags[m[n - 1]].next
    BY <2>1 DEF MetOf
  <2>3. \A n \in 0 .. k + 1 : p[n] = q[n]
    <3> TAKE n \in 0 .. k + 1
    <3>1. CASE n = 0
      BY <2>2, <3>1 DEF MetOf
    <3>2. CASE n # 0
      <4>1. n - 1 \in 0 .. k /\ p[n - 1] = m[n - 1]
        BY <3>2
      <4>2. p[n] = IF m[n - 1] = NULL THEN NULL ELSE tags[m[n - 1]].next
        <5>1. CASE n <= k
          BY <2>2, <3>2, <5>1
        <5>2. CASE ~(n <= k)
          <6>1. n - 1 = k
            BY <5>2
          <6> QED
            BY <5>2, <6>1
        <5> QED
          BY <5>1, <5>2
      <4>3. q[n] = IF p[n - 1] = NULL THEN NULL ELSE tags[p[n - 1]].next
        BY <3>2 DEF MetOf
      <4> QED
        BY <4>1, <4>2, <4>3
    <3> QED
      BY <3>1, <3>2
  <2>4. p = q
    BY <2>3 DEF MetOf
  <2> QED
    BY <2>4
<1>3. N \in Nat
  BY FS_CardinalityType
<1>4. N \in S
  BY <1>1, <1>2, <1>3, SetInduction
<1>5. Walk(i) = CHOOSE m : m = MetOf(m, i, N)
  BY DEF Walk, MetOf
<1> QED
  BY <1>4, <1>5

\* What Walk meets: the head, then each next tag, to the end.
LEMMA WalkSteps ==
    ASSUME Linked(tags, l_freePages), NEW i \in Classes
    PROVE  LET N == Cardinality(DOMAIN tags)
               met == Walk(i)
           IN /\ N \in Nat /\ met \in [0 .. N -> DOMAIN tags \cup {NULL}]
              /\ met[0] = l_freePages[i]
              /\ \A k \in 1 .. N :
                    met[k] = IF met[k - 1] = NULL THEN NULL ELSE tags[met[k - 1]].next
<1> DEFINE N == Cardinality(DOMAIN tags)
           met == Walk(i)
<1>1. IsFiniteSet(DOMAIN tags)
  BY TagsAreFinite DEF Linked, Typed
<1>2. N \in Nat
  BY <1>1, FS_CardinalityType
<1>3. met = MetOf(met, i, N)
  BY <1>1, WalkIs
<1> HIDE DEF met, N
<1>4. /\ met[0] = l_freePages[i] /\ DOMAIN met = 0 .. N
      /\ \A k \in 0 .. N : k # 0 => met[k] = IF met[k - 1] = NULL THEN NULL ELSE tags[met[k - 1]].next
  BY <1>2, <1>3 DEF MetOf
<1>5. \A k \in 1 .. N : met[k] = IF met[k - 1] = NULL THEN NULL ELSE tags[met[k - 1]].next
  BY <1>2, <1>4
<1> DEFINE S == {k \in Nat : k <= N => met[k] \in DOMAIN tags \cup {NULL}}
<1>6. 0 \in S
  BY <1>4 DEF Linked, Listed
<1>7. ASSUME NEW k \in S PROVE k + 1 \in S
  <2> SUFFICES ASSUME k + 1 <= N PROVE met[k + 1] \in DOMAIN tags \cup {NULL}
    OBVIOUS
  <2>1. k + 1 \in 1 .. N /\ k <= N /\ (k + 1) - 1 = k
    BY <1>2
  <2>2. met[k + 1] = IF met[k] = NULL THEN NULL ELSE tags[met[k]].next
    BY <1>5, <2>1
  <2> QED
    BY <2>1, <2>2 DEF Linked, Listed
<1>8. S = Nat
  BY <1>6, <1>7, SetInduction
<1>9. \A k \in 0 .. N : met[k] \in DOMAIN tags \cup {NULL}
  BY <1>2, <1>8
<1>10. met = [k \in 0 .. N |-> met[k]]
  BY <1>3, <1>2 DEF MetOf
<1>11. met \in [0 .. N -> DOMAIN tags \cup {NULL}]
  BY <1>9, <1>10
<1> QED
  BY <1>2, <1>4, <1>5, <1>11 DEF met, N

\* Each list ends: no tag is met twice, and there are not enough of them.
LEMMA WalkEnds ==
    ASSUME Linked(tags, l_freePages), NEW i \in Classes
    PROVE  Walk(i)[Cardinality(DOMAIN tags)] = NULL
<1> DEFINE N == Cardinality(DOMAIN tags)
           met == Walk(i)
<1>1. /\ N \in Nat /\ met \in [0 .. N -> DOMAIN tags \cup {NULL}]
      /\ \A k \in 1 .. N :
            met[k] = IF met[k - 1] = NULL THEN NULL ELSE tags[met[k - 1]].next
  BY WalkSteps
<1>2. IsFiniteSet(DOMAIN tags)
  BY TagsAreFinite DEF Linked, Typed
<1>3. PICK n \in Nat : \E rank \in [DOMAIN tags -> 0 .. n] : Ranks(tags, n, rank)
  BY DEF Linked, Ends
<1>4. PICK rank \in [DOMAIN tags -> 0 .. n] : Ranks(tags, n, rank)
  BY <1>3
<1> SUFFICES ASSUME met[N] # NULL PROVE FALSE
  OBVIOUS
<1>5. Cardinality(0 .. N) = N + 1 /\ IsFiniteSet(0 .. N)
  BY <1>1, FS_Interval
<1>6. N < Cardinality(0 .. N)
  BY <1>1, <1>5
<1> HIDE DEF met
<1>7. \A k \in 0 .. N : met[k] # NULL
  <2> DEFINE S == {k \in Nat : k <= N => met[N - k] # NULL}
  <2>1. 0 \in S
    BY <1>1
  <2>2. ASSUME NEW k \in S PROVE k + 1 \in S
    <3> SUFFICES ASSUME k + 1 <= N PROVE met[N - (k + 1)] # NULL
      OBVIOUS
    <3>1. N - k \in 1 .. N /\ (N - k) - 1 = N - (k + 1) /\ k <= N
      BY <1>1
    <3> QED
      BY <1>1, <3>1
  <2>3. S = Nat
    BY <2>1, <2>2, SetInduction
  <2> TAKE k \in 0 .. N
  <2>4. N - k \in Nat /\ N - k <= N /\ N - (N - k) = k
    BY <1>1
  <2>5. N - k \in S
    BY <2>3, <2>4
  <2> QED
    BY <2>4, <2>5
<1>8. met \in [0 .. N -> DOMAIN tags]
  BY <1>1, <1>7
<1>9. \A k \in 1 .. N : rank[met[k]] < rank[met[k - 1]]
  <2> SUFFICES ASSUME NEW k \in 1 .. N PROVE rank[met[k]] < rank[met[k - 1]]
    OBVIOUS
  <2>1. k - 1 \in 0 .. N /\ k \in 0 .. N
    BY <1>1
  <2>2. met[k] = tags[met[k - 1]].next /\ met[k - 1] \in DOMAIN tags /\ met[k] # NULL
    BY <1>1, <1>7, <1>8, <2>1
  <2> QED
    BY <1>4, <2>2 DEF Ranks
<1> DEFINE f == [k \in 0 .. N |-> rank[met[k]]]
<1>10. f \in [0 .. N -> 0 .. n] /\ \A k \in 1 .. N : f[k] < f[k - 1]
  <2>1. \A k \in 0 .. N : rank[met[k]] \in 0 .. n
    BY <1>8
  <2>2. \A k \in 1 .. N : k \in 0 .. N /\ k - 1 \in 0 .. N
    BY <1>1
  <2> QED
    BY <1>9, <2>1, <2>2
<1>11. PICK x, y \in 0 .. N : x # y /\ met[x] = met[y]
  BY <1>2, <1>5, <1>6, <1>8, FS_PigeonHole
<1>12. f[x] = f[y]
  BY <1>11
<1> HIDE DEF f, N
<1> DEFINE G == {k \in Nat : k <= N => \A j \in 0 .. N : j < k => f[k] < f[j]}
<1>13. 0 \in G
  OBVIOUS
<1>14. ASSUME NEW k \in G PROVE k + 1 \in G
  <2> SUFFICES ASSUME k + 1 <= N, NEW j \in 0 .. N, j < k + 1 PROVE f[k + 1] < f[j]
    OBVIOUS
  <2>1. k + 1 \in 1 .. N /\ k \in 0 .. N /\ (k + 1) - 1 = k /\ k + 1 \in 0 .. N
    BY <1>1
  <2>2. f[k + 1] < f[k] /\ f[k + 1] \in Int /\ f[k] \in Int /\ f[j] \in Int
    <3>1. f[k + 1] < f[k]
      BY <1>10, <2>1
    <3>2. \A z \in 0 .. n : z \in Int
      BY <1>3
    <3> QED
      BY <1>10, <2>1, <3>1, <3>2
  <2>3. CASE j = k
    BY <2>2, <2>3
  <2>4. CASE j # k
    <3>1. j < k
      BY <1>1, <2>1, <2>4
    <3>2. f[k] < f[j]
      BY <2>1, <3>1
    <3> QED
      BY <2>2, <3>2
  <2> QED
    BY <2>3, <2>4
<1>15. G = Nat
  BY <1>13, <1>14, SetInduction
<1>16. \A k, j \in 0 .. N : j < k => f[k] < f[j]
  <2> TAKE k, j \in 0 .. N
  <2>1. k \in Nat /\ k <= N
    BY <1>1
  <2>2. k \in G
    BY <1>15, <2>1
  <2> QED
    BY <2>1, <2>2
<1>17. f[x] \in Int /\ ~(f[x] < f[x])
  BY <1>3, <1>10
<1>18. ~(x < y) /\ ~(y < x)
  BY <1>12, <1>16, <1>17
<1> QED
  BY <1>1, <1>11, <1>18

\* What is met on the list of class i are the tags whose index is i.
LEMMA WalkMeets ==
    ASSUME Linked(tags, l_freePages), NEW i \in Classes
    PROVE  {Walk(i)[k] : k \in 0 .. Cardinality(DOMAIN tags)} \ {NULL} =
              {t \in DOMAIN tags : tags[t].index = i}
<1> DEFINE N == Cardinality(DOMAIN tags)
           met == Walk(i)
<1>1. /\ N \in Nat /\ met \in [0 .. N -> DOMAIN tags \cup {NULL}]
      /\ met[0] = l_freePages[i]
      /\ \A k \in 1 .. N :
            met[k] = IF met[k - 1] = NULL THEN NULL ELSE tags[met[k - 1]].next
  BY WalkSteps
<1>2. met[N] = NULL
  BY WalkEnds
<1>3. PICK n \in Nat : \E rank \in [DOMAIN tags -> 0 .. n] : Ranks(tags, n, rank)
  BY DEF Linked, Ends
<1>4. PICK rank \in [DOMAIN tags -> 0 .. n] : Ranks(tags, n, rank)
  BY <1>3
<1>5. Listed(tags, l_freePages) /\ NULL \notin DOMAIN tags /\ i # -1
  BY NoAddressIsNull, LibAllocAssumption DEF Linked, Typed, Classes
<1> HIDE DEF met, N
<1>6. \A k \in 0 .. N : met[k] # NULL => met[k] \in DOMAIN tags /\ tags[met[k]].index = i
  <2> DEFINE S == {k \in Nat : k <= N /\ met[k] # NULL => met[k] \in DOMAIN tags /\ tags[met[k]].index = i}
  <2>1. 0 \in S
    BY <1>1, <1>5 DEF Listed
  <2>2. ASSUME NEW k \in S PROVE k + 1 \in S
    <3> SUFFICES ASSUME k + 1 <= N, met[k + 1] # NULL
                 PROVE  met[k + 1] \in DOMAIN tags /\ tags[met[k + 1]].index = i
      OBVIOUS
    <3>1. k + 1 \in 1 .. N /\ k <= N /\ (k + 1) - 1 = k
      BY <1>1
    <3>2. met[k] # NULL /\ met[k + 1] = tags[met[k]].next
      BY <1>1, <3>1
    <3>3. met[k] \in DOMAIN tags /\ tags[met[k]].index = i
      BY <3>1, <3>2
    <3> QED
      BY <1>5, <3>2, <3>3 DEF Listed
  <2>3. S = Nat
    BY <2>1, <2>2, SetInduction
  <2> TAKE k \in 0 .. N
  <2>4. k \in Nat /\ k <= N
    BY <1>1
  <2>5. k \in S
    BY <2>3, <2>4
  <2> QED
    BY <2>4, <2>5
<1>7. ASSUME NEW t \in DOMAIN tags, tags[t].index = i PROVE \E k \in 0 .. N : met[k] = t
  <2> DEFINE Missed(u) == tags[u].index = i /\ \A k \in 0 .. N : met[k] # u
             S == {r \in Nat : \E u \in DOMAIN tags : Missed(u) /\ r = n - rank[u]}
  <2> SUFFICES ASSUME ~\E k \in 0 .. N : met[k] = t PROVE FALSE
    OBVIOUS
  <2>0. Missed(t)
    BY <1>7
  <2>1. \A u \in DOMAIN tags : rank[u] \in Int /\ n - rank[u] \in Nat
    BY <1>3
  <2>2. n - rank[t] \in S
    BY <2>0, <2>1
  <2>3. PICK m \in S : \A k \in S : m <= k
    BY <2>2, LeastElement
  <2>4. PICK u \in DOMAIN tags : Missed(u) /\ m = n - rank[u]
    BY <2>3
  <2> DEFINE p == tags[u].prev
  <2>5. CASE p = NULL
    <3>1. l_freePages[i] = u
      BY <1>5, <2>4, <2>5 DEF Listed
    <3>2. 0 \in 0 .. N
      BY <1>1
    <3> QED
      BY <1>1, <2>4, <3>1, <3>2
  <2>6. CASE p # NULL
    <3>1. p \in DOMAIN tags /\ tags[p].next = u /\ tags[p].index = i
      BY <1>5, <2>4, <2>6 DEF Listed
    <3>2. rank[u] < rank[p]
      BY <1>4, <1>5, <3>1 DEF Ranks
    <3>3. ~(m <= n - rank[p])
      BY <1>3, <2>1, <2>4, <3>1, <3>2
    <3>4. n - rank[p] \notin S
      BY <2>3, <3>3
    <3>5. ~Missed(p)
      BY <2>1, <3>1, <3>4
    <3>6. PICK k \in 0 .. N : met[k] = p
      BY <3>1, <3>5
    <3>7. k # N
      BY <1>2, <2>6, <3>6
    <3>8. k + 1 \in 1 .. N /\ (k + 1) - 1 = k /\ k + 1 \in 0 .. N
      BY <1>1, <3>7
    <3>9. met[k + 1] = u
      BY <1>1, <2>6, <3>1, <3>6, <3>8
    <3> QED
      BY <2>4, <3>8, <3>9
  <2> QED
    BY <2>5, <2>6
<1> QED
  BY <1>5, <1>6, <1>7 DEF met, N

\* Listed, Ends and Sized are what FreeListsHoldFreeTags says.
LEMMA ListsHold ==
    ASSUME Linked(tags, l_freePages), Sized(tags)
    PROVE  FreeListsHoldFreeTags
<1> SUFFICES ASSUME NEW i \in Classes
             PROVE  LET met == Walk(i)
                        n   == Cardinality(DOMAIN tags)
                    IN /\ met[n] = NULL
                       /\ {met[k] : k \in 0 .. n} \ {NULL} = {t \in DOMAIN tags : tags[t].index = i}
                       /\ \A k \in 1 .. n : met[k] # NULL => tags[met[k]].prev = met[k - 1]
                       /\ met[0] # NULL => tags[met[0]].prev = NULL
                       /\ \A t \in DOMAIN tags :
                             tags[t].index = i => i = Class(tags[t].real_size - TagSize)
  BY DEF FreeListsHoldFreeTags
<1> DEFINE N == Cardinality(DOMAIN tags)
           met == Walk(i)
<1>1. /\ N \in Nat /\ met \in [0 .. N -> DOMAIN tags \cup {NULL}]
      /\ met[0] = l_freePages[i]
      /\ \A k \in 1 .. N :
            met[k] = IF met[k - 1] = NULL THEN NULL ELSE tags[met[k - 1]].next
  BY WalkSteps
<1>2. met[N] = NULL
  BY WalkEnds
<1>3. {met[k] : k \in 0 .. N} \ {NULL} = {t \in DOMAIN tags : tags[t].index = i}
  BY WalkMeets
<1> HIDE DEF met, N
<1>4. \A k \in 1 .. N : met[k] # NULL => tags[met[k]].prev = met[k - 1]
  <2> SUFFICES ASSUME NEW k \in 1 .. N, met[k] # NULL PROVE tags[met[k]].prev = met[k - 1]
    OBVIOUS
  <2>1. k - 1 \in 0 .. N
    BY <1>1
  <2>2. met[k - 1] \in DOMAIN tags /\ met[k] = tags[met[k - 1]].next
    BY <1>1, <2>1
  <2> QED
    BY <2>2 DEF Linked, Listed
<1>5. met[0] # NULL => tags[met[0]].prev = NULL
  BY <1>1 DEF Linked, Listed
<1>6. \A t \in DOMAIN tags : tags[t].index = i => i = Class(tags[t].real_size - TagSize)
  BY LibAllocAssumption DEF Sized, Classes
<1> QED
  BY <1>2, <1>3, <1>4, <1>5, <1>6 DEF met, N

-----------------------------------------------------------------------------
(* What the invariant implies *)

\* The tags have their types, and the pointers lead to tags in use.
LEMMA TypesHold == IInv => TypeOK
<1> SUFFICES ASSUME IInv PROVE TypeOK
  OBVIOUS
<1>1. DOMAIN tags \subseteq Addresses /\ \A t \in DOMAIN tags : tags[t] \in Tag
  BY DEF IInv, Sound, Linked, Typed
<1>2. l_freePages \in [Classes -> DOMAIN tags \cup {NULL}]
  BY DEF IInv, Sound, Linked, Listed
<1>3. l_completePages \in [Classes -> 0 .. MAXCOMPLETE] /\ block \in [Pages -> Nat]
  BY DEF IInv, Counted, RunsLie
<1>4. \A q \in DOMAIN live : q - TagSize \in DOMAIN tags /\ live[q] \in Nat
  BY DEF IInv, HeldTags
<1>5. /\ pc \in {"idle", "search", "fill", "free"}
      /\ caller \in {"none", "malloc", "calloc", "realloc", "free"}
      /\ tag \in DOMAIN tags \cup {NULL} /\ size \in Nat
      /\ oldptr \in DOMAIN live \cup {NULL} \/ (caller = "realloc" /\ pc = "free")
      /\ ptr \in DOMAIN live \cup {NULL}
  BY DEF IInv, Locals
<1> QED
  BY <1>1, <1>2, <1>3, <1>4, <1>5 DEF TypeOK

\* Tags that lie in runs that lie apart tile them.
LEMMA TilingHolds == IInv => Tiling
<1> SUFFICES ASSUME IInv PROVE Tiling
  OBVIOUS
<1>1. RunsLie(block) /\ Laid(tags, block) /\ Typed(tags)
  BY DEF IInv, Sound, Linked
<1>2. /\ DOMAIN tags \subseteq Nat \ {NULL}
      /\ \A t \in DOMAIN tags : tags[t].real_size \in Nat /\ tags[t].real_size > 0
  BY <1>1, NoAddressIsNull, LibAllocAssumption DEF Typed, Laid, Tag
<1>3. Pages \subseteq Nat /\ \A b \in Pages : RunEnd(b) = EndOf(block, b)
  BY PageFramesAssumption DEF Pages, RunEnd, EndOf
<1>4. /\ \A b \in Pages : RunStart(b) \in Nat /\ EndOf(block, b) \in Nat
      /\ \A b \in Pages : block[b] > 0 => RunStart(b) < EndOf(block, b)
      /\ \A b, c \in Pages : block[b] > 0 /\ block[c] > 0 /\ b # c =>
            EndOf(block, b) <= RunStart(c) \/ EndOf(block, c) <= RunStart(b)
  BY <1>1, RunsApart
<1>5. \A b \in Runs : RunStart(b) \in DOMAIN tags
  BY <1>1 DEF Runs, Laid
<1>6. ASSUME NEW t \in DOMAIN tags
      PROVE  LET tg == tags[t]
             IN /\ \E b \in Runs : RunStart(b) <= t /\ TagEnd(t) <= RunEnd(b)
                /\ ~\E u \in DOMAIN tags : t < u /\ u < TagEnd(t)
                /\ tg.split_right = (IF \E b \in Runs : TagEnd(t) = RunEnd(b) /\ RunStart(b) <= t
                                     THEN NULL ELSE TagEnd(t))
                /\ tg.split_right # NULL =>
                      tg.split_right \in DOMAIN tags /\ tags[tg.split_right].split_left = t
                /\ (tg.split_left = NULL) <=> (\E b \in Runs : t = RunStart(b))
  <2> DEFINE tg == tags[t]
  <2>1. TagEnd(t) = t + tg.real_size /\ TagEnd(t) \in Nat /\ t < TagEnd(t) /\ t \in Nat
    BY <1>2 DEF TagEnd
  <2>2. PICK b \in Pages : Inside(tags, block, b, t)
    BY <1>1 DEF Laid
  <2>3. b \in Runs /\ RunStart(b) <= t /\ TagEnd(t) <= RunEnd(b)
    BY <1>3, <2>1, <2>2 DEF Inside, Runs
  <2>4. ~\E u \in DOMAIN tags : t < u /\ u < TagEnd(t)
    <3> SUFFICES ASSUME NEW u \in DOMAIN tags, t < u, u < TagEnd(t) PROVE FALSE
      OBVIOUS
    <3>1. t + tg.real_size <= u
      BY <1>1 DEF Laid
    <3> QED
      BY <1>2, <2>1, <3>1
  <2>5. \A c \in Runs : TagEnd(t) = RunEnd(c) /\ RunStart(c) <= t => c = b
    <3> SUFFICES ASSUME NEW c \in Runs, TagEnd(t) = RunEnd(c), RunStart(c) <= t, c # b PROVE FALSE
      OBVIOUS
    <3>1. c \in Pages /\ block[c] > 0 /\ block[b] > 0
      BY <2>2 DEF Runs, Inside
    <3>2. EndOf(block, b) <= RunStart(c) \/ EndOf(block, c) <= RunStart(b)
      BY <1>4, <3>1
    <3>3. RunStart(c) \in Nat /\ RunStart(b) \in Nat /\ RunEnd(b) = EndOf(block, b) /\ RunEnd(c) = EndOf(block, c)
      BY <1>3, <1>4, <3>1
    <3>4. CASE EndOf(block, b) <= RunStart(c)
      BY <2>1, <2>3, <3>1, <3>3, <3>4, <1>4
    <3>5. CASE EndOf(block, c) <= RunStart(b)
      <4>1. TagEnd(t) <= RunStart(b)
        BY <3>3, <3>5
      <4> QED
        BY <2>1, <2>3, <3>3, <4>1
    <3> QED
      BY <3>2, <3>4, <3>5
  <2> DEFINE AtEnd == \E c \in Runs : TagEnd(t) = RunEnd(c) /\ RunStart(c) <= t
  <2>6. ASSUME tg.split_right = NULL PROVE AtEnd
    <3>1. TagEnd(t) = RunEnd(b)
      BY <1>1, <1>3, <2>1, <2>2, <2>6 DEF Laid
    <3> QED
      BY <2>3, <3>1
  <2>7. ASSUME tg.split_right # NULL
        PROVE  /\ tg.split_right = TagEnd(t) /\ tg.split_right \in DOMAIN tags
               /\ tags[tg.split_right].split_left = t /\ ~AtEnd
    <3>1. /\ tg.split_right = TagEnd(t) /\ tg.split_right \in DOMAIN tags
          /\ tags[tg.split_right].split_left = t
          /\ Inside(tags, block, b, tg.split_right)
      BY <1>1, <2>1, <2>2, <2>7 DEF Laid
    <3>2. TagEnd(t) # RunEnd(b)
      <4>1. TagEnd(t) + tags[TagEnd(t)].real_size <= EndOf(block, b)
        BY <3>1 DEF Inside
      <4> QED
        BY <1>2, <1>3, <1>4, <2>1, <3>1, <4>1
    <3>3. ~AtEnd
      BY <2>5, <3>2
    <3> QED
      BY <3>1, <3>3
  <2>8. (tg.split_left = NULL) <=> (\E c \in Runs : t = RunStart(c))
    BY <1>1 DEF Laid, Runs
  <2> HIDE DEF AtEnd
  <2>9. tg.split_right = IF AtEnd THEN NULL ELSE TagEnd(t)
    BY <2>6, <2>7
  <2> QED
    BY <2>3, <2>4, <2>7, <2>8, <2>9 DEF AtEnd
<1> QED
  BY <1>5, <1>6 DEF Tiling

\* No two neighbours are in lists, so no two are free.
LEMMA CoalescedHolds == IInv => Coalesced
<1> SUFFICES ASSUME IInv, NEW t \in DOMAIN tags, IsFree(t), IsFree(tags[t].split_right) PROVE FALSE
  BY DEF Coalesced
<1>1. Parted(tags) /\ Laid(tags, block) /\ -1 \notin Nat
  BY DEF IInv, Sound
<1>2. tags[t].index >= 0 /\ tags[t].split_right # NULL /\ tags[tags[t].split_right].index >= 0
  BY DEF IsFree
<1>3. tags[t].index # -1
  BY <1>2
<1>4. tags[tags[t].split_right].index = -1
  BY <1>1, <1>2, <1>3 DEF Parted
<1> QED
  BY <1>2, <1>4

\* The counts are those of the whole runs in the lists.
LEMMA CountsHold == IInv => CompletePagesCounted
  BY DEF IInv, Counted, WholeOf, CompletePagesCounted

\* The tags in no list are those of the blocks held, and the one being freed.
LEMMA HeldHolds == IInv => UsedTagsAreHeld
<1> SUFFICES ASSUME IInv PROVE UsedTagsAreHeld
  OBVIOUS
<1>1. HeldTags /\ Locals /\ TagSize \in Nat /\ DOMAIN tags \subseteq Nat
  BY NoAddressIsNull, LibAllocAssumption DEF IInv, Sound, Linked, Typed
<1> DEFINE Used == {t \in DOMAIN tags : tags[t].index = -1}
           Behind == {q - TagSize : q \in DOMAIN live} \cup (IF pc = "free" THEN {tag} ELSE {})
<1>2. ASSUME NEW t \in Used PROVE t \in Behind
  <2>1. CASE t + TagSize \in DOMAIN live
    <3>1. t = (t + TagSize) - TagSize
      BY <1>1
    <3> QED
      BY <2>1, <3>1
  <2>2. CASE pc = "free" /\ t = tag
    BY <2>2
  <2> QED
    BY <1>1, <2>1, <2>2 DEF HeldTags
<1>3. ASSUME NEW t \in Behind PROVE t \in Used
  BY <1>1 DEF HeldTags, Locals
<1>4. Used = Behind
  BY <1>2, <1>3
<1>5. \A q \in DOMAIN live : tags[q - TagSize].real_size >= TagSize + live[q]
  BY <1>1, LibAllocAssumption DEF HeldTags
<1> QED
  BY <1>4, <1>5 DEF UsedTagsAreHeld

-----------------------------------------------------------------------------
(* The steps of malloc, calloc and realloc *)

\* The tags are addresses, as are the blocks behind them.
LEMMA TagsAreAddresses ==
    ASSUME IInv
    PROVE  /\ DOMAIN tags \subseteq Nat \ {NULL} /\ NULL \notin DOMAIN tags
           /\ TagSize \in Nat \ {0} /\ NULL \notin DOMAIN live /\ DOMAIN live \subseteq Int
           /\ \A t \in DOMAIN tags : tags[t] \in Tag /\ tags[t].real_size \in Nat
           /\ -1 \notin Classes
<1>1. DOMAIN tags \subseteq Nat \ {NULL} /\ TagSize \in Nat \ {0} /\ -1 \notin Classes
  BY NoAddressIsNull, LibAllocAssumption DEF IInv, Sound, Linked, Typed, Classes
<1>2. \A t \in DOMAIN tags : tags[t] \in Tag /\ tags[t].real_size \in Nat
  BY DEF IInv, Sound, Linked, Typed, Tag
<1>3. \A q \in DOMAIN live : q \in Int /\ q - TagSize \in Nat \ {NULL}
  BY <1>1 DEF IInv, HeldTags
<1>4. NULL \notin DOMAIN live
  BY <1>1, <1>3 DEF NULL
<1> QED
  BY <1>1, <1>2, <1>3, <1>4

\* Before the first call there is no tag, no run and no block.
LEMMA InitInvariant == Init => IInv
<1> SUFFICES ASSUME Init PROVE IInv
  OBVIOUS
<1> USE LibAllocAssumption, PageFramesAssumption DEF Init
<1>1. DOMAIN tags = {} /\ DOMAIN live = {}
  OBVIOUS
<1>2. RunsLie(block)
  BY DEF RunsLie
<1>3. Typed(tags) /\ Listed(tags, l_freePages)
  BY <1>1 DEF Typed, Listed
<1>4. Ends(tags)
  <2> DEFINE rank == [t \in {} |-> 0]
  <2>1. rank \in [DOMAIN tags -> 0 .. 0] /\ Ranks(tags, 0, rank)
    BY <1>1 DEF Ranks
  <2> QED
    BY <2>1 DEF Ends
<1>5. Sound(tags, l_freePages, block)
  BY <1>1, <1>3, <1>4 DEF Sound, Linked, Laid, Sized, Parted
<1>6. Counted(tags, l_completePages)
  <2>1. \A i \in Classes : WholeOf(tags, i) = {}
    BY <1>1 DEF WholeOf
  <2>2. 0 \in 0 .. MAXCOMPLETE /\ Cardinality({}) = 0
    BY FS_EmptySet
  <2> QED
    BY <2>1, <2>2 DEF Counted
<1>7. HeldTags /\ Locals
  BY <1>1 DEF HeldTags, Locals
<1> QED
  BY <1>2, <1>5, <1>6, <1>7 DEF IInv

\* The heap part of the invariant holds of a heap that did not change.
LEMMA HeapKept ==
    ASSUME IInv, UNCHANGED heap
    PROVE  RunsLie(block)' /\ Sound(tags, l_freePages, block)' /\ Counted(tags, l_completePages)'
  BY DEF IInv, heap

\* The head of the list of a class is in that list.
LEMMA HeadIsInList ==
    ASSUME IInv, NEW n \in Nat
    PROVE  LET t == l_freePages[Class(n)]
           IN t \in DOMAIN tags \cup {NULL} /\ (t # NULL => tags[t].index = Class(n))
<1>1. Class(n) \in Classes
  BY ClassIsAClass
<1> QED
  BY <1>1 DEF IInv, Sound, Linked, Listed

\* CallMalloc and CallCalloc: the search starts at the head of its list.
LEMMA StepCallMalloc ==
    ASSUME IInv, NEW n \in Sizes, CallMalloc(n) \/ CallCalloc(n) PROVE IInv'
<1>1. n \in Nat
  BY LibAllocAssumption
<1>2. /\ pc = "idle" /\ pc' = "search" /\ size' = n /\ tag' = l_freePages[Class(n)] /\ ptr' = NULL
      /\ UNCHANGED heap /\ live' = live /\ oldptr' = oldptr /\ caller' \in {"malloc", "calloc"}
  BY DEF CallMalloc, CallCalloc, EnterMalloc
<1>3. tags' = tags
  BY <1>2 DEF heap
<1>4. HeldTags'
  BY <1>2, <1>3 DEF IInv, HeldTags, Locals
<1>5. Locals'
  BY <1>1, <1>2, <1>3, HeadIsInList DEF IInv, Locals
<1> QED
  BY <1>2, <1>4, <1>5, HeapKept DEF IInv

\* free, and realloc before it frees, take a block from their caller.
LEMMA FreeEntered ==
    ASSUME IInv, NEW q \in DOMAIN live, EnterFree(q), pc # "free",
           caller' \in {"free", "realloc"}, caller' = "free" => oldptr' = NULL,
           size' = size, ptr' = ptr, ptr # NULL => ptr # q
    PROVE  IInv'
<1>1. /\ pc' = "free" /\ tag' = q - TagSize /\ live' = [r \in DOMAIN live \ {q} |-> live[r]]
      /\ UNCHANGED heap /\ tags' = tags
  BY DEF EnterFree, heap
<1>2. /\ DOMAIN live' = DOMAIN live \ {q} /\ \A r \in DOMAIN live' : live'[r] = live[r]
  BY <1>1
<1>3. /\ TagSize \in Nat \ {0} /\ DOMAIN live \subseteq Int /\ NULL \notin DOMAIN tags
      /\ DOMAIN tags \subseteq Nat
  BY TagsAreAddresses
<1>4. HeldTags /\ Locals
  BY DEF IInv
<1>5. q \in Int /\ (q - TagSize) + TagSize = q /\ \A t \in DOMAIN tags : (t + TagSize) - TagSize = t
  BY <1>3
<1>6. HeldTags'
  <2>1. /\ DOMAIN live' \subseteq Int
        /\ \A r \in DOMAIN live' :
              /\ r - TagSize \in DOMAIN tags' /\ live'[r] \in Nat
              /\ tags'[r - TagSize].index = -1
              /\ tags'[r - TagSize].real_size >= live'[r] + TagSize
    BY <1>1, <1>2, <1>4 DEF HeldTags
  <2>2. ASSUME NEW t \in DOMAIN tags', tags'[t].index = -1
        PROVE  t + TagSize \in DOMAIN live' \/ t = q - TagSize
    <3>1. t + TagSize \in DOMAIN live
      BY <1>1, <1>4, <2>2 DEF HeldTags
    <3> QED
      BY <1>1, <1>2, <1>5, <3>1
  <2> QED
    BY <1>1, <2>1, <2>2 DEF HeldTags
<1>7. Locals'
  BY <1>1, <1>2, <1>3, <1>4, <1>5 DEF HeldTags, Locals
<1> QED
  BY <1>1, <1>6, <1>7, HeapKept DEF IInv

\* CallFree.
LEMMA StepCallFree ==
    ASSUME IInv, NEW q \in DOMAIN live, CallFree(q) PROVE IInv'
<1>1. pc = "idle" /\ caller' = "free" /\ EnterFree(q) /\ size' = size /\ oldptr' = oldptr /\ ptr' = ptr
  BY DEF CallFree
<1>2. oldptr = NULL /\ ptr = NULL
  BY <1>1 DEF IInv, Locals
<1> QED
  BY <1>1, <1>2, FreeEntered

\* CallRealloc, which starts to free the block or to search for a new one.
LEMMA StepCallRealloc ==
    ASSUME IInv, NEW q \in DOMAIN live, NEW n \in Sizes, CallRealloc(q, n) PROVE IInv'
<1>1. pc = "idle" /\ caller' = "realloc" /\ oldptr = NULL /\ ptr = NULL
  BY DEF CallRealloc, IInv, Locals
<1>2. CASE n = 0
  <2>1. EnterFree(q) /\ size' = size /\ oldptr' = oldptr /\ ptr' = ptr
    BY <1>2 DEF CallRealloc
  <2> QED
    BY <1>1, <2>1, FreeEntered
<1>3. CASE n # 0
  <2>1. n \in Nat
    BY LibAllocAssumption
  <2>2. /\ pc' = "search" /\ size' = n /\ tag' = l_freePages[Class(n)] /\ ptr' = NULL
        /\ UNCHANGED heap /\ tags' = tags /\ live' = live /\ oldptr' = q
    BY <1>3 DEF CallRealloc, EnterMalloc, heap
  <2>3. HeldTags'
    BY <1>1, <2>2 DEF IInv, HeldTags
  <2>4. q # NULL
    BY TagsAreAddresses
  <2>5. Locals'
    BY <1>1, <2>1, <2>2, <2>4, HeadIsInList DEF IInv, Locals
  <2> QED
    BY <2>2, <2>3, <2>5, HeapKept DEF IInv
<1> QED
  BY <1>2, <1>3

\* SearchNext: the search stays in its list.
LEMMA StepSearchNext == ASSUME IInv, SearchNext PROVE IInv'
<1>1. /\ pc = "search" /\ tag # NULL /\ tag' = tags[tag].next
      /\ UNCHANGED heap /\ tags' = tags
      /\ UNCHANGED <<live, pc, caller, size, oldptr, ptr>>
  BY DEF SearchNext, NextTag, heap
<1>2. Locals /\ HeldTags /\ Listed(tags, l_freePages)
  BY DEF IInv, Sound, Linked
<1>3. tag \in DOMAIN tags /\ tags[tag].index = Class(size)
  BY <1>1, <1>2 DEF Locals
<1>4. tags[tag].next # NULL => tags[tag].next \in DOMAIN tags /\ tags[tags[tag].next].index = Class(size)
  BY <1>2, <1>3 DEF Listed
<1>5. HeldTags'
  BY <1>1, <1>2 DEF HeldTags
<1>6. Locals'
  BY <1>1, <1>2, <1>4 DEF Locals
<1> QED
  BY <1>1, <1>5, <1>6, HeapKept DEF IInv

\* Clear.
LEMMA StepClear == ASSUME IInv, Clear PROVE IInv'
<1>1. /\ pc = "fill" /\ pc' = "idle" /\ caller' = "none" /\ tag' = NULL /\ size' = 0
      /\ oldptr' = NULL /\ ptr' = NULL /\ UNCHANGED heap /\ tags' = tags /\ live' = live
  BY DEF Clear, EndCall, heap
<1>2. HeldTags'
  BY <1>1 DEF IInv, HeldTags
<1>3. Locals'
  BY <1>1 DEF Locals
<1> QED
  BY <1>1, <1>2, <1>3, HeapKept DEF IInv

\* CopyAndFree: the block freed is another than the one just returned.
LEMMA StepCopyAndFree == ASSUME IInv, CopyAndFree PROVE IInv'
<1>1. /\ pc = "fill" /\ caller = "realloc" /\ EnterFree(oldptr) /\ caller' = "realloc"
      /\ size' = size /\ ptr' = ptr
  BY DEF CopyAndFree
<1>2. oldptr \in DOMAIN live /\ (ptr # NULL => ptr # oldptr)
  BY <1>1 DEF IInv, Locals
<1> QED
  BY <1>1, <1>2, FreeEntered

\* malloc returns the block behind a tag t: the heap it leaves keeps the tags of
\* the other blocks, and t, which was not one of them, has room for the block.
LEMMA BlockReturned ==
    ASSUME IInv, pc = "search", NEW t, ReturnFromMalloc(t + TagSize),
           t \in DOMAIN tags', tags'[t].index = -1, tags'[t].real_size >= size + TagSize,
           t \in DOMAIN tags => tags[t].index # -1,
           DOMAIN tags' \subseteq Nat \ {NULL}, DOMAIN tags \subseteq DOMAIN tags',
           \A u \in DOMAIN tags : u # t =>
              tags'[u].index = tags[u].index /\ tags'[u].real_size = tags[u].real_size,
           \A u \in DOMAIN tags' \ DOMAIN tags : u # t => tags'[u].index # -1
    PROVE  HeldTags' /\ Locals' /\ t + TagSize \notin DOMAIN live
<1>1. HeldTags /\ Locals
  BY DEF IInv
<1>2. /\ TagSize \in Nat \ {0} /\ DOMAIN live \subseteq Int /\ NULL \notin DOMAIN live /\ NULL = 0
  BY TagsAreAddresses DEF NULL
<1> DEFINE q == t + TagSize
<1>3. t \in Nat /\ q \in Int /\ q # NULL /\ q - TagSize = t
  BY <1>2
<1>4. q \notin DOMAIN live
  BY <1>1, <1>3 DEF HeldTags
<1>5. /\ DOMAIN live' = DOMAIN live \cup {q}
      /\ live'[q] = size /\ \A r \in DOMAIN live : live'[r] = live[r]
  <2>1. live' = Added(live, q, size)
    BY <1>3 DEF ReturnFromMalloc
  <2> QED
    BY <1>4, <2>1 DEF Added
<1> HIDE DEF q
<1>6. size \in Nat /\ caller \in {"malloc", "calloc", "realloc"} /\ ptr = NULL
  BY <1>1 DEF Locals
<1>7. HeldTags'
  <2>1. DOMAIN live' \subseteq Int
    BY <1>2, <1>3, <1>5
  <2>2. ASSUME NEW r \in DOMAIN live'
        PROVE  /\ r - TagSize \in DOMAIN tags' /\ live'[r] \in Nat
               /\ tags'[r - TagSize].index = -1
               /\ tags'[r - TagSize].real_size >= live'[r] + TagSize
    <3>1. CASE r = q
      BY <1>3, <1>5, <1>6, <3>1
    <3>2. CASE r # q
      <4>1. r \in DOMAIN live /\ live'[r] = live[r]
        BY <1>5, <3>2
      <4>2. r - TagSize \in DOMAIN tags /\ r - TagSize # t
        BY <1>1, <4>1 DEF HeldTags
      <4> QED
        BY <1>1, <4>1, <4>2 DEF HeldTags
    <3> QED
      BY <3>1, <3>2
  <2>3. ASSUME NEW u \in DOMAIN tags', tags'[u].index = -1
        PROVE  u + TagSize \in DOMAIN live'
    <3>1. CASE u = t
      BY <1>5, <3>1 DEF q
    <3>2. CASE u # t
      <4>1. u \in DOMAIN tags /\ tags[u].index = -1
        BY <2>3, <3>2
      <4> QED
        BY <1>1, <1>5, <4>1 DEF HeldTags
    <3> QED
      BY <3>1, <3>2
  <2> QED
    BY <2>1, <2>2, <2>3 DEF HeldTags
<1>8. Locals'
  <2>1. CASE caller = "malloc"
    BY <2>1 DEF ReturnFromMalloc, EndCall, Locals
  <2>2. CASE caller # "malloc"
    <3>1. /\ pc' = "fill" /\ ptr' = q /\ caller' = caller /\ tag' = tag /\ size' = size /\ oldptr' = oldptr
      BY <2>2 DEF ReturnFromMalloc, q
    <3>2. oldptr # q
      BY <1>1, <1>3, <1>4 DEF Locals
    <3> QED
      BY <1>1, <1>3, <1>5, <1>6, <2>2, <3>1, <3>2 DEF Locals
  <2> QED
    BY <2>1, <2>2
<1> QED
  BY <1>4, <1>7, <1>8 DEF q

\* NoPages: malloc returns NULL and the heap is what it was.
LEMMA StepNoPages == ASSUME IInv, NoPages PROVE IInv'
<1>1. pc = "search" /\ UNCHANGED heap /\ tags' = tags /\ live' = live /\ ReturnFromMalloc(NULL)
  BY DEF NoPages, ReturnFromMalloc, heap
<1>2. HeldTags /\ Locals
  BY DEF IInv
<1>3. Locals'
  <2>1. CASE caller = "malloc"
    BY <1>1, <2>1 DEF ReturnFromMalloc, EndCall, Locals
  <2>2. CASE caller # "malloc"
    <3>1. /\ pc' = "fill" /\ ptr' = NULL /\ caller' = caller /\ tag' = tag /\ size' = size /\ oldptr' = oldptr
      BY <1>1, <2>2 DEF ReturnFromMalloc
    <3> QED
      BY <1>1, <1>2, <2>2, <3>1 DEF Locals
  <2> QED
    BY <2>1, <2>2
<1>4. pc' # "free" /\ HeldTags'
  <2>1. pc' # "free"
    BY <1>1 DEF ReturnFromMalloc, EndCall
  <2> QED
    BY <1>1, <1>2, <2>1 DEF HeldTags
<1> QED
  BY <1>1, <1>3, <1>4, HeapKept DEF IInv

\* What a tag found on a list gives: malloc takes it from the list, and the
\* count of whole runs with it.
LEMMA TakeFreeTagHeap ==
    ASSUME IInv, TakeFreeTag
    PROVE  /\ tag \in DOMAIN tags /\ tags[tag].index # -1
           /\ Sound(tags', l_freePages', block) /\ DOMAIN tags \subseteq DOMAIN tags'
           /\ tags'[tag].real_size >= size + TagSize /\ tags'[tag].index = -1
           /\ \A u \in DOMAIN tags : u # tag =>
                 tags'[u].index = tags[u].index /\ tags'[u].real_size = tags[u].real_size
           /\ \A u \in DOMAIN tags' \ DOMAIN tags : tags'[u].index # -1
           /\ Counted(tags', l_completePages')
<1>1. pc = "search" /\ tag # NULL /\ Fits(tags[tag])
  BY DEF TakeFreeTag
<1>2. Sound(tags, l_freePages, block) /\ RunsLie(block) /\ Locals /\ Counted(tags, l_completePages)
  BY DEF IInv
<1>3. size \in Nat /\ TagSize \in Nat /\ Class(size) \in Classes /\ -1 \notin Classes
  BY <1>2, ClassIsAClass, LibAllocAssumption DEF Locals, Classes
<1>4. tag \in DOMAIN tags /\ tags[tag].index = Class(size) /\ tags[tag].index # -1
  BY <1>1, <1>2, <1>3 DEF Locals
<1>5. tags[tag].real_size >= size + TagSize
  <2>1. tags[tag].real_size \in Nat
    BY <1>4, TagsAreAddresses
  <2> QED
    BY <1>1, <1>3, <2>1 DEF Fits
<1> DEFINE r == Carve(remove_tag([tags |-> tags, free |-> l_freePages], tag), tag, size)
<1>6. TagTaken(tags, r.tags, r.free, block, tag, size)
  BY <1>2, <1>3, <1>4, <1>5, TakeSound
<1>7. tags' = r.tags /\ l_freePages' = r.free /\ l_completePages' = CountTaken
  BY DEF TakeFreeTag, SetLists, Lists
<1> HIDE DEF r
<1>8. Counted(tags', l_completePages')
  <2>1. IsFiniteSet(DOMAIN tags)
    BY <1>2, TagsAreFinite DEF Sound, Linked, Typed
  <2>2. \A i \in Classes : WholeOf(tags, i) \subseteq DOMAIN tags /\ IsFiniteSet(WholeOf(tags, i))
    <3> TAKE i \in Classes
    <3>1. WholeOf(tags, i) \subseteq DOMAIN tags
      BY DEF WholeOf
    <3> QED
      BY <2>1, <3>1, FS_Subset
  <2>3. \A i \in Classes :
           Cardinality(WholeOf(tags', i)) =
              IF tag \in WholeOf(tags, i) THEN Cardinality(WholeOf(tags, i)) - 1
                                          ELSE Cardinality(WholeOf(tags, i))
    BY <1>6, <1>7, <2>2, FS_RemoveElement DEF TagTaken
  <2>4. \A i \in Classes : tag \in WholeOf(tags, i) <=> (i = Class(size) /\ Whole(tags[tag]))
    BY <1>3, <1>4 DEF WholeOf
  <2>5. \A i \in Classes : Cardinality(WholeOf(tags', i)) \in Nat
    <3> TAKE i \in Classes
    <3>1. IsFiniteSet(WholeOf(tags, i) \ {tag})
      BY <2>2, FS_RemoveElement
    <3> QED
      BY <1>6, <1>7, <3>1, FS_CardinalityType DEF TagTaken
  <2>6. \A i \in Classes :
           /\ l_completePages'[i] = IF i = Class(size) /\ Whole(tags[tag])
                                    THEN l_completePages[i] - 1 ELSE l_completePages[i]
           /\ l_completePages[i] \in 0 .. MAXCOMPLETE
           /\ l_completePages[i] = Cardinality(WholeOf(tags, i))
    BY <1>2, <1>3, <1>7 DEF CountTaken, Counted
  <2>7. \A i \in Classes : l_completePages'[i] = Cardinality(WholeOf(tags', i))
    BY <2>3, <2>4, <2>6
  <2>8. \A i \in Classes : l_completePages'[i] \in 0 .. MAXCOMPLETE
    <3> TAKE i \in Classes
    <3>1. MAXCOMPLETE \in Nat /\ l_completePages'[i] \in Nat
      BY <2>5, <2>7, LibAllocAssumption
    <3> QED
      BY <2>6, <3>1
  <2>9. l_completePages' = [i \in Classes |-> l_completePages'[i]]
    BY <1>2, <1>7 DEF CountTaken, Counted
  <2> QED
    BY <2>7, <2>8, <2>9 DEF Counted
<1> QED
  BY <1>4, <1>6, <1>7, <1>8 DEF TagTaken

\* TakeFreeTag; the block returned was held by nobody.
LEMMA StepTakeFreeTag ==
    ASSUME IInv, TakeFreeTag PROVE IInv' /\ tag + TagSize \notin DOMAIN live
<1>1. /\ tag \in DOMAIN tags /\ tags[tag].index # -1
      /\ Sound(tags', l_freePages', block) /\ DOMAIN tags \subseteq DOMAIN tags'
      /\ tags'[tag].real_size >= size + TagSize /\ tags'[tag].index = -1
      /\ \A u \in DOMAIN tags : u # tag =>
            tags'[u].index = tags[u].index /\ tags'[u].real_size = tags[u].real_size
      /\ \A u \in DOMAIN tags' \ DOMAIN tags : tags'[u].index # -1
      /\ Counted(tags', l_completePages')
  BY TakeFreeTagHeap
<1>2. pc = "search" /\ ReturnFromMalloc(tag + TagSize) /\ block' = block
  BY DEF TakeFreeTag
<1>3. DOMAIN tags' \subseteq Nat \ {NULL}
  BY <1>1, NoAddressIsNull DEF Sound, Linked, Typed
<1>4. HeldTags' /\ Locals' /\ tag + TagSize \notin DOMAIN live
  BY <1>1, <1>2, <1>3, BlockReturned
<1>5. RunsLie(block)' /\ Sound(tags, l_freePages, block)' /\ Counted(tags, l_completePages)'
  BY <1>1, <1>2 DEF IInv
<1> QED
  BY <1>4, <1>5 DEF IInv

\* What a new run of frames at b gives: its tag, and the rest of it in a list.
LEMMA TakeNewPagesHeap ==
    ASSUME IInv, NEW b \in Pages, TakeNewPages(b)
    PROVE  LET new == b * l_pageSize
           IN /\ new \in DOMAIN tags' /\ new \notin DOMAIN tags
              /\ RunsLie(block') /\ Sound(tags', l_freePages', block') /\ DOMAIN tags \subseteq DOMAIN tags'
              /\ tags'[new].real_size >= size + TagSize /\ tags'[new].index = -1
              /\ \A u \in DOMAIN tags :
                    tags'[u].index = tags[u].index /\ tags'[u].real_size = tags[u].real_size
              /\ \A u \in DOMAIN tags' \ DOMAIN tags : u # new => tags'[u].index # -1
              /\ Counted(tags', l_completePages')
              /\ PagesFor(size + TagSize) \in 1 .. NumPages
<1> DEFINE new   == b * l_pageSize
           pages == PagesFor(size + TagSize)
           tg    == NewTag(pages)
           A     == Added(tags, new, tg)
           B2    == [block EXCEPT ![b] = pages]
           r     == Carve([tags |-> A, free |-> l_freePages], new, size)
           V     == r.tags
<1>1. Sound(tags, l_freePages, block) /\ RunsLie(block) /\ Locals /\ Counted(tags, l_completePages)
  BY DEF IInv
<1>2. /\ size \in Nat /\ TagSize \in Nat /\ size + TagSize \in Nat /\ l_pageSize \in Nat \ {0}
      /\ l_pageCount \in Nat \ {0} /\ NumPages \in Nat
  BY <1>1, LibAllocAssumption, PageFramesAssumption DEF Locals
<1>3. pages \in Nat /\ pages >= l_pageCount /\ pages > 0 /\ pages * l_pageSize >= size + TagSize
  BY <1>2, PagesForIsEnough
<1>4. /\ Run(b, pages) \subseteq Pages /\ Run(b, pages) \cap Held = {}
      /\ block' = B2 /\ tags' = V /\ l_freePages' = r.free /\ l_completePages' = l_completePages
  BY DEF TakeNewPages, SetLists, Lists
<1>5. RunFits(block, b, pages)
  BY <1>3, <1>4 DEF Held, RunFits
<1> HIDE DEF pages
<1>6. IsRunTag(tg, pages)
  <2>1. pages * l_pageSize \in Nat
    BY <1>2, <1>3
  <2> QED
    BY <1>2, <2>1 DEF NewTag, Tag, IsRunTag
<1> HIDE DEF tg
<1>7. pages <= NumPages /\ RunAdded(tags, A, l_freePages, B2, new, tg)
  BY <1>1, <1>3, <1>5, <1>6, GrowSound
<1> HIDE DEF new, A, B2
<1>8. new \in DOMAIN A /\ A[new].index = -1 /\ A[new].real_size >= size + TagSize /\ A[new].split_right = NULL
  BY <1>3, <1>6, <1>7 DEF RunAdded, IsRunTag
<1>9. /\ Sound(V, r.free, B2) /\ DOMAIN A \subseteq DOMAIN V
      /\ V[new].real_size >= size + TagSize
      /\ \A u \in DOMAIN A :
            /\ V[u].index = A[u].index
            /\ u # new => V[u].real_size = A[u].real_size /\ (Whole(V[u]) <=> Whole(A[u]))
      /\ \A u \in DOMAIN V \ DOMAIN A : V[u].index # -1 /\ ~Whole(V[u])
  BY <1>2, <1>7, <1>8, CarveSound DEF RunAdded
<1> HIDE DEF r
<1>10. \A i \in Classes : WholeOf(V, i) = WholeOf(A, i)
  <2> SUFFICES ASSUME NEW i \in Classes, NEW u
               PROVE  u \in WholeOf(V, i) <=> u \in WholeOf(A, i)
    OBVIOUS
  <2>1. i # -1
    BY LibAllocAssumption DEF Classes
  <2> QED
    BY <1>8, <1>9, <2>1 DEF WholeOf
<1>11. Counted(V, l_completePages)
  BY <1>1, <1>7, <1>10 DEF Counted, RunAdded
<1>12. \A u \in DOMAIN tags : V[u].index = tags[u].index /\ V[u].real_size = tags[u].real_size
  BY <1>7, <1>9 DEF RunAdded
<1>13. \A u \in DOMAIN V \ DOMAIN tags : u # new => V[u].index # -1
  BY <1>7, <1>9 DEF RunAdded
<1>14. pages \in 1 .. NumPages
  BY <1>2, <1>3, <1>7
<1> QED
  BY <1>4, <1>7, <1>8, <1>9, <1>11, <1>12, <1>13, <1>14 DEF RunAdded, new, pages

\* TakeNewPages; the block returned was held by nobody.
LEMMA StepTakeNewPages ==
    ASSUME IInv, NEW b \in Pages, TakeNewPages(b)
    PROVE  IInv' /\ b * l_pageSize + TagSize \notin DOMAIN live
<1> DEFINE new == b * l_pageSize
<1>1. /\ new \in DOMAIN tags' /\ new \notin DOMAIN tags
      /\ RunsLie(block') /\ Sound(tags', l_freePages', block') /\ DOMAIN tags \subseteq DOMAIN tags'
      /\ tags'[new].real_size >= size + TagSize /\ tags'[new].index = -1
      /\ \A u \in DOMAIN tags :
            tags'[u].index = tags[u].index /\ tags'[u].real_size = tags[u].real_size
      /\ \A u \in DOMAIN tags' \ DOMAIN tags : u # new => tags'[u].index # -1
      /\ Counted(tags', l_completePages')
  BY TakeNewPagesHeap
<1>2. pc = "search" /\ ReturnFromMalloc(new + TagSize)
  BY DEF TakeNewPages
<1> HIDE DEF new
<1>3. DOMAIN tags' \subseteq Nat \ {NULL}
  BY <1>1, NoAddressIsNull DEF Sound, Linked, Typed
<1>4. HeldTags' /\ Locals' /\ new + TagSize \notin DOMAIN live
  BY <1>1, <1>2, <1>3, BlockReturned
<1>5. RunsLie(block)' /\ Sound(tags, l_freePages, block)' /\ Counted(tags, l_completePages)'
  BY <1>1
<1> QED
  BY <1>4, <1>5 DEF IInv, new

-----------------------------------------------------------------------------
(* The steps of free *)

\* The tag being freed, and what its neighbours are when they are not free.
LEMMA Freeing ==
    ASSUME IInv, pc = "free"
    PROVE  /\ tag \in DOMAIN tags /\ tags[tag].index = -1 /\ tag + TagSize \notin DOMAIN live
           /\ LeftIsFree => tags[tag].split_left # NULL /\ tags[tags[tag].split_left].index # -1
           /\ RightIsFree => tags[tag].split_right # NULL /\ tags[tags[tag].split_right].index # -1
           /\ ~LeftIsFree /\ tags[tag].split_left # NULL => tags[tags[tag].split_left].index = -1
           /\ ~RightIsFree /\ tags[tag].split_right # NULL => tags[tags[tag].split_right].index = -1
<1>1. tag \in DOMAIN tags /\ tags[tag].index = -1 /\ tag + TagSize \notin DOMAIN live
  BY DEF IInv, Locals
<1>2. \A t \in DOMAIN tags : tags[t].index >= 0 <=> tags[t].index # -1
  <2>1. \A t \in DOMAIN tags : tags[t].index \in Classes \cup {-1}
    BY TagsAreAddresses DEF Tag
  <2> QED
    BY <2>1, LibAllocAssumption DEF Classes
<1>3. /\ tags[tag].split_left # NULL => tags[tag].split_left \in DOMAIN tags
      /\ tags[tag].split_right # NULL => tags[tag].split_right \in DOMAIN tags
  BY <1>1 DEF IInv, Sound, Laid
<1> QED
  BY <1>1, <1>2, <1>3 DEF LeftIsFree, RightIsFree, IsFree

\* One of two neighbours, a tag being freed and one in a list, takes the other over.
LEMMA StillFreeing ==
    ASSUME IInv, pc = "free", UNCHANGED <<live, pc, caller, size, oldptr, ptr>>,
           NEW g \in DOMAIN tags, DOMAIN tags' = DOMAIN tags \ {g},
           tag' \in DOMAIN tags \ {g}, tags'[tag'].index = -1,
           (tag' = tag /\ tags[g].index # -1) \/ (g = tag /\ tags[tag'].index # -1),
           \A u \in DOMAIN tags' : u # tag' =>
              tags'[u].index = tags[u].index /\ tags'[u].real_size = tags[u].real_size
    PROVE  HeldTags' /\ Locals'
<1>1. HeldTags /\ Locals /\ tag \in DOMAIN tags /\ tag + TagSize \notin DOMAIN live
  BY Freeing DEF IInv
<1>2. /\ TagSize \in Nat \ {0} /\ DOMAIN live \subseteq Int /\ DOMAIN tags \subseteq Nat \ {NULL}
  BY TagsAreAddresses
<1>3. \A q \in DOMAIN live : (q - TagSize) + TagSize = q
  BY <1>2
<1>4. \A u \in DOMAIN tags : (u + TagSize) - TagSize = u
  BY <1>2
<1>5. \A q \in DOMAIN live : q - TagSize # tag /\ q - TagSize # g /\ q - TagSize # tag'
  BY <1>1, <1>3 DEF HeldTags
<1>6. HeldTags'
  BY <1>1, <1>5 DEF HeldTags
<1>7. tag' + TagSize \notin DOMAIN live
  BY <1>4, <1>5
<1>8. Locals'
  BY <1>1, <1>2, <1>7 DEF Locals
<1> QED
  BY <1>6, <1>8

\* MeltLeft: the left neighbour is the one being freed now.
LEMMA StepMeltLeft == ASSUME IInv, MeltLeft PROVE IInv'
<1> DEFINE left == tags[tag].split_left
           r == remove_tag([tags |-> Join(tags, left, tag), free |-> l_freePages], left)
<1>1. pc = "free" /\ LeftIsFree /\ Sound(tags, l_freePages, block) /\ RunsLie(block)
  BY DEF MeltLeft, IInv
<1>2. tag \in DOMAIN tags /\ tags[tag].index = -1 /\ left # NULL /\ tags[left].index # -1
  BY <1>1, Freeing
<1>3. left \in DOMAIN tags /\ left # tag /\ TagJoined(tags, r.tags, r.free, block, left, tag)
  BY <1>1, <1>2, MeltSound
<1>4. /\ tags' = r.tags /\ l_freePages' = r.free /\ tag' = left
      /\ UNCHANGED <<l_completePages, block, live, pc, caller, size, oldptr, ptr>>
  BY DEF MeltLeft, SetLists, Lists
<1> HIDE DEF r, left
<1>5. HeldTags' /\ Locals'
  BY <1>1, <1>2, <1>3, <1>4, StillFreeing DEF TagJoined
<1>6. Counted(tags, l_completePages)'
  BY <1>3, <1>4 DEF IInv, Counted, TagJoined
<1>7. RunsLie(block)' /\ Sound(tags, l_freePages, block)'
  BY <1>1, <1>3, <1>4 DEF TagJoined
<1> QED
  BY <1>5, <1>6, <1>7 DEF IInv

\* AbsorbRight: the tag being freed has swallowed its neighbour.
LEMMA StepAbsorbRight == ASSUME IInv, AbsorbRight PROVE IInv'
<1> DEFINE right == tags[tag].split_right
           r == remove_tag([tags |-> tags, free |-> l_freePages], right)
           V == Join(r.tags, tag, right)
<1>1. pc = "free" /\ RightIsFree /\ Sound(tags, l_freePages, block) /\ RunsLie(block)
  BY DEF AbsorbRight, IInv
<1>2. tag \in DOMAIN tags /\ tags[tag].index = -1 /\ right # NULL /\ tags[right].index # -1
  BY <1>1, Freeing
<1>3. right \in DOMAIN tags /\ right # tag /\ TagJoined(tags, V, r.free, block, tag, right)
  BY <1>1, <1>2, AbsorbSound
<1>4. /\ tags' = V /\ l_freePages' = r.free /\ tag' = tag
      /\ UNCHANGED <<l_completePages, block, live, pc, caller, size, oldptr, ptr>>
  BY DEF AbsorbRight, SetLists, Lists
<1> HIDE DEF V, r, right
<1>5. HeldTags' /\ Locals'
  <2>1. /\ DOMAIN tags' = DOMAIN tags \ {right} /\ tag' \in DOMAIN tags \ {right}
        /\ tags'[tag'].index = -1 /\ tag' = tag /\ tags[right].index # -1
        /\ \A u \in DOMAIN tags' : u # tag' =>
              tags'[u].index = tags[u].index /\ tags'[u].real_size = tags[u].real_size
    BY <1>2, <1>3, <1>4 DEF TagJoined
  <2>2. pc = "free" /\ UNCHANGED <<live, pc, caller, size, oldptr, ptr>> /\ right \in DOMAIN tags
    BY <1>1, <1>3, <1>4
  <2> QED
    BY <2>1, <2>2, StillFreeing
<1>6. Counted(tags, l_completePages)'
  BY <1>3, <1>4 DEF IInv, Counted, TagJoined
<1>7. RunsLie(block)' /\ Sound(tags, l_freePages, block)'
  BY <1>1, <1>3, <1>4 DEF TagJoined
<1> QED
  BY <1>5, <1>6, <1>7 DEF IInv

\* ReleasePages: the frames that go back are one run, whole.
LEMMA StepReleasePages ==
    ASSUME IInv, ReleasePages
    PROVE  /\ IInv' /\ live' = live
           /\ \E d \in Pages : block[d] > 0 /\ block' = [block EXCEPT ![d] = 0]
<1> DEFINE d  == tag \div l_pageSize
           B2 == [block EXCEPT ![d] = 0]
           V  == [u \in DOMAIN tags \ {tag} |-> tags[u]]
<1>1. /\ pc = "free" /\ IsSurplus /\ block' = [block EXCEPT ![d] = @ - ReturnedPages] /\ tags' = V
      /\ pc' = "idle" /\ caller' = "none" /\ tag' = NULL /\ size' = 0 /\ oldptr' = NULL /\ ptr' = NULL
      /\ l_freePages' = l_freePages /\ l_completePages' = l_completePages /\ live' = live
  BY DEF ReleasePages, EndCall
<1>2. tag \in DOMAIN tags /\ tags[tag].index = -1 /\ tag + TagSize \notin DOMAIN live /\ Whole(tags[tag])
  BY <1>1, Freeing DEF IsSurplus
<1>3. Sound(tags, l_freePages, block) /\ RunsLie(block) /\ Counted(tags, l_completePages) /\ HeldTags
  BY DEF IInv
<1>4. /\ d \in Pages /\ block[d] > 0 /\ PagesFor(tags[tag].real_size) = block[d]
      /\ Sound(V, l_freePages, B2) /\ RunsLie(B2)
      /\ \A i \in Classes : WholeOf(V, i) = WholeOf(tags, i)
  BY <1>2, <1>3, ReleaseSound
<1>5. block' = B2
  <2>1. block \in [Pages -> Nat]
    BY <1>3 DEF RunsLie
  <2>2. block[d] - ReturnedPages = 0
    BY <1>4, <2>1 DEF ReturnedPages
  <2> QED
    BY <1>1, <2>2
<1>6. RunsLie(block)' /\ Sound(tags, l_freePages, block)' /\ Counted(tags, l_completePages)'
  <2>1. Counted(V, l_completePages)
    BY <1>3, <1>4 DEF Counted
  <2> QED
    BY <1>1, <1>4, <1>5, <2>1
<1>7. HeldTags'
  <2>1. DOMAIN live \subseteq Int /\ TagSize \in Nat
    BY TagsAreAddresses
  <2>2. \A q \in DOMAIN live : q - TagSize # tag
    BY <1>2, <2>1
  <2>3. DOMAIN tags' = DOMAIN tags \ {tag} /\ \A u \in DOMAIN tags' : tags'[u] = tags[u]
    BY <1>1
  <2>4. pc' # "free" /\ live' = live
    BY <1>1
  <2> HIDE DEF V
  <2> QED
    BY <1>3, <2>2, <2>3, <2>4 DEF HeldTags
<1>8. Locals'
  BY <1>1 DEF Locals
<1>9. \E c \in Pages : block[c] > 0 /\ block' = [block EXCEPT ![c] = 0]
  BY <1>4, <1>5
<1> QED
  BY <1>1, <1>6, <1>7, <1>8, <1>9 DEF IInv

\* What keeping a tag does: it is in the list of its class, and counted there
\* when it is a whole run.
LEMMA KeepTagHeap ==
    ASSUME IInv, KeepTag
    PROVE  /\ Sound(tags', l_freePages', block) /\ Counted(tags', l_completePages')
           /\ SameShape(tags, tags') /\ tags'[tag].index # -1
           /\ \A u \in DOMAIN tags : u # tag => tags'[u].index = tags[u].index
<1> DEFINE r == insert_tag([tags |-> tags, free |-> l_freePages], tag)
           V == r.tags
           i == Class(tags[tag].real_size - TagSize)
<1>1. /\ pc = "free" /\ ~LeftIsFree /\ ~RightIsFree /\ ~IsSurplus /\ tags' = V /\ l_freePages' = r.free
      /\ l_completePages' = IF Whole(tags[tag]) THEN [l_completePages EXCEPT ![i] = @ + 1]
                            ELSE l_completePages
  BY DEF KeepTag, SetLists, Lists, TagClass
<1>2. Sound(tags, l_freePages, block) /\ Counted(tags, l_completePages)
  BY DEF IInv
<1>3. /\ tag \in DOMAIN tags /\ tags[tag].index = -1
      /\ tags[tag].split_left # NULL => tags[tags[tag].split_left].index = -1
      /\ tags[tag].split_right # NULL => tags[tags[tag].split_right].index = -1
  BY <1>1, Freeing
<1>4. TagKept(tags, V, r.free, block, tag, i)
  BY <1>2, <1>3, KeepSound
<1>5. Whole(tags[tag]) => l_completePages[i] # MAXCOMPLETE
  BY <1>1 DEF IsSurplus, TagClass
<1> HIDE DEF V, r, i
<1>6. i # -1
  BY <1>4, LibAllocAssumption DEF Classes, TagKept
<1>7. Counted(tags', l_completePages')
  <2>1. IsFiniteSet(DOMAIN tags)
    BY <1>2, TagsAreFinite DEF Sound, Linked, Typed
  <2>2. \A j \in Classes : WholeOf(tags, j) \subseteq DOMAIN tags /\ IsFiniteSet(WholeOf(tags, j))
    <3> TAKE j \in Classes
    <3>1. WholeOf(tags, j) \subseteq DOMAIN tags
      BY DEF WholeOf
    <3> QED
      BY <2>1, <3>1, FS_Subset
  <2>3. \A j \in Classes : tag \notin WholeOf(tags, j)
    BY <1>3, LibAllocAssumption DEF WholeOf, Classes
  <2>4. \A j \in Classes : Cardinality(WholeOf(tags, j) \cup {tag}) = Cardinality(WholeOf(tags, j)) + 1
    BY <2>2, <2>3, FS_AddElement
  <2>5. \A j \in Classes :
           Cardinality(WholeOf(tags', j)) =
              IF Whole(tags[tag]) /\ j = i THEN Cardinality(WholeOf(tags, j)) + 1
                                           ELSE Cardinality(WholeOf(tags, j))
    BY <1>1, <1>4, <2>4 DEF TagKept
  <2>6. /\ \A j \in Classes : l_completePages[j] \in 0 .. MAXCOMPLETE
        /\ \A j \in Classes : l_completePages[j] = Cardinality(WholeOf(tags, j))
        /\ DOMAIN l_completePages = Classes /\ MAXCOMPLETE \in Nat
    BY <1>2, LibAllocAssumption DEF Counted
  <2>7. CASE Whole(tags[tag])
    <3>1. l_completePages' = [l_completePages EXCEPT ![i] = @ + 1]
      BY <1>1, <2>7
    <3>2. l_completePages[i] \in 0 .. MAXCOMPLETE /\ l_completePages[i] # MAXCOMPLETE
      BY <1>4, <1>5, <2>6, <2>7 DEF TagKept
    <3>3. l_completePages[i] + 1 \in 0 .. MAXCOMPLETE
      BY <2>6, <3>2
    <3>4. l_completePages' \in [Classes -> 0 .. MAXCOMPLETE]
      BY <1>2, <3>1, <3>3 DEF Counted
    <3>5. \A j \in Classes : l_completePages'[j] = Cardinality(WholeOf(tags', j))
      BY <1>4, <2>5, <2>6, <2>7, <3>1 DEF TagKept
    <3> QED
      BY <3>4, <3>5 DEF Counted
  <2>8. CASE ~Whole(tags[tag])
    BY <1>1, <1>2, <2>5, <2>8 DEF Counted
  <2> QED
    BY <2>7, <2>8
<1>8. tags'[tag].index # -1 /\ \A u \in DOMAIN tags : u # tag => tags'[u].index = tags[u].index
  BY <1>1, <1>3, <1>4, <1>6 DEF TagKept
<1> QED
  BY <1>1, <1>4, <1>7, <1>8 DEF TagKept

\* KeepTag.
LEMMA StepKeepTag == ASSUME IInv, KeepTag PROVE IInv'
<1>1. /\ Sound(tags', l_freePages', block) /\ Counted(tags', l_completePages')
      /\ SameShape(tags, tags') /\ tags'[tag].index # -1
      /\ \A u \in DOMAIN tags : u # tag => tags'[u].index = tags[u].index
  BY KeepTagHeap
<1>2. /\ pc = "free" /\ block' = block /\ live' = live
      /\ pc' = "idle" /\ caller' = "none" /\ tag' = NULL /\ size' = 0 /\ oldptr' = NULL /\ ptr' = NULL
  BY DEF KeepTag, EndCall
<1>3. tag + TagSize \notin DOMAIN live /\ HeldTags /\ RunsLie(block)
  BY <1>2, Freeing DEF IInv
<1>4. HeldTags'
  <2>1. DOMAIN live \subseteq Int /\ TagSize \in Nat
    BY TagsAreAddresses
  <2>2. \A q \in DOMAIN live : q - TagSize # tag
    BY <1>3, <2>1
  <2> QED
    BY <1>1, <1>2, <1>3, <2>2 DEF HeldTags, SameShape
<1>5. Locals'
  BY <1>2 DEF Locals
<1>6. RunsLie(block)' /\ Sound(tags, l_freePages, block)' /\ Counted(tags, l_completePages)'
  BY <1>1, <1>2, <1>3
<1> QED
  BY <1>4, <1>5, <1>6 DEF IInv

-----------------------------------------------------------------------------
(* The invariant *)

\* Every step keeps the invariant.
LEMMA StepInvariant == IInv /\ [Next]_vars => IInv'
<1> SUFFICES ASSUME IInv, [Next]_vars PROVE IInv'
  OBVIOUS
<1>1. CASE UNCHANGED vars
  <2>1. UNCHANGED heap /\ tags' = tags /\ UNCHANGED <<live, pc, caller, tag, size, oldptr, ptr>>
    BY <1>1 DEF vars, heap
  <2>2. HeldTags'
    BY <2>1 DEF IInv, HeldTags
  <2>3. Locals'
    BY <2>1 DEF IInv, Locals
  <2> QED
    BY <2>1, <2>2, <2>3, HeapKept DEF IInv
<1>2. ASSUME NEW n \in Sizes, CallMalloc(n) \/ CallCalloc(n) PROVE IInv'
  BY <1>2, StepCallMalloc
<1>3. ASSUME NEW q \in DOMAIN live, CallFree(q) PROVE IInv'
  BY <1>3, StepCallFree
<1>4. ASSUME NEW q \in DOMAIN live, NEW n \in Sizes, CallRealloc(q, n) PROVE IInv'
  BY <1>4, StepCallRealloc
<1>5. CASE SearchNext
  BY <1>5, StepSearchNext
<1>6. CASE TakeFreeTag
  BY <1>6, StepTakeFreeTag
<1>7. ASSUME NEW b \in Pages, TakeNewPages(b) PROVE IInv'
  BY <1>7, StepTakeNewPages
<1>8. CASE NoPages
  BY <1>8, StepNoPages
<1>9. CASE MeltLeft
  BY <1>9, StepMeltLeft
<1>10. CASE AbsorbRight
  BY <1>10, StepAbsorbRight
<1>11. CASE ReleasePages
  BY <1>11, StepReleasePages
<1>12. CASE KeepTag
  BY <1>12, StepKeepTag
<1>13. CASE Clear
  BY <1>13, StepClear
<1>14. CASE CopyAndFree
  BY <1>14, StepCopyAndFree
<1> QED
  BY <1>1, <1>2, <1>3, <1>4, <1>5, <1>6, <1>7, <1>8, <1>9, <1>10, <1>11, <1>12, <1>13, <1>14
     DEF Next, Step, MallocStep, FreeStep

\* The invariant holds of every state the heap reaches.
THEOREM Invariant == Spec => []IInv
  BY InitInvariant, StepInvariant, PTL DEF Spec

\* Every variable has its type, and every pointer the code would follow leads to
\* a tag in use.
THEOREM TypeCorrect == Spec => []TypeOK
  BY Invariant, TypesHold, PTL

\* The tags tile every run of frames held, and the split links lead along it.
THEOREM RunsAreTiled == Spec => []Tiling
  BY Invariant, TilingHolds, PTL

\* The list of each class ends, and holds the free tags of that class.
THEOREM ListsAreFreeTags == Spec => []FreeListsHoldFreeTags
<1>1. IInv => FreeListsHoldFreeTags
  BY ListsHold DEF IInv, Sound
<1> QED
  BY <1>1, Invariant, PTL

\* Two neighbours are never both free.
THEOREM FreeTagsAreJoined == Spec => []Coalesced
  BY Invariant, CoalescedHolds, PTL

\* The counts of whole runs that stand by are right.
THEOREM WholeRunsAreCounted == Spec => []CompletePagesCounted
  BY Invariant, CountsHold, PTL

\* No sequence of calls leaks a tag, and every block has its room.
THEOREM NoTagIsLost == Spec => []UsedTagsAreHeld
  BY Invariant, HeldHolds, PTL

-----------------------------------------------------------------------------
(* The contracts *)

\* The bytes of the block at q and of its tag.
Span(q) == q - TagSize .. q + live[q] - 1

\* The blocks callers hold lie in the memory, apart from each other.
BlocksLie ==
    /\ \A q \in DOMAIN live : Span(q) \subseteq Addresses
    /\ \A q, r \in DOMAIN live : q # r => Span(q) \cap Span(r) = {}

\* Each lies in a tag of its own.
LEMMA BlocksHold == IInv => BlocksLie
<1> SUFFICES ASSUME IInv PROVE BlocksLie
  OBVIOUS
<1>1. RunsLie(block) /\ Laid(tags, block) /\ HeldTags
  BY DEF IInv, Sound
<1>2. /\ DOMAIN tags \subseteq Nat \ {NULL} /\ TagSize \in Nat \ {0} /\ DOMAIN live \subseteq Int
      /\ \A t \in DOMAIN tags : tags[t].real_size \in Nat
  BY TagsAreAddresses
<1>3. ASSUME NEW q \in DOMAIN live
      PROVE  /\ q \in Int /\ q - TagSize \in DOMAIN tags /\ q - TagSize \in Nat
             /\ \A x \in Span(q) : /\ x \in Int /\ q - TagSize <= x
                                   /\ x < (q - TagSize) + tags[q - TagSize].real_size
  <2>1. /\ q \in Int /\ q - TagSize \in DOMAIN tags /\ q - TagSize \in Nat /\ live[q] \in Nat
        /\ tags[q - TagSize].real_size \in Nat /\ tags[q - TagSize].real_size >= live[q] + TagSize
    BY <1>1, <1>2 DEF HeldTags
  <2> QED
    BY <1>2, <2>1 DEF Span
<1>4. ASSUME NEW q \in DOMAIN live PROVE Span(q) \subseteq Addresses
  <2> DEFINE t == q - TagSize
  <2>1. t \in DOMAIN tags /\ t \in Nat /\ \A x \in Span(q) : x \in Int /\ t <= x /\ x < t + tags[t].real_size
    BY <1>3
  <2> HIDE DEF t
  <2>2. PICK b \in Pages : Inside(tags, block, b, t)
    BY <1>1, <2>1 DEF Laid
  <2>3. /\ block[b] > 0 /\ RunStart(b) <= t /\ t + tags[t].real_size <= EndOf(block, b)
        /\ RunStart(b) \in Nat /\ EndOf(block, b) \in Nat /\ tags[t].real_size \in Nat
    BY <1>1, <1>2, <2>1, <2>2, RunsApart DEF Inside
  <2>4. \A x \in Span(q) : x \in Int /\ RunStart(b) <= x /\ x < EndOf(block, b)
    BY <2>1, <2>3
  <2> QED
    BY <1>1, <2>3, <2>4, RunsApart
<1>5. ASSUME NEW q \in DOMAIN live, NEW r \in DOMAIN live, q < r PROVE Span(q) \cap Span(r) = {}
  <2> DEFINE t == q - TagSize
             u == r - TagSize
  <2>1. /\ t \in DOMAIN tags /\ t \in Nat /\ u \in DOMAIN tags /\ u \in Nat /\ t < u
        /\ tags[t].real_size \in Nat
    BY <1>2, <1>3, <1>5
  <2>2. t + tags[t].real_size <= u
    BY <1>1, <2>1 DEF Laid
  <2>3. \A x \in Span(q) : x \in Int /\ x < t + tags[t].real_size
    BY <1>3
  <2>4. \A x \in Span(r) : x \in Int /\ u <= x
    BY <1>3
  <2> HIDE DEF t, u
  <2> QED
    BY <2>1, <2>2, <2>3, <2>4
<1>6. \A q, r \in DOMAIN live : q # r => Span(q) \cap Span(r) = {}
  <2> SUFFICES ASSUME NEW q \in DOMAIN live, NEW r \in DOMAIN live, q # r
               PROVE  Span(q) \cap Span(r) = {}
    OBVIOUS
  <2>1. q < r \/ r < q
    BY <1>2
  <2> QED
    BY <1>5, <2>1
<1> QED
  BY <1>4, <1>6 DEF BlocksLie

\* What malloc returns is a block as HeapSpec promises it.
LEMMA ReturnKeepsContract ==
    ASSUME BlocksLie', NEW q, q # NULL, q \notin DOMAIN live, ReturnFromMalloc(q)
    PROVE  HeapContract!Next
<1>1. live' = Added(live, q, size)
  BY DEF ReturnFromMalloc
<1>2. /\ DOMAIN live' = DOMAIN live \cup {q} /\ live'[q] = size
      /\ \A r \in DOMAIN live : live'[r] = live[r]
      /\ live' = [r \in DOMAIN live \cup {q} |-> IF r = q THEN live'[q] ELSE live[r]]
  BY <1>1 DEF Added
<1>3. HeapContract!Bytes(q, live'[q]) \subseteq Addresses
  BY <1>2 DEF BlocksLie, Span, HeapContract!Bytes
<1>4. \A r \in DOMAIN live : HeapContract!Bytes(q, live'[q]) \cap HeapContract!Bytes(r, live[r]) = {}
  <2> SUFFICES ASSUME NEW r \in DOMAIN live
               PROVE  HeapContract!Bytes(q, live'[q]) \cap HeapContract!Bytes(r, live[r]) = {}
    OBVIOUS
  <2>1. r \in DOMAIN live' /\ q \in DOMAIN live' /\ q # r /\ live'[r] = live[r]
    BY <1>2
  <2> QED
    BY <2>1 DEF BlocksLie, Span, HeapContract!Bytes
<1>5. q \in DOMAIN live' \ DOMAIN live /\ HeapContract!Malloc(q, live'[q])
  BY <1>2, <1>3, <1>4 DEF HeapContract!Malloc
<1> QED
  BY <1>5 DEF HeapContract!Next

\* Every step is a step of HeapSpec, or leaves the blocks held as they are.
LEMMA StepHeapContract == IInv /\ IInv' /\ BlocksLie' /\ [Next]_vars => [HeapContract!Next]_live
<1> SUFFICES ASSUME IInv, IInv', BlocksLie', [Next]_vars PROVE HeapContract!Next \/ live' = live
  OBVIOUS
<1>1. NULL = 0 /\ TagSize \in Nat \ {0} /\ DOMAIN tags \subseteq Nat
  BY TagsAreAddresses DEF NULL
<1>2. ASSUME NEW q \in DOMAIN live, EnterFree(q) PROVE HeapContract!Next
  BY <1>2 DEF EnterFree, HeapContract!Next, HeapContract!Free
<1>3. ASSUME NEW n \in Sizes, CallMalloc(n) \/ CallCalloc(n) PROVE live' = live
  BY <1>3 DEF CallMalloc, CallCalloc, EnterMalloc
<1>4. ASSUME NEW q \in DOMAIN live, CallFree(q) PROVE HeapContract!Next
  BY <1>2, <1>4 DEF CallFree
<1>5. ASSUME NEW q \in DOMAIN live, NEW n \in Sizes, CallRealloc(q, n) PROVE HeapContract!Next \/ live' = live
  <2>1. CASE n = 0
    BY <1>2, <1>5, <2>1 DEF CallRealloc
  <2>2. CASE n # 0
    BY <1>5, <2>2 DEF CallRealloc, EnterMalloc
  <2> QED
    BY <2>1, <2>2
<1>6. CASE TakeFreeTag
  <2>1. tag + TagSize \notin DOMAIN live
    BY <1>6, StepTakeFreeTag
  <2>2. tag \in DOMAIN tags /\ ReturnFromMalloc(tag + TagSize)
    BY <1>6 DEF TakeFreeTag, IInv, Locals
  <2>3. tag + TagSize # NULL
    BY <1>1, <2>2
  <2> QED
    BY <2>1, <2>2, <2>3, ReturnKeepsContract
<1>7. ASSUME NEW b \in Pages, TakeNewPages(b) PROVE HeapContract!Next
  <2>1. b * l_pageSize + TagSize \notin DOMAIN live
    BY <1>7, StepTakeNewPages
  <2>2. ReturnFromMalloc(b * l_pageSize + TagSize)
    BY <1>7 DEF TakeNewPages
  <2>3. b \in Nat /\ l_pageSize \in Nat /\ b * l_pageSize \in Nat
    BY PageFramesAssumption, LibAllocAssumption DEF Pages
  <2>4. b * l_pageSize + TagSize # NULL
    BY <1>1, <2>3
  <2> QED
    BY <2>1, <2>2, <2>4, ReturnKeepsContract
<1>8. CASE NoPages
  BY <1>8 DEF NoPages, ReturnFromMalloc
<1>9. CASE CopyAndFree
  <2>1. oldptr \in DOMAIN live
    BY <1>9 DEF CopyAndFree, IInv, Locals
  <2> QED
    BY <1>2, <1>9, <2>1 DEF CopyAndFree
<1>10. CASE SearchNext \/ MeltLeft \/ AbsorbRight \/ ReleasePages \/ KeepTag \/ Clear \/ UNCHANGED vars
  BY <1>10 DEF SearchNext, MeltLeft, AbsorbRight, ReleasePages, KeepTag, Clear, vars
<1> QED
  BY <1>3, <1>4, <1>5, <1>6, <1>7, <1>8, <1>9, <1>10 DEF Next, Step, MallocStep, FreeStep

\* Every step keeps to PageSpec: it takes frames nobody holds, or gives a run
\* back whole.
LEMMA StepPageContract == IInv /\ [Next]_vars => [PageContract!Next]_block
<1> SUFFICES ASSUME IInv, [Next]_vars PROVE PageContract!Next \/ block' = block
  OBVIOUS
<1>1. ASSUME NEW b \in Pages, TakeNewPages(b) PROVE PageContract!Next
  <2> DEFINE n == PagesFor(size + TagSize)
  <2>1. n \in 1 .. NumPages
    BY <1>1, TakeNewPagesHeap
  <2>2. /\ Run(b, n) \subseteq Pages /\ Run(b, n) \cap Held = {}
        /\ block' = [block EXCEPT ![b] = n]
    BY <1>1 DEF TakeNewPages
  <2> HIDE DEF n
  <2>3. PageContract!Grab(b, n)
    BY <2>2 DEF PageContract!Grab, PageContract!Held, PageContract!Run, PageContract!Pages, Held, Run, Pages
  <2> QED
    BY <2>1, <2>3 DEF PageContract!Next, PageContract!Pages, Pages
<1>2. CASE ReleasePages
  <2>1. PICK d \in Pages : block[d] > 0 /\ block' = [block EXCEPT ![d] = 0]
    BY <1>2, StepReleasePages
  <2> QED
    BY <2>1 DEF PageContract!Next, PageContract!Release, PageContract!Pages, Pages
<1>3. ASSUME NEW q \in DOMAIN live, CallFree(q) \/ \E n \in Sizes : CallRealloc(q, n) PROVE block' = block
  BY <1>3 DEF CallFree, CallRealloc, EnterFree, EnterMalloc, heap
<1>4. ASSUME NEW n \in Sizes, CallMalloc(n) \/ CallCalloc(n) PROVE block' = block
  BY <1>4 DEF CallMalloc, CallCalloc, EnterMalloc, heap
<1>5. CASE SearchNext \/ TakeFreeTag \/ NoPages \/ MeltLeft \/ AbsorbRight \/ KeepTag \/ Clear \/ CopyAndFree
           \/ UNCHANGED vars
  BY <1>5 DEF SearchNext, TakeFreeTag, NoPages, MeltLeft, AbsorbRight, KeepTag, Clear, CopyAndFree, EnterFree,
     heap, vars
<1> QED
  BY <1>1, <1>2, <1>3, <1>4, <1>5 DEF Next, Step, MallocStep, FreeStep

\* malloc, free and realloc implement HeapSpec towards their callers, and keep
\* PageSpec towards the page hooks.
THEOREM Implements == Spec => KeepsContracts
<1>1. Init => HeapContract!Init /\ PageContract!Init
  BY DEF Init, HeapContract!Init, PageContract!Init, PageContract!Pages, Pages
<1>2. IInv' => BlocksLie'
  BY BlocksHold, PTL
<1> QED
  BY <1>1, <1>2, Invariant, StepHeapContract, StepPageContract, PTL
     DEF Spec, KeepsContracts, HeapContract!Spec, PageContract!Spec
=============================================================================
