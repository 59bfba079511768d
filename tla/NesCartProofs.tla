--------------------------- MODULE NesCartProofs ---------------------------
(***************************************************************************)
(* Theorems about NesCart for every set of blocks, of files and of         *)
(* headers, and every malloc.  The argument: the blocks that hold a        *)
(* cartridge or a part of one are, at each step of nes_load_cart, those of *)
(* the cartridge it works on, or none.  Between calls it works on the one  *)
(* the global pointer leads to, unless that pointer is stale: it is then   *)
(* never followed into a new cartridge, because the call that would build  *)
(* one frees what it leads to first and stops.                             *)
(***************************************************************************)
EXTENDS NesCart, FiniteSetTheorems, TLAPS

\* What malloc's blocks can hold.
Carts == [kind : {"cart"}, prg_mem : Blocks, chr_mem : Blocks, mapper : Blocks \cup {NULL}, prg_banks : Nat]

Contents ==
    {Nothing} \cup Carts \cup [kind : {"image"}, enough : BOOLEAN]
      \cup [kind : {"prg"}, of : Roms \cup {"outside", "other"}] \cup [kind : {"chr"}] \cup [kind : {"mapper"}]

Types ==
    /\ TypeOK
    /\ heap \in [Blocks -> Contents]
    /\ cartfile \in Roms => cartfile = rom
    /\ pc \in {"stat", "header", "mapper"} => cartfile # "none" /\ opened > 0
    /\ pc \in {"header", "mapper"} => image \in Blocks /\ heap[image].kind = "image"
    /\ pc = "header" /\ cartfile \in Roms /\ heap[image].enough => cart_header = Header[cartfile]

\* The blocks that hold a cartridge or a part of one.
Parts == {b \in Blocks : heap[b].kind \in {"cart", "prg", "chr"}}

\* A cartridge at cart, with its parts where it says and no other part anywhere.
Only(cart) ==
    /\ cart \in Blocks /\ heap[cart].kind = "cart"
    /\ heap[heap[cart].prg_mem].kind = "prg" /\ heap[heap[cart].chr_mem].kind = "chr"
    /\ Parts = PartsOf(cart)

\* The cartridge at cart is that of the file that was read.
IsRead(cart) ==
    LET of == heap[heap[cart].prg_mem].of
    IN /\ cartfile # "none" /\ of \in {cartfile, "outside"}
       /\ heap[cart].prg_banks = cart_header.prg
       /\ of \in Roms => of = rom /\ cart_header = Header[of]

Owned ==
    /\ pc \in {"idle", "unload"} => Parts = {} \/ (nes_loaded_cart # NULL /\ Only(nes_loaded_cart))
    /\ pc \in {"open", "stat", "header"} => Parts = {}
    /\ pc = "mapper" => nes_cart # NULL /\ Only(nes_cart) /\ IsRead(nes_cart) /\ cart_header.ines

\* What a call left that found an iNES header, and one that found another.
Left ==
    Succeeded =>
        /\ cart_header.ines =>
              /\ Only(nes_loaded_cart) /\ nes_loaded_cart # NULL /\ IsRead(nes_loaded_cart)
              /\ heap[nes_loaded_cart].mapper \in Blocks
              /\ heap[heap[nes_loaded_cart].mapper].kind = "mapper"
        /\ ~cart_header.ines => Parts = {}

IInv == Types /\ Owned /\ Left

-----------------------------------------------------------------------------

\* Whatever a block holds is of one of these kinds.
LEMMA KindsOf ==
    ASSUME NEW x \in Contents
    PROVE  x.kind \in {"nothing", "image", "cart", "prg", "chr", "mapper"}
  BY DEF Contents, Nothing, Carts

\* A block is in use when it holds something.
LEMMA LiveHolds ==
    ASSUME heap \in [Blocks -> Contents]
    PROVE  \A b \in Blocks : b \in Live <=> heap[b].kind # "nothing"
<1> SUFFICES ASSUME NEW b \in Blocks PROVE b \in Live <=> heap[b].kind # "nothing"
  OBVIOUS
<1>1. heap[b] \in Contents
  OBVIOUS
<1>2. heap[b].kind = "nothing" <=> heap[b] = Nothing
  BY <1>1 DEF Contents, Nothing, Carts
<1> QED
  BY <1>2 DEF Live, Free

\* The parts of a cartridge are blocks.
LEMMA CartHasParts ==
    ASSUME heap \in [Blocks -> Contents], NEW c \in Blocks, heap[c].kind = "cart"
    PROVE  heap[c] \in Carts /\ PartsOf(c) \subseteq Blocks
<1>1. heap[c] \in Contents
  OBVIOUS
<1>2. heap[c] \in Carts
  BY <1>1 DEF Contents, Nothing, Carts
<1> QED
  BY <1>2 DEF Carts, PartsOf

\* Only(c) is more than IsWhole(c); where there are no parts nothing is whole.
LEMMA WholeOrNot ==
    ASSUME heap \in [Blocks -> Contents], NULL \notin Blocks,
           NEW c \in Blocks \cup {NULL}
    PROVE  /\ c # NULL /\ Only(c) => IsWhole(c)
           /\ Parts = {} => ~IsWhole(c)
<1>1. ASSUME c # NULL, Only(c) PROVE IsWhole(c)
  <2>1. PartsOf(c) \subseteq Blocks
    BY <1>1, CartHasParts DEF Only
  <2>2. \A b \in PartsOf(c) : heap[b].kind # "nothing"
    BY <1>1 DEF Only, PartsOf
  <2> QED
    BY <1>1, <2>1, <2>2, LiveHolds DEF Only, IsWhole
<1>2. ASSUME Parts = {}, IsWhole(c) PROVE FALSE
  BY <1>2 DEF Parts, IsWhole
<1> QED
  BY <1>1, <1>2

\* malloc's choice is a free block, and three of them are there when three are
\* asked for.
LEMMA Picked ==
    /\ Free # {} => Pick(Free) \in Free
    /\ Cardinality(Free) >= 3 =>
         LET cart == Pick(Free)
             prg  == Pick(Free \ {cart})
             chr  == Pick(Free \ {cart, prg})
         IN cart \in Free /\ prg \in Free \ {cart} /\ chr \in Free \ {cart, prg}
<1>1. Free \in SUBSET Blocks /\ IsFiniteSet(Free)
  BY NesCartAssumption, FS_Subset DEF Free
<1>2. ASSUME NEW S \in SUBSET Blocks, S # {} PROVE Pick(S) \in S
  BY <1>2, NesCartAssumption
<1>3. ASSUME Cardinality(Free) >= 3, NEW x, NEW y PROVE Free \ {x} # {} /\ Free \ {x, y} # {}
  <2>1. IsFiniteSet({x, y}) /\ Cardinality({x, y}) <= 2
    <3>1. IsFiniteSet({x}) /\ Cardinality({x}) = 1
      BY FS_Singleton
    <3>2. {x, y} = {x} \cup {y}
      OBVIOUS
    <3> QED
      BY <3>1, <3>2, FS_AddElement
  <2>2. Free \ {x, y} = {} => Free \subseteq {x, y}
    OBVIOUS
  <2>3. Free \subseteq {x, y} => Cardinality(Free) <= Cardinality({x, y})
    BY <2>1, FS_Subset
  <2>4. Cardinality(Free) \in Nat /\ Cardinality({x, y}) \in Nat
    BY <1>1, <2>1, FS_CardinalityType
  <2> QED
    BY <1>3, <2>1, <2>2, <2>3, <2>4
<1>4. Free # {} => Pick(Free) \in Free
  BY <1>1, <1>2
<1>5. ASSUME Cardinality(Free) >= 3
      PROVE  LET cart == Pick(Free)
                 prg  == Pick(Free \ {cart})
                 chr  == Pick(Free \ {cart, prg})
             IN cart \in Free /\ prg \in Free \ {cart} /\ chr \in Free \ {cart, prg}
  <2>1. Free # {}
    BY <1>3, <1>5
  <2> DEFINE cart == Pick(Free)
             prg  == Pick(Free \ {cart})
  <2>2. Free \ {cart} # {} /\ Free \ {cart, prg} # {}
    BY <1>3, <1>5
  <2>3. Free \ {cart} \in SUBSET Blocks /\ Free \ {cart, prg} \in SUBSET Blocks
    BY <1>1
  <2>4. prg \in Free \ {cart} /\ Pick(Free \ {cart, prg}) \in Free \ {cart, prg}
    BY <1>2, <2>2, <2>3
  <2> QED
    BY <1>4, <2>1, <2>4
<1> QED
  BY <1>4, <1>5

-----------------------------------------------------------------------------

\* Before the first load there is no cartridge.
THEOREM InitInvariant == Init => IInv
<1> SUFFICES ASSUME Init PROVE IInv
  OBVIOUS
<1>1. heap \in [Blocks -> Contents] /\ \A b \in Blocks : heap[b].kind = "nothing"
  BY DEF Init, Contents, Nothing
<1>2. Parts = {}
  BY <1>1 DEF Parts
<1>3. cart_header \in Headers
  BY DEF Init, Headers, NoHeader
<1>4. Types
  <2>1. adrift \in BOOLEAN
    BY DEF Init
  <2>2. /\ nes_loaded_cart = NULL /\ opened = 0 /\ pc = "idle" /\ cartfile = "none"
        /\ image = NULL /\ nes_cart = NULL /\ result = "none"
    BY DEF Init
  <2> QED
    BY <1>1, <1>3, <2>1, <2>2, NesCartAssumption DEF Types, TypeOK
<1> QED
  BY <1>2, <1>4 DEF Init, IInv, Owned, Left, Succeeded

\* Steps that leave the heap alone leave every cartridge as it is.
LEMMA HeapKept ==
    ASSUME UNCHANGED heap
    PROVE  /\ Parts' = Parts /\ Free' = Free /\ Live' = Live
           /\ \A c : Only(c)' <=> Only(c)
  BY DEF Parts, Free, Live, Only, PartsOf

\* A call begins: what the last one left is no longer looked at.
LEMMA CallLoadStep == ASSUME IInv, NEW r \in Roms \cup {"missing"}, CallLoad(r) PROVE IInv'
<1> USE DEF CallLoad, IInv
<1>1. Types'
  BY NesCartAssumption DEF Types, TypeOK, Headers, NoHeader
<1>2. Owned'
  BY HeapKept DEF Owned, Only, Parts, PartsOf
<1>3. Left'
  BY DEF Left, Succeeded
<1> QED
  BY <1>1, <1>2, <1>3

\* A call that goes on without touching the heap, or stops for good.
LEMMA StillStep ==
    ASSUME IInv, NEW lost \in BOOLEAN,
           NothingToUnload \/ UnloadFreed \/ OpenAstray(lost) \/ Open(lost) \/ ImageTooLarge \/ ReadNoCart
    PROVE  IInv'
<1> USE DEF IInv, locals
<1>1. UNCHANGED <<heap, nes_loaded_cart, rom, cart_header, image, nes_cart, result>>
      /\ adrift' \in {adrift, TRUE}
  BY DEF NothingToUnload, UnloadFreed, OpenAstray, Open, ImageTooLarge, ReadNoCart
<1>2. Parts' = Parts
  BY <1>1, HeapKept
<1>3. Types'
  <2>1. opened \in 0 .. MaxOpen /\ MaxOpen \in Nat
    BY NesCartAssumption DEF Types, TypeOK
  <2>2. CASE Open(lost)
    <3>1. opened' \in 0 .. MaxOpen /\ opened' > 0
      BY <2>1, <2>2 DEF Open
    <3>2. cartfile' \in Roms \cup {"other"} /\ (cartfile' \in Roms => cartfile' = rom') /\ cartfile' # "none"
      BY <2>2, NesCartAssumption DEF Open
    <3> QED
      BY <1>1, <2>2, <3>1, <3>2 DEF Open, Types, TypeOK
  <2>3. CASE ~Open(lost)
    <3>1. opened' = opened /\ cartfile' = cartfile /\ pc' \in {"open", "freed twice", "hangs", "astray"}
      BY <2>3 DEF NothingToUnload, UnloadFreed, OpenAstray, ImageTooLarge, ReadNoCart
    <3> QED
      BY <1>1, <3>1 DEF Types, TypeOK
  <2> QED
    BY <2>2, <2>3
<1>4. Owned'
  BY <1>1, <1>2 DEF Owned, NothingToUnload, UnloadFreed, OpenAstray, Open, ImageTooLarge, ReadNoCart
<1>5. Left'
  BY DEF Left, Succeeded, NothingToUnload, UnloadFreed, OpenAstray, Open, ImageTooLarge, ReadNoCart
<1> QED
  BY <1>3, <1>4, <1>5

\* A call that returns with nothing loaded, or gives up on a header that is not iNES.
LEMMA FailureStep ==
    ASSUME IInv, NEW lost \in BOOLEAN, OpenFails(lost) \/ StatFails \/ NotARom \/ NotInes
    PROVE  IInv'
<1> USE DEF IInv, locals
<1>1. UNCHANGED <<heap, nes_loaded_cart, adrift, locals>> /\ pc \in {"open", "stat", "header"}
  BY DEF OpenFails, StatFails, NotARom, NotInes, Return
<1>2. Parts' = {}
  BY <1>1, HeapKept DEF Owned
<1>3. /\ pc' \in {"idle", "astray", "freed twice"}
      /\ opened' = opened \/ (pc = "stat" /\ opened' = opened - 1)
      /\ image' \in {image, NULL} /\ nes_cart' \in {nes_cart, NULL}
      /\ result' \in {result, "ROM_OK", "ROM_NOT_FOUND", "BAD_ROM"}
  BY DEF OpenFails, StatFails, NotARom, NotInes, Return
<1>4. Types'
  <2>1. opened' \in 0 .. MaxOpen
    <3>1. MaxOpen \in Nat /\ opened \in 0 .. MaxOpen /\ (pc = "stat" => opened > 0)
      BY NesCartAssumption DEF Types, TypeOK
    <3>2. opened' = opened \/ (pc = "stat" /\ opened' = opened - 1)
      BY <1>3
    <3> QED
      BY <3>1, <3>2
  <2> QED
    BY <1>1, <1>3, <2>1 DEF Types, TypeOK
<1>5. Owned'
  BY <1>2, <1>3 DEF Owned
<1>6. result' # "ROM_OK" \/ ~cart_header.ines \/ pc' # "idle"
  BY DEF OpenFails, StatFails, NotARom, NotInes, Return
<1>7. Left'
  BY <1>1, <1>2, <1>6 DEF Left, Succeeded
<1> QED
  BY <1>4, <1>5, <1>7

\* Freeing a cartridge frees all the parts there are.
LEMMA FreesParts ==
    ASSUME heap \in [Blocks -> Contents], NEW c, Only(c), FreeAll(PartsOf(c))
    PROVE  heap' \in [Blocks -> Contents] /\ Parts' = {}
           /\ \A b \in Blocks : heap'[b] = Nothing \/ heap'[b] = heap[b]
<1>1. heap' = [b \in Blocks |-> IF b \in PartsOf(c) THEN Nothing ELSE heap[b]]
  BY DEF FreeAll
<1>2. heap' \in [Blocks -> Contents]
  BY <1>1 DEF Contents
<1>3. ASSUME NEW b \in Blocks PROVE b \notin Parts'
  <2>1. CASE b \in PartsOf(c)
    BY <1>1, <2>1 DEF Parts, Nothing
  <2>2. CASE b \notin PartsOf(c)
    BY <1>1, <2>2 DEF Parts, Only
  <2> QED
    BY <2>1, <2>2
<1> QED
  BY <1>1, <1>2, <1>3 DEF Parts

\* Unloading frees the cartridge with all its parts.
LEMMA UnloadStep == ASSUME IInv, Unload PROVE IInv'
<1> USE DEF IInv, locals
<1>1. Only(nes_loaded_cart)
  BY WholeOrNot, NesCartAssumption DEF Unload, Owned, Types, TypeOK
<1>2. heap' \in [Blocks -> Contents] /\ Parts' = {}
  BY <1>1, FreesParts DEF Unload, Types
<1>3. Types'
  <2>1. \A b \in Blocks : heap'[b].kind \in {"nothing", "image", "cart", "prg", "chr", "mapper"}
    BY <1>2 DEF Contents, Nothing, Carts
  <2> QED
    BY <1>2, <2>1 DEF Unload, Types, TypeOK
<1>4. Owned' /\ Left'
  BY <1>2 DEF Unload, Owned, Left, Succeeded
<1> QED
  BY <1>3, <1>4

\* A mapper that does not exist: the new cartridge is freed again.
LEMMA MissingMapperStep == ASSUME IInv, MissingMapper PROVE IInv'
<1> USE DEF IInv, locals
<1>1. Only(nes_cart) /\ nes_cart \in Blocks
  BY DEF MissingMapper, Owned, Only
<1>2. heap' \in [Blocks -> Contents] /\ Parts' = {}
  BY <1>1, FreesParts DEF MissingMapper, Types
<1>3. Types'
  <2>1. \A b \in Blocks : heap'[b].kind \in {"nothing", "image", "cart", "prg", "chr", "mapper"}
    BY <1>2 DEF Contents, Nothing, Carts
  <2> QED
    BY <1>1, <1>2, <2>1, NesCartAssumption DEF MissingMapper, Return, Types, TypeOK
<1>4. Owned' /\ Left'
  BY <1>2 DEF MissingMapper, Return, Owned, Left, Succeeded
<1> QED
  BY <1>3, <1>4

\* The image gets a block of its own.
LEMMA ReadImageStep == ASSUME IInv, ReadImage PROVE IInv'
<1> USE DEF IInv
<1>1. PICK size \in {"enough", "short", "no header"} :
        /\ heap' = [heap EXCEPT ![Pick(Free)] = [kind |-> "image", enough |-> size = "enough"]]
        /\ cart_header' \in HeadersAt(size)
  BY DEF ReadImage
<1>2. Pick(Free) \in Free /\ Free \subseteq Blocks
  BY Picked DEF ReadImage, Free
<1>3. heap' \in [Blocks -> Contents]
  BY <1>1 DEF Types, Contents
<1>4. Parts' = {}
  BY <1>1, <1>2 DEF ReadImage, Owned, Parts, Types
<1>5. Types'
  <2>1. \A b \in Blocks : heap'[b].kind \in {"nothing", "image", "cart", "prg", "chr", "mapper"}
    BY <1>3, KindsOf
  <2>2. image' \in Blocks /\ heap'[image'].kind = "image" /\ heap'[image'].enough = (size = "enough")
    BY <1>1, <1>2 DEF ReadImage, Types
  <2>3. cart_header' \in Headers
    BY <1>1, NesCartAssumption DEF HeadersAt
  <2>4. cartfile \in Roms /\ size = "enough" => cart_header' = Header[cartfile]
    BY <1>1 DEF HeadersAt
  <2> QED
    BY <1>3, <2>1, <2>2, <2>3, <2>4 DEF ReadImage, Types, TypeOK
<1>6. Owned' /\ Left'
  BY <1>4 DEF ReadImage, Owned, Left, Succeeded
<1> QED
  BY <1>5, <1>6

\* The new cartridge is built in blocks that were free, and there is no other.
LEMMA BuildCartStep == ASSUME IInv, BuildCart PROVE IInv'
<1> USE DEF IInv, locals
<1> DEFINE cart == Pick(Free)
           prg  == Pick(Free \ {cart})
           chr  == Pick(Free \ {cart, prg})
           built == [kind |-> "cart", prg_mem |-> prg, chr_mem |-> chr, mapper |-> NULL,
                     prg_banks |-> cart_header.prg]
           copied == [kind |-> "prg", of |-> CopyOf(image)]
<1>1. cart \in Free /\ prg \in Free /\ chr \in Free /\ prg # cart /\ chr # cart /\ chr # prg
  BY Picked DEF BuildCart
<1>2. Free \subseteq Blocks /\ heap \in [Blocks -> Contents]
      /\ \A b \in Free : heap[b] = Nothing
  BY DEF Types, Free
<1>3. /\ cartfile \in Roms \cup {"other"} /\ cart_header.prg \in Nat
      /\ image \in Blocks /\ heap[image].kind = "image"
      /\ cartfile \in Roms => cartfile = rom /\ (heap[image].enough => cart_header = Header[cartfile])
  BY NesCartAssumption DEF BuildCart, Types, TypeOK, Headers
<1>4. built \in Contents /\ copied \in Contents /\ [kind |-> "chr"] \in Contents
  <2>1. CopyOf(image) \in Roms \cup {"outside", "other"}
    BY <1>3 DEF CopyOf
  <2> QED
    BY <1>1, <1>2, <1>3, <2>1 DEF Contents, Carts
<1>5. heap' = [heap EXCEPT ![cart] = built, ![prg] = copied, ![chr] = [kind |-> "chr"]]
      /\ nes_cart' = cart /\ pc' = "mapper" /\ cart_header.ines
      /\ UNCHANGED <<nes_loaded_cart, opened, adrift, locals, image, result>> /\ Parts = {}
  BY DEF BuildCart, Owned
<1> HIDE DEF built, copied, cart, prg, chr
<1>6. heap' \in [Blocks -> Contents]
      /\ heap'[cart] = built /\ heap'[prg] = copied /\ heap'[chr] = [kind |-> "chr"]
      /\ \A b \in Blocks \ {cart, prg, chr} : heap'[b] = heap[b]
  BY <1>1, <1>2, <1>4, <1>5
<1>7. built.kind = "cart" /\ built.prg_mem = prg /\ built.chr_mem = chr
      /\ built.prg_banks = cart_header.prg
      /\ copied.kind = "prg" /\ copied.of \in {cartfile, "outside"}
  BY DEF built, copied, CopyOf
<1>8. Parts' = {cart, prg, chr}
  <2>1. {cart, prg, chr} \subseteq Blocks
    BY <1>1, <1>2
  <2>2. \A b \in {cart, prg, chr} : heap'[b].kind \in {"cart", "prg", "chr"}
    BY <1>6, <1>7
  <2>3. \A b \in Blocks \ {cart, prg, chr} : heap'[b].kind \notin {"cart", "prg", "chr"}
    BY <1>5, <1>6 DEF Parts
  <2> QED
    BY <2>1, <2>2, <2>3 DEF Parts
<1>9. Types'
  <2>1. \A b \in Blocks : heap'[b].kind \in {"nothing", "image", "cart", "prg", "chr", "mapper"}
    BY <1>6 DEF Contents, Nothing, Carts
  <2>2. image \notin {cart, prg, chr}
    BY <1>1, <1>2, <1>3 DEF Nothing
  <2>3. image' \in Blocks /\ heap'[image'].kind = "image" /\ nes_cart' \in Blocks
    BY <1>1, <1>2, <1>3, <1>5, <1>6, <2>2
  <2>4. pc = "header"
    BY DEF BuildCart
  <2> QED
    BY <1>3, <1>5, <1>6, <2>1, <2>3, <2>4 DEF Types, TypeOK
<1>10. Only(nes_cart)' /\ IsRead(nes_cart)'
  <2>1. cartfile # "none"
    BY <1>3, NesCartAssumption
  <2>2. /\ nes_cart' = cart /\ cart \in Blocks /\ heap'[cart] = built /\ heap'[prg] = copied
        /\ heap'[chr].kind = "chr"
    BY <1>1, <1>2, <1>5, <1>6
  <2>3. cartfile' = cartfile /\ cart_header' = cart_header /\ rom' = rom
    BY <1>5
  <2>4. copied.of \in Roms => copied.of = rom /\ cart_header = Header[copied.of]
    BY <1>3, NesCartAssumption DEF copied, CopyOf
  <2>5. IsRead(nes_cart)'
    <3>1. heap'[heap'[nes_cart'].prg_mem] = copied /\ heap'[nes_cart'].prg_banks = cart_header.prg
      BY <1>7, <2>2
    <3> QED
      BY <1>7, <2>1, <2>3, <2>4, <3>1 DEF IsRead
  <2>6. Only(nes_cart)'
    BY <1>7, <1>8, <2>2 DEF Only, PartsOf
  <2> QED
    BY <2>5, <2>6
<1>11. Owned' /\ Left'
  BY <1>1, <1>2, <1>5, <1>10, NesCartAssumption DEF Owned, Left, Succeeded
<1> QED
  BY <1>9, <1>11

\* The mapper gets a free block; the cartridge is the one that was built.
LEMMA GetMapperStep == ASSUME IInv, GetMapper PROVE IInv'
<1> USE DEF IInv, locals
<1>1. PICK c : c = nes_cart
  OBVIOUS
<1> DEFINE new == Pick(Free)
           mapper == [kind |-> "mapper"]
           mapped == [heap[c] EXCEPT !.mapper = new]
<1>2. /\ heap' = [heap EXCEPT ![new] = mapper, ![c].mapper = new]
      /\ nes_loaded_cart' = c /\ opened' = opened - 1 /\ pc' = "idle" /\ adrift' = adrift
      /\ rom' = rom /\ cartfile' = cartfile /\ cart_header' = cart_header
      /\ image' = NULL /\ nes_cart' = NULL /\ result' = "ROM_OK" /\ pc = "mapper"
  BY <1>1 DEF GetMapper, Return
<1>3. new \in Blocks /\ heap[new] = Nothing /\ heap[new].kind = "nothing"
  BY Picked DEF GetMapper, Free, Nothing
<1>4. /\ heap \in [Blocks -> Contents] /\ cart_header.ines /\ opened > 0 /\ opened \in 0 .. MaxOpen
      /\ Only(c) /\ IsRead(c) /\ c # NULL
  BY <1>1, <1>2 DEF Types, TypeOK, Owned
<1>5. c \in Blocks /\ heap[c].kind = "cart" /\ heap[c] \in Carts /\ PartsOf(c) \subseteq Blocks
  BY <1>4, CartHasParts DEF Only
<1>6. new # c /\ new \notin PartsOf(c)
  BY <1>3, <1>4, <1>5 DEF Only, PartsOf
<1>7. /\ mapped \in Carts /\ mapped.kind = "cart" /\ mapped.mapper = new
      /\ mapped.prg_mem = heap[c].prg_mem /\ mapped.chr_mem = heap[c].chr_mem
      /\ mapped.prg_banks = heap[c].prg_banks
  BY <1>3, <1>5 DEF Carts
<1>8. mapper \in Contents /\ mapped \in Contents /\ mapper.kind = "mapper"
  BY <1>7 DEF Contents
<1>9. heap' = [b \in Blocks |-> IF b = new THEN mapper ELSE IF b = c THEN mapped ELSE heap[b]]
  BY <1>2, <1>3, <1>4, <1>5, <1>6
<1> HIDE DEF new, mapped, mapper
<1>10. heap' \in [Blocks -> Contents]
  BY <1>4, <1>8, <1>9
<1>11. \A b \in Blocks : heap'[b].kind = (IF b = new THEN "mapper" ELSE heap[b].kind)
  BY <1>5, <1>7, <1>8, <1>9
<1>12. Parts' = Parts
  BY <1>3, <1>11 DEF Parts
<1>13. /\ heap'[c] = mapped /\ heap[c].prg_mem \in Blocks \ {new, c} /\ heap[c].chr_mem \in Blocks \ {new, c}
       /\ heap'[heap[c].prg_mem] = heap[heap[c].prg_mem] /\ heap'[heap[c].chr_mem] = heap[heap[c].chr_mem]
  <2>1. heap[c].prg_mem # c /\ heap[c].chr_mem # c
    BY <1>4 DEF Only
  <2>2. heap[c].prg_mem \in Blocks \ {new, c} /\ heap[c].chr_mem \in Blocks \ {new, c}
    BY <1>5, <1>6, <2>1 DEF PartsOf
  <2> QED
    BY <1>5, <1>6, <1>9, <2>2
<1>14. Only(c)' /\ IsRead(c)'
  BY <1>2, <1>4, <1>5, <1>7, <1>12, <1>13 DEF Only, IsRead, PartsOf
<1>15. Types'
  <2>1. \A b \in Blocks : heap'[b].kind \in {"nothing", "image", "cart", "prg", "chr", "mapper"}
    BY <1>10 DEF Contents, Nothing, Carts
  <2>2. opened' \in 0 .. MaxOpen
    BY <1>2, <1>4, NesCartAssumption
  <2> QED
    BY <1>2, <1>5, <1>10, <2>1, <2>2 DEF Types, TypeOK
<1>16. Owned'
  BY <1>2, <1>4, <1>14 DEF Owned
<1>17. Left'
  <2>1. heap'[c].mapper = new /\ heap'[new].kind = "mapper"
    BY <1>3, <1>7, <1>8, <1>9, <1>13
  <2> QED
    BY <1>2, <1>3, <1>4, <1>14, <2>1 DEF Left, Succeeded
<1> QED
  BY <1>15, <1>16, <1>17

-----------------------------------------------------------------------------

\* Every step of nes_load_cart keeps the invariant.
THEOREM StepInvariant == IInv /\ [Next]_vars => IInv'
<1> SUFFICES ASSUME IInv, [Next]_vars PROVE IInv'
  OBVIOUS
<1>1. ASSUME NEW r \in Roms \cup {"missing"}, CallLoad(r) PROVE IInv'
  BY <1>1, CallLoadStep
<1>2. ASSUME NEW lost \in BOOLEAN,
             NothingToUnload \/ UnloadFreed \/ OpenAstray(lost) \/ Open(lost) \/ ImageTooLarge \/ ReadNoCart
      PROVE  IInv'
  BY <1>2, StillStep
<1>3. ASSUME NEW lost \in BOOLEAN, OpenFails(lost) \/ StatFails \/ NotARom \/ NotInes PROVE IInv'
  BY <1>3, FailureStep
<1>4. CASE Unload
  BY <1>4, UnloadStep
<1>5. CASE ReadImage
  BY <1>5, ReadImageStep
<1>6. CASE BuildCart
  BY <1>6, BuildCartStep
<1>7. CASE GetMapper
  BY <1>7, GetMapperStep
<1>8. CASE MissingMapper
  BY <1>8, MissingMapperStep
<1>9. CASE UNCHANGED vars
  <2> USE <1>9 DEF vars, locals
  <2>1. Types'
    <3>1. /\ UNCHANGED <<heap, nes_loaded_cart, opened, pc, rom, cartfile>>
          /\ UNCHANGED <<cart_header, image, nes_cart, result>> /\ adrift' \in BOOLEAN
      BY DEF IInv, Types, TypeOK
    <3> QED
      BY <3>1 DEF IInv, Types, TypeOK
  <2>2. \A c : (Only(c)' <=> Only(c)) /\ (IsRead(c)' <=> IsRead(c))
    BY HeapKept DEF IsRead
  <2>3. Parts' = Parts
    BY HeapKept
  <2>4. Owned'
    BY <2>2, <2>3 DEF IInv, Owned
  <2>5. Left'
    BY <2>2, <2>3 DEF IInv, Left, Succeeded
  <2> QED
    BY <2>1, <2>4, <2>5 DEF IInv
<1> QED
  BY <1>1, <1>2, <1>3, <1>4, <1>5, <1>6, <1>7, <1>8, <1>9 DEF Next, Load

\* The parts of the cartridge that was loaded are three blocks.
LEMMA ThreeParts ==
    ASSUME NEW c, Only(c)
    PROVE  Cardinality(PartsOf(c)) = 3
<1> DEFINE p == heap[c].prg_mem
           q == heap[c].chr_mem
<1>1. p # q /\ p # c /\ q # c
  BY DEF Only
<1>2. PartsOf(c) = ({p} \cup {q}) \cup {c}
  BY DEF PartsOf
<1> HIDE DEF p, q
<1>3. IsFiniteSet({p}) /\ Cardinality({p}) = 1
  BY FS_Singleton
<1>4. IsFiniteSet({p} \cup {q}) /\ Cardinality({p} \cup {q}) = 2
  BY <1>1, <1>3, FS_AddElement
<1>5. Cardinality(({p} \cup {q}) \cup {c}) = 3
  BY <1>1, <1>4, FS_AddElement
<1> QED
  BY <1>2, <1>5

\* What the last call left is a whole cartridge.
LEMMA WholeFromInvariant == IInv => LoadedIsWhole
<1> SUFFICES ASSUME IInv, Succeeded
             PROVE  /\ IsWhole(nes_loaded_cart) <=> cart_header.ines
                    /\ cart_header.ines =>
                          LET cart == heap[nes_loaded_cart]
                              of   == heap[cart.prg_mem].of
                          IN /\ Cardinality(PartsOf(nes_loaded_cart)) = 3
                             /\ cart.mapper \in Live /\ heap[cart.mapper].kind = "mapper"
                             /\ heap[cart.prg_mem].kind = "prg" /\ of \in {cartfile, "outside"}
                             /\ cart.prg_banks = cart_header.prg
                             /\ of \in Roms => of = rom /\ cart_header = Header[of]
  BY DEF LoadedIsWhole
<1>1. heap \in [Blocks -> Contents] /\ nes_loaded_cart \in Blocks \cup {NULL}
      /\ cart_header.ines \in BOOLEAN
  BY DEF IInv, Types, TypeOK, Headers
<1>2. CASE ~cart_header.ines
  <2>1. Parts = {}
    BY <1>2 DEF IInv, Left
  <2>2. ~IsWhole(nes_loaded_cart)
    BY <1>1, <2>1, WholeOrNot, NesCartAssumption
  <2> QED
    BY <1>2, <2>2
<1>3. CASE cart_header.ines
  <2>1. /\ Only(nes_loaded_cart) /\ nes_loaded_cart # NULL /\ IsRead(nes_loaded_cart)
        /\ heap[nes_loaded_cart].mapper \in Blocks
        /\ heap[heap[nes_loaded_cart].mapper].kind = "mapper"
    BY <1>3 DEF IInv, Left
  <2>2. IsWhole(nes_loaded_cart)
    BY <1>1, <2>1, WholeOrNot, NesCartAssumption
  <2>3. heap[nes_loaded_cart].mapper \in Live
    BY <1>1, <2>1, LiveHolds
  <2>4. Cardinality(PartsOf(nes_loaded_cart)) = 3
    BY <2>1, ThreeParts
  <2> QED
    BY <1>3, <2>1, <2>2, <2>3, <2>4 DEF Only, IsRead
<1> QED
  BY <1>1, <1>2, <1>3

\* The parts there are belong to the one cartridge.
LEMMA LeaksFromInvariant == IInv => OnlyImagesAndMappersLeak
<1> SUFFICES ASSUME IInv, pc = "idle"
             PROVE  {b \in Live : heap[b].kind \in {"cart", "prg", "chr"}} =
                      IF IsWhole(nes_loaded_cart) THEN PartsOf(nes_loaded_cart) ELSE {}
  BY DEF OnlyImagesAndMappersLeak
<1>1. heap \in [Blocks -> Contents] /\ nes_loaded_cart \in Blocks \cup {NULL}
  BY DEF IInv, Types, TypeOK
<1>2. {b \in Live : heap[b].kind \in {"cart", "prg", "chr"}} = Parts
  BY <1>1, LiveHolds DEF Parts, Live
<1>3. Parts = {} \/ (nes_loaded_cart # NULL /\ Only(nes_loaded_cart))
  BY DEF IInv, Owned
<1> QED
  BY <1>1, <1>2, <1>3, WholeOrNot, NesCartAssumption DEF Only

\* The bank that was copied is the one the mapper reads.
LEMMA ReadsFromInvariant == IInv => ReadsLoadedRom
<1> DEFINE r == IF cartfile = "other" THEN "other" ELSE rom
<1> SUFFICES ASSUME IInv, Succeeded, cart_header.ines, cart_header.prg = 1,
                    heap[heap[nes_loaded_cart].prg_mem].of # "outside",
                    NEW addr \in PrgStart .. PrgStart + 2 * BankSize - 1
             PROVE  nes_mapper_zero_read(heap[nes_loaded_cart], addr) = Byte(r, (addr - PrgStart) % BankSize)
  BY DEF ReadsLoadedRom
<1>1. heap[nes_loaded_cart].prg_banks = 1 /\ heap[heap[nes_loaded_cart].prg_mem].of = r
  <2>1. /\ cartfile # "none" /\ heap[heap[nes_loaded_cart].prg_mem].of = cartfile
        /\ heap[nes_loaded_cart].prg_banks = 1
    BY DEF IInv, Left, IsRead
  <2>2. cartfile \in Roms \cup {"other"} /\ (cartfile \in Roms => cartfile = rom)
    BY <2>1 DEF IInv, Types, TypeOK
  <2> QED
    BY <2>1, <2>2
<1>2. PrgStart \in Nat /\ BankSize \in Nat /\ BankSize > 0
  BY NesCartAssumption
<1>3. addr >= PrgStart /\ Mirrored(addr) = (addr - PrgStart) % BankSize
  <2>1. ASSUME NEW b \in Nat, b > 0, NEW x \in 0 .. 2 * b - 1
        PROVE  x % b = IF x < b THEN x ELSE x - b
    BY <2>1
  <2> DEFINE x == addr - PrgStart
  <2>2. x \in 0 .. 2 * BankSize - 1 /\ addr >= PrgStart /\ addr \in Int
        /\ (addr < PrgStart + BankSize <=> x < BankSize)
        /\ addr - PrgStart - BankSize = x - BankSize
    BY <1>2
  <2>3. Mirrored(addr) = IF x < BankSize THEN x ELSE x - BankSize
    BY <2>2 DEF Mirrored
  <2> HIDE DEF x
  <2>4. x % BankSize = IF x < BankSize THEN x ELSE x - BankSize
    BY <1>2, <2>1, <2>2
  <2> QED
    BY <2>2, <2>3, <2>4 DEF x
<1> HIDE DEF r
<1> QED
  BY <1>1, <1>2, <1>3 DEF nes_mapper_zero_read

\* Every variable keeps its type, and files are closed as often as they were opened
\* at most (nes_load_cart).
THEOREM TypeCorrect == Spec => []TypeOK
<1>1. IInv => TypeOK
  BY DEF IInv, Types
<1> QED
  BY <1>1, InitInvariant, StepInvariant, PTL DEF Spec

\* After a successful load the global pointer leads to the whole cartridge of the
\* bytes that were read, or, when their header was not iNES, to none, whatever was
\* loaded before and failed and from whatever sectors was read (nes_load_cart).
THEOREM LoadsWholeCarts == Spec => []LoadedIsWhole
<1> QED
  BY WholeFromInvariant, InitInvariant, StepInvariant, PTL DEF Spec

\* No cartridge and no part of one is ever leaked (nes_load_cart).
THEOREM NoCartLeaks == Spec => []OnlyImagesAndMappersLeak
<1> QED
  BY LeaksFromInvariant, InitInvariant, StepInvariant, PTL DEF Spec

\* The bus delivers the one bank that was copied last, at both halves of the
\* addresses: that of the file asked for when it was read from its own sectors into
\* a buffer that was large enough (nes_mapper_zero_read).
THEOREM ReadsTheRomLoaded == Spec => []ReadsLoadedRom
<1> QED
  BY ReadsFromInvariant, InitInvariant, StepInvariant, PTL DEF Spec
=============================================================================
