------------------------------ MODULE NesCart ------------------------------
(***************************************************************************)
(* Loading a cartridge (nescart.c, nes_mapper.c) and reading it over the   *)
(* bus (nesbus.c).  nes_load_cart takes one step for each of its library   *)
(* calls or branches; calls do not interleave.  The emulator may load one  *)
(* cartridge after another, with any result, and read in between.          *)
(*                                                                         *)
(* The heap is a set of blocks: malloc gives one that is not in use, free  *)
(* ends its use.  What a block that was freed still holds is left out: the *)
(* model stops where the code would follow a pointer to one.  A malloc     *)
(* that finds no memory does not return, see Pmm.                          *)
(* The size of the file is not known to the code: fstat (vfsfstat) does    *)
(* not write to the struct it is given, so st_size is what the stack held. *)
(* What is written instead is the start of the volume: every file opened   *)
(* later is read from other sectors, see Fat32.                            *)
(***************************************************************************)
EXTENDS Integers, FiniteSets

CONSTANTS
    NULL,       \* the null pointer
    Blocks,     \* blocks malloc can give
    Pick(_),    \* the one it gives when these are free
    Roms,       \* files that exist
    Header,     \* the header of each, see Headers
    Found,      \* headers that 16 other bytes can make
    MaxOpen,    \* files that can be open at a time: 61
    BankSize,   \* bytes of a program bank: 16384
    PrgStart    \* first address of the program banks: 0x8000

\* ident: does the file begin with "NES"?  ines: are the unused bytes those at
\* address 0, which they are compared with?  mapper, prg: ids and banks.
Headers == [ident : BOOLEAN, ines : BOOLEAN, mapper : Nat, prg : Nat]

ASSUME NesCartAssumption ==
    /\ NULL \notin Blocks /\ IsFiniteSet(Blocks)
    /\ \A S \in SUBSET Blocks : S # {} => Pick(S) \in S
    /\ Roms \cap {"missing", "none", "zero", "outside", "other"} = {}
    /\ Header \in [Roms -> Headers] /\ Found \subseteq Headers
    /\ MaxOpen \in Nat /\ BankSize \in Nat \ {0} /\ PrgStart \in Nat

VARIABLES
    heap,              \* what each block holds, Nothing when it is free
    nes_loaded_cart,   \* the global pointer
    opened,            \* number of files open
    adrift,            \* has an fstat overwritten the start of the volume?
    pc,                \* the step nes_load_cart has reached, "idle" between calls
    rom,               \* file the last call was asked for
    cartfile,          \* file whose bytes it has read: rom, or others
    cart_header,       \* the header it has found
    image,             \* its local cartbuffer
    nes_cart,          \* its local of that name
    result             \* what it returned

locals == <<rom, cartfile, cart_header>>

vars == <<heap, nes_loaded_cart, opened, adrift, pc, locals, image, nes_cart, result>>

Nothing == [kind |-> "nothing"]

NoHeader == [ident |-> FALSE, ines |-> FALSE, mapper |-> 0, prg |-> 0]

\* A byte of a program bank: the file it is of and its place in the program.
Byte(r, i) == [of |-> r, at |-> i]

Zero == Byte("zero", 0)

\* A byte from outside any block of the cartridge.
Outside == Byte("outside", 0)

Init ==
    /\ heap = [b \in Blocks |-> Nothing]
    /\ nes_loaded_cart = NULL
    /\ opened = 0 /\ adrift = FALSE
    /\ pc = "idle" /\ rom = "none" /\ cartfile = "none" /\ cart_header = NoHeader
    /\ image = NULL /\ nes_cart = NULL
    /\ result = "none"

Free == {b \in Blocks : heap[b] = Nothing}

Live == Blocks \ Free

\* The blocks of B are freed.
FreeAll(B) == heap' = [b \in Blocks |-> IF b \in B THEN Nothing ELSE heap[b]]

\* nes_load_cart returns.
Return(r) ==
    /\ pc' = "idle"
    /\ image' = NULL /\ nes_cart' = NULL
    /\ result' = r
    /\ UNCHANGED locals

-----------------------------------------------------------------------------
(* nes_load_cart *)

CallLoad(r) ==
    /\ pc = "idle"
    /\ pc' = "unload"
    /\ rom' = r /\ cartfile' = "none" /\ cart_header' = NoHeader
    /\ UNCHANGED <<heap, nes_loaded_cart, opened, adrift, image, nes_cart, result>>

PartsOf(cart) == {heap[cart].prg_mem, heap[cart].chr_mem, cart}

\* Does the pointer lead to a cartridge with its parts?
IsWhole(cart) ==
    /\ cart # NULL /\ heap[cart].kind = "cart"
    /\ PartsOf(cart) \subseteq Live

\* Nothing was loaded before.
NothingToUnload ==
    /\ pc = "unload"
    /\ nes_loaded_cart = NULL
    /\ pc' = "open"
    /\ UNCHANGED <<heap, nes_loaded_cart, opened, adrift, locals, image, nes_cart, result>>

\* Mutant: only the cartridge is freed.
UnloadCartOnly ==
    /\ pc = "unload"
    /\ IsWhole(nes_loaded_cart)
    /\ FreeAll({nes_loaded_cart})
    /\ pc' = "open"
    /\ UNCHANGED <<nes_loaded_cart, opened, adrift, locals, image, nes_cart, result>>

\* The cartridge and its two memories are freed; its mapper is not, and the
\* global pointer stays.
Unload ==
    /\ pc = "unload"
    /\ IsWhole(nes_loaded_cart)
    /\ FreeAll(PartsOf(nes_loaded_cart))
    /\ pc' = "open"
    /\ UNCHANGED <<nes_loaded_cart, opened, adrift, locals, image, nes_cart, result>>

\* The global pointer leads to what an earlier call freed before it failed (or gave
\* up on a header that is not iNES): it is freed again, and its tag still passes
\* for that of a block in use.
UnloadFreed ==
    /\ pc = "unload"
    /\ nes_loaded_cart # NULL /\ ~IsWhole(nes_loaded_cart)
    /\ pc' = "freed twice"
    /\ UNCHANGED <<heap, nes_loaded_cart, opened, adrift, locals, image, nes_cart, result>>

\* Does the open look at other sectors than those of the volume as it is?  One
\* was not delivered, or all are taken from another place.
Elsewhere(lost) == lost \/ adrift

OpenFails(lost) ==
    /\ pc = "open"
    /\ rom \notin Roms \/ opened = MaxOpen \/ Elsewhere(lost)
    /\ Return("ROM_NOT_FOUND")
    /\ UNCHANGED <<heap, nes_loaded_cart, opened, adrift>>

\* A directory or a chain in other sectors leads fopen out of its tables.
OpenAstray(lost) ==
    /\ pc = "open"
    /\ opened < MaxOpen /\ Elsewhere(lost)
    /\ pc' = "astray"
    /\ UNCHANGED <<heap, nes_loaded_cart, opened, adrift, locals, image, nes_cart, result>>

\* In other sectors there may be a file of any name, with any bytes.
Open(lost) ==
    /\ pc = "open"
    /\ opened < MaxOpen /\ (rom \in Roms \/ Elsewhere(lost))
    /\ cartfile' = IF Elsewhere(lost) THEN "other" ELSE rom
    /\ opened' = opened + 1
    /\ pc' = "stat"
    /\ UNCHANGED <<heap, nes_loaded_cart, adrift, rom, cart_header, image, nes_cart, result>>

\* Mutant: the file is closed twice.
StatFailsClosesTwice ==
    /\ pc = "stat"
    /\ opened' = opened - 2
    /\ Return("BAD_ROM")
    /\ UNCHANGED <<heap, nes_loaded_cart, adrift>>

\* vfsfstat gives -1: it has not asked the driver.
StatFails ==
    /\ pc = "stat"
    /\ opened' = opened - 1
    /\ Return("BAD_ROM")
    /\ UNCHANGED <<heap, nes_loaded_cart, adrift>>

\* The header at the start of a buffer of this size: that of the file, or what
\* the file in other sectors begins with, or what lies behind a buffer too small.
HeadersAt(size) ==
    IF cartfile \in Roms /\ size # "no header" THEN {Header[cartfile]} ELSE Found

\* fstat succeeds.  The buffer has st_size bytes: enough for what the header
\* announces, for the header only, or not even for that.
ReadImage ==
    /\ pc = "stat"
    /\ Free # {}
    /\ adrift' = TRUE
    /\ image' = Pick(Free)
    /\ \E size \in {"enough", "short", "no header"} :
          /\ heap' = [heap EXCEPT ![Pick(Free)] = [kind |-> "image", enough |-> size = "enough"]]
          /\ cart_header' \in HeadersAt(size)
    /\ pc' = "header"
    /\ UNCHANGED <<nes_loaded_cart, opened, rom, cartfile, nes_cart, result>>

\* No memory has st_size bytes: allocPage searches for ever.
ImageTooLarge ==
    /\ pc = "stat"
    /\ adrift' = TRUE
    /\ pc' = "hangs"
    /\ UNCHANGED <<heap, nes_loaded_cart, opened, locals, image, nes_cart, result>>

\* The file stays open and the buffer allocated.
NotARom ==
    /\ pc = "header"
    /\ ~cart_header.ident
    /\ Return("BAD_ROM")
    /\ UNCHANGED <<heap, nes_loaded_cart, opened, adrift>>

\* The branch for other headers leaves nes_cart NULL; nes_cart->mapper is then
\* the word at a low address.  When it is not 0 the call succeeds, otherwise it
\* frees the cartridge of nes_loaded_cart, which was freed already or never there.
NotInes ==
    /\ pc = "header"
    /\ cart_header.ident /\ ~cart_header.ines
    /\ \/ Return("ROM_OK")
       \/ /\ pc' = IF nes_loaded_cart = NULL THEN "astray" ELSE "freed twice"
          /\ UNCHANGED <<locals, image, nes_cart, result>>
    /\ UNCHANGED <<heap, nes_loaded_cart, opened, adrift>>

\* What is copied into the program memory: the rest of the image, or bytes after
\* the end of a buffer that is too short.
CopyOf(b) == IF heap[b].enough THEN cartfile ELSE "outside"

BuildCart ==
    /\ pc = "header"
    /\ cart_header.ident /\ cart_header.ines
    /\ Cardinality(Free) >= 3
    /\ LET cart == Pick(Free)
           prg  == Pick(Free \ {cart})
           chr  == Pick(Free \ {cart, prg})
       IN /\ heap' = [heap EXCEPT
                ![cart] = [kind |-> "cart", prg_mem |-> prg, chr_mem |-> chr, mapper |-> NULL,
                           prg_banks |-> cart_header.prg],
                ![prg] = [kind |-> "prg", of |-> CopyOf(image)],
                ![chr] = [kind |-> "chr"]]
          /\ nes_cart' = cart
    /\ pc' = "mapper"
    /\ UNCHANGED <<nes_loaded_cart, opened, adrift, locals, image, result>>

\* Mutant: the global pointer is not set.
GetMapperUnset ==
    /\ pc = "mapper"
    /\ cart_header.mapper = 0
    /\ Free # {}
    /\ heap' = [heap EXCEPT ![Pick(Free)] = [kind |-> "mapper"], ![nes_cart].mapper = Pick(Free)]
    /\ opened' = opened - 1
    /\ Return("ROM_OK")
    /\ UNCHANGED <<nes_loaded_cart, adrift>>

\* nes_get_mapper knows mapper 0.  The file is closed; the pointer then given to
\* free is not the one malloc returned, so the image stays allocated.
GetMapper ==
    /\ pc = "mapper"
    /\ cart_header.mapper = 0
    /\ Free # {}
    /\ heap' = [heap EXCEPT ![Pick(Free)] = [kind |-> "mapper"], ![nes_cart].mapper = Pick(Free)]
    /\ nes_loaded_cart' = nes_cart
    /\ opened' = opened - 1
    /\ Return("ROM_OK")
    /\ UNCHANGED adrift

\* For another the block it allocated is freed, and so is the cartridge; the
\* global pointer is set and stays.
MissingMapper ==
    /\ pc = "mapper"
    /\ cart_header.mapper # 0
    /\ Free # {}
    /\ FreeAll(PartsOf(nes_cart))
    /\ nes_loaded_cart' = nes_cart
    /\ opened' = opened - 1
    /\ Return("ROM_MISSING_MAPPER")
    /\ UNCHANGED adrift

-----------------------------------------------------------------------------
(* nes_cpu_read above the registers of the picture unit *)

\* Mutant: the second half of the addresses leads past the bank.
MirroredNever(addr) == addr - PrgStart

\* nes_mapper_zero_read: with one bank, which is seen twice; 0 elsewhere.
Mirrored(addr) == IF addr < PrgStart + BankSize THEN addr - PrgStart ELSE addr - PrgStart - BankSize

nes_mapper_zero_read(cart, addr) ==
    IF cart.prg_banks > 1 \/ addr < PrgStart
    THEN Zero
    ELSE IF cart.prg_banks = 0 \/ heap[cart.prg_mem].of = "outside"
         THEN Outside
         ELSE Byte(heap[cart.prg_mem].of, Mirrored(addr))

\* The pointer is NULL, or leads to a cartridge that was freed.
ReadNoCart ==
    /\ pc = "idle"
    /\ ~IsWhole(nes_loaded_cart)
    /\ pc' = "astray"
    /\ UNCHANGED <<heap, nes_loaded_cart, opened, adrift, locals, image, nes_cart, result>>

Load ==
    \/ NothingToUnload \/ Unload \/ UnloadFreed
    \/ \E lost \in BOOLEAN : OpenFails(lost) \/ OpenAstray(lost) \/ Open(lost)
    \/ StatFails \/ ReadImage \/ ImageTooLarge
    \/ NotARom \/ NotInes \/ BuildCart \/ GetMapper \/ MissingMapper

Next ==
    \/ \E r \in Roms \cup {"missing"} : CallLoad(r)
    \/ Load
    \/ ReadNoCart

Spec == Init /\ [][Next]_vars

-----------------------------------------------------------------------------
(* What should hold *)

\* Every variable has its type, and no file is closed more often than it was
\* opened, nor more files opened than there are descriptors.
TypeOK ==
    /\ \A b \in Blocks : heap[b].kind \in {"nothing", "image", "cart", "prg", "chr", "mapper"}
    /\ nes_loaded_cart \in Blocks \cup {NULL}
    /\ opened \in 0 .. MaxOpen /\ adrift \in BOOLEAN
    /\ cartfile \in Roms \cup {"none", "other"} /\ cart_header \in Headers
    /\ pc \in {"idle", "unload", "open", "stat", "header", "mapper",
               "hangs", "freed twice", "astray"}
    /\ image \in Blocks \cup {NULL} /\ nes_cart \in Blocks \cup {NULL}
    /\ result \in {"none", "ROM_OK", "ROM_NOT_FOUND", "BAD_ROM", "ROM_MISSING_MAPPER"}

Succeeded == pc = "idle" /\ result = "ROM_OK"

\* When a load succeeds, whatever was loaded before it and from whatever sectors
\* it read, the global pointer leads to a cartridge just when the header found was
\* iNES: all blocks of it are live and distinct, the mapper's too, its banks are
\* those that header announces, and its program was copied from the image.  A
\* program that is that of a file is that of the file asked for, with its banks.
LoadedIsWhole ==
    Succeeded =>
        /\ IsWhole(nes_loaded_cart) <=> cart_header.ines
        /\ cart_header.ines =>
              LET cart == heap[nes_loaded_cart]
                  of   == heap[cart.prg_mem].of
              IN /\ Cardinality(PartsOf(nes_loaded_cart)) = 3
                 /\ cart.mapper \in Live /\ heap[cart.mapper].kind = "mapper"
                 /\ heap[cart.prg_mem].kind = "prg" /\ of \in {cartfile, "outside"}
                 /\ cart.prg_banks = cart_header.prg
                 /\ of \in Roms => of = rom /\ cart_header = Header[of]

\* Between calls, every cartridge and every program or character memory that is
\* allocated belongs to the cartridge the global pointer leads to: whatever went
\* wrong, only images of files and mappers are leaked.
OnlyImagesAndMappersLeak ==
    pc = "idle" =>
        {b \in Live : heap[b].kind \in {"cart", "prg", "chr"}} =
            IF IsWhole(nes_loaded_cart) THEN PartsOf(nes_loaded_cart) ELSE {}

\* The bus delivers the program that was copied last, its one bank seen at both
\* halves of the addresses: with the volume as it was and an st_size that is large
\* enough, that of the file asked for.
ReadsLoadedRom ==
    Succeeded /\ cart_header.ines /\ cart_header.prg = 1
    /\ heap[heap[nes_loaded_cart].prg_mem].of # "outside" =>
        \A addr \in PrgStart .. PrgStart + 2 * BankSize - 1 :
            nes_mapper_zero_read(heap[nes_loaded_cart], addr) =
                Byte(IF cartfile = "other" THEN "other" ELSE rom, (addr - PrgStart) % BankSize)
=============================================================================
