# A verification model of MNes

MNes is a NES emulator that runs without an operating system on an ARM Versatile
board: it brings up memory, a display and an SD card, mounts a FAT32 file system,
loads a cartridge from it and runs a 6502. This directory models that program in
TLA+, checks the models with TLC and proves theorems about all eight of its components
with TLAPS.
`PROJECT.json` lists the runs, the mutants that show each property can fail, the
source lines of every definition, the findings and the hazards.

## 1. The system

One processor runs one thread with interrupts off (`boot.S`, `kmain.c`). Calls nest
and never overlap; what runs concurrently is the card controller and the card. What
makes the program hard is therefore not interleaving but long sequences of calls over
shared, hand-linked state; memory `malloc` does not clear; results nobody looks at;
and hardware that is polled.

| Component | Source | State | Operations | Correct when |
|---|---|---|---|---|
| Page frames | `pmm.c` | list of free chunks whose headers lie in the chunks, `MemUsed` | `allocPage`, `freePage` | no frame has two holders, what is freed can be used again, calls return |
| Heap | `liballoc.c`, `malloc.c` | boundary tags in runs of frames, a free list and a count of whole runs per size class | `malloc`, `calloc`, `realloc`, `free` | blocks are apart, tags tile their runs, lists and counts agree with the tags, runs go back whole |
| SD card | `pl181.c` | the card's address and kind; the registers of the controller | bring-up, block reads | a response is that of the command sent, the card returned is selected, blocks are whole and in order |
| FAT32 volume | `fat32.c`, `mbr.c` | the FAT, where data begins; buffers of directories and files; one static `dirent` | `init_fatfs`, `fat_opendir`, `fat_fopen`, `fat_readdir`, ... | the file opened is the one named, nothing else is left allocated, calls return |
| File layer | `vfs.c`, `stdio.c` | the list of mounts, tables of open files and directories | `vfs_mount`, `_open`, `_read`, `_fstat`, `_close`, `opendir`, `readdir`, ... | a descriptor is one opening of one file, used by nobody else until closed |
| Cartridge | `nescart.c`, `nes_mapper.c` | the pointer `nes_loaded_cart` | `nes_load_cart`, reads of the mapper | a successful load leaves a whole cartridge, nothing is freed twice, the bus reads what was loaded |
| Bus | `nesbus.c` | 2 KB of RAM | `nes_cpu_read`, `nes_cpu_write` | addresses reach what they are mapped to, and nothing outside the RAM is written |
| Processor | `nes6502.c` | registers, flags, cycles left | `nes_clock`, `nes_reset`, `nes_irq`, `nes_nmirq`; 56 instructions | every instruction does what the 6502 does, in its cycles; what is pulled is what was pushed |
| Picture unit | `nesppu.c` | none yet | reads that give 0, writes that do nothing | - |
| Console, display | `console.c`, `pl110.c`, `bmp.c` | the cursor's column, the frame buffer | `console_write`, `console_writestr`, scrolling, one bitmap | drawing stays in the frame buffer, what was printed stays legible |
| Boot | `kmain.c`, `boot.S` | none | one sequence of calls | each step happens only after what it needs succeeded |

Calls lead down this chain: `kmain` -> cartridge -> file layer (through the C library)
-> FAT32 -> block device (function pointers) -> controller; everything allocates from the
heap, and the heap from the page frames. The FAT32 driver is reached through a table of
function pointers (`fs_driver`), so a signature that does not fit is not noticed by the
compiler: section 6 has one.

## 2. The modules

    PageFrames            frame numbers, runs of frames
      PageSpec            what callers of allocPage and freePage are promised
      Pmm                 pmm.c                    refines PageSpec
        PmmProofs         theorems about Pmm
      LibAlloc            liballoc.c over PageSpec refines HeapSpec and PageSpec
        LibAllocProofs    theorems about LibAlloc, the refinement among them
    HeapSpec              what callers of malloc and free are promised
    Pl181                 pl181.c with the controller and the card
      Pl181Proofs         theorems about Pl181
    Fat32                 fat32.c and mbr.c over a block device
      Fat32Proofs         theorems about Fat32
    FdSpec                what the C library expects of descriptors
    Vfs                   vfs.c, stdio.c, open files of fat32.c   refines FdSpec
      VfsProofs           theorems about Vfs, the refinement among them
    NesCart               nescart.c, nes_mapper.c, reads of the bus
      NesCartProofs       theorems about NesCart
    Bytes                 bytes, words and the bits in them
      Mos6502             the processor as its programmers know it
        Nes6502           nes6502.c over nesbus.c, compared with Mos6502
          Nes6502Proofs   theorems about Nes6502
    Console               console.c on the frame buffer of pl110.c
      ConsoleProofs       theorems about Console
    MC<module>            instances for TLC, each with its .cfg files

A module takes sizes as constants, with an assumption where they must be related. Actions
are named after the function they model, or say which branch of it they are. `pc` says
where a call stands that takes several steps; a call that touches nothing another actor
sees in between is one step.

**Pmm.** `header[p]` is the `MemChunk` at frame p; a caller may overwrite it as soon as it
holds the frame (`OwnerWrites`). One iteration of the loop of `allocPage` or `freePage`
is one step: `AllocExact`, `AllocSplit`, `AllocTooSmall`, `AllocNoMemory`, and
`FreeIntoEmptyList`, `FreeBeforeChunk`, `FreeNotBefore`. `MemUsed` is computed modulo
`Word` = 2^32. `block` is what callers hold and is the state of PageSpec.

**LibAlloc.** `tags` maps the address of each tag to its fields (`split_left`,
`split_right`, `prev`, `next`, `index`, `real_size`). `malloc` walks its list
(`SearchNext`), then takes the tag it found (`TakeFreeTag`), a new run (`TakeNewPages`)
or nothing (`NoPages`), and cuts it to size (`Carve`); `free` joins to the left
(`MeltLeft`) and to the right (`AbsorbRight`) one neighbour a step, then files the tag
(`KeepTag`) or returns its run (`ReleasePages`). The page hooks of `malloc.c` are PageSpec's actions, and
may also never answer (`InPageHook`), as `allocPage` and `freePage` do when the head of their list
does not suit them; the lock is a stub there and has no counterpart. `malloc` searches one size class only, as the code
does: with larger tags free, a small request may still take a fresh run.

**Pl181.** Driver, controller and card are three actors. `WriteCommand`,
`CommandInactive` and `CommandReturns` are `mmci_send_cmd`; the stages are the commands
`pl181_get_block_device` sends, and `DrainWord`, `DrainEnds` the loop of
`mmci_read_block`. The controller may answer, time out or see a CRC error; the card may
be busy, unselected or late, and its words may overrun the FIFO. These actors are
external: they are modelled from the registers and flags the driver uses.

**Fat32.** A buffer is the sequence of sectors read into it, and a sector is a sequence of
32-byte slots. `CountCluster` and `ReadCluster` are one iteration of
`fat_getclustercount` and `fat_getdata`; `ScanNext`, `ScanInto`, `ScanLast`, `ScanEnd` one
iteration of `fat_opendir`; `SearchNext`, `SearchHit`, `SearchEnd` one of `fat_fopen`.
What malloc's memory holds is chosen freely: the `dirent` of `fat_opendir` (`Leftover`).
A sector the card does not deliver leaves a hole in the buffer. Where the code reads
memory nobody filled, or an index outside the FAT, the model stops (`Astray`).
`held` counts the heap blocks by the name of the variable that leads to them, the two strings
`fat_fopen` makes of its path included (`Strings`, `FreeStrings`).
Cluster numbers are split at `Half` = 2^16 as in the entries.

**Vfs.** One call is one step. `fat_file` and `fat_dir` are the structs of the driver by
address, so that an address freed can be given again; the results of paths come from
sets (how they are found is in Fat32). The first mount's field `next`, which nothing
sets, is NULL or `Wild`; following `Wild` stops the model. `lost` says whether a sector asked for on the way is not
delivered: such a call may miss a file that exists, or open something else ("other"). `_fstat`
casts its argument to `FILE *` and goes by the `_file` found there; it may find an open file
(`StatFile`), none (`StatNoFile`) or no descriptor at all (`StatAstray`). It overwrites where the
driver looks for data (section 6), so after the first one (`adrift`) any path may lead to
anything: FdSpec then promises nothing about paths any more, and the same as before about
descriptors.

**NesCart.** The heap is a set of blocks with what lies in them; malloc is given as the
constant operator `Pick`. Each return of `nes_load_cart` is an action. The bytes it reads are
those of the file asked for (`rom`) only if every sector was delivered and no earlier `fstat` has
set the driver `adrift`; otherwise `cartfile` is "other", and `cart_header` any header of `Found`.
`st_size` is what the stack held, since `fstat` writes elsewhere, so the image may be too short for
a header, for the banks, long enough, or larger than memory (then the call does not return). Freeing a freed block, or reading
through a pointer to one, stops the model.

**Nes6502.** A call of `nes_clock` is one step: it executes the next instruction when no
cycles are left (`ExecuteNext`), and counts a cycle down otherwise (`CountDown`). An
interrupt or a reset may come between any two calls, also while cycles are left, as
`nes_irq`, `nes_nmirq` and `nes_reset` allow. `nes` is the record of the registers, the RAM
and the cycles; addressing modes (`Addressed`) and operations (`Operation`) are functions on
it, and `nes_instructions` is the table of `init_nes_6502`. The status is the set of its
flags; `StatusByte` and `StatusOf` are the conversion where it is pushed and pulled. Programs
are cartridges: the constant `Prg` gives the bytes of a bank. `nes_stack_base` is declared
and never set, so a push goes to page zero. Without a cartridge the reset follows NULL
(`phase` = "astray"). The table has one entry more than was allocated; the opcode of that
entry may lead anywhere (`FollowLostEntry`). `pushed` is a history: what was pushed where,
by which operation. The reference `Mos6502` is written from what the mnemonics and the comments
of the code name, and has its own table (`Decode`), lengths, cycles (`Cycles`), results and
flags; it shares nothing with the model but the arithmetic of `Bytes`.

**Console.** Memory is a grid of pixel rows and glyph columns that begins with the frame
buffer and goes on behind it; every caller draws at columns that are multiples of a glyph's
width. `Scroll` moves by byte counts added to a pointer to 16-bit pixels, that is by two lines
where it means one; source and target of its `memcpy` overlap, and it is taken to copy from the
first byte on, as a `memmove` would;
what lies behind the buffer (`Foreign`) comes in at the bottom, and the rows `Cleared` lie a
screen further down. A printed character, a new line and a call of `console_writestr` are
one step each. `line` and `lines` are histories of what was printed.

## 3. The runs

| Run | Shows | Instance | Distinct states |
|---|---|---|---|
| `pmm` | any order of allocations and frees keeps frames apart, the list is one chunk in every state, lost frames stay lost, calls the list can serve return, PageSpec is implemented | 5 frames, requests up to 6, 5-bit `MemUsed` | 140,795 |
| `pmm_alloc_returns` | finding: a request larger than the head chunk is never answered | as above | - |
| `liballoc` | tiling, lists, coalescing, counts, no leaked tag; HeapSpec and PageSpec; every call returns or waits in a page hook | 5 frames of 8 bytes, runs of 2, 4 sizes | 108,261 |
| `pl181` | responses are current, the device returned is selected, blocks are read whole, only a CRC error keeps the driver polling | 2 blocks of 3 words, FIFO of 2, 2 tries | 116,322 |
| `pl181_busy` | finding: a busy card is not waited for | as above | - |
| `fat32` | which file is opened, when none is found, what stays allocated, calls return | 5 cards, 9 paths with and without a slash, 1 undelivered sector | 330,628 |
| `fat32_chain` | finding: one `fstat` moves the data of the volume | as above | - |
| `vfs` | tables agree with what is open, closed directories are left alone, FdSpec is implemented | 2 descriptors, 2 slots, 3 addresses, sectors delivered or not | 253,309 |
| `nescart` | a load of an iNES header leaves a whole cartridge, cartridges do not leak, the bus reads what was copied | 6 kinds of file and of other sectors, 11 blocks, 2 descriptors | 25,985 |
| `nes6502` | each instruction against the reference processor, flags, the stack under nested calls and interrupts, a countdown is left at 0 | every opcode with 6 settings of registers and operand, 7 programs | 115,749 |
| `nes6502_equal` | finding: a comparison of equal values does not set Z | as above | - |
| `console` | drawing writes nothing but the frame buffer and the rows cleared by mistake; what is printed stays legible | 5 lines of 4 columns, 2 characters, 3 calls of `console_writestr` | 170,746 |

### Why these bounds

* *pmm*: five frames are enough to split a chunk twice, to use it up, to rebuild the list
  from a block in the middle and to free on either side of it. `Word` = 32 makes `MemUsed`
  wrap in `init_pmm`, as it does on the board, and again later.
* *liballoc*: with runs of 16 bytes and tags of one, the four sizes split a run, leave a
  rest too small to split, take a whole run and take more than one; `MAXCOMPLETE` = 1 makes
  both branches of the return of a run happen. All five frames can run out.
* *pl181*: a block longer than the FIFO can overrun it and can arrive in two parts; two
  blocks show words of one turning up in the next.
* *fat32*: the cards differ in what matters to the walk: a plain volume with a chain of two
  clusters for the root, a directory and a file, a long name across the boundary of two
  clusters and a cluster above `Half`; a second partition with two sectors in a cluster,
  whose root begins with a label; a long name before a short one, and a directory inside
  one of its own name; a chain that never ends and one that leads outside the FAT; no FAT32
  partition. The count of a chain is capped above the number of clusters (`MaxCount`),
  where it can only be that of a cycle. One file and one directory are open at a time:
  those that are open do not affect the driver, except through the static `dirent`.
* *vfs*: a table of two fills up, and three addresses meet every mix of files, open
  directories and closed ones. Addresses are only compared, so they are symmetric; this run
  checks no liveness.
* *nescart*: one file for each way through the header, and the same headers in other sectors; the blocks suffice for a cartridge
  and the images and mappers that can leak before descriptors and blocks run out.
* *nes6502*: all 256 opcodes are executed with six settings of the status, A, X, Y and the two
  operand bytes, chosen for signs, carries, page ends, addresses in RAM, its mirrors and ROM,
  and indices that wrap. Widths are the real ones (8 and 16 bits). The programs nest calls
  with registers saved across them, begin with the stack pointer at 0 and 1, overwrite
  their return address, and count down from 128. `MaxExecuted` and `MaxSignals` bound the
  instructions after a reset and the interrupts of each program.
* *console*: a line of three characters fills up and wraps, five lines scroll off the screen,
  and strings are written between lines, over the end of a row and below the screen.

Deadlock is checked in `pmm`, `liballoc` and `console`. The other systems may stop: the model ends
where the program follows an invalid pointer, when no card answers, or when a call does not
return.

### Fairness

`Pmm`, `LibAlloc` and `Fat32` assume weak fairness of the steps of a call that
has begun: one thread runs, interrupts are off, so a call keeps executing. In `LibAlloc` the page
hooks are left out of it (`WF_vars(~InPageHook /\ Step)`), because `allocPage` and `freePage` may
poll for ever. No new call is ever assumed to be made. `Pl181` assumes in addition that the controller ends each command
(response, time-out or CRC error); nothing is assumed of the card, which may stay busy or
silent for ever. `Vfs`, `NesCart`, `Nes6502` and `Console` assume none; `kmain` clocks the processor
ten times and returns, so no instruction is promised to be executed.

## 4. The properties

Each run has one type invariant. The others are about what is hard to see in a test:

* `OneHolder`, `ListIsOneChunk`, `LostStaysLost` (Pmm): the list never
  grows a second chunk whatever is freed, so its links and the branches on them are never
  used; what is freed while a chunk exists is lost for good. `MemUsedCountsHeld` ties the
  wrapped counter to the blocks held, lost frames included.
* `Tiling`, `FreeListsHoldFreeTags`, `Coalesced`, `CompletePagesCounted`, `UsedTagsAreHeld`
  (LibAlloc): the redundant structures agree after every order of frees. `CallsReturn`: every call
  comes to its end or to a page hook, and again after each hook that answers.
* `ResponseIsCurrent`, `DeviceIsSelected`, `BlocksAreRead` (Pl181): what the driver may rely on, with
  the faults named under which it may not (`faults`). `ResponseIsCurrent` is about responses that
  came; after a time-out the driver reads the response to the command before, and the other two
  promise nothing then.
* `FileIsTheNamed`, `FopenFinds`, `OnlyKnownLeaks`, `CallsReturn` (Fat32): the first two compare
  the walk with a definition of what the volume holds (`Chain`, `SlotsOf`, `Led`). They are
  stated for volumes on which the code can work at all (`IsPlain`): chains end and their
  clusters lie on the card, a directory in which the code looks for a directory begins with an
  entry (at another first slot the dirent of the search before is compared once more), and
  directories passed through have short names and clusters below 2^16. `FopenFinds` then names the reasons that are left for not finding a file of the
  root: a slot that is no entry before it, or a long name that left a character behind a
  short one. `OnlyKnownLeaks` names what is never freed: the directory and the dirent of
  `fat_fopen`, its `pathto` for "/name", its copy of a path without a name.
* `TablesHoldOpen`, `ClosedDirIsLeftAlone`, `ImplementsDescriptors` (Vfs): freed addresses come back,
  and no descriptor or closed directory sees them. What an opening yields is promised for calls to
  which every sector is delivered, until the first `_fstat` of an open file.
* `LoadedIsWhole`, `OnlyImagesAndMappersLeak`, `ReadsLoadedRom` (NesCart): after any history of failed
  and successful loads, from the sectors of the file or from others. A success leaves a cartridge
  just when the header that was read is iNES; what it holds is what was copied, which is the file
  asked for if the volume was as mounted and `st_size` happened to be large enough.
* `Follows6502`, `NoFlagIsMadeUp` (Nes6502): each documented instruction against the reference, for
  the programs of the run; the proof is for every program. The places where the code is wrong throughout are named in
  `OperandDiffers` and `ResultDiffers`, and the rest of the property holds for those too. Two
  differences are not named there, because the property does not look at them: the stack is taken to
  lie where the code has it, in page zero, and the address `BRK` pushes, one further than the
  processor's (line 641), is compared with nothing. Clearing
  a flag keeps it and clears the others (line 439), so flags get lost and flags stay that should go;
  `NoFlagIsMadeUp` says that an instruction adds none that its result does not call for. Of flags
  set before, which may be lost, or kept where they should go (C through CLC), it says nothing.
* `PulledIsPushed` (Nes6502): calls, interrupts and saved registers come back as they were left, as
  long as nothing was written over them. `CountdownIsExact`: a loop of DEX and BNE from at most
  128 is left at 0 and not before, in spite of flags that get lost, and is not left early because
  of an interrupt.
* `LinesRise` (Console): every line completed is whole, two lines higher for each one since, until
  it leaves the screen, though scrolling is wrong in every one of its sums.

Every property of a passing run has a mutant in `PROJECT.json`: a definition preceded by a
comment `Mutant:` in the module, under which the property fails.

## 5. What is proved

Eight modules of proofs, each for every value of the constants that satisfies the named
assumptions of its component. In each, `IInv` is the inductive invariant, `InitInvariant` and
`StepInvariant` show that it is one (with a lemma for each action), and the theorems
follow.

| Module | Theorem | Statement |
|---|---|---|
| `PmmProofs` | `TypeCorrect` | `Spec => []TypeOK` |
| | `OneHolderAlways` | `Spec => []OneHolder` |
| | `OneChunkAlways` | `Spec => []ListIsOneChunk` |
| | `LostForEver` | `Spec => LostStaysLost` |
| | `CounterIsRight` | `Spec => []MemUsedCountsHeld` |
| | `NeverGrows` | `Spec => ReclaimedOnlyWhenEmpty` |
| | `Implements` | `Spec => ImplementsContract`: Pmm refines PageSpec |
| `LibAllocProofs` | `TypeCorrect` | `Spec => []TypeOK` |
| | `RunsAreTiled` | `Spec => []Tiling` |
| | `ListsAreFreeTags` | `Spec => []FreeListsHoldFreeTags` |
| | `FreeTagsAreJoined` | `Spec => []Coalesced` |
| | `WholeRunsAreCounted` | `Spec => []CompletePagesCounted` |
| | `NoTagIsLost` | `Spec => []UsedTagsAreHeld` |
| | `Implements` | `Spec => KeepsContracts`: LibAlloc refines HeapSpec, and PageSpec below it |
| `Pl181Proofs` | `TypeCorrect` | `Spec => []TypeOK` |
| | `ResponsesAreCurrent` | `Spec => []ResponseIsCurrent` |
| | `DevicesAreSelected` | `Spec => []DeviceIsSelected` |
| | `ReadsAreWhole` | `Spec => []BlocksAreRead` |
| `Fat32Proofs` | `TypeCorrect` | `Spec => []TypeOK` |
| | `NothingElseLeaks` | `Spec => []OnlyKnownLeaks` |
| | `FilesAreNamed` | `Spec => []FileIsTheNamed` |
| | `NoFileIsMissed` | `Spec => []FopenFinds` |
| `VfsProofs` | `TypeCorrect` | `Spec => []TypeOK` |
| | `TablesAgree` | `Spec => []TablesHoldOpen` |
| | `ClosedDirsRest` | `Spec => ClosedDirIsLeftAlone` |
| | `KeepsDescriptors` | `Spec => ImplementsDescriptors`: Vfs refines FdSpec |
| `NesCartProofs` | `TypeCorrect` | `Spec => []TypeOK` |
| | `LoadsWholeCarts` | `Spec => []LoadedIsWhole` |
| | `NoCartLeaks` | `Spec => []OnlyImagesAndMappersLeak` |
| | `ReadsTheRomLoaded` | `Spec => []ReadsLoadedRom` |
| `Nes6502Proofs` | `TypeCorrect` | `Spec => []TypeOK` |
| | `PulledIsRight` | `Spec => PulledIsPushed` |
| | `TableAgrees` | each documented opcode has its operation, mode and cycles in the table |
| | `NothingIsMadeUp` | `Spec => NoFlagIsMadeUp` |
| | `ProcessorIsFollowed` | `Spec => Follows6502` |
| `ConsoleProofs` | `StaysInBuffer` | `Spec => []TypeOK` |
| | `LinesAlwaysRise` | `Spec => []LinesRise` |

**Pmm**, from `PageFramesAssumption` and `PmmAssumption` (frames have positive numbers,
memory ends where the count of frames says, and what a caller writes is not taken for a
header of the list). `IInv` conjoins `TypeOK`, `OneHolder`, `ListIsOneChunk` and `Locals` (the iterator of a call
points at the head of the list, the block being freed lies in memory). None of the first
three is inductive alone: a split keeps blocks apart only when the chunk it cuts lies apart
from every block (`OneHolder`) and has the size its header says (`ListIsOneChunk`), which
holds only because no caller can write the header of the chunk, which needs `OneHolder`
again; and a step in the middle of a call knows what it works on only by `Locals`.
`InitInvariant` and `StepInvariant` show it, with one lemma per action; `StepInvariant` also
shows `FramesKept`, from which the two action properties follow. `StepContract` maps each
step to a `Grab`, a `Release` or a stutter of PageSpec.
`MemUsedCountsHeld` needs that a run handed out shares nothing with the frames counted
before, and one taken back is among them, so that the number of frames held changes by the
length of the run; the counter wraps, and wrapping before an addition changes nothing
(`WrapTwice`).

**LibAlloc**, from `PageFramesAssumption` and `LibAllocAssumption` (a tag is smaller than a run,
sizes are positive). The properties speak of runs and lists as wholes; the invariant speaks of one tag and
its neighbours, which is all a step looks at. `Laid`: each tag ends where its right
neighbour begins, no other begins inside it, and the first and last lie at the ends of their run. `Listed`: a tag on a
list is linked both ways with its neighbours there, and its class is that of its size. `Ends`:
tags on a list have ranks that fall along it, so a walk never meets a tag twice and reaches
the end; that it does is a pigeonhole argument on the ranks. `Sized`, `Parted`, `RunsLie`, `Counted` and
`HeldTags` say the same of sizes, free neighbours, runs, counts and blocks. In the middle of a
`malloc` or `free` the tag it works on is in no list and is no caller's: `Locals` says for each `pc`
which tag that is and what it may break.
The contracts follow from where blocks lie (`BlocksLie`): within tags that lie apart.

**Pl181**, from `Pl181Assumption` (what a block holds and how deep the FIFO is). The invariant has two layers. The first (`Types`,
`Locals`) holds whatever the card does: which command is in the register, what the status
bits and the FIFO can be, and how many words were read, at each stage. The second holds as
long as no fault happened (`faults` is empty): what bring-up has learnt of the card agrees
with the card (`BroughtUp`), and the words in the block, in the FIFO and still to come are
those of the block, in this order (`InOrder`). `ResponseIsCurrent` follows from the first alone: it is about commands that end with
`CmdRespEnd`, whatever faults there were before.

**Fat32**, from `Fat32Assumption` (a volume has finitely many clusters, among other things about
its layout; no name of a path is what `strcmp` sees of a short name without an end). Every call allocates and frees along its way, so `IInv` tells for each step what is
held there, by the name of the variable (`Stage`); `OnlyKnownLeaks` is its value between
calls. The strings of `fat_fopen` follow from its path alone, at every step (`StringsHeld`). That the walk of `fat_getdata` stays within the buffer needs that it reads the chain that
`fat_getclustercount` counted, cluster by cluster (`Counting`, `Reading`).

`FileIsTheNamed` and `FopenFinds` need a second invariant, `NInv`, which holds while `IsPlain` does, no
sector was lost and nobody called `fat_fstat` (`Smooth`). Its parts are where the buffer stands and
where the path stands. A buffer holds the sectors of the clusters read so far, in the order of
the chain (`SoFar`, `Whole`); that the count of `fat_getclustercount` is the length of that chain is a
pigeonhole argument on the FAT (`AlongChain`, `ChainIs`). The directory in the buffer is one
that the first names of the path lead to, and the names still to find are the others
(`Heading`); the dirent that is compared was decoded there (`IsOther`, `ScanHere`), and a long name is
never taken apart from its entry (`TakesLong`, `Decodes`). In the last directory no entry of the
file's name was passed, but for short ones behind a character left by a long name
(`SearchesOn`). The chains of the specification are recursive functions; where the proof needs what
they are, `SetInduction` shows it for the least number at which it would fail. The proof found a
case the runs do not reach: on a path like x/x/y/f, a directory whose first slot is no entry lets
the dirent of the directory before match again. `IsPlain` excludes it for every directory
searched, not for the root alone.

**Vfs**, from `VfsAssumption` (NULL is no address and no mount, descriptors and slots are
counted in natural numbers, paths of files and directories differ from each other and from
the special ones). `IInv` adds `Shapes` to `TypeOK` and `TablesHoldOpen`: the structs are
functions to records, and before the first mount nothing was opened. `TablesHoldOpen` carries the
argument. That each fat_file is reached from one descriptor only is what makes a read or a
close the business of that descriptor in the refinement, and that a slot holds only open
directories is what keeps `readdir` and `closedir` off the closed ones. `FirstFreeIsFree`
rests on the least element of a set of numbers. In the refinement a read of more units than a
file has is mapped to a read of one more than it has, and a driver that is `adrift`, or a call with
a sector `lost`, to an opening of FdSpec that may yield anything (`OpenLost`).

**NesCart**, from `NesCartAssumption` (`Pick` chooses from every set of blocks that is not
empty, names of files are not those of states). The properties hold between calls only, so
`IInv` says for each step of `nes_load_cart` which cartridge exists: none until the header is
read, then the one at `nes_cart`, and between calls the one the global pointer leads to or none
(`Owned`), and that its program and its banks are those of what was read (`IsRead`); a buffer with room
for the banks begins with the header of the file itself. The stale pointer after a failed load is the difficulty: it may lead to a block
that holds something else by then. It does no harm because a call that finds it frees before
it allocates, and stops there (`UnloadFreed`).

**Nes6502**, from `Nes6502Assumption` (a cartridge and the memory of the RAM hold bytes). `TypeCorrect` goes
operation by operation: each takes registers of their width and a RAM of bytes to such ones
(`Keeps`), whatever address an addressing mode finds, and only branches add to the cycles. The
table is read once, entry by entry (`LowEntries`, `HighEntries`): only branches have the mode REL, and take two
cycles. `PulledIsRight` needs the invariant `FInv` of the frames in the history: the cells that a push
filled lie above the stack pointer it left, also where that wraps, and hold what was kept
(`Framed`). A push leaves other cells alone (`ReadsBack`), and the sums of 8 and 16 bits wrap
as one sum does (`WrapsTwice`).

`ProcessorIsFollowed` compares one step of `nes_cpu_execute` with the reference in Mos6502, whatever
the program and the state. The table of the code lists 256 entries; the reference computes each
from the fields of the opcode. `TableAgrees` shows that they are the same where an opcode is
documented, row by row of those fields (`AccumulatingRows`, `ModifyingRows`, `IndexRows`, `OtherRows`). Each
mode then finds the processor's address and notices the same pages (`Finds`, `Values`). What an
operation does is said once for all of them (`Effect`): it changes its target, and the cells it
pushes (`Grew`), and gives the target the result, the operations in `ResultDiffers` aside. The code adds
cycles in three places (the table, the mode, the branch); `CycleSum` and `BranchCycles` show that their sum
is that of the reference. `NothingIsMadeUp` follows the flags through each operation in the order the code sets them:
none is added that the result does not call for (`FlagsOf`), which does not depend on what
`nes_setflag` takes away.

**Console**, from `ConsoleAssumption` (the screen has at least two columns and four lines).
`LinesRise` is not inductive alone: that a new character covers none of the line needs to know
that the line ends to the left of `xPos`, and that lines lie on the screen needs the bound on their
number (`Histories`).

Every invariant and every action property that a passing run checks is stated by a theorem, but
for `CountdownIsExact`, which holds for the programs of its run and not for every program. Only
model-checked are, besides that, the liveness properties (`CallsReturn` of LibAlloc, Pl181 and Fat32,
`ServableCallsReturn` of Pmm) and the four violation runs. Liveness under fairness, and induction over data by the
theorems of the library, are out of the prover's reach. Where a proof needs an induction over
numbers (a rank, the first free slot, the length of a chain), it takes the least element of a set of
numbers instead. A module with a RECURSIVE
operator could not be proved about; there is none here.

## 6. What the code does differently from its comments

Four violation runs, each for one quoted line (`PROJECT.json`, "findings"):

1. `pmm.c:146`: `allocPage` never leaves a chunk that is too small.
2. `pl181.c:226`: the loop that waits for the card's busy bit never runs.
3. `vfs.c:309`: `vfsfstat` passes (file, driver, stat) as the type `fs_fstat` says, but
   `fat_fstat` takes (file, stat). The size is written into the `fat_fs`, at the offset of
   `st_size`. With newlib's `struct stat` for this target that offset is 16, which is the
   field `firstdatalba`: after one `fstat` the driver looks for all data elsewhere. The
   size never reaches the caller.
4. `nes6502.c:439`: `nes_setflag` clears a flag by an and with the flag where its complement is
   meant. A comparison of equal values sets Z and then loses it as it clears N, so "Branch if
   Equal" is not taken. The same line makes `nes_CLC`, "Clear Carry Flag" (line 893), keep a carry
   that was set and clear the other flags, and likewise `nes_CLD`, `nes_CLI` and `nes_CLV`; these
   have no run of their own.

Behaviour that the models contain and for which we found no comment that says otherwise has no run
of its own:

* `liballoc.c:499`: `calloc` clears address 0 when there is no memory, `realloc` copies there.
* `vfs.c:59`: the loop that appends a second mount has no exit. Code for several mounts is
  therefore never reached, and Vfs has one mount.
* `nescart.c:18`: a failed load leaves `nes_loaded_cart` leading to freed memory, and the next
  load frees it again.

The hazards in `PROJECT.json` name further behaviour of this kind, for instance
that `freePage` loses what it frees (`LostStaysLost`), that `fat_readdir` ends at the first slot
that is no entry, and that the high half of a cluster number is lost on the way through a
path.

## 7. What is not modelled, and why

* The strings `nes_dissasemble_display` prints; how many bytes it takes for an operand is
  compared (`ListingGoesOn`).
* The picture unit is a stub in the code: its reads return 0 and its writes do nothing.
* Glyphs and colours, the bitmap shown at the start, `console_cls` and the registers of the
  display controller: straight-line drawing, of which only the bounds matter.
* `kmain` as a whole: it is one sequence that looks at no result but that of `init_fatfs` and
  `vfs_mount`. What follows from that is in the initial states of Nes6502 (no cartridge).
  `boot.S` sets stacks and vectors.
* `DEBUG` branches, `printf`, the C library (`strtok`, `FILE` buffers), system calls that are
  constant stubs, the write functions of the card (stubs).
* `free` of a pointer without the magic number, which the code ignores; sums of sizes that
  wrap around 2^32 in `malloc` and `calloc`.
* In Fat32: how names are put together from characters (names are compared as they come
  out), the byte `fat_fopen` writes behind its copy of the path, paths that consist of
  slashes, a `malloc` that fails. The device delivers a sector or nothing; Pl181 has it in
  words.
* Outcomes of undefined behaviour: a choice where the values are few (the field `next`, the
  uninitialised `dirent`, `st_size`), the end of the model where anything may follow.

## 8. Plan

The modules planned are written: `Pmm` with `PageSpec`, `LibAlloc` with `HeapSpec`, `Pl181`, `Vfs` with
`FdSpec`, `NesCart`, `Fat32`, `Nes6502` with `Mos6502`, `Console`. All of them have their
theorems, section 5, which cover every safety property of the runs. What may follow: naming
what `ADC`, `SBC`, `EOR` and `ASL` give instead of their result (`ResultDiffers`), so that
`ResultIsThere` covers them too, and a tighter `NoFlagIsMadeUp` for `TAX` and `ADC`.
