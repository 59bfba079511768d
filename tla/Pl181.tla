------------------------------- MODULE Pl181 -------------------------------
(***************************************************************************)
(* The SD card driver of pl181.c: the commands pl181_get_block_device      *)
(* sends to bring a card up, and the block reads fat32.c and mbr.c make    *)
(* through the device it returns.                                          *)
(*                                                                         *)
(* The host polls; the controller and the card run by themselves, so the   *)
(* host's steps interleave with theirs.  Controller and card are external: *)
(* they are modelled by the registers the driver reads (status flags, the  *)
(* response register, the receive FIFO) and by the card states of the SD   *)
(* protocol in which each command the driver sends is legal.  A command    *)
(* may go unanswered, and an answer may arrive with a bad CRC.             *)
(***************************************************************************)
EXTENDS Integers, Sequences

CONSTANTS
    NumBlocks,    \* blocks 0 .. NumBlocks - 1 of the card
    Words,        \* words of a block: 512 / 4
    FifoDepth,    \* words the receive FIFO holds: 16
    Tries         \* how often mmci_send_app_cmd tries: 5

ASSUME Pl181Assumption ==
    /\ NumBlocks \in Nat \ {0} /\ Words \in Nat \ {0}
    /\ FifoDepth \in Nat \ {0} /\ Tries \in Nat \ {0}

Blocks == 0 .. NumBlocks - 1

VARIABLES
    stage,      \* the command or loop the driver has reached
    pc,         \* where mmci_send_cmd is: "idle" outside it
    count,      \* the local of mmci_send_app_cmd
    sdCard,     \* mmci_sd_card: whose rca it holds, and ishc
    first,      \* parameter addr of mmci_read_blocks
    todo,       \* parameter numblocks
    buffer,     \* for each block asked for, the words stored at its place
    active,     \* controller: CmdActive
    flags,      \* controller: the static status flags
    response,   \* controller: response[0]
    answered,   \* the command the flags are about
    fifo,       \* controller: the receive FIFO
    card,       \* the card: state, kind and the words it has still to send
    faults      \* what went wrong on the card's side so far

host == <<stage, pc, count, sdCard, first, todo, buffer>>
controller == <<active, flags, response, answered, fifo>>
vars == <<stage, pc, count, sdCard, first, todo, buffer,
          active, flags, response, answered, fifo, card, faults>>

\* The commands by number, with 41 for the application command.
Commands == {"cmd0", "cmd8", "cmd55", "acmd41", "cmd2", "cmd3", "cmd7", "cmd16", "cmd17"}

\* RESP is not set in the command word: LRESP is RESP & (1 << 7), which is 0.
Unanswered == {"cmd0", "cmd2"}

\* A word of the card: which block it is of and which of the words.
BlockWords(b) == [i \in 1 .. Words |-> <<b, i>>]

\* What the register holds before any answer.
NoResponse == "zero"

Init ==
    /\ stage = "cmd0" /\ pc = "idle" /\ count = 0
    /\ sdCard = [rca |-> "none", ishc |-> FALSE]
    /\ first = 0 /\ todo = 0 /\ buffer = <<>>
    /\ active = FALSE /\ flags = {} /\ response = NoResponse /\ answered = "cmd0"
    /\ fifo = <<>>
    /\ \E hc \in BOOLEAN :
          card = [state |-> "off", hc |-> hc, app |-> FALSE, started |-> FALSE, sending |-> <<>>]
    /\ faults = {}

-----------------------------------------------------------------------------
(* The controller and the card (external) *)

\* The operating conditions of an initialised card; the second has bit 30 set.
Ocr == IF card.hc THEN "ocr_hc" ELSE "ocr"

\* Mutant: the same block is asked for again and again.
RequestedFirst == first

\* The block CMD17 asks for: cards with a high capacity are addressed by block,
\* others by byte.
Requested == first + Len(buffer)

AddressIsRight == sdCard.ishc = card.hc \/ Requested = 0

Reply(state, r) == [state |-> state, r |-> r]

\* What the card may reply to a command in its state: the state it goes to and
\* what the response register then holds.  No reply outside the states listed.
Replies(cmd) ==
    CASE cmd = "cmd8"   /\ card.state = "idle"              -> {Reply("idle", "ifcond")}
      [] cmd = "cmd55"  /\ card.state \in {"idle", "ready"} -> {Reply(card.state, "app")}
      [] cmd = "acmd41" /\ card.app /\ card.state = "idle"  -> {Reply("ready", Ocr),
                                                                Reply("idle", "ocr_busy")}
      [] cmd = "acmd41" /\ card.app /\ card.state = "ready" -> {Reply("ready", Ocr)}
      [] cmd = "cmd3"   /\ card.state = "ident"             -> {Reply("stby", "rca")}
      [] cmd = "cmd7"   /\ card.state = "stby" /\ sdCard.rca = "card"
                                                            -> {Reply("tran", "status")}
      [] cmd = "cmd16"  /\ card.state = "tran"              -> {Reply("tran", "status")}
      [] cmd = "cmd17"  /\ card.state = "tran" /\ AddressIsRight
                                                            -> {Reply("data", "status")}
      [] OTHER -> {}

\* The card after it took the command and went to a state.
CardTakes(cmd, state) ==
    [state   |-> state,
     hc      |-> card.hc,
     app     |-> cmd = "cmd55",
     started |-> card.started \/ cmd = "acmd41",
     sending |-> IF state = "data" THEN BlockWords(Requested) ELSE card.sending]

\* A command that asks for no response is sent.
CommandSent ==
    /\ active
    /\ stage \in Unanswered
    /\ active' = FALSE
    /\ flags' = flags \cup {"CmdSent"}
    /\ card' = CardTakes(stage, CASE stage = "cmd0" -> "idle"
                                  [] stage = "cmd2" /\ card.state = "ready" -> "ident"
                                  [] OTHER -> card.state)
    /\ UNCHANGED <<host, response, answered, fifo, faults>>

\* The response arrives, whole or with a CRC error.
ResponseArrives ==
    /\ active
    /\ \E reply \in Replies(stage), crc \in BOOLEAN :
          /\ active' = FALSE
          /\ flags' = flags \cup {IF crc THEN "CmdCrcFail" ELSE "CmdRespEnd"}
          /\ response' = reply.r
          /\ card' = CardTakes(stage, reply.state)
          /\ faults' = faults \cup (IF crc THEN {"crc"} ELSE {})
                              \cup (IF reply.r = "ocr_busy" THEN {"busy"} ELSE {})
    /\ answered' = stage
    /\ UNCHANGED <<host, fifo>>

\* The command was lost, or is not legal in the card's state: it times out.
ResponseTimesOut ==
    /\ active
    /\ stage \notin Unanswered
    /\ active' = FALSE
    /\ flags' = flags \cup {"CmdTimeOut"}
    /\ faults' = faults \cup {"timeout"}
    /\ UNCHANGED <<host, response, answered, fifo, card>>

\* The card ends the initialisation that the application command started.
CardBecomesReady ==
    /\ card.state = "idle" /\ card.started
    /\ card' = [card EXCEPT !.state = "ready"]
    /\ UNCHANGED <<host, controller, faults>>

\* The card sends a word; when the FIFO is full it is lost.
CardSends ==
    /\ card.sending # <<>>
    /\ IF Len(fifo) < FifoDepth
       THEN fifo' = Append(fifo, Head(card.sending)) /\ UNCHANGED faults
       ELSE faults' = faults \cup {"overrun"} /\ UNCHANGED fifo
    /\ card' = [card EXCEPT !.sending = Tail(@),
                            !.state = IF Len(card.sending) = 1 THEN "tran" ELSE @]
    /\ UNCHANGED <<host, active, flags, response, answered>>

-----------------------------------------------------------------------------
(* mmci_send_cmd *)

\* Mutant: the flags of the command before stay.
WriteCommandUncleared ==
    /\ stage \in Commands /\ pc = "idle"
    /\ pc' = "active"
    /\ active' = TRUE
    /\ fifo' \in (IF stage = "cmd17" THEN {fifo, <<>>} ELSE {fifo})
    /\ UNCHANGED <<stage, count, sdCard, first, todo, buffer, flags, response, answered, card, faults>>

\* The flags are cleared and the command register is written.  The loop before
\* it waits for nothing: its condition is always 0.  CMD17 sets the data path
\* up first, which may or may not empty the FIFO.
WriteCommand ==
    /\ stage \in Commands /\ pc = "idle"
    /\ pc' = "active"
    /\ flags' = {}
    /\ active' = TRUE
    /\ fifo' \in (IF stage = "cmd17" THEN {fifo, <<>>} ELSE {fifo})
    /\ UNCHANGED <<stage, count, sdCard, first, todo, buffer, response, answered, card, faults>>

\* The loop that waits while the command is active ends.
CommandInactive ==
    /\ pc = "active"
    /\ ~active
    /\ pc' = IF stage \in Unanswered THEN "sent" ELSE "response"
    /\ UNCHANGED <<stage, count, sdCard, first, todo, buffer, controller, card, faults>>

\* Mutant: the loop does not look at CmdTimeOut.
ResponseSeenNoTimeOut == "CmdRespEnd" \in flags /\ ~active

\* The loop for the response ends: when it came, or without a word when it timed
\* out.  A CRC error ends neither.
ResponseSeen == {"CmdRespEnd", "CmdTimeOut"} \cap flags # {} /\ ~active

CommandReturns ==
    /\ \/ pc = "sent" /\ "CmdSent" \in flags
       \/ pc = "response" /\ ResponseSeen
    /\ pc' = "done"
    /\ UNCHANGED <<stage, count, sdCard, first, todo, buffer, controller, card, faults>>

-----------------------------------------------------------------------------
(* pl181_get_block_device: what follows each command *)

\* The driver goes on to a command or a loop.
GoTo(s) ==
    /\ stage' = s
    /\ pc' = "idle"
    /\ UNCHANGED <<first, todo, controller, card, faults>>

\* The next command, whatever the response was.
Following(s) ==
    CASE s = "cmd0" -> "cmd8"
      [] s = "cmd2" -> "cmd3"
      [] s = "cmd7" -> "cmd16"
      [] s = "cmd16" -> "ready"

AfterPlainCommand ==
    /\ pc = "done" /\ stage \in {"cmd0", "cmd2", "cmd7", "cmd16"}
    /\ GoTo(Following(stage))
    /\ UNCHANGED <<count, sdCard, buffer>>

\* Only bits outside 0x1AA make the voltage check fail: an empty register passes.
AfterCmd8 ==
    /\ pc = "done" /\ stage = "cmd8"
    /\ GoTo(IF response \in {"ifcond", NoResponse} THEN "cmd55" ELSE "failed")
    /\ count' = 0
    /\ UNCHANGED <<sdCard, buffer>>

\* Mutant: the limit of the tries is compared after the count went past it.
AfterCmd55OneMore ==
    /\ pc = "done" /\ stage = "cmd55"
    /\ IF response \in {"app", "ifcond"}
       THEN GoTo("acmd41") /\ UNCHANGED count
       ELSE /\ GoTo(IF count = Tries THEN "failed" ELSE "cmd55")
            /\ count' = count + 1
    /\ UNCHANGED <<sdCard, buffer>>

\* Bit 5 is the application command bit of a status; 0x1AA has it set too.
AfterCmd55 ==
    /\ pc = "done" /\ stage = "cmd55"
    /\ IF response \in {"app", "ifcond"}
       THEN GoTo("acmd41") /\ UNCHANGED count
       ELSE /\ GoTo(IF count + 1 = Tries THEN "failed" ELSE "cmd55")
            /\ count' = count + 1
    /\ UNCHANGED <<sdCard, buffer>>

\* Mutant: how the card is addressed is not noted.
AfterAcmd41Bytes ==
    /\ pc = "done" /\ stage = "acmd41"
    /\ GoTo("cmd2")
    /\ UNCHANGED <<count, sdCard, buffer>>

\* Bit 30 says how the card is addressed.  The loop that should wait for bit 31
\* never runs: the register or'ed with that bit is not 0.
AfterAcmd41 ==
    /\ pc = "done" /\ stage = "acmd41"
    /\ sdCard' = [sdCard EXCEPT !.ishc = response = "ocr_hc"]
    /\ GoTo("cmd2")
    /\ UNCHANGED <<count, buffer>>

\* The top of the register is taken for the card's address.
AfterCmd3 ==
    /\ pc = "done" /\ stage = "cmd3"
    /\ sdCard' = [sdCard EXCEPT !.rca = IF response = "rca" THEN "card" ELSE "other"]
    /\ GoTo("cmd7")
    /\ UNCHANGED <<count, buffer>>

-----------------------------------------------------------------------------
(* mmci_read_blocks, and mmci_read_block as the case of one block *)

CallRead(b, n) ==
    /\ stage = "ready"
    /\ stage' = "cmd17"
    /\ first' = b /\ todo' = n /\ buffer' = <<>>
    /\ UNCHANGED <<pc, count, sdCard, controller, card, faults>>

AfterCmd17 ==
    /\ pc = "done" /\ stage = "cmd17"
    /\ GoTo("drain")
    /\ buffer' = Append(buffer, <<>>)
    /\ UNCHANGED <<count, sdCard>>

\* The FIFO has data: a word goes to the next place of the block's part.
DrainWord ==
    /\ stage = "drain"
    /\ fifo # <<>>
    /\ fifo' = Tail(fifo)
    /\ buffer' = [buffer EXCEPT ![Len(buffer)] = Append(@, Head(fifo))]
    /\ UNCHANGED <<stage, pc, count, sdCard, first, todo, active, flags, response, answered,
                   card, faults>>

\* The FIFO is empty: the block counts as read, and the next place is 512 bytes
\* after this one's.
DrainEnds ==
    /\ stage = "drain"
    /\ fifo = <<>>
    /\ stage' = IF Len(buffer) = todo THEN "ready" ELSE "cmd17"
    /\ faults' = IF card.sending # <<>> THEN faults \cup {"late"} ELSE faults
    /\ UNCHANGED <<pc, count, sdCard, first, todo, buffer, controller, card>>

Host ==
    \/ WriteCommand \/ CommandInactive \/ CommandReturns
    \/ AfterPlainCommand \/ AfterCmd8 \/ AfterCmd55 \/ AfterAcmd41 \/ AfterCmd3 \/ AfterCmd17
    \/ DrainWord \/ DrainEnds

Controller == CommandSent \/ ResponseArrives \/ ResponseTimesOut

Next ==
    \/ Host
    \/ Controller
    \/ CardBecomesReady
    \/ CardSends
    \/ \E b \in Blocks : \E n \in 1 .. NumBlocks - b : CallRead(b, n)

\* The driver polls until it returns, and the controller ends every command with
\* a response, its absence or its error; nothing makes the card get ready or
\* send in time.
Spec == Init /\ [][Next]_vars /\ WF_vars(Host) /\ WF_vars(Controller)

-----------------------------------------------------------------------------
(* What should hold *)

Stages == Commands \cup {"drain", "ready", "failed"}

WordsOfCard == {<<b, i>> : b \in Blocks, i \in 1 .. Words}

\* Every variable has its type; the driver never stores more than it asked for
\* places, nor takes a word out of the FIFO that is not there.
TypeOK ==
    /\ stage \in Stages
    /\ pc \in {"idle", "active", "sent", "response", "done"}
    /\ count \in 0 .. Tries
    /\ sdCard \in [rca : {"none", "card", "other"}, ishc : BOOLEAN]
    /\ first \in Blocks /\ todo \in 0 .. NumBlocks
    /\ Len(buffer) <= todo
    /\ \A k \in DOMAIN buffer : \A j \in DOMAIN buffer[k] : buffer[k][j] \in WordsOfCard
    /\ active \in BOOLEAN
    /\ flags \subseteq {"CmdSent", "CmdRespEnd", "CmdTimeOut", "CmdCrcFail"}
    /\ answered \in Commands
    /\ Len(fifo) <= FifoDepth

\* The driver writes no command while one is active, though the loop meant to
\* wait for that waits for nothing, and when it finds that a response has come
\* (CmdRespEnd) that is the response to the command it sent.  After a time-out there
\* is none, and it reads what the command before left in the register all the same.
ResponseIsCurrent ==
    /\ pc = "idle" => ~active
    /\ pc = "response" /\ "CmdRespEnd" \in flags => answered = stage

\* A device is returned for a card that is selected and addressed the way it
\* wants, when the card met every command with a good answer that said it was
\* initialised.
DeviceIsSelected ==
    stage \in {"ready", "cmd17", "drain"} /\ faults = {} =>
        /\ card.state \in {"tran", "data"}
        /\ sdCard = [rca |-> "card", ishc |-> card.hc]

\* While nothing went wrong on the card's side, and no word came after the driver
\* found the FIFO empty, a read leaves each block asked for, whole and in order,
\* in its place.
BlocksAreRead ==
    stage = "ready" /\ faults = {} =>
        buffer = [k \in 1 .. todo |-> BlockWords(first + k - 1)]

\* Bringing the card up, and every read, come to an end, unless a response had
\* a CRC error: then mmci_send_cmd polls for ever.
CallsReturn ==
    (stage \notin {"ready", "failed"}) ~> (stage \in {"ready", "failed"} \/ "crc" \in faults)

-----------------------------------------------------------------------------
(* What comments say and the code does not do *)

\* "Wait until busy bit is cleared and the card has initalized" (pl181.c:226):
\* the commands after it are sent to a card that is initialised, when all the
\* card did was to answer that it was busy.
WaitsForCard == stage = "cmd2" /\ pc = "idle" /\ faults \subseteq {"busy"} => card.state = "ready"
=============================================================================
