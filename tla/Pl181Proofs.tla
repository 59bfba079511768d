---------------------------- MODULE Pl181Proofs ----------------------------
(***************************************************************************)
(* Proofs about the SD card driver, for every size of card, block and      *)
(* FIFO and every number of tries.                                         *)
(*                                                                         *)
(* The invariant has two layers.  Types and Locals hold whatever the card  *)
(* does.  BroughtUp and InOrder hold as long as nothing went wrong on its  *)
(* side: the state each command finds the card in and leaves it in, what   *)
(* the response register holds when the driver looks at it, and that the   *)
(* words of the block being read are, in their order, in the buffer, in    *)
(* the FIFO, or still to be sent.  faults only grows, so a step with no    *)
(* fault after it had none before it.                                      *)
(***************************************************************************)
EXTENDS Pl181, SequenceTheorems, TLAPS

CardStates == {"off", "idle", "ready", "ident", "stby", "tran", "data"}

Cards == [state : CardStates, hc : BOOLEAN, app : BOOLEAN, started : BOOLEAN, sending : Seq(WordsOfCard)]

HostTypes ==
    /\ stage \in Stages
    /\ pc \in {"idle", "active", "sent", "response", "done"}
    /\ count \in 0 .. Tries
    /\ sdCard \in [rca : {"none", "card", "other"}, ishc : BOOLEAN]

ReadTypes ==
    /\ first \in Blocks /\ todo \in 0 .. NumBlocks
    /\ buffer \in Seq(Seq(WordsOfCard)) /\ Len(buffer) <= todo

ControllerTypes ==
    /\ active \in BOOLEAN
    /\ flags \subseteq {"CmdSent", "CmdRespEnd", "CmdTimeOut", "CmdCrcFail"}
    /\ answered \in Commands
    /\ fifo \in Seq(WordsOfCard) /\ Len(fifo) <= FifoDepth

\* TypeOK, with what is in the buffer, the FIFO and the card as sequences.
Types == HostTypes /\ ReadTypes /\ ControllerTypes /\ card \in Cards

\* Where the driver is in a command, and in a read.
Locals ==
    /\ active => pc = "active"
    /\ stage \notin Commands => pc = "idle"
    /\ pc \in {"active", "response"} /\ "CmdRespEnd" \in flags => answered = stage
    /\ stage = "cmd55" => count < Tries
    /\ first + todo <= NumBlocks
    /\ stage = "cmd17" => Len(buffer) < todo
    /\ stage = "drain" => Len(buffer) >= 1
    /\ stage \notin {"ready", "cmd17", "drain"} => buffer = <<>>

\* The command of the stage has come to its end.
Taken == pc \in {"sent", "response", "done"} \/ (pc = "active" /\ ~active)

\* The state each command finds the card in, and the one it leaves it in.
Finds  == [cmd0 |-> "off",  cmd8 |-> "idle", cmd55 |-> "idle", acmd41 |-> "idle",
           cmd2 |-> "ready", cmd3 |-> "ident", cmd7 |-> "stby", cmd16 |-> "tran"]
Leaves == [cmd0 |-> "idle", cmd8 |-> "idle", cmd55 |-> "idle", acmd41 |-> "ready",
           cmd2 |-> "ident", cmd3 |-> "stby", cmd7 |-> "tran", cmd16 |-> "tran"]

\* Bringing the card up when nothing goes wrong.
BroughtUp ==
    /\ stage \in DOMAIN Finds => card.state = IF Taken THEN Leaves[stage] ELSE Finds[stage]
    /\ stage \in {"cmd0", "cmd8", "cmd55"} \/ (stage = "acmd41" /\ ~Taken) => ~card.started
    /\ stage = "cmd8" /\ Taken => response = "ifcond"
    /\ stage = "cmd55" /\ Taken => response = "app" /\ card.app
    /\ stage = "acmd41" => IF Taken THEN response = Ocr ELSE card.app
    /\ stage = "cmd3" /\ Taken => response = "rca"
    /\ stage \in {"cmd2", "cmd3", "cmd7", "cmd16", "ready", "cmd17", "drain"} => sdCard.ishc = card.hc
    /\ stage \in {"cmd7", "cmd16", "ready", "cmd17", "drain"} => sdCard.rca = "card"
    /\ stage \in {"ready", "cmd17", "drain"} =>
          card.state = IF card.sending = <<>> THEN "tran" ELSE "data"
    /\ stage # "failed"

\* The first m blocks asked for have been read.
Complete(m) == \A k \in 1 .. m : buffer[k] = BlockWords(first + k - 1)

\* Reading when nothing goes wrong: the words of the block are in the buffer, in
\* the FIFO, or still to be sent.
InOrder ==
    /\ stage \notin {"cmd17", "drain"} =>
          Len(buffer) = todo /\ Complete(todo) /\ fifo = <<>> /\ card.sending = <<>>
    /\ stage = "cmd17" =>
          /\ Complete(Len(buffer))
          /\ IF Taken THEN fifo \o card.sending = BlockWords(Requested)
             ELSE fifo = <<>> /\ card.sending = <<>>
    /\ stage = "drain" =>
          /\ Complete(Len(buffer) - 1)
          /\ (buffer[Len(buffer)] \o fifo) \o card.sending = BlockWords(first + Len(buffer) - 1)

IInv == Types /\ Locals /\ (faults = {} => BroughtUp /\ InOrder)

-----------------------------------------------------------------------------
\* The replies of the card to each command (the controller pl181.c polls).
LEMMA RepliesAre ==
    ASSUME NEW cmd \in Commands, NEW reply \in Replies(cmd)
    PROVE  \/ cmd = "cmd8" /\ card.state = "idle" /\ reply = Reply("idle", "ifcond")
           \/ cmd = "cmd55" /\ card.state \in {"idle", "ready"} /\ reply = Reply(card.state, "app")
           \/ cmd = "acmd41" /\ card.app /\ card.state = "idle"
                /\ reply \in {Reply("ready", Ocr), Reply("idle", "ocr_busy")}
           \/ cmd = "acmd41" /\ card.app /\ card.state = "ready" /\ reply = Reply("ready", Ocr)
           \/ cmd = "cmd3" /\ card.state = "ident" /\ reply = Reply("stby", "rca")
           \/ cmd = "cmd7" /\ card.state = "stby" /\ sdCard.rca = "card" /\ reply = Reply("tran", "status")
           \/ cmd = "cmd16" /\ card.state = "tran" /\ reply = Reply("tran", "status")
           \/ cmd = "cmd17" /\ card.state = "tran" /\ AddressIsRight /\ reply = Reply("data", "status")
  BY DEF Replies, Commands

\* What the empty sequence of words is.
LEMMA EmptyWords == <<>> \in Seq(WordsOfCard) /\ Len(<<>>) = 0 /\ DOMAIN <<>> = {}
  BY EmptySeq

\* What is in a buffer of words is words.
LEMMA BufferWords ==
    \A b \in Seq(Seq(WordsOfCard)) : \A k \in DOMAIN b : \A j \in DOMAIN b[k] : b[k][j] \in WordsOfCard
  OBVIOUS

\* The types of the invariant are those the runs check.
LEMMA TypesGive == Types => TypeOK
  BY BufferWords DEF Types, HostTypes, ReadTypes, ControllerTypes, TypeOK

\* A block of the card is a sequence of words that is not empty.
LEMMA BlockIsWords ==
    ASSUME NEW b \in Blocks
    PROVE  BlockWords(b) \in Seq(WordsOfCard) /\ Len(BlockWords(b)) = Words /\ BlockWords(b) # <<>>
<1>1. Words \in Nat \ {0}
  BY Pl181Assumption
<1>2. \A i \in 1 .. Words : <<b, i>> \in WordsOfCard
  BY DEF WordsOfCard
<1>3. BlockWords(b) \in [1 .. Words -> WordsOfCard]
  BY <1>2 DEF BlockWords
<1> QED
  BY <1>1, <1>3

\* The fields of the card after it took a command.
LEMMA CardTakesIs ==
    ASSUME card \in Cards, NEW cmd \in Commands, NEW state \in CardStates,
           state = "data" => Requested \in Blocks
    PROVE  LET c == CardTakes(cmd, state)
           IN /\ c \in Cards
              /\ c.state = state /\ c.hc = card.hc /\ c.app = (cmd = "cmd55")
              /\ c.started = (card.started \/ cmd = "acmd41")
              /\ c.sending = IF state = "data" THEN BlockWords(Requested) ELSE card.sending
<1> DEFINE sending == IF state = "data" THEN BlockWords(Requested) ELSE card.sending
<1>1. sending \in Seq(WordsOfCard) /\ card.started \in BOOLEAN /\ card.hc \in BOOLEAN
  BY BlockIsWords DEF Cards
<1> HIDE DEF sending
<1>2. CardTakes(cmd, state) =
        [state |-> state, hc |-> card.hc, app |-> cmd = "cmd55",
         started |-> card.started \/ cmd = "acmd41", sending |-> sending]
  BY DEF CardTakes, sending
<1> QED
  BY <1>1, <1>2 DEF Cards, sending

\* The invariant holds before pl181_get_block_device is called.
THEOREM InitInvariant == Init => IInv
<1> SUFFICES ASSUME Init PROVE IInv
  OBVIOUS
<1> USE Pl181Assumption DEF Init
<1>1. Types
  <2>1. card \in Cards
    BY EmptyWords DEF Cards, CardStates
  <2>2. HostTypes
    BY DEF HostTypes, Stages, Commands
  <2>3. ControllerTypes
    <3>1. fifo \in Seq(WordsOfCard) /\ Len(fifo) <= FifoDepth
      BY EmptyWords
    <3> QED
      BY <3>1 DEF ControllerTypes, Commands
  <2>4. ReadTypes
    BY EmptySeq DEF ReadTypes, Blocks
  <2> QED
    BY <2>1, <2>2, <2>3, <2>4 DEF Types
<1>2. Locals
  BY DEF Locals, Commands
<1>3. BroughtUp
  BY DEF BroughtUp, Taken, Finds, Leaves
<1>4. InOrder
  BY EmptyWords DEF InOrder, Complete
<1> QED
  BY <1>1, <1>2, <1>3, <1>4 DEF IInv

\* mmci_send_cmd clears the flags and writes the command register.
LEMMA WriteCommandStep == ASSUME IInv, WriteCommand PROVE IInv'
<1> USE Pl181Assumption DEF WriteCommand, host, controller, GoTo
<1>1. HostTypes'
  BY DEF IInv, Types, HostTypes, Stages, Commands, Following, Locals
<1>2. ReadTypes'
  BY DEF IInv, Types, ReadTypes
<1>3. ControllerTypes' /\ card' \in Cards
  <2>1. fifo' = fifo \/ fifo' = <<>>
    OBVIOUS
  <2>2. fifo' \in Seq(WordsOfCard) /\ Len(fifo') <= FifoDepth
    <3>1. CASE fifo' = fifo
      BY <3>1 DEF IInv, Types, ControllerTypes
    <3>2. CASE fifo' = <<>>
      BY <3>2, EmptyWords
    <3> QED
      BY <2>1, <3>1, <3>2
  <2> QED
    BY <2>2 DEF IInv, Types, ControllerTypes
<1>4. Locals'
  BY DEF IInv, Types, HostTypes, Locals, Commands, Following
<1>5. faults' = {} => BroughtUp'
  BY DEF IInv, BroughtUp, Taken, Finds, Leaves, Locals, Ocr, Commands, Following, Types, HostTypes, Cards, Unanswered
<1>6. faults' = {} => InOrder'
  BY DEF IInv, InOrder, Taken, Complete, Requested, Locals, Commands, Following, Unanswered
<1> QED
  BY <1>1, <1>2, <1>3, <1>4, <1>5, <1>6 DEF IInv, Types

\* The loop that waits while the command is active ends.
LEMMA CommandInactiveStep == ASSUME IInv, CommandInactive PROVE IInv'
<1> USE Pl181Assumption DEF CommandInactive, host, controller, GoTo
<1>1. HostTypes'
  BY DEF IInv, Types, HostTypes, Stages, Commands, Following, Locals
<1>2. ReadTypes'
  BY DEF IInv, Types, ReadTypes
<1>3. ControllerTypes' /\ card' \in Cards
  BY EmptyWords DEF IInv, Types, ControllerTypes, Cards, CardStates
<1>4. Locals'
  BY DEF IInv, Types, HostTypes, Locals, Commands, Following
<1>5. faults' = {} => BroughtUp'
  BY DEF IInv, BroughtUp, Taken, Finds, Leaves, Locals, Ocr, Commands, Following, Types, HostTypes, Cards, Unanswered
<1>6. faults' = {} => InOrder'
  BY DEF IInv, InOrder, Taken, Complete, Requested, Locals, Commands, Following, Unanswered
<1> QED
  BY <1>1, <1>2, <1>3, <1>4, <1>5, <1>6 DEF IInv, Types

\* mmci_send_cmd returns.
LEMMA CommandReturnsStep == ASSUME IInv, CommandReturns PROVE IInv'
<1> USE Pl181Assumption DEF CommandReturns, host, controller, GoTo
<1>1. HostTypes'
  BY DEF IInv, Types, HostTypes, Stages, Commands, Following, Locals
<1>2. ReadTypes'
  BY DEF IInv, Types, ReadTypes
<1>3. ControllerTypes' /\ card' \in Cards
  BY EmptyWords DEF IInv, Types, ControllerTypes, Cards, CardStates
<1>4. Locals'
  BY DEF IInv, Types, HostTypes, Locals, Commands, Following
<1>5. faults' = {} => BroughtUp'
  BY DEF IInv, BroughtUp, Taken, Finds, Leaves, Locals, Ocr, Commands, Following, Types, HostTypes, Cards, Unanswered
<1>6. faults' = {} => InOrder'
  BY DEF IInv, InOrder, Taken, Complete, Requested, Locals, Commands, Following, Unanswered
<1> QED
  BY <1>1, <1>2, <1>3, <1>4, <1>5, <1>6 DEF IInv, Types

\* The driver goes on after a command whose response it does not look at.
LEMMA AfterPlainCommandStep == ASSUME IInv, AfterPlainCommand PROVE IInv'
<1> USE Pl181Assumption DEF AfterPlainCommand, host, controller, GoTo
<1>1. HostTypes'
  BY DEF IInv, Types, HostTypes, Stages, Commands, Following, Locals
<1>2. ReadTypes'
  BY DEF IInv, Types, ReadTypes
<1>3. ControllerTypes' /\ card' \in Cards
  BY EmptyWords DEF IInv, Types, ControllerTypes, Cards, CardStates
<1>4. Locals'
  BY DEF IInv, Types, HostTypes, Locals, Commands, Following
<1>5. faults' = {} => BroughtUp'
  <2> SUFFICES ASSUME faults = {} PROVE BroughtUp'
    OBVIOUS
  <2>1. BroughtUp /\ Taken /\ ~Taken' /\ stage' = Following(stage) /\ pc = "done"
    BY DEF IInv, Taken, Locals
  <2>2. UNCHANGED <<card, sdCard>>
    OBVIOUS
  <2> USE DEF BroughtUp, Finds, Leaves, Following
  <2>3. CASE stage = "cmd0"
    BY <2>1, <2>2, <2>3
  <2>4. CASE stage = "cmd2"
    BY <2>1, <2>2, <2>4
  <2>5. CASE stage = "cmd7"
    BY <2>1, <2>2, <2>5
  <2>6. CASE stage = "cmd16"
    <3>1. card.sending = <<>>
      BY <2>6 DEF IInv, InOrder
    <3> QED
      BY <2>1, <2>2, <2>6, <3>1
  <2> QED
    BY <2>3, <2>4, <2>5, <2>6
<1>6. faults' = {} => InOrder'
  BY DEF IInv, InOrder, Taken, Complete, Requested, Locals, Commands, Following, Unanswered
<1> QED
  BY <1>1, <1>2, <1>3, <1>4, <1>5, <1>6 DEF IInv, Types

\* The driver checks the voltage range in the response to CMD8.
LEMMA AfterCmd8Step == ASSUME IInv, AfterCmd8 PROVE IInv'
<1> USE Pl181Assumption DEF AfterCmd8, host, controller, GoTo
<1>1. HostTypes'
  BY DEF IInv, Types, HostTypes, Stages, Commands, Following, Locals
<1>2. ReadTypes'
  BY DEF IInv, Types, ReadTypes
<1>3. ControllerTypes' /\ card' \in Cards
  BY EmptyWords DEF IInv, Types, ControllerTypes, Cards, CardStates
<1>4. Locals'
  BY DEF IInv, Types, HostTypes, Locals, Commands, Following
<1>5. faults' = {} => BroughtUp'
  BY DEF IInv, BroughtUp, Taken, Finds, Leaves, Locals, Ocr, Commands, Following, Types, HostTypes, Cards, Unanswered
<1>6. faults' = {} => InOrder'
  BY DEF IInv, InOrder, Taken, Complete, Requested, Locals, Commands, Following, Unanswered
<1> QED
  BY <1>1, <1>2, <1>3, <1>4, <1>5, <1>6 DEF IInv, Types

\* mmci_send_app_cmd looks for the application command bit, or tries again.
LEMMA AfterCmd55Step == ASSUME IInv, AfterCmd55 PROVE IInv'
<1> USE Pl181Assumption DEF AfterCmd55, host, controller, GoTo
<1>1. HostTypes'
  BY DEF IInv, Types, HostTypes, Stages, Commands, Following, Locals
<1>2. ReadTypes'
  BY DEF IInv, Types, ReadTypes
<1>3. ControllerTypes' /\ card' \in Cards
  BY EmptyWords DEF IInv, Types, ControllerTypes, Cards, CardStates
<1>4. Locals'
  BY DEF IInv, Types, HostTypes, Locals, Commands, Following
<1>5. faults' = {} => BroughtUp'
  BY DEF IInv, BroughtUp, Taken, Finds, Leaves, Locals, Ocr, Commands, Following, Types, HostTypes, Cards, Unanswered
<1>6. faults' = {} => InOrder'
  BY DEF IInv, InOrder, Taken, Complete, Requested, Locals, Commands, Following, Unanswered
<1> QED
  BY <1>1, <1>2, <1>3, <1>4, <1>5, <1>6 DEF IInv, Types

\* The driver notes how the card is addressed.
LEMMA AfterAcmd41Step == ASSUME IInv, AfterAcmd41 PROVE IInv'
<1> USE Pl181Assumption DEF AfterAcmd41, host, controller, GoTo
<1>1. HostTypes'
  BY DEF IInv, Types, HostTypes, Stages, Commands, Following, Locals
<1>2. ReadTypes'
  BY DEF IInv, Types, ReadTypes
<1>3. ControllerTypes' /\ card' \in Cards
  BY EmptyWords DEF IInv, Types, ControllerTypes, Cards, CardStates
<1>4. Locals'
  BY DEF IInv, Types, HostTypes, Locals, Commands, Following
<1>5. faults' = {} => BroughtUp'
  BY DEF IInv, BroughtUp, Taken, Finds, Leaves, Locals, Ocr, Commands, Following, Types, HostTypes, Cards, Unanswered
<1>6. faults' = {} => InOrder'
  BY DEF IInv, InOrder, Taken, Complete, Requested, Locals, Commands, Following, Unanswered
<1> QED
  BY <1>1, <1>2, <1>3, <1>4, <1>5, <1>6 DEF IInv, Types

\* The driver notes the address of the card.
LEMMA AfterCmd3Step == ASSUME IInv, AfterCmd3 PROVE IInv'
<1> USE Pl181Assumption DEF AfterCmd3, host, controller, GoTo
<1>1. HostTypes'
  BY DEF IInv, Types, HostTypes, Stages, Commands, Following, Locals
<1>2. ReadTypes'
  BY DEF IInv, Types, ReadTypes
<1>3. ControllerTypes' /\ card' \in Cards
  BY EmptyWords DEF IInv, Types, ControllerTypes, Cards, CardStates
<1>4. Locals'
  BY DEF IInv, Types, HostTypes, Locals, Commands, Following
<1>5. faults' = {} => BroughtUp'
  BY DEF IInv, BroughtUp, Taken, Finds, Leaves, Locals, Ocr, Commands, Following, Types, HostTypes, Cards, Unanswered
<1>6. faults' = {} => InOrder'
  BY DEF IInv, InOrder, Taken, Complete, Requested, Locals, Commands, Following, Unanswered
<1> QED
  BY <1>1, <1>2, <1>3, <1>4, <1>5, <1>6 DEF IInv, Types

\* A command is not answered: that is a fault.
LEMMA ResponseTimesOutStep == ASSUME IInv, ResponseTimesOut PROVE IInv'
<1> USE Pl181Assumption DEF ResponseTimesOut, host, controller, GoTo
<1>1. HostTypes'
  BY DEF IInv, Types, HostTypes, Stages, Commands, Following, Locals
<1>2. ReadTypes'
  BY DEF IInv, Types, ReadTypes
<1>3. ControllerTypes' /\ card' \in Cards
  BY EmptyWords DEF IInv, Types, ControllerTypes, Cards, CardStates
<1>4. Locals'
  BY DEF IInv, Types, HostTypes, Locals, Commands, Following
<1>5. faults' = {} => BroughtUp'
  BY DEF IInv, BroughtUp, Taken, Finds, Leaves, Locals, Ocr, Commands, Following, Types, HostTypes, Cards, Unanswered
<1>6. faults' = {} => InOrder'
  BY DEF IInv, InOrder, Taken, Complete, Requested, Locals, Commands, Following, Unanswered
<1> QED
  BY <1>1, <1>2, <1>3, <1>4, <1>5, <1>6 DEF IInv, Types

\* The card becomes ready by itself: after an answer that it is busy, a fault.
LEMMA CardBecomesReadyStep == ASSUME IInv, CardBecomesReady PROVE IInv'
<1> USE Pl181Assumption DEF CardBecomesReady, host, controller, GoTo
<1>1. HostTypes'
  BY DEF IInv, Types, HostTypes, Stages, Commands, Following, Locals
<1>2. ReadTypes'
  BY DEF IInv, Types, ReadTypes
<1>3. ControllerTypes' /\ card' \in Cards
  BY EmptyWords DEF IInv, Types, ControllerTypes, Cards, CardStates
<1>4. Locals'
  BY DEF IInv, Types, HostTypes, Locals, Commands, Following
<1>5. faults' = {} => BroughtUp'
  BY DEF IInv, BroughtUp, Taken, Finds, Leaves, Locals, Ocr, Commands, Following, Types, HostTypes, Cards, Unanswered
<1>6. faults' = {} => InOrder'
  BY DEF IInv, InOrder, Taken, Complete, Requested, Types, Cards
<1> QED
  BY <1>1, <1>2, <1>3, <1>4, <1>5, <1>6 DEF IInv, Types

\* A command without a response is sent: CMD0 and CMD2.
LEMMA CommandSentStep == ASSUME IInv, CommandSent PROVE IInv'
<1> DEFINE state == CASE stage = "cmd0" -> "idle"
                      [] stage = "cmd2" /\ card.state = "ready" -> "ident"
                      [] OTHER -> card.state
<1>1. /\ active /\ stage \in {"cmd0", "cmd2"} /\ active' = FALSE /\ flags' = flags \cup {"CmdSent"}
      /\ card' = CardTakes(stage, state)
      /\ UNCHANGED <<host, response, answered, fifo, faults>>
  BY DEF CommandSent, Unanswered
<1>2. /\ state \in CardStates /\ (state = "data" => card.state = "data")
      /\ stage = "cmd0" => state = "idle"
      /\ stage = "cmd2" /\ card.state = "ready" => state = "ident"
  BY <1>1 DEF IInv, Types, Cards, CardStates
<1> HIDE DEF state
<1>3. Requested \in Blocks /\ stage \in Commands /\ card \in Cards /\ pc = "active"
  BY <1>1 DEF IInv, Types, ReadTypes, HostTypes, Locals, Requested, Blocks, Commands
<1>4. /\ card' \in Cards
      /\ card'.state = state /\ card'.hc = card.hc /\ card'.app = FALSE
      /\ card'.started = card.started
      /\ card'.sending = IF state = "data" THEN BlockWords(Requested) ELSE card.sending
  <2>1. card.started \in BOOLEAN
    BY <1>3 DEF Cards
  <2>2. Requested \in Blocks /\ state \in CardStates /\ card' = CardTakes(stage, state)
    BY <1>1, <1>2, <1>3
  <2>3. /\ card' \in Cards
        /\ card'.state = state /\ card'.hc = card.hc /\ card'.app = (stage = "cmd55")
        /\ card'.started = (card.started \/ stage = "acmd41")
        /\ card'.sending = IF state = "data" THEN BlockWords(Requested) ELSE card.sending
    BY <1>3, <2>2, CardTakesIs
  <2> QED
    BY <1>1, <2>1, <2>3
<1>5. UNCHANGED <<stage, pc, count, sdCard, first, todo, buffer, response, answered, fifo, faults>>
  BY <1>1 DEF host
<1>6. HostTypes' /\ ReadTypes'
  BY <1>5 DEF IInv, Types, HostTypes, ReadTypes
<1>7. ControllerTypes'
  BY <1>1, <1>5 DEF IInv, Types, ControllerTypes
<1>8. Locals'
  BY <1>1, <1>5 DEF IInv, Locals
<1>9. faults' = {} => BroughtUp' /\ InOrder'
  <2> SUFFICES ASSUME faults = {} PROVE BroughtUp' /\ InOrder'
    BY <1>5
  <2>1. BroughtUp /\ InOrder /\ ~Taken /\ Taken'
    BY <1>1, <1>3, <1>5 DEF IInv, Taken
  <2>2. state = Leaves[stage] /\ state # "data" /\ (stage = "cmd0" => ~card.started)
    BY <1>1, <1>2, <2>1 DEF BroughtUp, Finds, Leaves
  <2>3. BroughtUp'
    BY <1>1, <1>4, <1>5, <2>1, <2>2 DEF BroughtUp, Finds, Leaves
  <2>4. InOrder'
    BY <1>1, <1>4, <1>5, <2>1, <2>2 DEF InOrder, Complete
  <2> QED
    BY <2>3, <2>4
<1> QED
  BY <1>4, <1>6, <1>7, <1>8, <1>9 DEF IInv, Types

\* A response arrives.
LEMMA ResponseArrivesStep == ASSUME IInv, ResponseArrives PROVE IInv'
<1>1. PICK reply \in Replies(stage), crc \in BOOLEAN :
          /\ active' = FALSE
          /\ flags' = flags \cup {IF crc THEN "CmdCrcFail" ELSE "CmdRespEnd"}
          /\ response' = reply.r
          /\ card' = CardTakes(stage, reply.state)
          /\ faults' = faults \cup (IF crc THEN {"crc"} ELSE {})
                              \cup (IF reply.r = "ocr_busy" THEN {"busy"} ELSE {})
  BY DEF ResponseArrives
<1>2. active /\ answered' = stage /\ UNCHANGED <<stage, pc, count, sdCard, first, todo, buffer, fifo>>
  BY DEF ResponseArrives, host
<1>3. stage \in Commands /\ card \in Cards /\ pc = "active"
  BY <1>2 DEF IInv, Types, Locals
<1>4. \/ stage = "cmd8" /\ card.state = "idle" /\ reply.state = "idle" /\ reply.r = "ifcond"
      \/ stage = "cmd55" /\ card.state \in {"idle", "ready"} /\ reply.state = card.state /\ reply.r = "app"
      \/ stage = "acmd41" /\ reply.state = "ready" /\ reply.r = Ocr
      \/ stage = "acmd41" /\ reply.state = "idle" /\ reply.r = "ocr_busy"
      \/ stage = "cmd3" /\ reply.state = "stby" /\ reply.r = "rca"
      \/ stage = "cmd7" /\ reply.state = "tran" /\ reply.r = "status"
      \/ stage = "cmd16" /\ reply.state = "tran" /\ reply.r = "status"
      \/ stage = "cmd17" /\ reply.state = "data" /\ reply.r = "status"
  BY <1>3, RepliesAre DEF Reply
<1>5. reply.state \in CardStates /\ (reply.state = "data" <=> stage = "cmd17")
  BY <1>4 DEF CardStates
<1>6. reply.state = "data" => Requested \in Blocks
  BY <1>5, Pl181Assumption DEF IInv, Types, ReadTypes, Locals, Requested, Blocks
<1>7. /\ card' \in Cards
      /\ card'.state = reply.state /\ card'.hc = card.hc /\ card'.app = (stage = "cmd55")
      /\ card'.started = (card.started \/ stage = "acmd41")
      /\ card'.sending = IF reply.state = "data" THEN BlockWords(Requested) ELSE card.sending
  BY <1>1, <1>3, <1>5, <1>6, CardTakesIs
<1>8. HostTypes' /\ ReadTypes'
  BY <1>2 DEF IInv, Types, HostTypes, ReadTypes
<1>9. ControllerTypes'
  BY <1>1, <1>2, <1>3 DEF IInv, Types, ControllerTypes
<1>10. Locals'
  BY <1>1, <1>2 DEF IInv, Locals
<1>11. faults' = {} => BroughtUp' /\ InOrder'
  <2> SUFFICES ASSUME faults' = {} PROVE BroughtUp' /\ InOrder'
    OBVIOUS
  <2>1. faults = {} /\ ~crc /\ reply.r # "ocr_busy"
    BY <1>1
  <2>2. BroughtUp /\ InOrder /\ ~Taken /\ Taken'
    BY <1>1, <1>2, <1>3, <2>1 DEF IInv, Taken
  <2>3. Ocr' = Ocr
    BY <1>7 DEF Ocr
  <2>4. BroughtUp'
    <3> USE DEF BroughtUp, Finds, Leaves
    <3>1. CASE stage = "cmd8"
      BY <1>1, <1>2, <1>4, <1>7, <2>2, <3>1
    <3>2. CASE stage = "cmd55"
      BY <1>1, <1>2, <1>4, <1>7, <2>2, <3>2
    <3>3. CASE stage = "acmd41"
      BY <1>1, <1>2, <1>4, <1>7, <2>1, <2>2, <2>3, <3>3
    <3>4. CASE stage \in {"cmd3", "cmd7", "cmd16"}
      BY <1>1, <1>2, <1>4, <1>7, <2>2, <3>4
    <3>5. CASE stage = "cmd17"
      <4>1. Requested \in Blocks /\ card'.sending = BlockWords(Requested) /\ card'.state = "data"
        BY <1>5, <1>6, <1>7, <3>5
      <4>2. card'.sending # <<>>
        BY <4>1, BlockIsWords
      <4> QED
        BY <1>1, <1>2, <1>7, <2>2, <3>5, <4>1, <4>2
    <3> QED
      BY <1>4, <3>1, <3>2, <3>3, <3>4, <3>5
  <2>5. InOrder'
    <3>1. CASE stage # "cmd17"
      <4>1. card'.sending = card.sending /\ stage \notin {"cmd17", "drain"}
        BY <1>4, <1>5, <1>7, <3>1
      <4> QED
        BY <1>2, <2>2, <4>1 DEF InOrder, Complete
    <3>2. CASE stage = "cmd17"
      <4>1. Requested \in Blocks /\ card'.sending = BlockWords(Requested) /\ Requested' = Requested
        BY <1>2, <1>5, <1>6, <1>7, <3>2 DEF Requested
      <4>2. fifo' = <<>> /\ BlockWords(Requested) \in Seq(WordsOfCard)
        BY <1>2, <2>2, <3>2, <4>1, BlockIsWords DEF InOrder
      <4>3. fifo' \o card'.sending = BlockWords(Requested)
        BY <4>1, <4>2, ConcatEmptySeq
      <4>4. Complete(Len(buffer))'
        BY <1>2, <2>2, <3>2 DEF InOrder, Complete
      <4> QED
        BY <1>2, <2>2, <3>2, <4>1, <4>3, <4>4 DEF InOrder
    <3> QED
      BY <3>1, <3>2
  <2> QED
    BY <2>4, <2>5
<1> QED
  BY <1>7, <1>8, <1>9, <1>10, <1>11 DEF IInv, Types

\* A sequence is empty when its length is 0.
LEMMA EmptyIsZero == \A s \in Seq(WordsOfCard) : Len(s) = 0 <=> s = <<>>
  BY EmptySeq

\* A word that goes from the head of one sequence to the end of the one before
\* it leaves the words in their order.
LEMMA WordMoves ==
    ASSUME NEW f \in Seq(WordsOfCard), NEW s \in Seq(WordsOfCard), s # <<>>
    PROVE  /\ Append(f, Head(s)) \in Seq(WordsOfCard) /\ Tail(s) \in Seq(WordsOfCard)
           /\ Append(f, Head(s)) \o Tail(s) = f \o s
  OBVIOUS

\* The same with a third sequence before the two.
LEMMA WordMovesBehind ==
    ASSUME NEW b \in Seq(WordsOfCard), NEW f \in Seq(WordsOfCard), NEW s \in Seq(WordsOfCard), s # <<>>
    PROVE  (b \o Append(f, Head(s))) \o Tail(s) = (b \o f) \o s
<1>1. /\ Append(f, Head(s)) \in Seq(WordsOfCard) /\ Tail(s) \in Seq(WordsOfCard)
      /\ Append(f, Head(s)) \o Tail(s) = f \o s
  BY WordMoves
<1>2. \A g, t \in Seq(WordsOfCard) : (b \o g) \o t = b \o (g \o t)
  BY ConcatAssociative
<1>3. (b \o Append(f, Head(s))) \o Tail(s) = b \o (Append(f, Head(s)) \o Tail(s))
  BY <1>1, <1>2, Zenon
<1>4. (b \o f) \o s = b \o (f \o s)
  BY <1>2
<1> QED
  BY <1>1, <1>3, <1>4

\* The card sends a word: the block stays in order unless the FIFO is full.
LEMMA CardSendsStep == ASSUME IInv, CardSends PROVE IInv'
<1>1. /\ card \in Cards /\ card.sending \in Seq(WordsOfCard) /\ card.sending # <<>>
      /\ fifo \in Seq(WordsOfCard) /\ Len(fifo) <= FifoDepth
  BY DEF IInv, Types, Cards, ControllerTypes, CardSends
<1>2. /\ Head(card.sending) \in WordsOfCard /\ Tail(card.sending) \in Seq(WordsOfCard)
      /\ Len(Tail(card.sending)) = Len(card.sending) - 1
      /\ (Len(card.sending) = 1) <=> (Tail(card.sending) = <<>>)
  <2>1. /\ Head(card.sending) \in WordsOfCard /\ Tail(card.sending) \in Seq(WordsOfCard)
        /\ Len(Tail(card.sending)) = Len(card.sending) - 1 /\ Len(card.sending) \in Nat
    BY <1>1
  <2>2. Len(Tail(card.sending)) = 0 <=> Tail(card.sending) = <<>>
    BY <2>1, EmptyIsZero
  <2> QED
    BY <2>1, <2>2
<1> DEFINE state == IF Len(card.sending) = 1 THEN "tran" ELSE card.state
<1>3. card' = [state |-> state, hc |-> card.hc, app |-> card.app, started |-> card.started,
               sending |-> Tail(card.sending)]
  <2>1. card' = [card EXCEPT !.sending = Tail(@),
                             !.state = IF Len(card.sending) = 1 THEN "tran" ELSE @]
    BY DEF CardSends
  <2> QED
    BY <1>1, <2>1 DEF Cards
<1>4. /\ card' \in Cards /\ card'.state = state /\ card'.sending = Tail(card.sending)
      /\ card'.hc = card.hc /\ card'.app = card.app /\ card'.started = card.started
  BY <1>1, <1>2, <1>3 DEF Cards, CardStates
<1>5. UNCHANGED <<stage, pc, count, sdCard, first, todo, buffer, active, flags, response, answered>>
  BY DEF CardSends, host
<1>6. \/ Len(fifo) < FifoDepth /\ fifo' = Append(fifo, Head(card.sending)) /\ faults' = faults
      \/ fifo' = fifo /\ faults' = faults \cup {"overrun"}
  BY DEF CardSends
<1>7. fifo' \in Seq(WordsOfCard) /\ Len(fifo') <= FifoDepth
  <2>1. CASE fifo' = fifo
    BY <1>1, <2>1
  <2>2. CASE Len(fifo) < FifoDepth /\ fifo' = Append(fifo, Head(card.sending))
    BY <1>1, <1>2, <2>2, Pl181Assumption
  <2> QED
    BY <1>6, <2>1, <2>2
<1>8. HostTypes' /\ ReadTypes'
  BY <1>5 DEF IInv, Types, HostTypes, ReadTypes
<1>9. ControllerTypes'
  BY <1>5, <1>7 DEF IInv, Types, ControllerTypes
<1>10. Locals'
  BY <1>5 DEF IInv, Locals
<1>11. faults' = {} => BroughtUp' /\ InOrder'
  <2> SUFFICES ASSUME faults' = {} PROVE BroughtUp' /\ InOrder'
    OBVIOUS
  <2>1. faults = {} /\ BroughtUp /\ InOrder /\ Taken' = Taken
    BY <1>5, <1>6 DEF IInv, Taken
  <2>2. stage = "drain" \/ (stage = "cmd17" /\ Taken)
    BY <1>1, <2>1 DEF InOrder
  <2>3. fifo' = Append(fifo, Head(card.sending))
    BY <1>6, <2>1
  <2>4. fifo' \o card'.sending = fifo \o card.sending
    BY <1>1, <1>4, <2>3, WordMoves
  <2>5. card.state = "data"
    BY <1>1, <2>1, <2>2 DEF BroughtUp
  <2>6. BroughtUp'
    BY <1>2, <1>4, <1>5, <2>1, <2>2, <2>5 DEF BroughtUp, Finds
  <2>7. CASE stage = "cmd17"
    BY <1>5, <2>1, <2>2, <2>4, <2>6, <2>7 DEF InOrder, Complete, Requested
  <2>8. CASE stage = "drain"
    <3>1. buffer[Len(buffer)] \in Seq(WordsOfCard)
      BY <2>8 DEF IInv, Types, ReadTypes, Locals
    <3>2. (buffer[Len(buffer)] \o fifo') \o card'.sending = (buffer[Len(buffer)] \o fifo) \o card.sending
      <4> DEFINE b == buffer[Len(buffer)]
      <4>1. b \in Seq(WordsOfCard)
        BY <3>1
      <4> HIDE DEF b
      <4>2. (b \o Append(fifo, Head(card.sending))) \o Tail(card.sending) = (b \o fifo) \o card.sending
        BY <1>1, <4>1, WordMovesBehind
      <4>3. (b \o fifo') \o card'.sending = (b \o fifo) \o card.sending
        BY <1>4, <2>3, <4>2
      <4> QED
        BY <4>3 DEF b
    <3>3. Complete(Len(buffer) - 1)'
      BY <1>5, <2>1, <2>8 DEF InOrder, Complete
    <3> QED
      BY <1>5, <2>1, <2>6, <2>8, <3>2, <3>3 DEF InOrder
  <2> QED
    BY <2>2, <2>7, <2>8
<1> QED
  BY <1>4, <1>8, <1>9, <1>10, <1>11 DEF IInv, Types

\* mmci_read_block goes on to the loop that empties the FIFO.
LEMMA AfterCmd17Step == ASSUME IInv, AfterCmd17 PROVE IInv'
<1>1. /\ pc = "done" /\ stage = "cmd17" /\ stage' = "drain" /\ pc' = "idle"
      /\ buffer' = Append(buffer, <<>>)
      /\ UNCHANGED <<count, sdCard, first, todo, active, flags, response, answered, fifo, card, faults>>
  BY DEF AfterCmd17, GoTo, controller
<1>2. /\ buffer \in Seq(Seq(WordsOfCard)) /\ Len(buffer) < todo /\ todo \in Nat
      /\ fifo \in Seq(WordsOfCard) /\ card.sending \in Seq(WordsOfCard)
  BY <1>1, Pl181Assumption DEF IInv, Types, ReadTypes, Locals, ControllerTypes, Cards
<1>3. /\ buffer' \in Seq(Seq(WordsOfCard)) /\ Len(buffer') = Len(buffer) + 1
      /\ buffer'[Len(buffer')] = <<>>
      /\ \A k \in 1 .. Len(buffer) : buffer'[k] = buffer[k]
  BY <1>1, <1>2, EmptyWords
<1>4. HostTypes'
  BY <1>1 DEF IInv, Types, HostTypes, Stages
<1>5. ReadTypes'
  BY <1>1, <1>2, <1>3 DEF IInv, Types, ReadTypes
<1>6. ControllerTypes' /\ card' \in Cards
  BY <1>1 DEF IInv, Types, ControllerTypes
<1>7. Locals'
  BY <1>1, <1>2, <1>3 DEF IInv, Locals, Commands
<1>8. faults' = {} => BroughtUp' /\ InOrder'
  <2> SUFFICES ASSUME faults = {} PROVE BroughtUp' /\ InOrder'
    BY <1>1
  <2>1. BroughtUp /\ InOrder /\ Taken
    BY <1>1 DEF IInv, Taken
  <2>2. BroughtUp'
    BY <1>1, <2>1 DEF BroughtUp, Finds
  <2>3. Complete(Len(buffer) - 1)'
    BY <1>1, <1>2, <1>3, <2>1 DEF InOrder, Complete
  <2>4. (buffer'[Len(buffer')] \o fifo') \o card'.sending = fifo \o card.sending
    BY <1>1, <1>2, <1>3, ConcatEmptySeq
  <2>5. fifo \o card.sending = BlockWords(first' + Len(buffer') - 1)
    <3>1. first \in Int
      BY DEF IInv, Types, ReadTypes, Blocks
    <3>2. first' + Len(buffer') - 1 = Requested
      BY <1>1, <1>2, <1>3, <3>1 DEF Requested
    <3> QED
      BY <1>1, <2>1, <3>2 DEF InOrder
  <2> QED
    BY <1>1, <2>2, <2>3, <2>4, <2>5 DEF InOrder
<1> QED
  BY <1>4, <1>5, <1>6, <1>7, <1>8 DEF IInv, Types

\* A word goes from the FIFO to the end of the block in the buffer.
LEMMA DrainWordStep == ASSUME IInv, DrainWord PROVE IInv'
<1>1. /\ stage = "drain" /\ fifo # <<>> /\ fifo' = Tail(fifo)
      /\ buffer' = [buffer EXCEPT ![Len(buffer)] = Append(@, Head(fifo))]
      /\ UNCHANGED <<stage, pc, count, sdCard, first, todo, active, flags, response, answered,
                     card, faults>>
  BY DEF DrainWord
<1>2. /\ buffer \in Seq(Seq(WordsOfCard)) /\ Len(buffer) >= 1 /\ Len(buffer) <= todo
      /\ fifo \in Seq(WordsOfCard) /\ Len(fifo) <= FifoDepth /\ card.sending \in Seq(WordsOfCard)
  BY <1>1 DEF IInv, Types, ReadTypes, Locals, ControllerTypes, Cards
<1>3. buffer[Len(buffer)] \in Seq(WordsOfCard) /\ Head(fifo) \in WordsOfCard /\ Tail(fifo) \in Seq(WordsOfCard)
  BY <1>1, <1>2
<1>4. Append(buffer[Len(buffer)], Head(fifo)) \in Seq(WordsOfCard)
  BY <1>3
<1>5. /\ buffer' \in Seq(Seq(WordsOfCard)) /\ Len(buffer') = Len(buffer)
      /\ buffer'[Len(buffer)] = Append(buffer[Len(buffer)], Head(fifo))
      /\ \A k \in 1 .. Len(buffer) - 1 : buffer'[k] = buffer[k]
  BY <1>1, <1>2, <1>4
<1>6. HostTypes' /\ card' \in Cards
  BY <1>1 DEF IInv, Types, HostTypes
<1>7. ReadTypes'
  BY <1>1, <1>2, <1>5 DEF IInv, Types, ReadTypes
<1>8. ControllerTypes'
  <2>1. Len(fifo') <= FifoDepth
    BY <1>1, <1>2, Pl181Assumption
  <2> QED
    BY <1>1, <1>3, <2>1 DEF IInv, Types, ControllerTypes
<1>9. Locals'
  BY <1>1, <1>2, <1>5 DEF IInv, Locals
<1>10. faults' = {} => BroughtUp' /\ InOrder'
  <2> SUFFICES ASSUME faults = {} PROVE BroughtUp' /\ InOrder'
    BY <1>1
  <2>1. BroughtUp /\ InOrder
    BY DEF IInv
  <2>2. BroughtUp'
    BY <1>1, <2>1 DEF BroughtUp, Finds
  <2>3. Complete(Len(buffer) - 1)'
    BY <1>1, <1>2, <1>5, <2>1 DEF InOrder, Complete
  <2>4. Append(buffer[Len(buffer)], Head(fifo)) \o Tail(fifo) = buffer[Len(buffer)] \o fifo
    BY <1>1, <1>2, <1>3
  <2> QED
    BY <1>1, <1>5, <2>1, <2>2, <2>3, <2>4 DEF InOrder
<1> QED
  BY <1>6, <1>7, <1>8, <1>9, <1>10 DEF IInv, Types

\* The FIFO is empty: with nothing still to be sent the block is whole.
LEMMA DrainEndsStep == ASSUME IInv, DrainEnds PROVE IInv'
<1>1. /\ stage = "drain" /\ fifo = <<>>
      /\ stage' = IF Len(buffer) = todo THEN "ready" ELSE "cmd17"
      /\ faults' = IF card.sending # <<>> THEN faults \cup {"late"} ELSE faults
      /\ UNCHANGED <<pc, count, sdCard, first, todo, buffer, active, flags, response, answered, fifo, card>>
  BY DEF DrainEnds, controller
<1>2. /\ buffer \in Seq(Seq(WordsOfCard)) /\ Len(buffer) >= 1 /\ Len(buffer) <= todo
      /\ todo \in Nat /\ first \in Nat /\ pc = "idle" /\ ~active
  BY <1>1, Pl181Assumption DEF IInv, Types, ReadTypes, Locals, Blocks, Commands, ControllerTypes
<1>3. HostTypes' /\ ReadTypes' /\ ControllerTypes' /\ card' \in Cards
  BY <1>1 DEF IInv, Types, HostTypes, ReadTypes, ControllerTypes, Stages, Commands
<1>4. Locals'
  BY <1>1, <1>2 DEF IInv, Locals
<1>5. faults' = {} => BroughtUp' /\ InOrder'
  <2> SUFFICES ASSUME faults' = {} PROVE BroughtUp' /\ InOrder'
    OBVIOUS
  <2>1. faults = {} /\ card.sending = <<>>
    BY <1>1
  <2>2. BroughtUp /\ InOrder /\ ~Taken'
    BY <1>1, <1>2, <2>1 DEF IInv, Taken
  <2>3. BroughtUp'
    BY <1>1, <2>1, <2>2 DEF BroughtUp, Finds
  <2>4. Complete(Len(buffer))
    <3>1. buffer[Len(buffer)] \in Seq(WordsOfCard)
      BY <1>2
    <3>2. (buffer[Len(buffer)] \o fifo) \o card.sending = buffer[Len(buffer)]
      BY <1>1, <2>1, <3>1
    <3>3. Complete(Len(buffer) - 1) /\ buffer[Len(buffer)] = BlockWords(first + Len(buffer) - 1)
      BY <1>1, <2>2, <3>2 DEF InOrder
    <3>4. \A k \in 1 .. Len(buffer) : k \in 1 .. Len(buffer) - 1 \/ k = Len(buffer)
      BY <1>2
    <3> QED
      BY <3>3, <3>4 DEF Complete
  <2> QED
    BY <1>1, <2>1, <2>2, <2>3, <2>4 DEF InOrder, Complete
<1> QED
  BY <1>3, <1>4, <1>5 DEF IInv, Types

\* fat32.c or mbr.c asks for blocks of the card.
LEMMA CallReadStep ==
    ASSUME IInv, NEW b \in Blocks, NEW n \in 1 .. NumBlocks - b, CallRead(b, n)
    PROVE  IInv'
<1>1. /\ stage = "ready" /\ stage' = "cmd17" /\ first' = b /\ todo' = n /\ buffer' = <<>>
      /\ UNCHANGED <<pc, count, sdCard, active, flags, response, answered, fifo, card, faults>>
  BY DEF CallRead, controller
<1>2. pc = "idle" /\ ~active /\ buffer' \in Seq(Seq(WordsOfCard)) /\ Len(buffer') = 0
  BY <1>1, EmptySeq DEF IInv, Types, Locals, Commands, ControllerTypes
<1>3. HostTypes' /\ ControllerTypes' /\ card' \in Cards
  BY <1>1 DEF IInv, Types, HostTypes, ControllerTypes, Stages, Commands
<1>4. ReadTypes'
  BY <1>1, <1>2, Pl181Assumption DEF ReadTypes, Blocks
<1>5. Locals'
  BY <1>1, <1>2, Pl181Assumption DEF IInv, Locals, Blocks
<1>6. faults' = {} => BroughtUp' /\ InOrder'
  BY <1>1, <1>2 DEF IInv, BroughtUp, InOrder, Taken, Finds, Complete
<1> QED
  BY <1>3, <1>4, <1>5, <1>6 DEF IInv, Types

\* Every step of the driver, the controller and the card keeps the invariant.
THEOREM StepInvariant == IInv /\ [Next]_vars => IInv'
<1> SUFFICES ASSUME IInv, [Next]_vars PROVE IInv'
  OBVIOUS
<1>1. CASE Host
  BY <1>1, WriteCommandStep, CommandInactiveStep, CommandReturnsStep, AfterPlainCommandStep, AfterCmd8Step,
     AfterCmd55Step, AfterAcmd41Step, AfterCmd3Step, AfterCmd17Step, DrainWordStep, DrainEndsStep DEF Host
<1>2. CASE Controller
  BY <1>2, CommandSentStep, ResponseArrivesStep, ResponseTimesOutStep DEF Controller
<1>3. CASE CardBecomesReady
  BY <1>3, CardBecomesReadyStep
<1>4. CASE CardSends
  BY <1>4, CardSendsStep
<1>5. CASE \E b \in Blocks : \E n \in 1 .. NumBlocks - b : CallRead(b, n)
  BY <1>5, CallReadStep
<1>6. CASE UNCHANGED vars
  <2>1. Types' /\ Locals'
    BY <1>6 DEF vars, IInv, Types, HostTypes, ReadTypes, ControllerTypes, Locals
  <2>2. Taken' = Taken /\ Ocr' = Ocr /\ Requested' = Requested
    BY <1>6 DEF vars, Taken, Ocr, Requested
  <2>3. faults' = {} => BroughtUp'
    BY <1>6, <2>2 DEF vars, IInv, BroughtUp
  <2>4. faults' = {} => InOrder'
    BY <1>6, <2>2 DEF vars, IInv, InOrder, Complete
  <2> QED
    BY <2>1, <2>3, <2>4 DEF IInv
<1> QED
  BY <1>1, <1>2, <1>3, <1>4, <1>5, <1>6 DEF Next

\* The invariant holds in every reachable state.
LEMMA InvariantHolds == Spec => []IInv
  BY InitInvariant, StepInvariant, PTL DEF Spec

\* Every variable has its type; mmci_read_blocks stores no more blocks than asked.
THEOREM TypeCorrect == Spec => []TypeOK
<1>1. IInv => TypeOK
  BY TypesGive DEF IInv
<1> QED
  BY <1>1, InvariantHolds, PTL

\* mmci_send_cmd never writes the command register while a command is active, and
\* when it ends with CmdRespEnd the response is the one to the command it sent.  Of
\* commands that time out, and the response read after them, nothing is said.
THEOREM ResponsesAreCurrent == Spec => []ResponseIsCurrent
<1>1. IInv => ResponseIsCurrent
  BY DEF IInv, Locals, ResponseIsCurrent
<1> QED
  BY <1>1, InvariantHolds, PTL

\* pl181_get_block_device returns a device only for a card that is selected and
\* addressed the way it wants, when the card met every command well.
THEOREM DevicesAreSelected == Spec => []DeviceIsSelected
<1>1. IInv => DeviceIsSelected
  BY DEF IInv, Types, HostTypes, BroughtUp, DeviceIsSelected
<1> QED
  BY <1>1, InvariantHolds, PTL

\* mmci_read_blocks leaves each block asked for whole and in order in its place,
\* when nothing went wrong and no word came late.
THEOREM ReadsAreWhole == Spec => []BlocksAreRead
<1>1. IInv => BlocksAreRead
  <2> SUFFICES ASSUME IInv, stage = "ready", faults = {}
               PROVE  buffer = [k \in 1 .. todo |-> BlockWords(first + k - 1)]
    BY DEF BlocksAreRead
  <2>1. buffer \in Seq(Seq(WordsOfCard)) /\ Len(buffer) = todo /\ Complete(todo)
    BY DEF IInv, Types, ReadTypes, InOrder
  <2> QED
    BY <2>1 DEF Complete
<1> QED
  BY <1>1, InvariantHolds, PTL
=============================================================================
