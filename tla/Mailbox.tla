------------------------------ MODULE Mailbox ------------------------------
(***************************************************************************)
(* One altera_avalon_mailbox device and the driver on both of its sides:   *)
(* the sending CPU calls altera_avalon_mailbox_send and ignores its status *)
(* (as mjpeg423_decode and the workers do), the receiving CPU opens its    *)
(* side and then calls altera_avalon_mailbox_retrieve_poll in a loop, with *)
(* a handler between two calls.  The sending side never has its interrupt  *)
(* connected, so send always polls.  On the receiving side the two cases   *)
(* of this system are rxIsr = FALSE (the main CPU opens its mailboxes with *)
(* no callback) and rxIsr = TRUE (the workers pass rx_cb, which makes      *)
(* altera_avalon_mailbox_open register rx_isr and enable its interrupt).   *)
(***************************************************************************)
EXTENDS Integers, Sequences

CONSTANTS
  MaxMessages,  \* bound: calls of altera_avalon_mailbox_send
  Callbacks     \* the cases of rxIsr to consider

ASSUME MailboxAssumption == MaxMessages \in Nat /\ Callbacks \subseteq BOOLEAN

Empty == 0
Messages == 1 .. MaxMessages   \* a message is its number; both words carry it

VARIABLES
  command,    \* command_reg
  pointer,    \* pointer_reg
  full,       \* status_reg: full and pending are the same bit
  penMask,    \* mask_reg[RCV_INT_BIT]
  sender,     \* the sending CPU: "idle", "poll", "pointer", "command"
  sends,      \* calls of send so far; the current message
  refused,    \* history: messages send returned -1 for
  receiver,   \* the receiving CPU: "boot", "call", "poll", "pointer",
              \* "command", "restore", "handle"
  savedMask,  \* data in retrieve_poll
  rxIsr,      \* the receiver registered a callback and its IRQ is connected
  message,    \* the caller's message array, <<command, pointer>>
  delivered,  \* history: messages retrieve_poll returned
  discarded   \* history: messages rx_isr read

deviceVars == <<command, pointer, full>>
senderVars == <<sender, sends, refused>>
receiverVars == <<receiver, savedMask, message, delivered, rxIsr>>
vars == <<deviceVars, penMask, senderVars, receiverVars, discarded>>

Init ==
  /\ command = Empty /\ pointer = Empty /\ full = FALSE /\ penMask = FALSE
  /\ sender = "idle" /\ sends = 0 /\ refused = {}
  /\ receiver = "boot" /\ savedMask = FALSE /\ rxIsr \in Callbacks
  /\ message = <<Empty, Empty>>
  /\ delivered = << >> /\ discarded = {}

-----------------------------------------------------------------------------
(* altera_avalon_mailbox_send                                              *)

\* A full mailbox refuses the message and the caller drops it.  The lock is
\* always free here: the only thread of the CPU releases it before returning.
SendRefused ==
  /\ sender = "idle" /\ sends < MaxMessages
  /\ full
  /\ sends' = sends + 1
  /\ refused' = refused \cup {sends + 1}
  /\ UNCHANGED <<deviceVars, penMask, sender, receiverVars, discarded>>

SendBegin ==
  /\ sender = "idle" /\ sends < MaxMessages
  /\ ~full
  /\ sends' = sends + 1
  /\ sender' = "poll"
  /\ UNCHANGED <<deviceVars, penMask, refused, receiverVars, discarded>>

SendPoll ==
  /\ sender = "poll" /\ ~full
  /\ sender' = "pointer"
  /\ UNCHANGED <<deviceVars, penMask, sends, refused, receiverVars, discarded>>

\* altera_avalon_mailbox_post: the pointer word, then the command word, whose
\* write sets the full bit.
PostPointer ==
  /\ sender = "pointer"
  /\ pointer' = sends
  /\ sender' = "command"
  /\ UNCHANGED <<command, full, penMask, sends, refused, receiverVars, discarded>>

PostCommand ==
  /\ sender = "command"
  /\ command' = sends
  /\ full' = TRUE
  /\ sender' = "idle"
  /\ UNCHANGED <<pointer, penMask, sends, refused, receiverVars, discarded>>

-----------------------------------------------------------------------------
(* The receiving CPU                                                       *)

\* altera_avalon_mailbox_open: mask the interrupt and, with a callback and a
\* connected IRQ, register rx_isr and enable it.
Open ==
  /\ receiver = "boot"
  /\ penMask' = rxIsr
  /\ receiver' = "call"
  /\ UNCHANGED <<deviceVars, senderVars, savedMask, message, delivered, rxIsr,
                 discarded>>

\* Mutant of RetrieveBegin: the interrupt is left as it is.
RetrieveBeginUnmasked ==
  /\ receiver = "call"
  /\ savedMask' = penMask
  /\ receiver' = "poll"
  /\ UNCHANGED <<deviceVars, penMask, senderVars, message, delivered, rxIsr, discarded>>

\* altera_avalon_mailbox_retrieve_poll masks the interrupt for its own duration.
RetrieveBegin ==
  /\ receiver = "call"
  /\ savedMask' = penMask
  /\ penMask' = FALSE
  /\ receiver' = "poll"
  /\ UNCHANGED <<deviceVars, senderVars, message, delivered, rxIsr, discarded>>

RetrievePoll ==
  /\ receiver = "poll" /\ full
  /\ receiver' = "pointer"
  /\ UNCHANGED <<deviceVars, penMask, senderVars, savedMask, message, delivered,
                 rxIsr, discarded>>

\* Mutant of ReadPointer: the read of the pointer word clears the full bit.
ReadPointerClears ==
  /\ receiver = "pointer"
  /\ message' = [message EXCEPT ![2] = pointer]
  /\ full' = FALSE
  /\ receiver' = "command"
  /\ UNCHANGED <<command, pointer, penMask, senderVars, savedMask, delivered,
                 rxIsr, discarded>>

ReadPointer ==
  /\ receiver = "pointer"
  /\ message' = [message EXCEPT ![2] = pointer]
  /\ receiver' = "command"
  /\ UNCHANGED <<deviceVars, penMask, senderVars, savedMask, delivered, rxIsr,
                 discarded>>

\* The read of the command word clears the full bit.
ReadCommand ==
  /\ receiver = "command"
  /\ message' = [message EXCEPT ![1] = command]
  /\ full' = FALSE
  /\ delivered' = Append(delivered, command)
  /\ receiver' = "restore"
  /\ UNCHANGED <<command, pointer, penMask, senderVars, savedMask, rxIsr, discarded>>

\* Mutant of RetrieveEnd: the interrupt is enabled whatever it was.
RetrieveEndEnabled ==
  /\ receiver = "restore"
  /\ penMask' = TRUE
  /\ receiver' = "handle"
  /\ UNCHANGED <<deviceVars, senderVars, savedMask, message, delivered, rxIsr,
                 discarded>>

RetrieveEnd ==
  /\ receiver = "restore"
  /\ penMask' = savedMask
  /\ receiver' = "handle"
  /\ UNCHANGED <<deviceVars, senderVars, savedMask, message, delivered, rxIsr,
                 discarded>>

\* The caller's work on the message, between two calls.
Handle ==
  /\ receiver = "handle"
  /\ receiver' = "call"
  /\ UNCHANGED <<deviceVars, penMask, senderVars, savedMask, message, delivered,
                 rxIsr, discarded>>

\* altera_avalon_mailbox_simple_rx_isr: reads both words, which empties the
\* mailbox, and passes them to rx_cb, which only prints them.
RxInterrupt ==
  /\ full /\ penMask
  /\ full' = FALSE
  /\ discarded' = discarded \cup {command}
  /\ UNCHANGED <<command, pointer, penMask, senderVars, receiverVars>>

Send == SendRefused \/ SendBegin \/ SendPoll \/ PostPointer \/ PostCommand
Retrieve == RetrieveBegin \/ RetrievePoll \/ ReadPointer \/ ReadCommand \/ RetrieveEnd

Next == Send \/ Open \/ Retrieve \/ Handle \/ RxInterrupt

Spec == Init /\ [][Next]_vars

\* Both CPUs keep running; the sender need not make another call.
FairSpec ==
  /\ Spec
  /\ WF_vars(SendPoll \/ PostPointer \/ PostCommand)
  /\ WF_vars(Open \/ Retrieve \/ Handle)
  /\ WF_vars(RxInterrupt)

-----------------------------------------------------------------------------
(* Properties.                                                             *)

TypeOK ==
  /\ command \in Messages \cup {Empty} /\ pointer \in Messages \cup {Empty}
  /\ {full, penMask, savedMask, rxIsr} \subseteq BOOLEAN
  /\ sender \in {"idle", "poll", "pointer", "command"}
  /\ sends \in 0 .. MaxMessages /\ refused \subseteq Messages
  /\ receiver \in {"boot", "call", "poll", "pointer", "command", "restore", "handle"}
  /\ message \in (Messages \cup {Empty}) \X (Messages \cup {Empty})
  /\ delivered \in Seq(Messages) /\ discarded \subseteq Messages

\* The two words a caller of retrieve_poll works on belong to the same message,
\* although each side moves them one register at a time.
WordsMatch == receiver \in {"restore", "handle", "call"} => message[1] = message[2]

\* Messages posted: neither refused nor still on their way through send.
Posted == (1 .. sends) \ (refused \cup IF sender = "idle" THEN {} ELSE {sends})

\* Every posted message is in the mailbox, was returned by retrieve_poll or was
\* read by the interrupt routine, and by one of them only.
AccountedFor ==
  LET returned == {delivered[i] : i \in 1 .. Len(delivered)}
      held     == IF full THEN {command} ELSE {}
  IN  /\ Posted = returned \cup held \cup discarded
      /\ returned \cap held = {} /\ returned \cap discarded = {}
      /\ held \cap discarded = {}

\* The device and its driver are a channel, and a lossy one only if the receiver
\* registered a callback.
Channel == INSTANCE MessageChannel
  WITH channel <- IF full THEN command ELSE Empty, lossy <- rxIsr
ChannelImplemented == Channel!Spec

\* A worker receives the commands sent to it: what was posted is handed to its
\* main loop.
EveryPostedIsReturned ==
  \A m \in Messages :
    (m \in Posted) ~> (\E i \in 1 .. Len(delivered) : delivered[i] = m)
=============================================================================
