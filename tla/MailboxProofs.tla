--------------------------- MODULE MailboxProofs ---------------------------
(***************************************************************************)
(* Safety of the mailbox, for every number of messages, with and without   *)
(* the receiver's interrupt: both words of a message match, every message  *)
(* posted is in one place, and the device with its driver is a channel.    *)
(***************************************************************************)
EXTENDS Mailbox, SequenceTheorems, TLAPS

\* The sender writes into an empty mailbox only, and the message it is sending has
\* not been refused.
SenderInv ==
  /\ sender \in {"pointer", "command"} => ~full
  /\ sender = "command" => pointer = sends
  /\ sender # "idle" => sends \in Messages \ refused
  /\ refused \subseteq 1 .. sends

\* The receiver reads a full mailbox whose interrupt is masked; a mask that is set
\* again later is one that was set before.
ReceiverInv ==
  /\ receiver \in {"pointer", "command"} => full
  /\ receiver \in {"boot", "poll", "pointer", "command", "restore"} => ~penMask
  /\ penMask \/ savedMask => rxIsr

\* While a message is in the mailbox both its words are there, and the receiver has
\* moved the one it has read.
WordsInv ==
  /\ full => command \in Messages /\ pointer = command
  /\ receiver = "command" => message[2] = pointer
  /\ receiver \in {"boot", "restore", "handle", "call"} => message[1] = message[2]

IInv == TypeOK /\ SenderInv /\ ReceiverInv /\ WordsInv /\ AccountedFor

Returned == {delivered[i] : i \in 1 .. Len(delivered)}
Held == IF full THEN {command} ELSE {}

\* AccountedFor by its parts.
Apart ==
  /\ Posted = Returned \cup Held \cup discarded
  /\ Returned \cap Held = {} /\ Returned \cap discarded = {} /\ Held \cap discarded = {}

LEMMA Accounts == (AccountedFor <=> Apart) /\ (AccountedFor' <=> Apart')
BY DEF AccountedFor, Apart, Returned, Held

LEMMA InitIInv == Init => IInv
<1> SUFFICES ASSUME Init PROVE IInv
  OBVIOUS
<1> USE MailboxAssumption DEF Init
<1>1. TypeOK
  <2>1. delivered \in Seq(Messages)
    OBVIOUS
  <2>2. message \in (Messages \cup {Empty}) \X (Messages \cup {Empty})
    OBVIOUS
  <2>3. sends \in 0 .. MaxMessages
    OBVIOUS
  <2> QED BY <2>1, <2>2, <2>3 DEF TypeOK
<1>2. SenderInv /\ ReceiverInv /\ WordsInv
  BY DEF SenderInv, ReceiverInv, WordsInv, Empty
<1>3. AccountedFor
  <2>1. Posted = {} /\ Returned = {} /\ Held = {}
    BY DEF Posted, Returned, Held
  <2> QED BY <2>1, Accounts DEF Apart
<1> QED BY <1>1, <1>2, <1>3 DEF IInv

\* The steps that neither move a message nor count one.
LEMMA AccountsUnchanged ==
  ASSUME AccountedFor, UNCHANGED <<command, full, delivered, discarded, Posted>>
  PROVE  AccountedFor'
BY DEF AccountedFor

\* A message handed over is one more returned.
LEMMA ReturnedGrows ==
  ASSUME TypeOK, NEW m \in Messages, delivered' = Append(delivered, m)
  PROVE  Returned' = Returned \cup {m} /\ delivered' \in Seq(Messages)
<1>1. delivered \in Seq(Messages)
  BY DEF TypeOK
<1>2. /\ delivered' \in Seq(Messages) /\ Len(delivered') = Len(delivered) + 1
      /\ \A i \in 1 .. Len(delivered) : delivered'[i] = delivered[i]
      /\ delivered'[Len(delivered) + 1] = m
  BY <1>1, AppendProperties
<1>3. Len(delivered) \in Nat
  BY <1>1, LenProperties
<1>4. 1 .. Len(delivered') = (1 .. Len(delivered)) \cup {Len(delivered) + 1}
  BY <1>2, <1>3
<1>5. Returned' = {delivered'[i] : i \in 1 .. Len(delivered')}
  BY DEF Returned
<1>6. Returned' = {delivered'[i] : i \in 1 .. Len(delivered)} \cup {m}
  BY <1>2, <1>4, <1>5
<1> QED BY <1>2, <1>6 DEF Returned

-----------------------------------------------------------------------------
(* The steps of the sender.                                                *)

\* A call of send changes neither the mailbox nor what has been posted.
LEMMA CallStep == ASSUME IInv, SendRefused \/ SendBegin PROVE IInv'
<1> USE MailboxAssumption DEF SendRefused, SendBegin, IInv
<1>1. /\ sender = "idle" /\ sends \in Nat /\ sends < MaxMessages /\ sends' = sends + 1
      /\ refused \subseteq 1 .. sends
      /\ UNCHANGED <<deviceVars, penMask, receiverVars, discarded>>
  BY DEF TypeOK, SenderInv
<1>2. sends' \in Messages /\ sends' \notin refused /\ sends' \in 0 .. MaxMessages
  BY <1>1 DEF Messages
<1>3. TypeOK'
  <2>1. refused' \subseteq Messages /\ sender' \in {"idle", "poll"}
    BY <1>1, <1>2 DEF TypeOK
  <2> QED BY <1>1, <1>2, <2>1 DEF TypeOK, deviceVars, receiverVars
<1>4. SenderInv' /\ ReceiverInv' /\ WordsInv'
  <2>1. refused' \subseteq 1 .. sends'
    <3>1. 1 .. sends' = (1 .. sends) \cup {sends + 1}
      BY <1>1
    <3>2. refused' = refused \/ refused' = refused \cup {sends + 1}
      OBVIOUS
    <3> QED BY <1>1, <3>1, <3>2
  <2>2. SenderInv'
    BY <1>1, <1>2, <2>1 DEF SenderInv
  <2> QED BY <1>1, <2>2 DEF ReceiverInv, WordsInv, deviceVars, receiverVars
<1>5. Posted' = Posted
  BY <1>1, <1>2 DEF Posted
<1>6. AccountedFor'
  BY <1>1, <1>5, AccountsUnchanged DEF deviceVars, receiverVars
<1> QED BY <1>3, <1>4, <1>6

LEMMA PollStep == ASSUME IInv, SendPoll \/ PostPointer PROVE IInv'
<1> USE DEF SendPoll, PostPointer, IInv
<1>1. /\ sender # "idle" /\ sends \in Messages /\ ~full
      /\ UNCHANGED <<command, full, penMask, sends, refused, receiverVars, discarded>>
  BY DEF SenderInv, deviceVars
<1>2. TypeOK'
  BY <1>1 DEF TypeOK, deviceVars, receiverVars
<1>3. SenderInv' /\ ReceiverInv'
  BY <1>1 DEF SenderInv, ReceiverInv, deviceVars, receiverVars
<1>4. WordsInv'
  BY <1>1 DEF WordsInv, ReceiverInv, deviceVars, receiverVars
<1>5. Posted' = Posted
  BY <1>1 DEF Posted
<1>6. AccountedFor'
  BY <1>1, <1>5, AccountsUnchanged DEF receiverVars
<1> QED BY <1>2, <1>3, <1>4, <1>6

\* With the command word the message is posted, and it was nowhere before.
LEMMA PostStep == ASSUME IInv, PostCommand PROVE IInv'
<1> USE DEF PostCommand, IInv
<1>1. /\ sender = "command" /\ pointer = sends /\ sends \in Messages \ refused /\ ~full
      /\ command' = sends /\ full' = TRUE /\ sender' = "idle"
      /\ UNCHANGED <<pointer, penMask, sends, refused, receiverVars, discarded>>
  BY DEF SenderInv
<1>2. TypeOK' /\ SenderInv' /\ ReceiverInv'
  BY <1>1 DEF TypeOK, SenderInv, ReceiverInv, receiverVars
<1>3. WordsInv'
  BY <1>1 DEF WordsInv, ReceiverInv, receiverVars
<1>4. AccountedFor'
  <2>1. sends \in 1 .. sends
    BY <1>1 DEF Messages
  <2>2. sends \notin Posted /\ Posted' = Posted \cup {sends}
    BY <1>1, <2>1 DEF Posted
  <2>3. Held = {} /\ Held' = {sends} /\ Returned' = Returned
    BY <1>1 DEF Held, Returned, receiverVars
  <2>4. Posted = Returned \cup discarded /\ Returned \cap discarded = {}
    BY <2>3, Accounts DEF Apart
  <2> QED BY <1>1, <2>2, <2>3, <2>4, Accounts DEF Apart
<1> QED BY <1>2, <1>3, <1>4

-----------------------------------------------------------------------------
(* The steps of the receiver.                                              *)

\* The steps that change the mask or the caller's copy only.
LEMMA QuietReceiverStep ==
  ASSUME IInv, Open \/ RetrieveBegin \/ RetrievePoll \/ ReadPointer \/ RetrieveEnd \/ Handle
  PROVE  IInv'
<1> USE DEF Open, RetrieveBegin, RetrievePoll, ReadPointer, RetrieveEnd, Handle, IInv
<1>1. UNCHANGED <<deviceVars, senderVars, delivered, rxIsr, discarded>>
  OBVIOUS
<1>2. message' \in (Messages \cup {Empty}) \X (Messages \cup {Empty})
  BY DEF TypeOK
<1>3. TypeOK'
  <2>1. penMask' \in BOOLEAN /\ savedMask' \in BOOLEAN
    BY MailboxAssumption DEF TypeOK, ReceiverInv
  <2>2. receiver' \in {"call", "poll", "pointer", "command", "handle"}
    OBVIOUS
  <2> QED BY <1>1, <1>2, <2>1, <2>2 DEF TypeOK, deviceVars, senderVars
<1>4. SenderInv' /\ ReceiverInv'
  BY <1>1 DEF TypeOK, SenderInv, ReceiverInv, deviceVars, senderVars
<1>5. WordsInv'
  BY <1>1 DEF TypeOK, WordsInv, deviceVars
<1>6. AccountedFor'
  BY <1>1, AccountsUnchanged DEF Posted, deviceVars, senderVars
<1> QED BY <1>3, <1>4, <1>5, <1>6

LEMMA ReadCommandStep == ASSUME IInv, ReadCommand PROVE IInv'
<1> USE DEF ReadCommand, IInv
<1>1. /\ full /\ command \in Messages /\ message[2] = command
      /\ UNCHANGED <<command, pointer, penMask, senderVars, savedMask, rxIsr, discarded>>
  BY DEF ReceiverInv, WordsInv
<1>2. message' = <<command, message[2]>>
  BY DEF TypeOK
<1>3. Returned' = Returned \cup {command} /\ delivered' \in Seq(Messages)
  BY <1>1, ReturnedGrows
<1>4. TypeOK'
  <2>1. message' \in (Messages \cup {Empty}) \X (Messages \cup {Empty})
    BY <1>1, <1>2
  <2> QED BY <1>1, <1>3, <2>1 DEF TypeOK, senderVars
<1>5. SenderInv' /\ ReceiverInv' /\ WordsInv'
  BY <1>1, <1>2 DEF SenderInv, ReceiverInv, WordsInv, senderVars
<1>6. AccountedFor'
  <2>1. Held = {command} /\ Held' = {} /\ Posted' = Posted
    BY <1>1 DEF Held, Posted, senderVars
  <2> QED BY <1>1, <1>3, <2>1, Accounts DEF Apart
<1> QED BY <1>4, <1>5, <1>6

LEMMA RxInterruptStep == ASSUME IInv, RxInterrupt PROVE IInv'
<1> USE DEF RxInterrupt, IInv
<1>1. /\ full /\ command \in Messages /\ penMask /\ discarded' = discarded \cup {command}
      /\ UNCHANGED <<command, pointer, penMask, senderVars, receiverVars>>
  BY DEF WordsInv
<1>2. TypeOK'
  BY <1>1 DEF TypeOK, senderVars, receiverVars
<1>3. SenderInv' /\ ReceiverInv' /\ WordsInv'
  BY <1>1 DEF SenderInv, ReceiverInv, WordsInv, senderVars, receiverVars
<1>4. AccountedFor'
  <2>1. Held = {command} /\ Held' = {} /\ Posted' = Posted /\ Returned' = Returned
    BY <1>1 DEF Held, Posted, Returned, senderVars, receiverVars
  <2> QED BY <1>1, <2>1, Accounts DEF Apart
<1> QED BY <1>2, <1>3, <1>4

LEMMA StepIInv == IInv /\ [Next]_vars => IInv'
<1> SUFFICES ASSUME IInv, [Next]_vars PROVE IInv'
  OBVIOUS
<1>1. CASE Send
  BY <1>1, CallStep, PollStep, PostStep DEF Send
<1>2. CASE Open \/ Retrieve \/ Handle
  BY <1>2, QuietReceiverStep, ReadCommandStep DEF Retrieve
<1>3. CASE RxInterrupt
  BY <1>3, RxInterruptStep
<1>4. CASE UNCHANGED vars
  BY <1>4 DEF vars, deviceVars, senderVars, receiverVars, IInv, TypeOK, SenderInv,
              ReceiverInv, WordsInv, AccountedFor, Posted
<1> QED BY <1>1, <1>2, <1>3, <1>4 DEF Next

-----------------------------------------------------------------------------

\* The inductive invariant of device and driver: who may write, who may read, and
\* whether the interrupt may come between.
THEOREM Inductive == Spec => []IInv
BY InitIInv, StepIInv, PTL DEF Spec

\* The types of the registers and of the two sides.
THEOREM Typing == Spec => []TypeOK
<1>1. IInv => TypeOK
  BY DEF IInv
<1> QED BY <1>1, Inductive, PTL

\* retrieve_poll hands its caller two words of the same message.
THEOREM MessageIsWhole == Spec => []WordsMatch
<1>1. IInv => WordsMatch
  BY DEF IInv, WordsInv, WordsMatch
<1> QED BY <1>1, Inductive, PTL

\* Every posted message is in the mailbox, returned or read by the interrupt routine,
\* and in one of these places only.
THEOREM NoneUnaccounted == Spec => []AccountedFor
<1>1. IInv => AccountedFor
  BY DEF IInv
<1> QED BY <1>1, Inductive, PTL

-----------------------------------------------------------------------------
(* The mailbox implements the channel.                                     *)

LEMMA ChannelInit == Init => Channel!Init
BY MailboxAssumption DEF Init, Channel!Init

LEMMA ChannelStep == IInv /\ [Next]_vars => [Channel!Next]_(Channel!channelVars)
<1> SUFFICES ASSUME IInv, [Next]_vars PROVE [Channel!Next]_(Channel!channelVars)
  OBVIOUS
<1>1. CASE PostCommand
  <2>1. Channel!Post(sends) /\ sends \in Messages
    BY <1>1 DEF PostCommand, receiverVars, IInv, SenderInv, Channel!Post
  <2> QED BY <2>1 DEF Channel!Next
<1>2. CASE ReadCommand
  <2>1. Channel!Take
    BY <1>2 DEF ReadCommand, IInv, ReceiverInv, WordsInv, Messages, Empty, Channel!Take
  <2> QED BY <2>1 DEF Channel!Next
<1>3. CASE RxInterrupt
  <2>1. Channel!Lose
    BY <1>3 DEF RxInterrupt, receiverVars, IInv, ReceiverInv, WordsInv, Messages, Empty,
                Channel!Lose
  <2> QED BY <2>1 DEF Channel!Next
<1>4. CASE SendRefused \/ SendBegin \/ SendPoll
  BY <1>4 DEF SendRefused, SendBegin, SendPoll, deviceVars, receiverVars, Channel!channelVars
<1>5. CASE PostPointer
  BY <1>5 DEF PostPointer, receiverVars, Channel!channelVars
<1>6. CASE Open \/ RetrieveBegin \/ RetrievePoll \/ ReadPointer \/ RetrieveEnd \/ Handle
  BY <1>6 DEF Open, RetrieveBegin, RetrievePoll, ReadPointer, RetrieveEnd, Handle,
              deviceVars, Channel!channelVars
<1>7. CASE UNCHANGED vars
  BY <1>7 DEF vars, deviceVars, receiverVars, Channel!channelVars
<1> QED BY <1>1, <1>2, <1>3, <1>4, <1>5, <1>6, <1>7 DEF Next, Send, Retrieve

\* Device and driver implement MessageChannel: a message is handed over once, whole and
\* in order, and none is lost unless the receiver has its interrupt.  (That a message is
\* taken in the end is left to the model checker.)
THEOREM ImplementsChannel ==
  Spec => Channel!Init /\ [][Channel!Next]_(Channel!channelVars)
BY ChannelInit, ChannelStep, Inductive, PTL DEF Spec
=============================================================================
