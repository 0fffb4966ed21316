------------------------------- MODULE MailFifo -------------------------------
(***************************************************************************)
(* What a mailbox promises: a bounded queue that hands out values in the   *)
(* order they were put in, each once, and can be emptied.  Calls that      *)
(* wait, time out or fail do not show here.                                *)
(***************************************************************************)
EXTENDS Naturals, Sequences

CONSTANTS
    Mails,      \* the values sent
    Size,       \* how many the mailbox holds
    NoMail

VARIABLES
    box,        \* the values in the mailbox, oldest first
    last        \* the value handed out last

fifoVars == <<box, last>>

FifoInit == box = <<>> /\ last = NoMail

Put(v) ==
    /\ Len(box) < Size
    /\ box' = Append(box, v)
    /\ UNCHANGED last

Get ==
    /\ box # <<>>
    /\ last' = Head(box)
    /\ box' = Tail(box)

Clear ==
    /\ box' = <<>>
    /\ UNCHANGED last

FifoNext == (\E v \in Mails : Put(v)) \/ Get \/ Clear

FifoSpec == FifoInit /\ [][FifoNext]_fifoVars
=============================================================================
