----------------------------- MODULE UrgentQueue -----------------------------
(***************************************************************************)
(* What a message queue promises: a bounded queue with two ends to put     *)
(* messages in, the back for ordinary and the front for urgent ones, and   *)
(* one to take them out, in order and each once.  A receiver takes its     *)
(* message off the queue first and gets to see it some time later.         *)
(***************************************************************************)
EXTENDS Naturals, Sequences

CONSTANTS
    Threads,
    Msgs,       \* the messages
    Urgent,     \* the urgent ones among them
    NoMsg,      \* no message
    Size        \* how many the queue holds

VARIABLES
    queue,      \* the messages, the next to be received first
    taken,      \* the message each receiver has taken off and not seen yet
    last        \* the message seen last

queueVars == <<queue, taken, last>>

QueueInit ==
    /\ queue = <<>>
    /\ taken = [t \in Threads |-> NoMsg]
    /\ last = NoMsg

Put(v) ==
    /\ Len(queue) < Size
    /\ queue' = IF v \in Urgent THEN <<v>> \o queue ELSE Append(queue, v)
    /\ UNCHANGED <<taken, last>>

Take(t) ==
    /\ taken[t] = NoMsg /\ queue # <<>>
    /\ taken' = [taken EXCEPT ![t] = Head(queue)]
    /\ queue' = Tail(queue)
    /\ UNCHANGED last

See(t) ==
    /\ taken[t] # NoMsg
    /\ last' = taken[t]
    /\ taken' = [taken EXCEPT ![t] = NoMsg]
    /\ UNCHANGED queue

\* Both at once, in an interrupt handler.
TakeAndSee ==
    /\ queue # <<>>
    /\ last' = Head(queue)
    /\ queue' = Tail(queue)
    /\ UNCHANGED taken

Clear ==
    /\ queue' = <<>>
    /\ UNCHANGED <<taken, last>>

QueueNext ==
    \/ \E v \in Msgs : Put(v)
    \/ \E t \in Threads : Take(t) \/ See(t)
    \/ TakeAndSee
    \/ Clear

QueueSpec == QueueInit /\ [][QueueNext]_queueVars
=============================================================================
