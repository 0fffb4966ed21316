--------------------------------- MODULE RtMq ---------------------------------
(***************************************************************************)
(* A message queue of RT-Thread (src/ipc.c, RT_USING_MESSAGEQUEUE): nodes  *)
(* of a pool, linked in a queue or in a free list, with one list of        *)
(* waiting receivers and one of waiting senders.                           *)
(*                                                                         *)
(* A call has two critical sections: it takes a node off one list, copies  *)
(* the message with interrupts enabled, and links the node into the other  *)
(* list.  In between the node is in nobody's list, only in the caller's    *)
(* hand.  A thread woken from a wait holds nothing and looks again.        *)
(*                                                                         *)
(* Message bytes are abstracted to the message; the bytes of a free node,  *)
(* which nobody may read, to NoMsg.  The refusal of a message longer than  *)
(* msg_size, which touches nothing, is left out.                           *)
(***************************************************************************)
EXTENDS RtKernel

CONSTANTS
    Msgs,       \* the messages
    Urgent,     \* those sent with rt_mq_urgent
    NoMsg,      \* no message
    Size,       \* mq->max_msgs
    Destroys    \* whether rt_mq_detach and rt_mq_delete are called

ASSUME MqAssumption ==
    /\ NoMsg \notin Msgs /\ Urgent \subseteq Msgs
    /\ Size \in Nat \ {0}
    /\ Destroys \in BOOLEAN

VARIABLES
    mq,         \* head, tail, free, entry; next and data of each node
    wait,       \* "recv": parent.suspend_thread, "send": suspend_sender_thread
    alive,      \* the object is initialised
    call,       \* the arguments of a thread's unfinished call
    hand,       \* the node a thread has between its critical sections
    last        \* history: the message received last

objVars == <<mq, wait, alive, call, hand, last>>
vars == <<k, pc, objVars>>

Nodes == 1 .. Size
Null == 0

Dirs == {"recv", "send"}
Other(d) == IF d = "recv" THEN "send" ELSE "recv"

NoCall == [d |-> "recv", v |-> NoMsg, mode |-> "now"]

\* The pool of a new queue: every node in the free list, the last one first.
EmptyQueue == [head |-> Null, tail |-> Null, free |-> Size, entry |-> 0,
               next |-> [n \in Nodes |-> n - 1], data |-> [n \in Nodes |-> NoMsg]]

\* s is the list of the nodes from h on: the last one leads nowhere.
Lists(q, h, s) ==
    /\ h = IF s = <<>> THEN Null ELSE s[1]
    /\ \A i \in DOMAIN s : q.next[s[i]] = IF i = Len(s) THEN Null ELSE s[i + 1]

Chain(q, h) == CHOOSE s \in BoundedSeq(Nodes, Size) : Lists(q, h, s)

\* Resumed and not yet back at the loop test of its call.
InFlight(d) == {t \in Threads : /\ pc[t] \in {"block", "ret"}
                                /\ call[t].d = d
                                /\ t \notin Range(wait[d])
                                /\ k.error[t] = "EOK"}

Destroying == \E t \in Threads : pc[t] \in {"detach", "pick"}

\* Callers use the queue while it exists and nobody is destroying it.
Usable == alive /\ ~Destroying /\ ~Asserted

Init ==
    /\ KernelInit
    /\ mq = EmptyQueue
    /\ wait = [d \in Dirs |-> <<>>]
    /\ alive = TRUE
    /\ call = [t \in Threads |-> NoCall]
    /\ hand = [t \in Threads |-> Null]
    /\ last = NoMsg

-----------------------------------------------------------------------------
\* The node lists, from a queue to the next.

\* Mutant: leaves the tail at the node that was the last.
PopHead_KeepsTail(q) == [q EXCEPT !.head = q.next[@], !.entry = @ - 1]

\* A receiver takes the first message off the queue.
PopHead(q) ==
    [q EXCEPT !.head = q.next[@], !.tail = IF @ = q.head THEN Null ELSE @, !.entry = @ - 1]

\* A sender takes a node off the free list.
PopFree(q) == [q EXCEPT !.free = q.next[@]]

PushFree(q, n) == [q EXCEPT !.next[n] = q.free, !.free = n, !.data[n] = NoMsg]

\* A reset moves one node after the other from the queue to the free list.
ReleaseAll(q) ==
    LET turns == Len(Chain(q, q.head))
        after[i \in 0 .. turns] ==
            IF i = 0 THEN q ELSE PushFree(PopHead(after[i - 1]), after[i - 1].head)
    IN  [after[turns] EXCEPT !.entry = 0]

\* An ordinary message goes to the tail.
PushTail(q, n, v) ==
    LET filled == [q EXCEPT !.next[n] = Null, !.data[n] = v]
        linked == IF q.tail # Null THEN [filled EXCEPT !.next[q.tail] = n] ELSE filled
    IN  [linked EXCEPT !.tail = n, !.head = IF @ = Null THEN n ELSE @, !.entry = @ + 1]

\* Mutant: an urgent message takes its turn.
PushHead_AtTail(q, n, v) == PushTail(q, n, v)

\* An urgent message goes to the head.
PushHead(q, n, v) ==
    [q EXCEPT !.next[n] = q.head, !.data[n] = v, !.head = n,
              !.tail = IF @ = Null THEN n ELSE @, !.entry = @ + 1]

\* The node a call takes, the queue without it, and the queue once the call has
\* linked it where it belongs.
Grab(q, d) == IF d = "recv" THEN q.head ELSE q.free
Grabbed(q, d) == IF d = "recv" THEN PopHead(q) ELSE PopFree(q)
Returned(q, d, n, v) ==
    IF d = "recv" THEN PushFree(q, n)
    ELSE IF v \in Urgent THEN PushHead(q, n, v) ELSE PushTail(q, n, v)

\* The message a receiver copies out of node n.
Seen(d, n) == IF d = "recv" THEN mq.data[n] ELSE last

-----------------------------------------------------------------------------
CanGo(d) == IF d = "recv" THEN mq.entry # 0 ELSE mq.free # Null

\* The ways a thread leaves the first critical section of its call, which it
\* enters from outside or after a wait.
CallGoes(t, d, v) ==
    /\ CanGo(d)
    /\ mq' = Grabbed(mq, d)
    /\ hand' = [hand EXCEPT ![t] = Grab(mq, d)]
    /\ call' = [call EXCEPT ![t] = [d |-> d, v |-> v, mode |-> "now"]]
    /\ pc' = [pc EXCEPT ![t] = "hold"]
    /\ UNCHANGED <<k, wait, alive, last>>

CallWaits(t, d, v, mode) ==
    /\ ~CanGo(d) /\ mode # "now"
    /\ k' = Block(k, t, mode)
    /\ wait' = [wait EXCEPT ![d] = WaitInsert(k, @, t)]
    /\ pc' = [pc EXCEPT ![t] = "block"]
    /\ call' = [call EXCEPT ![t] = [d |-> d, v |-> v, mode |-> mode]]
    /\ UNCHANGED <<mq, alive, hand, last>>

\* A call that never waited leaves thread->error alone.
CallFails(t, d, mode) ==
    /\ ~CanGo(d) /\ mode = "now"
    /\ k' = IF pc[t] = "ret"
            THEN [k EXCEPT !.error[t] = IF d = "recv" THEN "ETIMEOUT" ELSE "EOK"]
            ELSE k
    /\ pc' = [pc EXCEPT ![t] = "user"]
    /\ call' = [call EXCEPT ![t] = NoCall]
    /\ UNCHANGED <<mq, wait, alive, hand, last>>

Section(t, d, v, mode) ==
    CallGoes(t, d, v) \/ CallWaits(t, d, v, mode) \/ CallFails(t, d, mode)

rt_mq_send_wait(t, v, mode) ==
    /\ InUser(t) /\ Usable
    /\ Section(t, "send", v, mode)

\* rt_mq_urgent does not wait.
rt_mq_urgent(t, v) ==
    /\ InUser(t) /\ Usable
    /\ CallGoes(t, "send", v) \/ CallFails(t, "send", "now")

rt_mq_recv(t, mode) ==
    /\ InUser(t) /\ Usable
    /\ Section(t, "recv", NoMsg, mode)

\* Back from rt_schedule, woken by the other side: the loop test again, with the
\* time that is left, none when the ticks of the wait have used it up.
Retry(t) ==
    /\ k.cur = t /\ pc[t] = "ret" /\ k.error[t] = "EOK" /\ ~Asserted
    /\ \E mode \in IF call[t].mode = "timed" THEN {"timed", "now"} ELSE {call[t].mode} :
          Section(t, call[t].d, call[t].v, mode)

\* Back from rt_schedule with an error.
ReturnError(t) ==
    /\ k.cur = t /\ pc[t] = "ret" /\ k.error[t] # "EOK" /\ ~Asserted
    /\ pc' = [pc EXCEPT ![t] = "user"]
    /\ call' = [call EXCEPT ![t] = NoCall]
    /\ UNCHANGED <<k, mq, wait, alive, hand, last>>

\* Mutant: wakes a receiver only for the first message of an empty queue.
Wakes_FirstOnly(d) ==
    wait[Other(d)] # <<>> /\ (d = "recv" \/ mq.entry = 0)

\* Whether the end of a call resumes a thread of the other side.
Wakes(d) == wait[Other(d)] # <<>>

\* That thread leaves the wait list, and resumed is the kernel state it leads to.
WakeOther(d, resumed) ==
    IF Wakes(d)
    THEN /\ k' = resumed
         /\ wait' = [wait EXCEPT ![Other(d)] = Resumed(k, @, Head(@))]
    ELSE UNCHANGED <<k, wait>>

Waker(d) == ResumeThread(k, Head(wait[Other(d)]))

\* The copying and the second critical section.
Finish(t) ==
    /\ k.cur = t /\ pc[t] = "hold" /\ ~Asserted
    /\ LET d == call[t].d
       IN  /\ last' = Seen(d, hand[t])
           /\ mq' = Returned(mq, d, hand[t], call[t].v)
           /\ WakeOther(d, Waker(d))
           /\ pc' = [pc EXCEPT ![t] = IF Wakes(d) THEN "resched" ELSE "user"]
    /\ hand' = [hand EXCEPT ![t] = Null]
    /\ call' = [call EXCEPT ![t] = NoCall]
    /\ UNCHANGED alive

\* A whole call in an interrupt handler: a send, or a receive without timeout.
Isr(d, v) ==
    /\ Usable
    /\ CanGo(d)
    /\ last' = Seen(d, Grab(mq, d))
    /\ mq' = Returned(Grabbed(mq, d), d, Grab(mq, d), v)
    /\ WakeOther(d, Schedule(Waker(d)))
    /\ UNCHANGED <<pc, alive, call, hand>>

\* RT_IPC_CMD_RESET, up to its rt_schedule.
rt_mq_control(t) ==
    /\ InUser(t) /\ Usable
    /\ k' = ResumeAll(ResumeAll(k, wait["recv"]), wait["send"])
    /\ wait' = [d \in Dirs |-> <<>>]
    /\ mq' = ReleaseAll(mq)
    /\ pc' = [pc EXCEPT ![t] = "resched"]
    /\ UNCHANGED <<alive, call, hand, last>>

-----------------------------------------------------------------------------
\* rt_mq_detach and rt_mq_delete: rt_ipc_list_resume_all on the receivers, then
\* on the senders; call[t].d is the list it has come to.  Callers do not destroy
\* a queue that another thread is about to use or has a node of.
rt_mq_detach(t) ==
    /\ Destroys
    /\ InUser(t) /\ Usable
    /\ \A d \in Dirs : InFlight(d) = {}
    /\ \A u \in Threads : hand[u] = Null
    /\ pc' = [pc EXCEPT ![t] = "detach"]
    /\ UNCHANGED <<k, objVars>>

DetachTest(t) ==
    /\ k.cur = t /\ pc[t] = "detach" /\ ~Asserted
    /\ LET d == call[t].d
       IN  \/ /\ wait[d] # <<>>
              /\ pc' = [pc EXCEPT ![t] = "pick"]
              /\ UNCHANGED <<call, alive>>
           \/ /\ wait[d] = <<>> /\ d = "recv"
              /\ call' = [call EXCEPT ![t].d = "send"]
              /\ UNCHANGED <<pc, alive>>
           \/ /\ wait[d] = <<>> /\ d = "send"
              /\ call' = [call EXCEPT ![t] = NoCall]
              /\ pc' = [pc EXCEPT ![t] = "user"]
              /\ alive' = FALSE
    /\ UNCHANGED <<k, mq, wait, hand, last>>

\* The entry behind an empty list is no thread: rt_thread_resume asserts.
DetachResume(t) ==
    /\ k.cur = t /\ pc[t] = "pick" /\ ~Asserted
    /\ LET d == call[t].d
           n == Head(wait[d])
       IN  IF wait[d] = <<>>
           THEN /\ pc' = [pc EXCEPT ![t] = "assert"]
                /\ UNCHANGED <<k, wait>>
           ELSE /\ k' = ResumeError(k, n)
                /\ wait' = [wait EXCEPT ![d] = Resumed(k, @, n)]
                /\ pc' = [pc EXCEPT ![t] = "detach"]
    /\ UNCHANGED <<mq, alive, call, hand, last>>

\* rt_mq_init, or rt_mq_create, after that.
rt_mq_init(t) ==
    /\ InUser(t) /\ ~alive /\ ~Asserted
    /\ mq' = EmptyQueue
    /\ wait' = [d \in Dirs |-> <<>>]
    /\ alive' = TRUE
    /\ UNCHANGED <<k, pc, call, hand, last>>

-----------------------------------------------------------------------------
\* The tick interrupt runs rt_thread_timeout.
TimerFires(t) ==
    /\ k.armed[t] /\ ~Asserted
    /\ k' = Schedule(TimeoutThread(k, t))
    /\ wait' = [d \in Dirs |-> Unlink(wait[d], t)]
    /\ UNCHANGED <<pc, mq, alive, call, hand, last>>

Tick ==
    /\ ~Asserted
    /\ SliceEnds
    /\ UNCHANGED objVars

Reschedule(t) ==
    /\ ~Asserted
    /\ EnterSchedule(t)
    /\ UNCHANGED objVars

\* The processor spins in rt_assert_handler.
Stopped ==
    /\ Asserted
    /\ UNCHANGED vars

Next ==
    \/ \E t \in Threads :
          \/ \E mode \in WaitModes :
                rt_mq_recv(t, mode) \/ \E v \in Msgs \ Urgent : rt_mq_send_wait(t, v, mode)
          \/ \E v \in Urgent : rt_mq_urgent(t, v)
          \/ Retry(t) \/ ReturnError(t)
          \/ Finish(t)
          \/ rt_mq_control(t)
          \/ rt_mq_detach(t) \/ DetachTest(t) \/ DetachResume(t)
          \/ rt_mq_init(t)
          \/ TimerFires(t)
          \/ Reschedule(t)
    \/ Isr("recv", NoMsg)
    \/ \E v \in Msgs : Isr("send", v)
    \/ Tick
    \/ Stopped

Spec == Init /\ [][Next]_vars

-----------------------------------------------------------------------------
TypeOK ==
    /\ KernelType
    /\ mq \in [head : 0 .. Size, tail : 0 .. Size, free : 0 .. Size, entry : 0 .. Size,
               next : [Nodes -> 0 .. Size], data : [Nodes -> Msgs \cup {NoMsg}]]
    /\ wait \in [Dirs -> Seq(Threads)]
    /\ alive \in BOOLEAN
    /\ call \in [Threads -> [d : Dirs, v : Msgs \cup {NoMsg}, mode : WaitModes]]
    /\ hand \in [Threads -> 0 .. Size]
    /\ last \in Msgs \cup {NoMsg}

\* Every node of the pool is in one place, once: in the queue, which has entry
\* nodes and ends at its tail, in the free list, or in the hand of one thread.
\* A reset, an interrupt handler or another call between the two critical
\* sections of a call loses no node and links none twice.
NodesOnce ==
    LET held == {t \in Threads : hand[t] # Null}
    IN  /\ TypeOK
        /\ \E queued, unused \in BoundedSeq(Nodes, Size) :
              /\ Lists(mq, mq.head, queued) /\ Lists(mq, mq.free, unused)
              /\ Len(queued) + Len(unused) + Cardinality(held) = Size
              /\ Range(queued) \cup Range(unused) \cup {hand[t] : t \in held} = Nodes
              /\ mq.entry = Len(queued)
              /\ mq.tail = IF queued = <<>> THEN Null ELSE Last(queued)

\* No wakeup is lost: while a thread waits, for every message in the queue
\* (every free node, for a sender) a thread of its side is on its way to it,
\* though the calls of others may overtake those and leave them nothing.
NoLostWakeup ==
    /\ wait["recv"] # <<>> => Cardinality(InFlight("recv")) >= mq.entry
    /\ wait["send"] # <<>> => Cardinality(InFlight("send")) >= Len(Chain(mq, mq.free))

\* The nodes implement the queue of UrgentQueue: ordinary messages leave in the
\* order their senders linked them, urgent ones before them, and a receiver sees
\* the message that was first when it took its node.
Content == LET queued == Chain(mq, mq.head)
           IN  [i \in DOMAIN queued |-> mq.data[queued[i]]]

Taken == [t \in Threads |-> IF hand[t] # Null /\ call[t].d = "recv" THEN mq.data[hand[t]] ELSE NoMsg]

Queue == INSTANCE UrgentQueue WITH queue <- Content, taken <- Taken

IsUrgentQueue == Queue!QueueSpec
=============================================================================
