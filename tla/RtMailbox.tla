------------------------------ MODULE RtMailbox ------------------------------
(***************************************************************************)
(* A mailbox of RT-Thread (src/ipc.c, RT_USING_MAILBOX): a ring of values  *)
(* with one list of waiting receivers and one of waiting senders.          *)
(*                                                                         *)
(* A thread woken from either list holds nothing: it looks at the mailbox  *)
(* again, may find that another call was faster, and waits on with what is *)
(* left of its timeout, possibly nothing.                                  *)
(*                                                                         *)
(* rt_mb_recv and rt_mb_send_wait mirror each other, so the direction d is *)
(* a parameter: "recv" or "send".                                          *)
(***************************************************************************)
EXTENDS RtKernel

CONSTANTS
    Mails,      \* the values sent
    NoMail,     \* no value
    Size,       \* mb->size
    Destroys    \* whether rt_mb_detach and rt_mb_delete are called

ASSUME MailboxAssumption ==
    /\ NoMail \notin Mails
    /\ Size \in Nat \ {0}
    /\ Destroys \in BOOLEAN

VARIABLES
    mb,         \* pool, entry, in_offset and out_offset
    wait,       \* "recv": parent.suspend_thread, "send": suspend_sender_thread
    alive,      \* the object is initialised
    call,       \* the arguments of a thread's unfinished call
    last        \* history: the value received last

objVars == <<mb, wait, alive, call, last>>
vars == <<k, pc, objVars>>

Dirs == {"recv", "send"}
Other(d) == IF d = "recv" THEN "send" ELSE "recv"

NoCall == [d |-> "recv", v |-> NoMail, mode |-> "now"]

EmptyBox == [pool |-> [i \in 0 .. Size - 1 |-> NoMail], entry |-> 0, in |-> 0, out |-> 0]

\* Resumed and not yet back at the loop test of its call.
InFlight(d) == {t \in Threads : /\ pc[t] \in {"block", "ret"}
                                /\ call[t].d = d
                                /\ t \notin Range(wait[d])
                                /\ k.error[t] = "EOK"}

Destroying == \E t \in Threads : pc[t] \in {"detach", "pick"}

\* Callers use the mailbox while it exists and nobody is destroying it.
Usable == alive /\ ~Destroying /\ ~Asserted

Init ==
    /\ KernelInit
    /\ mb = EmptyBox
    /\ wait = [d \in Dirs |-> <<>>]
    /\ alive = TRUE
    /\ call = [t \in Threads |-> NoCall]
    /\ last = NoMail

-----------------------------------------------------------------------------
\* ++ offset, back to 0 at mb->size.
Advance(i) == IF i + 1 >= Size THEN 0 ELSE i + 1

CanGo(d) == IF d = "recv" THEN mb.entry # 0 ELSE mb.entry # Size

\* The value goes into or out of the pool.
Transfer(d, v) ==
    IF d = "recv"
    THEN /\ last' = mb.pool[mb.out]
         /\ mb' = [mb EXCEPT !.out = Advance(@), !.entry = @ - 1]
    ELSE /\ mb' = [mb EXCEPT !.pool[mb.in] = v, !.in = Advance(@), !.entry = @ + 1]
         /\ UNCHANGED last

\* Mutant: wakes a thread of its own side.
WakeOther_Own(d, resumed) ==
    IF wait[d] # <<>>
    THEN LET n == Head(wait[d])
         IN  k' = ResumeThread(k, n) /\ wait' = [wait EXCEPT ![d] = Resumed(k, @, n)]
    ELSE UNCHANGED <<k, wait>>

\* One thread of the other side is resumed; resumed is the kernel state that
\* leads to.
WakeOther(d, resumed) ==
    IF wait[Other(d)] # <<>>
    THEN /\ k' = resumed
         /\ wait' = [wait EXCEPT ![Other(d)] = Resumed(k, @, Head(@))]
    ELSE UNCHANGED <<k, wait>>

Waker(d) == ResumeThread(k, Head(wait[Other(d)]))

\* The ways a thread leaves the critical section of its call, which it enters
\* from outside or after a wait.
CallGoes(t, d, v) ==
    /\ CanGo(d)
    /\ Transfer(d, v)
    /\ WakeOther(d, Waker(d))
    /\ pc' = [pc EXCEPT ![t] = IF wait[Other(d)] # <<>> THEN "resched" ELSE "user"]
    /\ call' = [call EXCEPT ![t] = NoCall]
    /\ UNCHANGED alive

CallWaits(t, d, v, mode) ==
    /\ ~CanGo(d) /\ mode # "now"
    /\ k' = Block(k, t, mode)
    /\ wait' = [wait EXCEPT ![d] = WaitInsert(k, @, t)]
    /\ pc' = [pc EXCEPT ![t] = "block"]
    /\ call' = [call EXCEPT ![t] = [d |-> d, v |-> v, mode |-> mode]]
    /\ UNCHANGED <<mb, alive, last>>

\* A call that never waited leaves thread->error alone.
CallFails(t, d, mode) ==
    /\ ~CanGo(d) /\ mode = "now"
    /\ k' = IF pc[t] = "ret"
            THEN [k EXCEPT !.error[t] = IF d = "recv" THEN "ETIMEOUT" ELSE "EOK"]
            ELSE k
    /\ pc' = [pc EXCEPT ![t] = "user"]
    /\ call' = [call EXCEPT ![t] = NoCall]
    /\ UNCHANGED <<mb, wait, alive, last>>

Section(t, d, v, mode) ==
    CallGoes(t, d, v) \/ CallWaits(t, d, v, mode) \/ CallFails(t, d, mode)

rt_mb_send_wait(t, v, mode) ==
    /\ InUser(t) /\ Usable
    /\ Section(t, "send", v, mode)

rt_mb_recv(t, mode) ==
    /\ InUser(t) /\ Usable
    /\ Section(t, "recv", NoMail, mode)

\* Mutant: a woken thread goes ahead without looking.
Retry_Unchecked(t) ==
    /\ k.cur = t /\ pc[t] = "ret" /\ k.error[t] = "EOK" /\ ~Asserted
    /\ Transfer(call[t].d, call[t].v)
    /\ WakeOther(call[t].d, Waker(call[t].d))
    /\ pc' = [pc EXCEPT ![t] = "user"]
    /\ call' = [call EXCEPT ![t] = NoCall]
    /\ UNCHANGED alive

\* Back from rt_schedule, woken by the other side: the loop test again, with the
\* time that is left, none when the ticks of the wait have used it up.
Retry(t) ==
    /\ k.cur = t /\ pc[t] = "ret" /\ k.error[t] = "EOK" /\ ~Asserted
    /\ \E mode \in IF call[t].mode = "timed" THEN {"timed", "now"} ELSE {call[t].mode} :
          Section(t, call[t].d, call[t].v, mode)

\* Back from rt_schedule with an error.
ReturnError(t) ==
    /\ k.cur = t /\ pc[t] = "ret" /\ k.error[t] # "EOK" /\ ~Asserted
    /\ pc' = [pc EXCEPT ![t] = "user"]
    /\ call' = [call EXCEPT ![t] = NoCall]
    /\ UNCHANGED <<k, mb, wait, alive, last>>

\* rt_mb_send, and rt_mb_recv with no timeout, in an interrupt handler.
Isr(d, v) ==
    /\ Usable
    /\ CanGo(d)
    /\ Transfer(d, v)
    /\ WakeOther(d, Schedule(Waker(d)))
    /\ UNCHANGED <<pc, alive, call>>

\* RT_IPC_CMD_RESET, up to its rt_schedule.
rt_mb_control(t) ==
    /\ InUser(t) /\ Usable
    /\ k' = ResumeAll(ResumeAll(k, wait["recv"]), wait["send"])
    /\ wait' = [d \in Dirs |-> <<>>]
    /\ mb' = [mb EXCEPT !.entry = 0, !.in = 0, !.out = 0]
    /\ pc' = [pc EXCEPT ![t] = "resched"]
    /\ UNCHANGED <<alive, call, last>>

-----------------------------------------------------------------------------
\* rt_mb_detach and rt_mb_delete: rt_ipc_list_resume_all on the receivers, then
\* on the senders; call[t].d is the list it has come to.  Callers do not destroy
\* a mailbox that a woken thread is about to use.
rt_mb_detach(t) ==
    /\ Destroys
    /\ InUser(t) /\ Usable
    /\ \A d \in Dirs : InFlight(d) = {}
    /\ pc' = [pc EXCEPT ![t] = "detach"]
    /\ UNCHANGED <<k, objVars>>

DetachTest(t) ==
    /\ k.cur = t /\ pc[t] = "detach" /\ ~Asserted
    /\ LET d == call[t].d
       IN  \/ /\ wait[d] # <<>>
              /\ pc' = [pc EXCEPT ![t] = "pick"]
              /\ UNCHANGED <<call, alive>>
           \/ /\ wait[d] = <<>> /\ d = "recv"
              /\ call' = [call EXCEPT ![t].d = "send"]
              /\ UNCHANGED <<pc, alive>>
           \/ /\ wait[d] = <<>> /\ d = "send"
              /\ call' = [call EXCEPT ![t] = NoCall]
              /\ pc' = [pc EXCEPT ![t] = "user"]
              /\ alive' = FALSE
    /\ UNCHANGED <<k, mb, wait, last>>

\* The entry behind an empty list is no thread: rt_thread_resume asserts.
DetachResume(t) ==
    /\ k.cur = t /\ pc[t] = "pick" /\ ~Asserted
    /\ LET d == call[t].d
           n == Head(wait[d])
       IN  IF wait[d] = <<>>
           THEN /\ pc' = [pc EXCEPT ![t] = "assert"]
                /\ UNCHANGED <<k, wait>>
           ELSE /\ k' = ResumeError(k, n)
                /\ wait' = [wait EXCEPT ![d] = Resumed(k, @, n)]
                /\ pc' = [pc EXCEPT ![t] = "detach"]
    /\ UNCHANGED <<mb, alive, call, last>>

\* rt_mb_init, or rt_mb_create, after that.
rt_mb_init(t) ==
    /\ InUser(t) /\ ~alive /\ ~Asserted
    /\ mb' = EmptyBox
    /\ wait' = [d \in Dirs |-> <<>>]
    /\ alive' = TRUE
    /\ UNCHANGED <<k, pc, call, last>>

-----------------------------------------------------------------------------
\* The tick interrupt runs rt_thread_timeout.
TimerFires(t) ==
    /\ k.armed[t] /\ ~Asserted
    /\ k' = Schedule(TimeoutThread(k, t))
    /\ wait' = [d \in Dirs |-> Unlink(wait[d], t)]
    /\ UNCHANGED <<pc, mb, alive, call, last>>

Tick ==
    /\ ~Asserted
    /\ SliceEnds
    /\ UNCHANGED objVars

Reschedule(t) ==
    /\ ~Asserted
    /\ EnterSchedule(t)
    /\ UNCHANGED objVars

\* The processor spins in rt_assert_handler.
Stopped ==
    /\ Asserted
    /\ UNCHANGED vars

Next ==
    \/ \E t \in Threads :
          \/ \E mode \in WaitModes :
                rt_mb_recv(t, mode) \/ \E v \in Mails : rt_mb_send_wait(t, v, mode)
          \/ Retry(t) \/ ReturnError(t)
          \/ rt_mb_control(t)
          \/ rt_mb_detach(t) \/ DetachTest(t) \/ DetachResume(t)
          \/ rt_mb_init(t)
          \/ TimerFires(t)
          \/ Reschedule(t)
    \/ Isr("recv", NoMail)
    \/ \E v \in Mails : Isr("send", v)
    \/ Tick
    \/ Stopped

Spec == Init /\ [][Next]_vars

-----------------------------------------------------------------------------
TypeOK ==
    /\ KernelType
    /\ mb \in [pool : [0 .. Size - 1 -> Mails \cup {NoMail}], entry : 0 .. Size,
               in : 0 .. Size - 1, out : 0 .. Size - 1]
    /\ wait \in [Dirs -> Seq(Threads)]
    /\ alive \in BOOLEAN
    /\ call \in [Threads -> [d : Dirs, v : Mails \cup {NoMail}, mode : WaitModes]]
    /\ last \in Mails \cup {NoMail}

\* A suspended thread is linked once, in the list of its call, and the linked
\* threads are the suspended ones, the only ones with a running timer.
WaitersSuspended ==
    /\ \A t \in Threads : /\ k.stat[t] = "SUSPEND" <=> \E d \in Dirs : t \in Range(wait[d])
                          /\ k.armed[t] => k.stat[t] = "SUSPEND"
    /\ \A d \in Dirs : \A i, j \in DOMAIN wait[d] :
          call[wait[d][i]].d = d /\ (wait[d][i] = wait[d][j] => i = j)

\* No wakeup is lost: while a thread waits, for every value in the mailbox
\* (every free place, for a sender) a thread of its side is on its way to it,
\* though the calls of others may overtake those and leave them nothing.  And
\* nobody sleeps where no wakeup reaches it: suspended threads are linked.
NoLostWakeup ==
    /\ TypeOK /\ WaitersSuspended
    /\ wait["recv"] # <<>> => Cardinality(InFlight("recv")) >= mb.entry
    /\ wait["send"] # <<>> => Cardinality(InFlight("send")) >= Size - mb.entry

\* The mailbox implements the queue of MailFifo: entry values from out on.
Content == [i \in 1 .. mb.entry |-> mb.pool[(mb.out + i - 1) % Size]]

Fifo == INSTANCE MailFifo WITH box <- Content

IsFifo == Fifo!FifoSpec
=============================================================================
