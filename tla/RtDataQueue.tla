----------------------------- MODULE RtDataQueue -----------------------------
(***************************************************************************)
(* The data queue of the drivers (components/drivers/src/dataqueue.c): a   *)
(* ring of pointers between two free running indices, with one list of     *)
(* waiting pushers and one of waiting poppers, each in the order of        *)
(* arrival.                                                                *)
(*                                                                         *)
(* The indices are unsigned words that wrap, but they are compared as      *)
(* integers: near the wrap the test for a full queue does not see one.     *)
(* A push wakes one popper; a pop wakes one pusher, and only once the      *)
(* queue has drained to its low water mark.  A thread that is woken waits  *)
(* on with its whole timeout when it finds that another was faster.        *)
(*                                                                         *)
(* Both calls mirror each other, so the direction d is a parameter: "push" *)
(* or "pop".  The event callback is RT_NULL for every queue of this        *)
(* repository and is left out.                                             *)
(***************************************************************************)
EXTENDS RtKernel, Integers

CONSTANTS
    Size,       \* queue->size
    Lwm,        \* queue->lwm
    IndexMod    \* where the indices wrap: 2^16 in the code

ASSUME DataQueueAssumption ==
    /\ Size \in Nat \ {0}
    /\ Lwm \in 0 .. Size - 1
    /\ IndexMod \in Nat /\ IndexMod % Size = 0 /\ IndexMod > Size

VARIABLES
    dq,         \* put_index, get_index and the ring of items
    wait,       \* suspended_push_list and suspended_pop_list
    call,       \* the arguments of a thread's unfinished call
    overrun     \* history: an item was put on top of one that nobody had read

queueVars == <<dq, wait, call, overrun>>

Dirs == {"push", "pop"}
Other(d) == IF d = "push" THEN "pop" ELSE "push"

NoCall == [d |-> "pop", mode |-> "now"]

QueueType ==
    /\ KernelType
    /\ dq \in [put : 0 .. IndexMod - 1, get : 0 .. IndexMod - 1, cells : [0 .. Size - 1 -> Threads]]
    /\ wait \in [Dirs -> Seq(Threads)]
    /\ call \in [Threads -> [d : Dirs, mode : WaitModes]]
    /\ overrun \in BOOLEAN

\* rt_data_queue_init.  An item is known by the thread that owns it.
QueueInit ==
    /\ KernelInit
    /\ dq = [put |-> 0, get |-> 0, cells |-> [i \in 0 .. Size - 1 |-> Idle]]
    /\ wait = [d \in Dirs |-> <<>>]
    /\ call = [t \in Threads |-> NoCall]
    /\ overrun = FALSE

\* The items that are in the queue.
Count == (dq.put - dq.get) % IndexMod

\* The item rt_data_queue_peak returns.
Oldest(q) == q.cells[q.get % Size]

-----------------------------------------------------------------------------
\* Mutant: one item more than there are places.
CanGo_OneMore(d) == IF d = "pop" THEN dq.get # dq.put ELSE dq.put - dq.get # Size + 1

\* The loop tests.  The difference is taken of integers, not of words.
CanGo(d) == IF d = "pop" THEN dq.get # dq.put ELSE dq.put - dq.get # Size

\* The queue after an item went in, or the oldest went out.
Moved(d, item) ==
    IF d = "push"
    THEN [dq EXCEPT !.cells[dq.put % Size] = item, !.put = (@ + 1) % IndexMod]
    ELSE [dq EXCEPT !.get = (@ + 1) % IndexMod]

\* Mutant: wakes only when the mark is passed.
Wakes_BelowMark(d, q) == wait[Other(d)] # <<>> /\ (d = "pop" => q.put - q.get < Lwm)

\* Mutant: wakes one pusher when the mark is reached and none below it.
Wakes_AtMark(d, q) == wait[Other(d)] # <<>> /\ (d = "pop" => q.put - q.get = Lwm)

\* A thread of the other side is resumed; after a pop, at the low water mark.
Wakes(d, q) == wait[Other(d)] # <<>> /\ (d = "pop" => q.put - q.get <= Lwm)

\* The kernel once the first waiter of the other side has been resumed.
Woken(d) == ResumeThread(k, Head(wait[Other(d)]))

\* The item is moved, and the waiter that is resumed leaves its list.
Transfer(d, item) ==
    LET q == Moved(d, item)
    IN  /\ CanGo(d)
        /\ dq' = q
        /\ overrun' = (overrun \/ (d = "push" /\ Count = Size))
        /\ wait' = IF Wakes(d, q)
                   THEN [wait EXCEPT ![Other(d)] = Resumed(k, @, Head(@))]
                   ELSE wait

\* The ways a thread leaves the loop of its call, which it enters from outside
\* or after a wait; done is where it goes on when it has nobody to resume.
CallGoes(t, d, item, done) ==
    /\ Transfer(d, item)
    /\ IF Wakes(d, Moved(d, item))
       THEN k' = Woken(d) /\ pc' = [pc EXCEPT ![t] = "resched"]
       ELSE pc' = [pc EXCEPT ![t] = done] /\ UNCHANGED k
    /\ call' = [call EXCEPT ![t] = NoCall]

CallWaits(t, d, mode) ==
    /\ ~CanGo(d) /\ mode # "now"
    /\ k' = Block(k, t, mode)
    /\ wait' = [wait EXCEPT ![d] = FifoInsert(k, @, t)]
    /\ pc' = [pc EXCEPT ![t] = "block"]
    /\ call' = [call EXCEPT ![t] = [d |-> d, mode |-> mode]]
    /\ UNCHANGED <<dq, overrun>>

CallFails(t, d, mode) ==
    /\ ~CanGo(d) /\ mode = "now"
    /\ pc' = [pc EXCEPT ![t] = "user"]
    /\ UNCHANGED <<k, queueVars>>

\* A thread is in rt_data_queue_reset, with the scheduler locked.
Resetting == \E t \in Threads : pc[t] \in {"detach", "pick"}

\* rt_schedule as an interrupt calls it.
IsrSchedule(s) == IF Resetting THEN s ELSE Schedule(s)

rt_data_queue_push(t, item, mode, done) ==
    /\ InUser(t) /\ ~Asserted
    /\ CallGoes(t, "push", item, done) \/ CallWaits(t, "push", mode) \/ CallFails(t, "push", mode)

rt_data_queue_pop(t, mode) ==
    /\ InUser(t) /\ ~Asserted
    /\ CallGoes(t, "pop", Idle, "user") \/ CallWaits(t, "pop", mode) \/ CallFails(t, "pop", mode)

\* Back from rt_schedule: the loop test again, or the error of the wait.
Retry(t, item, done) ==
    /\ k.cur = t /\ pc[t] = "ret" /\ ~Asserted
    /\ LET d == call[t].d
       IN  \/ /\ k.error[t] = "EOK"
              /\ CallGoes(t, d, item, IF d = "push" THEN done ELSE "user") \/ CallWaits(t, d, call[t].mode)
           \/ /\ k.error[t] # "EOK"
              /\ pc' = [pc EXCEPT ![t] = "user"]
              /\ call' = [call EXCEPT ![t] = NoCall]
              /\ UNCHANGED <<k, dq, wait, overrun>>

\* A push or a pop with no timeout in an interrupt handler, as far as it changes
\* anything.
Isr(d) ==
    /\ ~Asserted
    /\ Transfer(d, Idle)
    /\ k' = IF Wakes(d, Moved(d, Idle)) THEN IsrSchedule(Woken(d)) ELSE k
    /\ UNCHANGED <<pc, call>>

-----------------------------------------------------------------------------
\* rt_data_queue_reset wakes the waiting poppers, then the pushers, and leaves
\* the items.  The loop tests its list with interrupts enabled.
rt_data_queue_reset(t) ==
    /\ InUser(t) /\ ~Asserted
    /\ pc' = [pc EXCEPT ![t] = "detach"]
    /\ UNCHANGED <<k, queueVars>>

ResetTest(t) ==
    /\ k.cur = t /\ pc[t] = "detach" /\ ~Asserted
    /\ LET d == call[t].d
       IN  \/ /\ wait[d] # <<>>
              /\ pc' = [pc EXCEPT ![t] = "pick"]
              /\ UNCHANGED call
           \/ /\ wait[d] = <<>> /\ d = "pop"
              /\ call' = [call EXCEPT ![t].d = "push"]
              /\ UNCHANGED pc
           \/ /\ wait[d] = <<>> /\ d = "push"
              /\ call' = [call EXCEPT ![t] = NoCall]
              /\ pc' = [pc EXCEPT ![t] = "resched"]
    /\ UNCHANGED <<k, dq, wait, overrun>>

\* The entry behind an empty list is no thread: rt_thread_resume asserts.
ResetResume(t) ==
    /\ k.cur = t /\ pc[t] = "pick" /\ ~Asserted
    /\ LET d == call[t].d
           n == Head(wait[d])
       IN  IF wait[d] = <<>>
           THEN /\ pc' = [pc EXCEPT ![t] = "assert"]
                /\ UNCHANGED <<k, wait>>
           ELSE /\ k' = ResumeError(k, n)
                /\ wait' = [wait EXCEPT ![d] = Resumed(k, @, n)]
                /\ pc' = [pc EXCEPT ![t] = "detach"]
    /\ UNCHANGED <<dq, call, overrun>>

-----------------------------------------------------------------------------
\* Mutant: the thread stays in the list of its object.
TimerFires_StaysLinked(t) ==
    /\ k.armed[t] /\ ~Asserted
    /\ k' = IsrSchedule(TimeoutThread(k, t))
    /\ UNCHANGED <<pc, queueVars>>

\* The tick interrupt runs rt_thread_timeout.
TimerFires(t) ==
    /\ k.armed[t] /\ ~Asserted
    /\ k' = IsrSchedule(TimeoutThread(k, t))
    /\ wait' = [d \in Dirs |-> Unlink(wait[d], t)]
    /\ UNCHANGED <<pc, dq, call, overrun>>

\* The time slice ends; with the scheduler locked the thread only remembers it.
Tick ==
    /\ ~Asserted
    /\ k' = IsrSchedule([k EXCEPT !.yield[k.cur] = TRUE])
    /\ UNCHANGED <<pc, queueVars>>

Reschedule(t) ==
    /\ ~Asserted
    /\ EnterSchedule(t)
    /\ UNCHANGED queueVars

-----------------------------------------------------------------------------
\* Resumed and not yet back at the loop test of its call.
InFlight(d) == {t \in Threads : /\ pc[t] \in {"block", "ret"}
                                /\ call[t].d = d
                                /\ t \notin Range(wait[d])
                                /\ k.error[t] = "EOK"}

\* No wakeup is lost.  While a popper waits, a popper is on its way to every
\* item.  While a pusher waits, pushers are on their way to all the places but
\* those above the low water mark: although a pop wakes one pusher at most, and
\* others may take the place meanwhile, the queue never idles below the mark.
NoLostWakeup ==
    overrun \/ /\ wait["pop"] # <<>> => Cardinality(InFlight("pop")) >= Count
               /\ wait["push"] # <<>> => Cardinality(InFlight("push")) >= Lwm + 1 - Count

\* A suspended thread is linked once, in the list of its call, and the linked
\* threads are the suspended ones, the only ones with a running timer.
WaitersSuspended ==
    /\ \A t \in Threads : /\ k.stat[t] = "SUSPEND" <=> \E d \in Dirs : t \in Range(wait[d])
                          /\ k.armed[t] => k.stat[t] = "SUSPEND"
    /\ \A d \in Dirs : \A i, j \in DOMAIN wait[d] :
          call[wait[d][i]].d = d /\ (wait[d][i] = wait[d][j] => i = j)

\* A push puts its item on top of one that nobody has read only while the
\* indices stand on both sides of the wrap: the test for a full queue is right
\* everywhere else.
OverrunByWrap == [][~overrun /\ overrun' => dq.put < dq.get]_queueVars
=============================================================================
