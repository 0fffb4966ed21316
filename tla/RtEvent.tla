------------------------------- MODULE RtEvent -------------------------------
(***************************************************************************)
(* An event object of RT-Thread (src/ipc.c, RT_USING_EVENT): a set of      *)
(* flags, and threads that wait until all (AND) or some (OR) of the flags  *)
(* they ask for are raised, and may clear what they get (CLEAR).           *)
(***************************************************************************)
EXTENDS RtKernel

CONSTANTS
    Flags,      \* the bits of the event set
    Destroys    \* whether rt_event_detach and rt_event_delete are called

ASSUME EventAssumption ==
    /\ IsFiniteSet(Flags)
    /\ Destroys \in BOOLEAN

VARIABLES
    set,        \* event->set
    wait,       \* event->parent.suspend_thread
    asks,       \* event_set and event_info of each thread
    alive,      \* the object is initialised
    claim       \* history: the request of the wait a thread is in

objVars == <<set, wait, asks, alive, claim>>
vars == <<k, pc, objVars>>

Requests == [flags : (SUBSET Flags) \ {{}}, all : BOOLEAN, clear : BOOLEAN]
NoRequest == [flags |-> {}, all |-> FALSE, clear |-> FALSE]

Destroying == \E t \in Threads : pc[t] \in {"detach", "pick"}

\* Callers use the event while it exists and nobody is destroying it.
Usable == alive /\ ~Destroying /\ ~Asserted

Init ==
    /\ KernelInit
    /\ set = {}
    /\ wait = <<>>
    /\ asks = [t \in Threads |-> NoRequest]
    /\ claim = [t \in Threads |-> NoRequest]
    /\ alive = TRUE

-----------------------------------------------------------------------------
\* Mutant: an AND request is content with some of its flags.
Satisfied_Some(r, s) == r.flags \cap s # {}

Satisfied(r, s) == IF r.all THEN r.flags \subseteq s ELSE r.flags \cap s # {}

\* Mutant: never clears.
Cleared_Never(r, s) == s

Cleared(r, s) == IF r.clear THEN s \ r.flags ELSE s

\* Mutant: stops at the first thread it wakes.
Visit_First(x, t) ==
    IF x.woken \/ ~Satisfied(x.asks[t], x.set) THEN x
    ELSE LET got == [x.asks[t] EXCEPT !.flags = @ \cap x.set]
         IN  [set   |-> Cleared(got, x.set), asks |-> [x.asks EXCEPT ![t] = got],
              k     |-> ResumeThread(x.k, t), wait |-> Resumed(x.k, x.wait, t),
              woken |-> TRUE]

\* rt_event_send comes to the waiting thread t: an OR request keeps the flags it
\* gets, and the flags that are cleared are gone for the threads behind it.
Visit(x, t) ==
    IF ~Satisfied(x.asks[t], x.set) THEN x
    ELSE LET got == [x.asks[t] EXCEPT !.flags = @ \cap x.set]
         IN  [set   |-> Cleared(got, x.set), asks |-> [x.asks EXCEPT ![t] = got],
              k     |-> ResumeThread(x.k, t), wait |-> Resumed(x.k, x.wait, t),
              woken |-> TRUE]

\* The loop of rt_event_send over the wait list: what each of its turns leaves.
Sent(bits) ==
    LET after[i \in 0 .. Len(wait)] ==
            IF i = 0
            THEN [set |-> set \cup bits, asks |-> asks, k |-> k, wait |-> wait, woken |-> FALSE]
            ELSE Visit(after[i - 1], wait[i])
    IN  after[Len(wait)]

\* rt_event_send, up to its rt_schedule.
rt_event_send(t, bits) ==
    /\ InUser(t) /\ Usable
    /\ LET x == Sent(bits)
       IN  /\ set' = x.set /\ asks' = x.asks /\ k' = x.k /\ wait' = x.wait
           /\ pc' = [pc EXCEPT ![t] = IF x.woken THEN "resched" ELSE "user"]
    /\ UNCHANGED <<alive, claim>>

\* rt_event_send in an interrupt handler.
rt_event_send_isr(bits) ==
    /\ Usable
    /\ LET x == Sent(bits)
       IN  /\ set' = x.set /\ asks' = x.asks /\ wait' = x.wait
           /\ k' = IF x.woken THEN Schedule(x.k) ELSE x.k
    /\ UNCHANGED <<pc, alive, claim>>

\* rt_event_recv, up to the rt_schedule of one that waits.
rt_event_recv(t, r, mode) ==
    /\ InUser(t) /\ Usable
    /\ \/ /\ Satisfied(r, set)
          /\ set' = Cleared(r, set)
          /\ k' = [k EXCEPT !.error[t] = "EOK"]
          /\ UNCHANGED <<pc, wait, asks, claim>>
       \/ /\ ~Satisfied(r, set) /\ mode = "now"
          /\ k' = [k EXCEPT !.error[t] = "ETIMEOUT"]
          /\ UNCHANGED <<pc, set, wait, asks, claim>>
       \/ /\ ~Satisfied(r, set) /\ mode # "now"
          /\ asks' = [asks EXCEPT ![t] = r]
          /\ claim' = [claim EXCEPT ![t] = r]
          /\ k' = Block(k, t, mode)
          /\ wait' = WaitInsert(k, wait, t)
          /\ pc' = [pc EXCEPT ![t] = "block"]
          /\ UNCHANGED set
    /\ UNCHANGED alive

\* The end of a recv that waited: *recved is thread->event_set.
rt_event_recv_return(t) ==
    /\ k.cur = t /\ pc[t] = "ret" /\ ~Asserted
    /\ pc' = [pc EXCEPT ![t] = "user"]
    /\ UNCHANGED <<k, objVars>>

\* RT_IPC_CMD_RESET, up to its rt_schedule.
rt_event_control(t) ==
    /\ InUser(t) /\ Usable
    /\ k' = ResumeAll(k, wait)
    /\ wait' = <<>>
    /\ set' = {}
    /\ pc' = [pc EXCEPT ![t] = "resched"]
    /\ UNCHANGED <<asks, alive, claim>>

-----------------------------------------------------------------------------
\* rt_event_detach and rt_event_delete, with the loop of rt_ipc_list_resume_all.
rt_event_detach(t) ==
    /\ Destroys
    /\ InUser(t) /\ Usable
    /\ pc' = [pc EXCEPT ![t] = "detach"]
    /\ UNCHANGED <<k, objVars>>

DetachTest(t) ==
    /\ k.cur = t /\ pc[t] = "detach" /\ ~Asserted
    /\ pc' = [pc EXCEPT ![t] = IF wait = <<>> THEN "user" ELSE "pick"]
    /\ alive' = (wait # <<>>)
    /\ UNCHANGED <<k, set, wait, asks, claim>>

\* The entry behind an empty list is no thread: rt_thread_resume asserts.
DetachResume(t) ==
    /\ k.cur = t /\ pc[t] = "pick" /\ ~Asserted
    /\ IF wait = <<>>
       THEN /\ pc' = [pc EXCEPT ![t] = "assert"]
            /\ UNCHANGED <<k, wait>>
       ELSE /\ k' = ResumeError(k, Head(wait))
            /\ wait' = Resumed(k, wait, Head(wait))
            /\ pc' = [pc EXCEPT ![t] = "detach"]
    /\ UNCHANGED <<set, asks, alive, claim>>

\* rt_event_init, or rt_event_create, after that.
rt_event_init(t) ==
    /\ InUser(t) /\ ~alive /\ ~Asserted
    /\ set' = {}
    /\ wait' = <<>>
    /\ alive' = TRUE
    /\ UNCHANGED <<k, pc, asks, claim>>

-----------------------------------------------------------------------------
\* The tick interrupt runs rt_thread_timeout.
TimerFires(t) ==
    /\ k.armed[t] /\ ~Asserted
    /\ k' = Schedule(TimeoutThread(k, t))
    /\ wait' = Unlink(wait, t)
    /\ UNCHANGED <<pc, set, asks, alive, claim>>

Tick ==
    /\ ~Asserted
    /\ SliceEnds
    /\ UNCHANGED objVars

Reschedule(t) ==
    /\ ~Asserted
    /\ EnterSchedule(t)
    /\ UNCHANGED objVars

\* The processor spins in rt_assert_handler.
Stopped ==
    /\ Asserted
    /\ UNCHANGED vars

Next ==
    \/ \E t \in Threads :
          \/ \E r \in Requests, mode \in WaitModes : rt_event_recv(t, r, mode)
          \/ rt_event_recv_return(t)
          \/ \E bits \in (SUBSET Flags) \ {{}} : rt_event_send(t, bits)
          \/ rt_event_control(t)
          \/ rt_event_detach(t) \/ DetachTest(t) \/ DetachResume(t)
          \/ rt_event_init(t)
          \/ TimerFires(t)
          \/ Reschedule(t)
    \/ \E bits \in (SUBSET Flags) \ {{}} : rt_event_send_isr(bits)
    \/ Tick
    \/ Stopped

Spec == Init /\ [][Next]_vars

-----------------------------------------------------------------------------
TypeOK ==
    /\ KernelType
    /\ set \subseteq Flags
    /\ wait \in Seq(Threads)
    /\ asks \in [Threads -> Requests \cup {NoRequest}]
    /\ claim \in [Threads -> Requests \cup {NoRequest}]
    /\ alive \in BOOLEAN

\* No wakeup is lost: a thread that waits is one whose flags are not raised,
\* whatever the threads before it in the list, the takers that did not wait and
\* the interrupts raise and clear.
NoneSatisfiedWaits == TypeOK /\ \A i \in DOMAIN wait : ~Satisfied(asks[wait[i]], set)

\* What a successful wait is about to return answers its request: all of the
\* flags it asked for with AND, some and no others with OR, also when it is
\* resumed by one sender and others send and reset before it runs.
AnswersRequest ==
    \A t \in Threads :
        (pc[t] \in {"block", "ret"} /\ t \notin Range(wait) /\ k.error[t] = "EOK")
            => /\ asks[t].flags # {}
               /\ asks[t].flags \subseteq claim[t].flags
               /\ claim[t].all => asks[t].flags = claim[t].flags

\* A send that raises a flag wakes at most one of the threads that asked for it
\* with CLEAR: the flag is gone when the next one is looked at.
ClearedOnce ==
    [][\A t, u \in Threads :
          (/\ t # u
           /\ {t, u} \subseteq Range(wait) \ Range(wait')
           /\ k'.error[t] = "EOK" /\ k'.error[u] = "EOK"
           /\ asks[t].clear /\ asks[u].clear)
              => asks'[t].flags \cap asks'[u].flags = {}]_vars
=============================================================================
