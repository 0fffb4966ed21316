----------------------------- MODULE RtSerialDma -----------------------------
(***************************************************************************)
(* Writing to a serial port by DMA (components/drivers/serial/serial.c     *)
(* with RT_SERIAL_USING_DMA): a writer pushes its buffer into a data queue *)
(* and starts the DMA unless it is marked as active; the interrupt at the  *)
(* end of a transfer takes the buffer out of the queue and starts the      *)
(* next.  Between its push and its test of the mark a writer may be        *)
(* overtaken, by another writer or by the DMA.                             *)
(*                                                                         *)
(* The same module runs the data queue between threads and interrupts of   *)
(* any kind; what the queue is used for is chosen at the start.            *)
(***************************************************************************)
EXTENDS RtDataQueue

CONSTANTS Uses  \* what the queue is used for: some of "serial" and "plain"

ASSUME UsesAssumption == Uses \subseteq {"serial", "plain"}

VARIABLES
    tx,         \* tx_dma->activated; the DMA: busy, and the buffer it sends
    raced       \* history: a writer was overtaken before it tested activated

vars == <<k, pc, queueVars, tx, raced>>

TypeOK ==
    /\ QueueType
    /\ tx \in [activated : BOOLEAN, busy : BOOLEAN, item : Threads, use : Uses]
    /\ raced \in BOOLEAN

Init ==
    /\ QueueInit
    /\ \E use \in Uses : tx = [activated |-> FALSE, busy |-> FALSE, item |-> Idle, use |-> use]
    /\ raced = FALSE

Serial == tx.use = "serial" /\ ~Asserted

\* The writers that have pushed and not yet tested.
Untested == {t \in Threads : pc[t] = "hold"}

-----------------------------------------------------------------------------
\* dma_tx_xfer: the buffer is sent unless the channel is busy; serial.c does
\* not look at the answer.
dma_transmit(s, item) == IF s.busy THEN s ELSE [s EXCEPT !.busy = TRUE, !.item = item]

\* A push of a writer overtakes the writers that have not tested yet.
Overtakes == raced' = (raced \/ (dq' # dq /\ Untested # {}))

\* _serial_dma_tx: the push, which waits for ever.
SerialPush(t) ==
    /\ Serial
    /\ rt_data_queue_push(t, t, "forever", "hold")
    /\ Overtakes
    /\ UNCHANGED tx

SerialRetry(t) ==
    /\ Serial
    /\ Retry(t, t, "hold")
    /\ Overtakes
    /\ UNCHANGED tx

\* activated is tested and set.
SerialTest(t) ==
    /\ Serial /\ k.cur = t /\ pc[t] = "hold"
    /\ tx' = [tx EXCEPT !.activated = TRUE]
    /\ pc' = [pc EXCEPT ![t] = IF tx.activated THEN "user" ELSE "start"]
    /\ UNCHANGED <<k, queueVars, raced>>

\* With interrupts enabled again, the writer starts its own buffer.
SerialStart(t) ==
    /\ Serial /\ k.cur = t /\ pc[t] = "start"
    /\ tx' = dma_transmit(tx, t)
    /\ pc' = [pc EXCEPT ![t] = "user"]
    /\ UNCHANGED <<k, queueVars, raced>>

\* Mutant: the mark stays when the queue is empty.
AfterDone_StaysActive(q) ==
    LET freed == [tx EXCEPT !.busy = FALSE]
    IN  IF q.get # q.put THEN dma_transmit([freed EXCEPT !.activated = TRUE], Oldest(q)) ELSE freed

\* Mutant: starts with the item that has just been sent.
AfterDone_Again(q) ==
    LET freed == [tx EXCEPT !.busy = FALSE]
    IN  IF q.get # q.put THEN dma_transmit([freed EXCEPT !.activated = TRUE], Oldest(dq))
        ELSE [freed EXCEPT !.activated = FALSE]

\* rt_data_queue_peak, and the next buffer or the end of the activity.
AfterDone(q) ==
    LET freed == [tx EXCEPT !.busy = FALSE]
    IN  IF q.get # q.put THEN dma_transmit([freed EXCEPT !.activated = TRUE], Oldest(q))
        ELSE [freed EXCEPT !.activated = FALSE]

\* RT_SERIAL_EVENT_TX_DMADONE in rt_hw_serial_isr.  A pop that finds nothing is
\* not noticed either.
DmaDone ==
    /\ Serial /\ tx.busy
    /\ \/ Isr("pop")
       \/ ~CanGo("pop") /\ UNCHANGED <<k, pc, queueVars>>
    /\ tx' = AfterDone(dq')
    /\ raced' = IF Untested = {} /\ dq'.get = dq'.put THEN FALSE
                ELSE raced \/ Oldest(dq) \in Untested

\* A writer goes on in its call.
InCall(t) ==
    \/ SerialRetry(t) \/ SerialTest(t) \/ SerialStart(t)
    \/ Reschedule(t) /\ UNCHANGED <<tx, raced>>

\* The queue between threads and interrupts; its items are not told apart.
Plain ==
    /\ tx.use = "plain"
    /\ \/ \E t \in Threads :
             \/ \E mode \in WaitModes :
                   rt_data_queue_push(t, Idle, mode, "user") \/ rt_data_queue_pop(t, mode)
             \/ Retry(t, Idle, "user")
             \/ rt_data_queue_reset(t) \/ ResetTest(t) \/ ResetResume(t)
       \/ \E d \in Dirs : Isr(d)
    /\ UNCHANGED <<tx, raced>>

\* The processor spins in rt_assert_handler.
Stopped == Asserted /\ UNCHANGED vars

Next ==
    \/ \E t \in Threads :
          \/ SerialPush(t) \/ InCall(t)
          \/ TimerFires(t) /\ UNCHANGED <<tx, raced>>
    \/ DmaDone
    \/ Plain
    \/ Tick /\ UNCHANGED <<tx, raced>>
    \/ Stopped

\* The DMA ends its transfers, the tick comes, and the scheduler gives each
\* writer its turn among its equals, long enough to get through a call; no
\* writer is obliged to write.
Fairness ==
    /\ WF_vars(DmaDone)
    /\ WF_vars(Serial /\ Tick /\ UNCHANGED <<tx, raced>>)
    /\ \A t \in Threads \ {Idle} : SF_vars(Serial /\ InCall(t))

Spec == Init /\ [][Next]_vars /\ Fairness

-----------------------------------------------------------------------------
\* The DMA sends the buffer at the front of the queue, so that the interrupt at
\* its end takes out the buffer that was sent; but for a writer that was
\* overtaken between its push and its test of activated: it starts a buffer
\* that is not the first, or one that has been sent already.
SentInTurn == tx.busy => raced \/ overrun \/ (dq.get # dq.put /\ tx.item = Oldest(dq))

\* The port never goes to sleep over buffers that wait: someone is sending,
\* about to start, or about to test.  And whoever is about to start finds the
\* channel free: serial.c ignores the answer of dma_transmit, and a refused
\* buffer would never be started.
NeverStalls ==
    /\ tx.use = "serial" /\ dq.get # dq.put =>
          tx.busy \/ \E t \in Threads : pc[t] \in {"hold", "start"}
    /\ \A t \in Threads : pc[t] = "start" => ~tx.busy

\* The lists of threads are sound at every step: the state is well typed, the
\* ready lists and their bitmap agree with the threads (ReadyListsSound), and so
\* does the list of each side (WaitersSuspended), though a thread is
\* resumed, timed out or given another priority while it is on its way out.
ListsSound == TypeOK /\ ReadyListsSound /\ WaitersSuspended

\* A writer that waits for a place gets on, although only a pop at the low water
\* mark wakes a pusher, and only one.  After an overrun the indices may meet, and
\* the queue looks empty to everyone but those who wait for a place.
WriterGoesOn == \A t \in Threads \ {Idle} :
    (Serial /\ t \in Range(wait["push"])) ~> (overrun \/ t \notin Range(wait["push"]))
=============================================================================
