# OpenART firmware: TLA+ specifications

The firmware runs MicroPython and the OpenMV image library as one thread of the
RT-Thread kernel on a single-core i.MX RT processor, and talks to the OpenMV IDE
over a USB virtual COM port. This directory holds TLA+ models of its core, the
TLC configurations that check them on small instances, and TLAPS proofs about
them. `PROJECT.json` ties every definition to the source lines it stands for,
every property to a bug that breaks it, and lists the hazards the properties
are for.

## The system and its parts

**RT-Thread kernel** (`src/src`). State: the ready lists, one per priority, with
a bitmap of the non-empty ones; the current thread; for each thread its state,
priority, error code, list node and timer; for each object its wait list.
Threads call the kernel; interrupt handlers run between any two critical
sections and may release, send and reschedule; the tick interrupt ends time
slices and runs the timers of threads that wait with a timeout.

| part | operations | hard because | correct when |
|---|---|---|---|
| scheduler | insert, remove, schedule, time slice | a thread may be resumed while it is still the current one | every ready thread is linked once where its priority says, and the most urgent one runs |
| semaphore | take, release, control, detach | a token travels in a woken thread, outside the counter; release races timeout | no token lost or doubled, nobody waits beside a token, served in order |
| mutex | take, release, detach | ownership and priority move to a thread that is not running yet | one holder, inheritance, own priority restored, bounded inversion |
| mailbox | send, receive, control, detach | a woken thread holds nothing and may be overtaken | a FIFO; nobody sleeps on beside a value or a place |
| event | send, receive, control, detach | one send satisfies several threads and clears flags between them | nobody waits for raised flags; each wait gets what it asked for; a cleared flag is given once |
| message queue | send, urgent, receive, control, detach | a node is in no list while it is copied | as the mailbox, urgent messages first, and no node lost |
| threads, timers | startup, resume, yield, delete; start, stop, check | state tests outside the critical section; the soft timer thread | a resumed thread is linked once; timers fire in order |
| memory pool, heaps, objects, devices, idle, signals | allocate, free, register | the pool blocks its callers; signals interrupt waits | blocks conserved |

**Driver IPC** (`src/components/drivers/src`). Completions, data queues, work
queues, wait queues, pipes and ring buffers, on the kernel's suspend and resume.
Hard because of 16-bit indices, water marks and flags cleared after a wait. The
**serial driver** (`components/drivers/serial/serial.c`) puts a data queue
between writers and the DMA interrupt, with a mark (`activated`) that both sides
test and set. Correct when buffers go out once and in order and the port never
sleeps over one.

**OpenMV glue** (`src/bsp/imxrt/components/openmv-nxp`). The frame buffer stack
allocator (`fb_alloc.c`), from which every image operation borrows; the JPEG
preview buffer and its lock (`framebuffer.c`, `mutex.c`), shared by the script
thread and the USB interrupt; the IDE protocol (`usbdbg.c`); the script life
cycle (`omv_main.c`); the exception that stops a script (`pendsv.c`), which is a
flag first and, when asked again, a jump out of whatever instruction the script
thread is at. Hard because that jump tears calls, because the IDE keeps a
lock from one packet to a later one, and because the USB interrupt is disabled
by one side and enabled by the other. Correct when the IDE sees whole pictures,
runs whole scripts, can stop what runs and is told the truth about it, and the
link always comes back.

**USB virtual COM** (`src/bsp/imxrt/libraries/drivers/usb/app`). Rings between
the USB interrupt and the threads. **Camera** (`.../libraries/sensors`). DMA
buffers between the CSI interrupt and the snapshot loop. **Buffered files**
(`ff_wrapper.c`).

Vendored or purely computational parts (MicroPython, the image library, the
neural network runtime, file systems, shell, network) have no place here.

## The modules

| module | source | what it models |
|---|---|---|
| RtKernel | `scheduler.c`, `thread.c`, `clock.c`, `ipc.c:80-185` | ready lists, `rt_schedule`, suspend, resume, timeout, priority change, wait list insertion |
| RtSem | `ipc.c:199-515` | a semaphore, its threads, interrupts and timers |
| RtMutex | `ipc.c:530-900` | mutexes with ownership, recursion and priority inheritance |
| RtMailbox | `ipc.c:1294-1758` | a mailbox with waiting senders and receivers |
| MailFifo | | what a mailbox promises: the abstract specification |
| RtMq | `ipc.c:1781-2442` | a message queue of linked nodes, with waiting senders and receivers |
| UrgentQueue | | what a message queue promises: the abstract specification |
| RtEvent | `ipc.c:915-1277` | an event object |
| RtDataQueue | `drivers/src/dataqueue.c` | a data queue between threads and interrupts, with its reset |
| RtSerialDma | `drivers/serial/serial.c:510-542, 1221-1248` | writing by DMA through a data queue; extends RtDataQueue |
| FbAlloc | `omv/fb_alloc.c` | the frame buffer stack, with calls torn by a hard jump |
| OmvPreview | `omv/framebuffer.c`, `omv/mutex.c`, the frame commands of `omv/usbdbg.c`, the packets of `virtual_com.c` | the preview buffer by itself |
| OmvIde | `omv_main.c`, `omv/pendsv.c`, the script commands of `omv/usbdbg.c` | the main thread and the USB interrupt; extends and implements OmvPreview |
| RtKernelProofs | | lemmas about RtKernel's operators, for the next six |
| RtSemProofs, RtMutexProofs, RtMailboxProofs, RtMqProofs, RtEventProofs | | TLAPS proofs about the kernel objects |
| RtSerialDmaProofs | | TLAPS proofs about the data queue and the serial port on it |
| OmvProofs | | TLAPS proofs about the firmware's own parts: FbAlloc, OmvPreview, OmvIde |
| MCRtSem, MCRtMutex, MCRtMailbox, MCRtMq, MCRtEvent, MCRtSerialDma, MCFbAlloc, MCOmvIde | | the instances TLC checks |

### Kernel objects

The kernel's state is one record `k`: `cur` is `rt_current_thread`, `ready` and
`group` are `rt_thread_priority_table` and `rt_thread_ready_priority_group`,
`stat`, `prio`, `error` are the thread's fields, `yield` the flag the tick sets
when a slice ends, `armed` whether the thread's timer is running. Each kernel
function is an operator from one such record to the next (`InsertThread`,
`RemoveThread`, `SuspendThread`, `ResumeThread`, `TimeoutThread`,
`ChangePriority`, `Schedule`), so that an object's action composes the calls of
a critical section in the order of the code. `KernelStates` is the set of such
records. The three loops that run in one critical section, `rt_ipc_list_resume_all`
in a reset, the release of all messages in a reset and the walk of
`rt_event_send`, are recursive functions of the turn (`ResumeAll`, `ReleaseAll`,
`Sent`). `RtSem`, `RtMutex`, `RtMailbox`,
`RtMq`, `RtEvent` and `RtDataQueue` extend `RtKernel` and add their object's
fields and wait lists. The flag an object is created with, `RT_IPC_FLAG_FIFO` or
`RT_IPC_FLAG_PRIO`, is chosen from `IpcFlags` in the initial state (`k.flag`), so
that one run covers both orders.

Code with interrupts disabled is one step. Where the code enables them and goes
on, the model has a step boundary, recorded in `pc`: between suspending oneself
and `rt_schedule` ("block"), inside and after it ("ret"), between resuming
another thread and `rt_schedule` ("resched"), and at the loop test and the loop
body of `rt_ipc_list_resume_all` ("detach", "pick"), and between the two critical
sections of a message queue call, while it copies ("hold"). At every boundary a timer,
a tick or an interrupt handler may come first. An interrupt handler's
`rt_schedule` belongs to the handler's step, as the processor reaches no thread
code before it.

Timers and time slices are abstracted: a running timer may fire at any moment,
and any tick may end a slice. A blocking call has three wait modes, "now",
"timed" and "forever", for `time` zero, positive and negative. After a wake-up a
mailbox or message queue call may find that its remaining time is zero: the mode
of a timed call may drop to "now". Messages and flags are small sets. Variables marked *history*
in the modules (`balance`, `arrived`, `late`, `held`, `forfeit`, `under`, `claim`, `last`, `torn`,
`tornCall`, `raced`, `overrun`, the fields `by`, `saved`, `half`, `mixed` and `cut`)
are not in the code; no guard reads them, but `by` in the guard of `fb_free`, for
that its callers free what they allocated.

Callers are assumed to behave as far as the code cannot check: they use an
object only while it exists and nobody is destroying it, they do not destroy a
mutex another thread holds, or a mailbox or queue another thread is about to touch. The
idle thread makes no calls.

`mq` of a message queue is the pool of nodes with their links: what a list holds
is the sequence that its links spell (`Lists`, `Chain`), and a node between two
critical sections is in the `hand` of its thread and in no list.

### The data queue and the serial port

`dq` holds the two indices and the ring, `wait` the two lists, `call` what an
unfinished call was asked. Push and pop mirror each other and share the model of
their loop, with the direction as a parameter; the differences are `CanGo`,
`Moved` and `Wakes`. The indices wrap at `IndexMod` and are compared as integers,
as C promotes them. `rt_data_queue_reset` runs with the scheduler locked: while
a thread is in it, `rt_schedule` in an interrupt does nothing (`IsrSchedule`).

`RtSerialDma` adds `tx`, the mark and the DMA channel. A writer is at "hold"
between its push and its test of `activated`, and at "start" between setting the
mark and calling `dma_transmit`. A run starts in one of two uses: "serial", where
only writers and the DMA interrupt touch the queue, and "plain", where threads
and interrupts push, pop, time out and reset as they like.

### The frame buffer stack

`hdr` maps the address of every live block to its header word, `pointer` and
`overlay` are the two static pointers. Addresses count words. The pop loops run
one iteration per step; `fb_alloc_cut`, `fb_alloc_all_cut`, `fb_free_cut` and
`PopLoop_cut` are calls left by a hard jump at each place where the stack or the
overlay is half done, after which the history variable `tornCall` is set until the
allocator is initialised again. `fb_free_all` is not torn: `omv_main.c` calls it
outside every nlr buffer, where a jump ends the program. The unsigned differences
of `fb_alloc_all` are taken modulo the address space. Those of `fb_alloc` are not:
requests are assumed no larger than the address of the frame buffer, so that
neither the rounding nor the subtraction wraps (`FbAssumption`).

### The preview and the script

`lock` is the two-word spin lock, `jpeg` the buffer with its header, `fb` the
place of the script thread in `fb_update_jpeg_buffer`, `usb` the transfer of
`virtual_com.c` (`cmd`, `xfer_bytes`, `dbg_xfer_length`, `s_omvSendIsToContinue`,
a packet on the way, `debug_mode`), `ide` what the IDE was announced and has
received. Pictures are names, and the header and each packet of the buffer hold
the name of the picture they come from: that is all the properties tell apart.
The script thread takes one step per store that the interrupt could come
between: in `fb_update_jpeg_buffer`, and in the `mutex_init` of a camera reset,
whose stores of `tid` and of `lock` are the steps `imx_cam_reset` and
`mutex_init`. The place "unlock" is the test of the owner in `mutex_unlock`. The
packet FRAME_SIZE between the two stores of `mutex_init` makes the IDE the owner of
a lock whose word then says that it is free (`Disagrees`). The interrupt handler is
one step, as nothing on this processor interrupts it that touches the same state.

`vm` is the main thread (`pc`) and its flags: the pending exception,
`script_ready`, `script_running`, `s_UsbDbgIsToRunScript` (`toRun`),
`g_isMainDotPyRunning` (`main`), the enable bit of the USB interrupt (`irq`) and
`omv_start` (`start`). `Handlers` says where an exception lands from each place.
An exception is found by the virtual machine (`PendingRaised`), by the poll for
input (`usbdbg_try_run_script`, a jump the thread makes itself), or comes as a
hard jump out of any step (`Jump`), then also in a thread or at a place without a
handler: `pc` becomes "lost" and nothing is claimed any more.

The IDE is assumed to follow its own protocol: a command only when the device
expects no data, a dump only for a picture that was announced, an upload before
anything else. It may disconnect, reconnect or leave the port to a terminal at
another baud rate at any moment, and send, stop and upload in any order
otherwise.

## Runs

| run | checks | shows |
|---|---|---|
| sem | TokensConserved, WaitersMeanZero, ServedInOrder, UrgentRuns, ListsSound, TimedWaitEnds | three threads, interrupts and timers on a semaphore of either order, with reset, destruction and re-initialisation; a timed wait ends |
| sem_detach (violation) | ResumesThreads | the loop test of `rt_ipc_list_resume_all` is outside its critical section |
| mutex_one | HoldersOwn, Inheritance, PriorityRestored, UrgentRuns, ListsSound | three threads on one recursive mutex of either order that is destroyed and initialised again |
| mutex_nested (violation) | PriorityRestored | `original_priority` may be an inherited one |
| mutex_inversion | InversionBounded | priority inversion ends |
| mailbox | IsFifo, NoLostWakeup | the ring refines `MailFifo` and no wake-up is lost |
| mq | IsUrgentQueue, NodesOnce, NoLostWakeup | the node lists refine `UrgentQueue`, every node is in one place, no wake-up is lost |
| event | NoneSatisfiedWaits, AnswersRequest, ClearedOnce | AND, OR and CLEAR requests against senders, interrupts and resets |
| serial | NoLostWakeup, SentInTurn, NeverStalls, ListsSound, OverrunByWrap, WriterGoesOn | writers, DMA and tick on a data queue whose indices wrap; the queue between threads and interrupts of any kind |
| fb | StackTiled, OverlayBalanced, PermanentKept, BracketRestores, PopLoopEnds | the stack stays well formed when the IDE tears calls; brackets undo everything as long as none was torn; every pop loop ends, but for a `fb_free_all` that meets a permanent block |
| ide | DumpWhole, WriterOwns, ScriptWhole, Stoppable, PreviewSpec, OrphanedByJump, LinkComesBack, UploadRuns, EndIsTold | the main thread and the USB interrupt from start to restart, with frames and with scripts; uploads run, the IDE is told, the link comes back |
| fb_header (violation) | AllocHasRoom | `fb_alloc_all` can push a block that looks like a mark |

Each module has one type invariant. It is a conjunct of one of the invariants
above (ListsSound, NodesOnce, NoneSatisfiedWaits, ScriptWhole, NoLostWakeup of the
mailbox); that of FbAlloc is proved (TypesAlways). ListsSound also joins ReadyListsSound of
RtKernel and the WaitersSuspended of its module.

Deadlock is checked in every run but ide, where the firmware really stops when a
hard jump finds no handler. An assertion that fails spins for ever and is a step
of its own (`Stopped`).

### What the violations say

* `rt_ipc_list_resume_all` (`ipc.c:163`) tests the list with interrupts enabled.
  The timer of the last waiting thread may fire before the body disables them;
  the body then treats the list head as a thread, against the assertion at
  `thread.c:770`. With `RT_DEBUG`, as built, the processor stops there. All
  detach and delete calls share the loop; the resets call it with interrupts
  disabled and are safe.
* `rt_mutex_take` (`ipc.c:699`) records the current priority as the original
  one. A thread that is already running at a priority lent through mutex x, takes
  y, releases x and then y ends at the lent priority for good.
* `fb_alloc_all` (`fb_alloc.c:186`) with the overlay used up pushes a block of
  no bytes, which `fb_alloc_free_till_mark` takes for a mark; comments at lines
  73 and 193 exclude it. `collections.c:63` calls it so. On a stack without a
  free word line 176 wraps and the header becomes 0.

### What the properties except

Some properties hold but for cases that the code really has. Each is named in
the property, reached by the model and listed as a hazard.

* DumpWhole, WriterOwns (`ide.mixed`): the picture is not whole when a hard jump
  tore the copy (`torn`), since the header of the picture before still stands and
  the next try of the script thread releases the lock; and when a store of
  `mutex_init` takes the lock from the IDE between announcement and dump. If
  FRAME_SIZE came between the two stores, the IDE stays the owner of a free lock
  after that exchange; an update that begins then (`fb.half`) copies under a lock
  the next FRAME_SIZE may release and take, so answers given during that update
  are excepted too. The next command that releases the lock as its owner
  (a second FRAME_SIZE, a disable, a disconnect, the end of a dump) ends this.
* OrphanedByJump: a hard jump between two stores of the lock leaves it without an
  owner: in `mutex_try_lock`, in `mutex_unlock`, and in the `mutex_init` of a camera
  reset while the IDE has the lock. The preview stays dead until the camera is
  reset.
* StackTiled, and all else about the frame buffer stack: `fb_alloc_all` is not
  called on a stack without a free word (`AllWhenFull` is FALSE in run
  fb), where `fb_alloc.c:176` wraps and the header becomes 0; and no request
  is so large that `fb_alloc.c:134` or 135 wraps.
* PopLoopEnds (`lost`): `fb_free_all` does not remove the permanent flag from a size.
  When it meets a permanent block it moves to an address off the grid and reads
  data as headers from then on; a size of 0 there keeps it in the loop for ever.
* UrgentRuns (`late`): destroying an object wakes its waiters without a
  `rt_schedule` (`ipc.c:240`), and a release that nobody waits for lowers the
  caller's priority without one (`ipc.c:865`). Until the next `rt_schedule` a more
  urgent thread waits.
* ScriptWhole (`script.cut`): a restart of the machine between two packets of an
  upload empties `script_buf` (`usbdbg.c:42`) and not `xfer_bytes`. The rest of
  the upload then completes it and is run by itself, although the comment at
  `usbdbg.c:276` says that an incomplete upload is not executed.
* LinkComesBack (`Starting`): a stop that arrives while the machine starts disables
  the USB interrupt and leaves an exception that `mp_init` forgets; the port is
  dead for as long as main.py runs.
* SentInTurn (`raced`): a writer that is overtaken between its push and its test of
  `activated` starts its own buffer though it is not the first, or has been sent
  already. `raced` is taken back when the queue is empty and nobody is at "hold".
* NoLostWakeup, SentInTurn, WriterGoesOn (`overrun`): once `put_index` has wrapped
  and `get_index` has not, the test for a full queue (`dataqueue.c:66`) fails, a
  push overwrites an unread item and the queue may look empty. OverrunByWrap says
  that this is the only moment it happens.
* Inheritance (`under`): with `RT_IPC_FLAG_FIFO` a new owner does not inherit from
  the threads already behind it, only from those that come to wait under it.
* PriorityRestored (`forfeit`): a mutex that its owner destroys while it runs at a
  lent priority gives nothing back (`ipc.c:569`).
* TokensConserved holds modulo the width of the counter, whose increment at
  `ipc.c:461` is unguarded.

### Bounds

Two or three threads besides the idle one, of two or three priorities: enough
for a waiter, a releaser and a thread that preempts both, and for two waiters of
equal and of different urgency; interrupt handlers are a further actor without
bound. `ValueWrap` 3 instead of 65536 makes the semaphore's counter wrap within
the run; the code does nothing special at either value. `MaxHold` bounds
recursive takes of a mutex at 2 (1 where liveness is checked), as the code counts them up and down alike. A
mailbox of size 2 with two values is the smallest in which order, wrap, a full
and an empty ring all differ; the message queue has two nodes, two ordinary
messages and an urgent one, so that head and tail, full, empty and a node in a
hand all differ. Two event flags let AND, OR and partial
satisfaction differ. The data queue has two places, a low water mark of 1 (8 and
4 in `serial.c`) and indices that wrap at 4, the smallest multiple of the size
with a wrap that is not also the end of the ring; the safety properties of the
serial use were also checked with three writers. The frame buffer stack has 7
words where calls are torn and 9 in run fb_header,
requests of one and two words and an overlay of 2 or 3 words: enough for three
nested brackets, an overlay that runs out and an exactly full stack. `MaxOverlay` bounds how often torn pops give
the same overlay words back.

In run ide a picture, a log and a script have two packets, so that a transfer can
be cut between them, and there are two pictures, so that a mixture shows.
`Sessions` lets the IDE be used for frames or for scripts in one behaviour, which
keeps the product of the two small; stopping, connecting, the keyboard and the
main thread are in both, so that frames meet every hard jump. `Polls` says that
main.py and scripts may read input, as the REPL always does.

### Fairness

* RtSem: a thread that has the processor and is inside a kernel call goes on (weak
  fairness), and a running timer fires (the tick interrupt). Nothing is assumed
  of releases.
* RtMutex: a thread that gets the processor again and again goes on with its call
  and, if it owns a mutex, at some time releases it (strong fairness, as others
  may preempt it); ticks come and timers fire. Threads that own nothing may run
  for ever. Ticks are needed: a release nobody waits for lowers the caller's
  priority without a `rt_schedule`, so a thread that became more urgent runs only
  at the next tick (`late` in the model).
* FbAlloc: a pop loop keeps running, those of `int_fb_alloc_free_till_mark` and of
  `fb_free_all` alike; they are straight-line code. Nothing is assumed of a
  `fb_free_all` that is lost.
* OmvIde: the main thread goes on where it waits for nobody, and Python code comes
  out of `fb_update_jpeg_buffer` and `mutex_init`, which do not block (weak
  fairness). It comes to the check for a pending exception, which the virtual
  machine makes at every backward jump, or, as a line typed at the REPL, to its
  end: strong fairness, as code that calls `fb_update_jpeg_buffer` or resets the
  camera for ever is between two calls only again and again. Scripts and main.py need
  not end, nor read input. The user pauses between the lines again and
  again, so that the REPL reaches its poll (strong fairness, as it may be left and
  entered). Nothing is assumed of the IDE.
* RtSerialDma: the DMA ends its transfers, the tick comes, and writers of equal
  priority get their turn long enough to get through a call (strong fairness: the
  time slices of `rt_tick_increase`). Nobody is obliged to write.

The remaining runs check safety and assume nothing.

## Proofs

Each theorem holds for every value of the constants that the `ASSUME` of its
module allows: any finite set of threads with any priorities below which the
idle thread stays (`KernelAssumption`), any finite set of flags, any size of a
mailbox, queue, stack or picture, and all requests whose subtraction does not wrap. Each rests on an invariant that was first
checked by TLC on the run of its module. What the theorems do not need is not
assumed; the two further hypotheses, `~AllWhenFull` and one mutex, are explained
below. Every safety property that a passing run checks is a theorem: each
invariant, each action property and each refinement.

### The kernel

`RtKernelProofs` has no theorem about behaviours, only what the operators of
RtKernel return and keep, which the proofs of six objects share. `KernelSound(s)`
says of a kernel record that it is well typed; that a thread is in a ready list
exactly when it is ready, once, in that of its priority, and that the bitmap
names the lists that are not empty (`Linked`); that only the current thread runs;
that only suspended threads have a timer running; and that the idle thread is
never suspended, so that `rt_schedule` always finds a thread. Each kernel function
takes a sound record to a sound one, with the set of suspended threads
(`Asleep`) it changes: one lemma for each. An object's step then follows from the
lemmas of the calls it makes.

The lists are sequences without repetition, and the lemmas about them
(`UnlinkFacts`, `InsertFacts`) give the set of elements, that none repeats, and
the order that is kept. `ResumeAll` is a loop: the prover cannot use an induction
principle with a predicate as its parameter, so the lemma assumes a turn after
which the claim fails and looks at the least such turn (`LeastNat`, from the
well-founded order of the naturals).

### Semaphore

* `WaitersMeanZeroAlways`: inductive by itself. Take tests the value and links the
  caller in one critical section, release raises the value only behind an empty
  list, a timeout only removes from the list.
* `ListsSoundAlways`: on `Sound`, which adds that the wait list is exactly the set
  of suspended threads, that each of them is still inside `rt_sem_take` and has not
  been given an error, and that the current thread is suspended only on its way to
  `rt_schedule`. Without the last a timer could ready the current thread, and
  `rt_schedule` would put it in a ready list twice.
* `UrgentRunsAlways`: the current thread is the most urgent one wherever it is not
  on its way to `rt_schedule` (`UrgentSound`).
* `TokensConservedAlways`: the balance and the tokens in flight are compared modulo
  the width of the counter. A thread is in flight when it was woken without an
  error and has not returned: each step moves at most one thread in or out, and a
  timeout or a reset, which gives an error, none.
* `ServedInOrderAlways`: the list is in the order of arrival, within the order of
  the priorities if it is by priority (`InOrder`).

### Mutex

* `ListsSoundAlways`, `HoldersOwnAlways`, `UrgentRunsAlways`: for any number of
  mutexes. `Sound` adds to the semaphore's that a take that has been woken without
  an error is exactly one whose thread owns the mutex (`CallSound`), which is what
  makes a timeout that meets a release harmless; that a mutex is destroyed by its
  owner only (`DestroySound`); and that what a mutex counts is what its owner took,
  and one more while it has been handed over to a thread that has yet to leave
  `rt_mutex_take` (`HoldSound`).
* `InheritanceAlways`, `PriorityRestoredAlways`: for one mutex. With two they are
  false: run mutex_nested is the counterexample for the second, and the first
  fails because the last release of one mutex takes back what was lent through
  another. `Lent` says that every thread but the owner has its own priority, that
  the mutex remembers the owner's, and that a list by priority is in order. The
  last is needed for the hand-over: the head is then the most urgent of those
  that wait, so the new owner need not inherit. A change of the owner's
  priority cannot disturb the order, as the owner of the only mutex waits for none.

### Mailbox

* `NoLostWakeupAlways`: Sound as above, for two lists. The invariant is the
  property as a count: while someone waits to receive, there are as many receivers
  on their way as there are values, and the same of senders and free places
  (`WakeSound`). A woken thread that is overtaken finds nothing and waits again:
  the one that overtook it took the value it was on its way to.
* `ImplementsFifo`: the ring implements `MailFifo`, step by step. What is needed of
  the ring is that `in_offset` is `entry` places after `out_offset` (`RingSound`); of
  the calls, that a sender that waits has a value to send.

### Message queue

The invariant has two halves that meet only in the nodes in hand.

* `Sound` is that of the mailbox, for a call with two critical sections: a thread
  at "hold" is in no wait list, and a sender that waits or has a node has a message.
* `HandSound` says where the nodes are. `Pool(q, s, f, H)` relates a queue record to
  the sequences its links spell: `s` from `head`, `f` from `free`, both without
  repetition, disjoint from each other and from the set `H` of the nodes in hand,
  and all nodes together; `entry` is the length of `s` and `tail` its last node.
  A thread has a node exactly at "hold", no two have the same, that of a receiver
  has a message, and a queue that is destroyed or does not exist has lent none.

A sequence is what the induction over a chain would have to produce, so there is
no induction: only one sequence without repetition follows the links from a node
(`OneList`, by the least place at which two would differ), so `Chain` is that
sequence, and each operation on the record (`PopHead`, `PopFree`, `PushFree`,
`PushHead`, `PushTail`) gives the sequences of the record it returns, by one lemma
each. The loop of a reset (`ReleaseAllPool`) goes by its least bad turn, as
`ResumeAll` does.

* `NodesOnceAlways`: the three places have all nodes, and the numbers of nodes in
  them add up because they are disjoint and each node is once in its own
  (`PlacesCount`). That a reset between the two critical sections of a call is
  harmless is that it leaves `H` alone.
* `ImplementsUrgentQueue`: the messages of `s` are the abstract queue, what the
  receivers have in hand are the messages taken and not seen. The first critical
  section of a receiver is `Take`, its second `See`; of a sender the first is no
  step and the second `Put`, for which there is a place because the list it makes
  has no repetition either (`ListFits`); an interrupt handler does both at once.
* `NoLostWakeupAlways`: the count of the mailbox (`WakeSound`), with messages in the
  queue and nodes in the free list (`Room`), which no longer add up to the size: a
  node in hand is room for neither side. The first critical section takes the
  room and its thread off one side, and only the second makes room on the other
  and wakes a thread for it (`SideKept`, `SideWakes`).

### Event

* `NoneSatisfiedWaitsAlways`, `AnswersRequestAlways`: on the invariant that nobody in
  the list is satisfied and that each thread that was woken has the answer to its
  request. A send is a loop over the list that clears flags on its way, and its
  invariant is `Reached`: those that left the list have their answers, what they
  cleared is no longer raised, those passed are not satisfied and those to come
  are untouched. That the loop leaves nobody satisfied behind is the argument that
  clearing a flag satisfies nobody.
* `ClearedOnceAlways`, an action property, from the same loop invariant: what one
  taker cleared is in no later taker's answer.

### Data queue and serial port

The proofs are about RtSerialDma, whose behaviours are those of the data queue
between threads and interrupts as well as those of a port ("plain" and "serial").
The size divides the modulus of the indices (`DataQueueAssumption`), as the 8 of
`serial.c` divides 65536.

* `ListsSoundAlways`: on `Sound`, the semaphore's for two lists. What a reset adds
  is that `rt_schedule` in an interrupt does nothing while the scheduler is locked.
* `NoLostWakeupAlways`: on `CountSound`, that no more items than places are between
  the indices unless a push has overfilled the ring, and on the count `WakeSound`.
  For pushers the room is what is free up to the low water mark: a pop above it
  wakes nobody.
* `OverrunByWrapAlways`, an action property, from the same: the test for a full
  queue compares the difference of the two indices as integers, and without a wrap
  between them that is the number of items. Two indices less than a round apart
  have different places in the ring (`PlacesApart`), wrap or not, as the size
  divides the modulus.
* `NeverStallsAlways`: on `TxSound`. `activated` is up exactly while the DMA sends or
  one writer is about to start it, never both and never two writers; behind a
  queue that is not empty the mark is up or a writer has yet to test it.
* `SentInTurnAlways`: on `Turn`, which holds until a writer is overtaken: one writer
  at most has yet to test the mark, its buffer is the last of the queue and, while
  the port sleeps, the only one.

### Frame buffer stack

All five assume `~AllWhenFull`, the precondition that `fb_alloc_all` is not called
without a free word: run fb_header shows what happens when it is called with
little, and on a stack without any the unsigned subtraction wraps.

* `StackTiledAlways`, `TypesAlways`: torn calls included (`TornStep`; a torn
  `fb_alloc` or `fb_alloc_all` takes its block as a whole one does, `TornTakes`). `StackTiled` alone is not
  inductive: the invariant adds the types of the pointers, of the headers and of
  the overlay level. There are only three ways to change the stack, a push below
  the pointer, a pop by the size at the pointer, and a reset. The type that
  matters is that `pointer_overlay` never runs below its region.
* `PermanentKeptAlways`: an action property, from the same invariant and from the
  place where the pop loop stops.
* `OverlayBalancedAlways`: the sum of the overlay words of the live blocks and the
  level is the size of the region. The sum is over a set of any size; the lemmas
  prove of it, by the least counterexample over the size, what a block added or
  taken away does to it (`SumExists`, `SumAdds`).
* `BracketRestoresAlways`: an action property. The invariant `Ledger` says that each
  block was pushed on the level that the block below left, so that popping down to
  a mark restores the level, whatever was in between. `MarksSmall` says that a mark
  has the size that the loop looks for.

### Preview and script

* `DumpWholeAlways` and `WriterOwnsAlways`: for any set of
  pictures of any number of packets. Neither property is inductive. The invariant
  adds that, in an update that did not begin on a disagreeing lock, the two words
  of the lock agree but where the script thread is between its two stores, and
  that the lock is its own while it copies (LockSound); that the packets copied so far
  are of the picture being copied (CopySound); that, unless a copy was torn or is
  being made, the buffer holds the picture its header names (HeaderTrue); that the
  IDE owns the lock, word and name, while it reads what it was promised, and no
  update on a disagreeing lock is then under way (ReaderOwns); and that the
  transfer never asks for more packets than there are (TransferBounded) and counts
  them as the IDE does (ExchangeSound). A dump is then whole because nobody writes
  while the IDE owns the lock, and what it reads was whole when it took it.
* `OrphanedByJumpAlways`, an action property, step by step: a
  step of the IDE's side takes or gives back word and owner together
  (`IdeOwnsOrNobody`), and a step of the script thread leaves the word without an
  owner only on its way to its second store (`ScriptOwnsOrGoesOn`).
* `ImplementsPreview`: the main thread and the USB interrupt implement
  the preview by itself, step by step: a step of theirs is one of the preview's,
  an abandoned update together with the packet that caused it, or leaves the
  preview alone. `IdeDumpWhole` and `IdeOrphanedByJump` follow with the theorems above.
* `ScriptWholeAlways` and `StoppableAlways`, on `IdeSound` (`IdeInvariance`),
  for uploads of any number of packets. During an upload the packets kept are
  those the transfer has counted, unless a restart came between (TransferSound);
  while `script_running` is up the text is empty or whole (TextSound);
  `script_ready` is only left up where nothing runs that it does not announce
  (ReadySound); and from the launch on `script_running` is up or the exception is
  already pending (StopSound).

### What is only model-checked

* Liveness: TimedWaitEnds, InversionBounded, WriterGoesOn, PopLoopEnds,
  LinkComesBack, UploadRuns and EndIsTold need fairness and ENABLED, which the
  prover cannot reason about.
* What the three runs that expect a violation show: a counterexample needs no proof.
* With more than one mutex, Inheritance and PriorityRestored: they are false there.

No module uses RECURSIVE operators; loops are recursive functions.

## Not modelled

See "components" in `PROJECT.json` for each part and the reason. In the modelled
objects: signals interrupting a wait (`-RT_EINTR`), object hooks, the SMP variants
(not built), the bytes inside frame buffer blocks. In the IDE's part: a script
that catches the IDE's exception and goes on, allocation in the collector's heap
by the USB interrupt, the JPEG quality, a picture printed to the log because it
does not fit the buffer, the commands that save templates, descriptors and
attributes, and the second (blocking) call of the spin lock, which nobody uses.

Known to be hard and not covered by a property, besides the hazards with a note in
`PROJECT.json`: an upload that completes as main.py ends leaves an exception that
ends the uploaded script (`usbdbg.c:291`); a timed push or pop that is overtaken
waits again with its whole timeout (`dataqueue.c:86`); `RingBlk_FixBlkFillCnt`
returns from inside its critical section (`ring_buffer.c:504`), and a full ring
looks empty to `RingBuf_Peek` (`ring_buffer.c:180`).

## Plan

1. Mutexes in chains: three threads and two mutexes, where inheritance is not
   passed on and a wait list is not sorted again.
2. Completion on RtKernel (a completion between timeout and return), then the work
   queue; the rest of the serial driver waits on completions.
3. `RtThread` and `RtTimer`: resume with interrupts enabled, yield (which does
   not set the flag `rt_schedule` tests), delete and the defunct list; the timer
   list, tick wrap and the soft timer thread.
4. The USB block ring, buffered files, the memory pool, camera buffers; the torn
   calls of FbAlloc driven by OmvIde's jumps.
5. Proofs: of the parts above, on RtKernelProofs. What is left of the parts that are
   modelled is liveness.
