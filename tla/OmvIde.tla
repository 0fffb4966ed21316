------------------------------- MODULE OmvIde -------------------------------
(***************************************************************************)
(* The life of a script: the main thread of omv_main.c, which runs         *)
(* main.py, the REPL and the scripts the IDE uploads, and the USB          *)
(* interrupt, which starts and stops them (usbdbg.c) by raising exceptions *)
(* in that thread (pendsv.c), together with the preview of OmvPreview.     *)
(*                                                                         *)
(* An exception is raised softly, by leaving it for the virtual machine to *)
(* find, or hard, by making the interrupt return into nlr_jump: then the   *)
(* thread is torn out of whatever it was doing.  vm.pc is the place of the *)
(* main thread; it is "lost" when a hard jump met no handler, or another   *)
(* thread than this one.                                                   *)
(***************************************************************************)
EXTENDS OmvPreview, Sequences

CONSTANTS
    Sessions,   \* what the IDE is used for: sets of "frames" and "scripts"
    Polls       \* where Python code reads stdin: some of "main", "line", "script"

ASSUME IdeAssumption ==
    /\ Sessions \subseteq SUBSET {"frames", "scripts"}
    /\ Polls \subseteq {"main", "line", "script"}

VARIABLES
    vm,         \* the main thread and the flags it shares with the interrupt
    script      \* script_buf, the packets of the upload the IDE has sent, whether a
                \* restart emptied the buffer among them (history), and what the
                \* IDE is used for

vars == <<lock, jpeg, fb, usb, ide, torn, vm, script>>

Whole == [p \in 1..Packets |-> p]

Running == {"cmm", "main", "line", "script"}

Pcs == Running \cup {"boot", "init", "test", "repl", "exit", "launch", "compile",
                     "ended", "caught", "leave", "lost"}

Machines == [pc : Pcs, pending : BOOLEAN, ready : BOOLEAN, running : BOOLEAN,
             toRun : BOOLEAN, main : BOOLEAN, irq : BOOLEAN, start : BOOLEAN]

Uploads == [buf : Seq(1..Packets), sent : 0..Packets, cut : BOOLEAN, uses : Sessions]

IdeTypeOK ==
    /\ TypeOK
    /\ vm \in Machines
    /\ script \in Uploads

Init ==
    /\ PreviewInit
    /\ vm = [pc |-> "boot", pending |-> FALSE, ready |-> FALSE, running |-> FALSE,
             toRun |-> FALSE, main |-> FALSE, irq |-> TRUE, start |-> FALSE]
    /\ \E uses \in Sessions :
          script = [buf |-> <<>>, sent |-> 0, cut |-> FALSE, uses |-> uses]

-----------------------------------------------------------------------------
\* pendsv.c and the handlers that catch an exception.

\* Where nlr_jump lands: the handler of main.py, of the REPL loop, of a REPL
\* line (parse_compile_execute) or of the script.
Handlers(pc) ==
    CASE pc = "cmm" -> {"main", "test"}
      [] pc = "main" -> {"test"}
      [] pc = "repl" -> {"test"}
      [] pc = "line" -> {"repl"}
      [] pc \in {"launch", "compile", "script"} -> {"caught"}
      [] OTHER -> {"lost"}

\* main.py is marked as running when it starts, and as over when it is left.
Enter(s, pc) == [s EXCEPT !.pc = pc, !.main = IF pc = "main" THEN TRUE
                                              ELSE IF s.pc = "main" THEN FALSE ELSE @]

\* The exception object exists from usbdbg_init on: before, 0 is "raised".
IdeException == vm.pc # "init"

\* pendsv_nlr_jump without the jump: the exception is left for the machine, or
\* taken back for a hard jump when one was left already.
Request(s) == [s EXCEPT !.pending = IF vm.pending THEN FALSE ELSE IdeException]

\* The interrupt returns into the jump: in the main thread, or in whatever
\* thread it interrupted.
Jump(s) ==
    /\ \E pc \in Handlers(vm.pc) \cup {"lost"} : vm' = Enter(s, pc)
    /\ AbandonUpdate

\* Mutant: the second request takes the exception back and sends no signal.
pendsv_nlr_jump_NoSignal(s) == vm' = Request(s) /\ UNCHANGED <<fb, torn>>

\* pendsv_nlr_jump(mp_const_ide_interrupt), called from an interrupt.
pendsv_nlr_jump(s) ==
    IF vm.pending THEN Jump(Request(s))
    ELSE vm' = Request(s) /\ UNCHANGED <<fb, torn>>

-----------------------------------------------------------------------------
\* The USB interrupt, which runs while it is enabled in the NVIC and, for
\* commands, once usbdbg_init has started the port.

Interrupt == vm.irq /\ vm.pc # "lost"

\* Mutant: a new connection starts with a fresh lock.
Connect_Unlocks ==
    /\ Interrupt
    /\ usb' = [usb EXCEPT !.debug = TRUE, !.left = 0]
    /\ ide' = NoPromise
    /\ lock' = Unlocked
    /\ script' = [script EXCEPT !.sent = 0]
    /\ UNCHANGED <<jpeg, fb, torn, vm>>

\* The line state, the frame commands and the log.
Connect ==
    /\ Interrupt
    /\ CheckVCOMConnect
    /\ script' = [script EXCEPT !.sent = 0]
    /\ UNCHANGED vm

Disconnect ==
    /\ Interrupt /\ vm.start
    /\ usbdbg_disconnect
    /\ script' = [script EXCEPT !.sent = 0]
    /\ UNCHANGED vm

\* The IDE sends no command before it has sent its script.
Uploaded == script.sent \in {0, Packets}

ServeFrame ==
    /\ Interrupt /\ vm.start /\ Uploaded
    /\ "frames" \in script.uses
    /\ FrameCommand
    /\ UNCHANGED <<vm, script>>

ServeLog ==
    /\ Interrupt /\ vm.start /\ Uploaded
    /\ "scripts" \in script.uses
    /\ ReadLog
    /\ UNCHANGED <<vm, script>>

SendNext == Interrupt /\ SendResponse /\ UNCHANGED <<vm, script>>

\* USBDBG_SCRIPT_EXEC in usbdbg_control.
ScriptExec ==
    /\ Interrupt /\ vm.start /\ Uploaded
    /\ "scripts" \in script.uses
    /\ UploadCommand
    /\ script' = [script EXCEPT !.buf = <<>>, !.sent = 0, !.cut = FALSE]
    /\ UNCHANGED <<lock, jpeg, fb, ide, torn, vm>>

\* Mutant: the packets that arrived are counted, kept or not.
Complete_CountsAll(kept) == usb.left = 1

\* xfer_bytes == xfer_length after this packet.
Complete(kept) == kept /\ usb.bytes + 1 = Packets

\* USBDBG_SCRIPT_EXEC in usbdbg_data_out.  The packet is dropped while a script
\* runs or the collector is locked.
ScriptPacket ==
    /\ Interrupt /\ vm.start /\ script.sent < Packets
    /\ \E gcLocked \in BOOLEAN :
          LET kept == ~vm.running /\ ~gcLocked
          IN  /\ UploadPacket(kept)
              /\ script' = [script EXCEPT !.buf = IF kept THEN Append(@, script.sent + 1) ELSE @,
                                          !.sent = @ + 1]
              /\ LET s == [vm EXCEPT !.toRun = TRUE, !.ready = TRUE, !.running = TRUE]
                 IN  CASE ~Complete(kept) -> UNCHANGED <<vm, fb, torn>>
                       [] Complete(kept) /\ vm.main -> pendsv_nlr_jump(s)
                       [] OTHER -> vm' = s /\ UNCHANGED <<fb, torn>>
    /\ UNCHANGED <<lock, jpeg, ide>>

\* USBDBG_SCRIPT_STOP in usbdbg_control.
ScriptStop ==
    /\ Interrupt /\ vm.start /\ Uploaded
    /\ OtherCommand
    /\ IF vm.running
       THEN pendsv_nlr_jump([vm EXCEPT !.irq = FALSE, !.running = FALSE, !.ready = FALSE])
       ELSE UNCHANGED <<vm, fb, torn>>
    /\ UNCHANGED <<lock, jpeg, ide, script>>

\* pendsv_kbd_intr: Ctrl-C from a terminal, while Python code runs.
Keyboard ==
    /\ Interrupt /\ ~usb.debug /\ vm.pc \in Running
    /\ pendsv_nlr_jump(vm)
    /\ UNCHANGED <<lock, jpeg, usb, ide, script>>

UsbInterrupt ==
    \/ Connect \/ Disconnect \/ ServeFrame \/ ServeLog \/ SendNext
    \/ ScriptExec \/ ScriptPacket \/ ScriptStop \/ Keyboard

-----------------------------------------------------------------------------
\* The main thread, omv_main_thread_entry.

AtPc(pc) == vm.pc = pc /\ UNCHANGED previewVars

\* omv_restart: mp_init forgets what is pending.
mp_init ==
    /\ AtPc("boot")
    /\ vm' = [vm EXCEPT !.pc = "init", !.pending = FALSE]
    /\ UNCHANGED script

\* usbdbg_init, then cmm_load.py and main.py where they exist.
usbdbg_init ==
    /\ AtPc("init")
    /\ \E pc \in {"cmm", "main", "test"} :
          vm' = Enter([vm EXCEPT !.ready = FALSE, !.running = FALSE, !.start = TRUE], pc)
    /\ script' = [script EXCEPT !.buf = <<>>, !.cut = @ \/ script.buf # <<>>]

\* Python code comes to its end, by itself or by an exception of its own.
PythonEnds ==
    /\ vm.pc \in Running /\ fb.at = "out"
    /\ \E pc \in Handlers(vm.pc) \cup (IF vm.pc = "script" THEN {"ended"} ELSE {}) :
          vm' = Enter(vm, pc)
    /\ UNCHANGED <<previewVars, script>>

\* The machine, or mp_handle_pending in a delay or a poll, finds the exception.
PendingRaised ==
    /\ vm.pc \in Running \cup {"repl"} /\ fb.at = "out"
    /\ vm.pending
    /\ \E pc \in Handlers(vm.pc) : vm' = Enter([vm EXCEPT !.pending = FALSE], pc)
    /\ UNCHANGED <<previewVars, script>>

\* Mutant: the flag is taken back and the REPL goes on.
usbdbg_try_run_script_NoJump ==
    /\ vm.pc \in Polls \cup {"repl"} /\ fb.at = "out"
    /\ vm.toRun
    /\ vm' = [vm EXCEPT !.toRun = FALSE]
    /\ UNCHANGED <<previewVars, script>>

\* Mutant: the flag is left for the next poll.
usbdbg_try_run_script_KeepsFlag ==
    /\ vm.pc \in Polls \cup {"repl"} /\ fb.at = "out"
    /\ vm.toRun
    /\ \E pc \in Handlers(vm.pc) :
          vm' = Enter([vm EXCEPT !.irq = FALSE, !.pending = FALSE], pc)
    /\ UNCHANGED <<previewVars, script>>

\* The second half of a poll for input, after mp_handle_pending: a hard jump of
\* the thread itself.  What an interrupt left pending since the first half is
\* forgotten.
usbdbg_try_run_script ==
    /\ vm.pc \in Polls \cup {"repl"} /\ fb.at = "out"
    /\ vm.toRun
    /\ \E pc \in Handlers(vm.pc) :
          vm' = Enter([vm EXCEPT !.irq = FALSE, !.toRun = FALSE, !.pending = FALSE], pc)
    /\ UNCHANGED <<previewVars, script>>

\* Mutant: the REPL starts with the interrupt as it was left.
TestReady_IrqKept ==
    /\ AtPc("test")
    /\ vm' = IF vm.ready THEN [vm EXCEPT !.pc = "exit"]
             ELSE [vm EXCEPT !.pc = "repl", !.main = TRUE]
    /\ UNCHANGED script

\* The loop at RunREPL.
TestReady ==
    /\ AtPc("test")
    /\ vm' = IF vm.ready THEN [vm EXCEPT !.pc = "exit"]
             ELSE [vm EXCEPT !.pc = "repl", !.irq = TRUE, !.main = TRUE]
    /\ UNCHANGED script

\* The REPL reads a line, which may be there before the first poll.
ReadLine == AtPc("repl") /\ vm' = [vm EXCEPT !.pc = "line"] /\ UNCHANGED script

\* Ctrl-D ends the REPL.
LeaveRepl == AtPc("repl") /\ vm' = [vm EXCEPT !.pc = "exit"] /\ UNCHANGED script

\* The second test of script_ready: a stop in between restarts the machine.
TestAgain ==
    /\ AtPc("exit")
    /\ vm' = [vm EXCEPT !.pc = IF vm.ready THEN "launch" ELSE "leave"]
    /\ UNCHANGED script

Launch ==
    /\ AtPc("launch")
    /\ vm' = [vm EXCEPT !.pc = "compile", !.irq = TRUE]
    /\ UNCHANGED script

\* pyexec_str hands script_buf to the lexer.
pyexec_str == AtPc("compile") /\ vm' = [vm EXCEPT !.pc = "script"] /\ UNCHANGED script

\* The script came to its end: usbdbg_set_script_running(false).
ScriptEnded ==
    /\ AtPc("ended")
    /\ vm' = [vm EXCEPT !.pc = "leave", !.running = FALSE, !.toRun = FALSE]
    /\ UNCHANGED script

\* The script was interrupted: usbdbg_stop_script, then RunREPL.
usbdbg_stop_script ==
    /\ AtPc("caught")
    /\ vm' = [vm EXCEPT !.pc = "test", !.running = FALSE, !.ready = FALSE]
    /\ UNCHANGED script

\* mp_deinit, and everything again.
Restart ==
    /\ AtPc("leave")
    /\ vm' = [vm EXCEPT !.pc = "boot", !.irq = TRUE]
    /\ UNCHANGED script

\* What the thread does without being asked.
ThreadGoesOn ==
    \/ mp_init \/ usbdbg_init \/ TestReady \/ TestAgain \/ Launch \/ pyexec_str
    \/ ScriptEnded \/ usbdbg_stop_script \/ Restart

\* The pictures Python code takes, and its camera resets.
Pictures ==
    /\ vm.pc \in Running
    /\ fb_update_jpeg_buffer \/ FbStep \/ imx_cam_reset \/ mutex_init
    /\ UNCHANGED <<vm, script>>

Next ==
    \/ UsbInterrupt
    \/ ThreadGoesOn \/ PendingRaised \/ usbdbg_try_run_script
    \/ PythonEnds \/ ReadLine \/ LeaveRepl
    \/ Pictures

\* The main thread runs on.  Python code comes out of fb_update_jpeg_buffer and
\* mutex_init, which do not block.  Also when it calls the two for ever it comes
\* to a check for exceptions, or, as a line typed at the REPL, to its end; scripts
\* and main.py need not end, nor poll.  The user pauses between the lines again
\* and again, so that the REPL polls for input.
Fairness ==
    /\ WF_vars(ThreadGoesOn)
    /\ SF_vars(PendingRaised \/ (vm.pc = "line" /\ PythonEnds))
    /\ SF_vars(vm.pc = "repl" /\ usbdbg_try_run_script)
    /\ WF_vars(vm.pc \in Running /\ (FbStep \/ mutex_init) /\ UNCHANGED <<vm, script>>)

Spec == Init /\ [][Next]_vars /\ Fairness

-----------------------------------------------------------------------------
\* The text a script is compiled from is a whole upload: a dropped packet never
\* starts a script.  The exceptions are a script the IDE has emptied by
\* beginning another upload, and one that the IDE has stopped on the way: then
\* the exception that ends it is already there.
ScriptWhole ==
    /\ IdeTypeOK
    /\ vm.pc = "compile" => script.buf \in {<<>>, Whole} \/ vm.pending \/ script.cut

\* A script that runs can be stopped from the IDE, or is being stopped: the
\* handler of USBDBG_SCRIPT_STOP does nothing unless script_running.
Stoppable == vm.pc \in {"compile", "script"} => vm.running \/ vm.pending

Lost == vm.pc = "lost"

\* The machine is starting, or main.py runs and nothing is about to stop it.
Starting == vm.pc \in {"boot", "init", "cmm"} \/ (vm.pc = "main" /\ ~vm.pending)

\* The USB interrupt, which usbdbg_control and usbdbg_try_run_script disable
\* before they raise an exception, is enabled again.  A stop that comes while
\* the machine starts is left out: its exception is lost, and the interrupt
\* stays disabled for as long as main.py runs.
LinkComesBack == (~vm.irq /\ ~Starting) ~> (vm.irq \/ Lost)

\* An upload that is complete while the REPL is up is run, although the first
\* exception may end a REPL line and not the REPL, unless the IDE stops it.
UploadRuns ==
    (vm.ready /\ vm.pc \in {"repl", "line"}) ~> (vm.pc = "launch" \/ ~vm.ready \/ Lost)

\* What USBDBG_SCRIPT_RUNNING answers.
ToldRunning == vm.toRun \/ vm.running

\* When a script is over the IDE is told so: the flag that an interrupted
\* script leaves behind is taken back by the first poll of the REPL, unless
\* the machine is started again before.
EndIsTold == vm.pc \in {"caught", "ended"} ~> (~ToldRunning \/ vm.ready \/ Starting \/ Lost)

=============================================================================
