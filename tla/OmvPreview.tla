----------------------------- MODULE OmvPreview -----------------------------
(***************************************************************************)
(* The preview buffer (JPEG_FB) between the script thread, which copies    *)
(* each new picture into it with fb_update_jpeg_buffer, and the USB        *)
(* interrupt, which serves the frame commands of the IDE out of it.        *)
(*                                                                         *)
(* The two sides share the spin lock of omv/mutex.c, whose only blocking   *)
(* call nobody uses: each side tries, and does without when it fails.      *)
(* The thread is interrupted between any two of its stores; an interrupt   *)
(* handler is one step.  The handlers are driven by virtual_com.c, which   *)
(* frames commands and their data in packets (record usb).                 *)
(*                                                                         *)
(* A picture is known by its name: pixels says which picture each packet   *)
(* of the buffer holds, and size which picture the header describes.       *)
(***************************************************************************)
EXTENDS Integers

CONSTANTS
    Frames,     \* the pictures the camera takes
    NoFrame,    \* the header of an empty buffer: w = h = size = 0
    Packets     \* the packets of a picture, and of a script

ASSUME PreviewAssumption ==
    /\ NoFrame \notin Frames
    /\ Packets \in Nat \ {0}

VARIABLES
    lock,       \* JPEG_FB()->lock: the word `lock` and the owner `tid`
    jpeg,       \* JPEG_FB(): enabled, size, pixels
    fb,         \* the script thread in fb_update_jpeg_buffer, or in the mutex_init
                \* of a camera reset: at, frame, copied, and half: whether the
                \* words of the lock disagreed when the update began
    usb,        \* virtual_com.c and usbdbg.c: the transfer in progress
    ide,        \* what the IDE knows: the announced frame, and what came of it
    torn        \* history: the copy in the buffer was abandoned half way

previewVars == <<lock, jpeg, fb, usb, ide, torn>>

Header == Frames \cup {NoFrame}

Places == {"out", "try", "own", "copy", "head", "unlock", "rel", "rel2", "init"}

Cmds == {"NONE", "TX_BUF", "FRAME_DUMP", "FB_ENABLE", "SCRIPT_EXEC"}

Locks == [lock : 0..1, tid : {"0", "OMV", "IDE"}]

Buffers == [enabled : BOOLEAN, size : Header, pixels : [1..Packets -> Header]]

Updates == [at : Places, frame : Header, copied : 0..Packets, half : BOOLEAN]

Transfers == [cmd : Cmds, bytes : 0..Packets, left : 0..Packets,
              cont : BOOLEAN, flying : BOOLEAN, debug : BOOLEAN]

Exchanges == [frame : Header, count : 0..Packets, whole : BOOLEAN, mixed : BOOLEAN]

TypeOK ==
    /\ lock \in Locks
    /\ jpeg \in Buffers
    /\ fb \in Updates
    /\ usb \in Transfers
    /\ ide \in Exchanges
    /\ torn \in BOOLEAN

Blank == [p \in 1..Packets |-> NoFrame]

Outside == [at |-> "out", frame |-> NoFrame, copied |-> 0, half |-> FALSE]

\* One word of the lock says that it is free, the other that it is not.
Disagrees == lock.tid # "0" /\ lock.lock = 0

\* The IDE has been announced no picture.
NoPromise == [frame |-> NoFrame, count |-> 0, whole |-> TRUE, mixed |-> FALSE]

PreviewInit ==
    /\ lock = [lock |-> 0, tid |-> "0"]
    /\ jpeg = [enabled |-> FALSE, size |-> NoFrame, pixels |-> Blank]
    /\ fb = Outside
    /\ usb = [cmd |-> "NONE", bytes |-> 0, left |-> 0,
              cont |-> FALSE, flying |-> FALSE, debug |-> FALSE]
    /\ ide = NoPromise
    /\ torn = FALSE

-----------------------------------------------------------------------------
\* omv/mutex.c, as an interrupt handler runs it: in one step.

Unlocked == [lock |-> 0, tid |-> "0"]

\* Mutant: whoever calls releases the lock.
mutex_unlock_Any(l, tid) == Unlocked

\* Mutant: the owner is forgotten and the word stays.
mutex_unlock_TidOnly(l, tid) == IF l.tid = tid THEN [l EXCEPT !.tid = "0"] ELSE l

\* The lock after mutex_unlock: untouched unless the caller owns it.
mutex_unlock(l, tid) == IF l.tid = tid THEN Unlocked ELSE l

\* The lock after mutex_try_lock.  The owner that tries again releases it.
mutex_try_lock(l, tid) ==
    IF l.tid = tid THEN mutex_unlock(l, tid)
    ELSE IF l.lock = 0 THEN [lock |-> 1, tid |-> tid]
    ELSE l

\* mutex_try_lock returned true.
Took(l, tid) == l.tid # tid /\ l.lock = 0

-----------------------------------------------------------------------------
\* The script thread: fb_update_jpeg_buffer, store by store.

ScriptSide(place) == fb.at = place /\ UNCHANGED <<usb, ide>>

\* What is left of the update is mutex_unlock.
Unlocks == [at |-> "unlock", frame |-> NoFrame, copied |-> 0, half |-> fb.half]

\* The preview is tested before the lock is: it may be disabled in between.
fb_update_jpeg_buffer ==
    /\ ScriptSide("out")
    /\ jpeg.enabled
    /\ \E f \in Frames : fb' = [at |-> "try", frame |-> f, copied |-> 0, half |-> Disagrees]
    /\ UNCHANGED <<lock, jpeg, torn>>

\* mutex_try_lock up to the exclusive store, which an interrupt since the
\* exclusive load makes fail.
FbTry ==
    /\ ScriptSide("try")
    /\ \/ /\ lock.tid = "OMV"
          /\ fb' = Unlocks
          /\ UNCHANGED lock
       \/ /\ Took(lock, "OMV")
          /\ lock' = [lock EXCEPT !.lock = 1]
          /\ fb' = [fb EXCEPT !.at = "own"]
       \/ /\ lock.tid # "OMV"
          /\ fb' = Outside
          /\ UNCHANGED lock
    /\ UNCHANGED <<jpeg, torn>>

FbOwn ==
    /\ ScriptSide("own")
    /\ lock' = [lock EXCEPT !.tid = "OMV"]
    /\ fb' = [fb EXCEPT !.at = "copy"]
    /\ UNCHANGED <<jpeg, torn>>

\* memcpy, or jpeg_compress into the buffer.
FbCopy ==
    /\ ScriptSide("copy")
    /\ LET p == fb.copied + 1
       IN  /\ jpeg' = [jpeg EXCEPT !.pixels[p] = fb.frame]
           /\ fb' = [fb EXCEPT !.copied = p, !.at = IF p = Packets THEN "head" ELSE "copy"]
    /\ UNCHANGED <<lock, torn>>

\* The picture does not fit, which memcpy tests first and jpeg_compress finds
\* out at any packet: the header is cleared.
FbOverflow ==
    /\ ScriptSide("copy")
    /\ jpeg' = [jpeg EXCEPT !.size = NoFrame]
    /\ fb' = Unlocks
    /\ torn' = FALSE
    /\ UNCHANGED lock

FbHead ==
    /\ ScriptSide("head")
    /\ jpeg' = [jpeg EXCEPT !.size = fb.frame]
    /\ fb' = Unlocks
    /\ torn' = FALSE
    /\ UNCHANGED lock

\* mutex_unlock: nothing, unless the caller owns the lock.
FbUnlock ==
    /\ ScriptSide("unlock")
    /\ fb' = IF lock.tid = "OMV" THEN [fb EXCEPT !.at = "rel"] ELSE Outside
    /\ UNCHANGED <<lock, jpeg, torn>>

\* The stores of the owner: tid, then lock.
FbRelease ==
    \/ /\ ScriptSide("rel")
       /\ lock' = [lock EXCEPT !.tid = "0"]
       /\ fb' = [fb EXCEPT !.at = "rel2"]
       /\ UNCHANGED <<jpeg, torn>>
    \/ /\ ScriptSide("rel2")
       /\ lock' = [lock EXCEPT !.lock = 0]
       /\ fb' = Outside
       /\ UNCHANGED <<jpeg, torn>>

FbStep == FbTry \/ FbOwn \/ FbCopy \/ FbOverflow \/ FbHead \/ FbUnlock \/ FbRelease

\* A store of mutex_init takes the lock from the IDE, if it has it.
TakesFromIde == ide' = [ide EXCEPT !.mixed = @ \/ lock.tid = "IDE"]

\* imx_cam_reset starts with mutex_init, whoever owns the lock: tid first.
imx_cam_reset ==
    /\ fb.at = "out"
    /\ lock' = [lock EXCEPT !.tid = "0"]
    /\ fb' = [fb EXCEPT !.at = "init"]
    /\ TakesFromIde
    /\ UNCHANGED <<jpeg, usb, torn>>

\* Then lock, which the IDE may have taken meanwhile: it is left the owner of
\* a lock that is free.
mutex_init ==
    /\ fb.at = "init"
    /\ lock' = [lock EXCEPT !.lock = 0]
    /\ fb' = Outside
    /\ TakesFromIde
    /\ UNCHANGED <<jpeg, usb, torn>>

\* A hard jump leaves fb_update_jpeg_buffer, or mutex_init, where it is.
AbandonUpdate ==
    /\ fb' = Outside
    /\ torn' = (torn \/ (fb.at \in {"copy", "head"} /\ fb.copied > 0))

-----------------------------------------------------------------------------
\* The USB interrupt: the packets of virtual_com.c.  A command comes when the
\* device expects no data and the IDE has been answered.

Accepts == usb.debug /\ usb.left = 0

\* CheckVCOMConnect: the host sets a baud rate, one of the IDE's or another.  At
\* another rate the IDE is gone, and the lock and the preview stay as they are.
CheckVCOMConnect ==
    /\ \/ usb' = [usb EXCEPT !.debug = TRUE, !.left = 0]
       \/ usb' = [usb EXCEPT !.debug = FALSE]
    /\ ide' = NoPromise
    /\ UNCHANGED <<lock, jpeg, fb, torn>>

\* The host drops the line: usbdbg_disconnect.
usbdbg_disconnect ==
    /\ jpeg' = [jpeg EXCEPT !.enabled = FALSE]
    /\ lock' = mutex_unlock(lock, "IDE")
    /\ usb' = [usb EXCEPT !.debug = FALSE]
    /\ ide' = NoPromise
    /\ UNCHANGED <<fb, torn>>

\* USBDBG_FB_ENABLE: the command, and its one packet of data.
FbEnableCommand ==
    /\ Accepts
    /\ usb' = [usb EXCEPT !.cmd = "FB_ENABLE", !.bytes = 0, !.left = 1]
    /\ UNCHANGED <<lock, jpeg, fb, ide, torn>>

FbEnableData ==
    /\ usb.debug /\ usb.left > 0 /\ usb.cmd = "FB_ENABLE"
    /\ \E enable \in BOOLEAN :
          /\ jpeg' = [jpeg EXCEPT !.enabled = enable]
          /\ lock' = IF enable THEN lock ELSE mutex_unlock(lock, "IDE")
          /\ ide' = IF enable THEN ide
                    ELSE NoPromise
    /\ usb' = [usb EXCEPT !.cmd = "NONE", !.left = @ - 1]
    /\ UNCHANGED <<fb, torn>>

\* Mutant: the answer is given whether the lock was taken or not.
FrameSize_Unlocked ==
    /\ Accepts
    /\ lock' = mutex_try_lock(lock, "IDE")
    /\ ide' = [frame |-> jpeg.size, count |-> 0, whole |-> TRUE, mixed |-> torn \/ fb.half]
    /\ usb' = [usb EXCEPT !.cmd = "NONE", !.bytes = 0, !.flying = TRUE]
    /\ UNCHANGED <<jpeg, fb, torn>>

\* USBDBG_FRAME_SIZE, answered in the same packet: 0 when the buffer is
\* locked or empty, else the header, and the lock is kept.
FrameSize ==
    /\ Accepts
    /\ LET l == mutex_try_lock(lock, "IDE")
       IN  lock' = IF Took(lock, "IDE") /\ jpeg.size = NoFrame THEN mutex_unlock(l, "IDE") ELSE l
    /\ ide' = [frame |-> IF Took(lock, "IDE") THEN jpeg.size ELSE NoFrame,
               count |-> 0, whole |-> TRUE, mixed |-> torn \/ fb.half]
    /\ usb' = [usb EXCEPT !.cmd = "NONE", !.bytes = 0, !.flying = TRUE]
    /\ UNCHANGED <<jpeg, fb, torn>>

\* Each packet up to p is of the picture that was announced; nothing is said of
\* an exchange that may be mixed.
AsPromised(p) == ide.whole /\ (ide.mixed \/ jpeg.pixels[p] = ide.frame)

\* USBDBG_FRAME_DUMP in usbdbg_data_in: the next packet of the buffer; with
\* the last one the buffer is empty again and the lock is released.
DumpPacket(u) ==
    LET p == u.bytes + 1
        last == p = Packets
    IN  /\ usb' = [u EXCEPT !.bytes = p, !.left = @ - 1, !.flying = TRUE,
                            !.cmd = IF last THEN "NONE" ELSE @]
        /\ ide' = IF ~u.debug \/ ide.frame = NoFrame THEN ide
                  ELSE IF last THEN [NoPromise EXCEPT !.whole = AsPromised(p)]
                  ELSE [ide EXCEPT !.count = p, !.whole = AsPromised(p)]
        /\ jpeg' = IF last THEN [jpeg EXCEPT !.size = NoFrame] ELSE jpeg
        /\ lock' = IF last THEN mutex_unlock(lock, "IDE") ELSE lock

\* The command: the IDE sends it for a picture that was announced to it.
FrameDump ==
    /\ Accepts
    /\ ide.frame # NoFrame /\ ide.count = 0
    /\ DumpPacket([usb EXCEPT !.cmd = "FRAME_DUMP", !.bytes = 0, !.left = Packets,
                              !.cont = @ \/ Packets > 1])
    /\ UNCHANGED <<fb, torn>>

\* USBDBG_TX_BUF in usbdbg_data_in: a packet of the log, or none is left.
LogPacket(u) ==
    /\ \E n \in 0..1 :
          usb' = [u EXCEPT !.bytes = @ + n, !.left = @ - 1, !.flying = TRUE,
                           !.cmd = IF n = 0 \/ u.bytes + n = Packets THEN "NONE" ELSE @]
    /\ UNCHANGED <<lock, jpeg, ide>>

\* The command, for a log of as many packets as a picture.
ReadLog ==
    /\ Accepts
    /\ LogPacket([usb EXCEPT !.cmd = "TX_BUF", !.bytes = 0, !.left = Packets,
                             !.cont = @ \/ Packets > 1])
    /\ UNCHANGED <<fb, torn>>

\* kUSB_DeviceCdcEventSendResponse: the host has taken a packet.  The next
\* packet goes out while the transfer has some left, whatever its command is.
SendResponse ==
    /\ usb.flying
    /\ \/ /\ usb.cont /\ usb.left > 0 /\ usb.cmd = "FRAME_DUMP"
          /\ DumpPacket(usb)
       \/ /\ usb.cont /\ usb.left > 0 /\ usb.cmd = "TX_BUF"
          /\ LogPacket(usb)
       \/ /\ usb.cont /\ usb.left > 0 /\ usb.cmd \notin {"FRAME_DUMP", "TX_BUF"}
          /\ usb' = [usb EXCEPT !.left = @ - 1]
          /\ UNCHANGED <<lock, jpeg, ide>>
       \/ /\ ~(usb.cont /\ usb.left > 0)
          /\ usb' = [usb EXCEPT !.flying = FALSE, !.cont = FALSE]
          /\ UNCHANGED <<lock, jpeg, ide>>
    /\ UNCHANGED <<fb, torn>>

\* The other commands, as far as the transfer goes: an upload and its
\* packets, which the handler of USBDBG_SCRIPT_EXEC may drop, and the
\* commands that are answered at once or need no answer.
UploadCommand ==
    /\ Accepts
    /\ usb' = [usb EXCEPT !.cmd = "SCRIPT_EXEC", !.bytes = 0, !.left = Packets]

UploadPacket(kept) ==
    /\ usb.debug /\ usb.left > 0 /\ usb.cmd = "SCRIPT_EXEC"
    /\ usb' = [usb EXCEPT !.left = @ - 1, !.bytes = IF kept THEN @ + 1 ELSE @]

OtherCommand ==
    /\ Accepts
    /\ \E answered \in BOOLEAN :
          usb' = [usb EXCEPT !.cmd = "NONE", !.flying = @ \/ answered]

FrameCommand == FbEnableCommand \/ FbEnableData \/ FrameSize \/ FrameDump

-----------------------------------------------------------------------------
\* The preview by itself: the script thread may be torn out of any place, and
\* the commands that are not about frames come and go.

PreviewNext ==
    \/ fb_update_jpeg_buffer \/ FbStep \/ imx_cam_reset \/ mutex_init
    \/ AbandonUpdate /\ UNCHANGED <<lock, jpeg, ide>>
       /\ (UNCHANGED usb \/ OtherCommand \/ \E kept \in BOOLEAN : UploadPacket(kept))
    \/ CheckVCOMConnect \/ usbdbg_disconnect
    \/ FrameCommand \/ ReadLog \/ SendResponse
    \/ /\ UploadCommand \/ OtherCommand \/ \E kept \in BOOLEAN : UploadPacket(kept)
       /\ UNCHANGED <<lock, jpeg, fb, ide, torn>>

PreviewSpec == PreviewInit /\ [][PreviewNext]_previewVars

-----------------------------------------------------------------------------
\* Every packet of a dump comes from the picture that USBDBG_FRAME_SIZE
\* announced, however the script goes on taking pictures meanwhile; but for the
\* exchanges that may be mixed in the code (ide.mixed): a hard jump tore the copy
\* in the buffer before the answer; the script reset the camera, and the lock with
\* it, during the exchange; or the answer came in an update that had begun with
\* the words of the lock in disagreement, as a reset may leave them.
DumpWhole == ide.whole

\* While the script thread writes into the buffer it owns the lock, word and
\* name, and while the IDE reads a picture it was promised the lock is the
\* IDE's; but for the exchanges that DumpWhole excepts, and for the updates
\* begun while the words of the lock disagreed.
WriterOwns ==
    /\ fb.at \in {"copy", "head"} /\ ~fb.half => lock = [lock |-> 1, tid |-> "OMV"]
    /\ ide.frame # NoFrame /\ ~ide.mixed => lock = [lock |-> 1, tid |-> "IDE"]

\* The lock is taken and has no owner that could release it.
Orphaned == lock.lock = 1 /\ lock.tid = "0" /\ fb.at \notin {"own", "rel2", "init"}

\* Only a hard jump between the two stores of mutex_try_lock, of mutex_unlock
\* or of mutex_init leaves the lock without an owner.
OrphanedByJump ==
    [][~Orphaned /\ Orphaned' => fb.at \in {"own", "rel2", "init"} /\ AbandonUpdate]_previewVars

=============================================================================
