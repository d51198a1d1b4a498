----------------------------- MODULE EvsCamera -----------------------------
(***************************************************************************)
(* One camera of the EVS HAL: EvsCamera with V4l2Capture, of one physical  *)
(* camera, opened by the enumerator (src/evs/evs_hal).                     *)
(*                                                                         *)
(* The service has one binder thread, which runs the client's calls and    *)
(* the death notification one after the other; svc says where it is. The   *)
(* capture thread (collectFrames) runs beside it; capPc says where it is.  *)
(* One step is a region under mLock, an ioctl, or an access to             *)
(* mFramesInUse, which the two threads share without a lock.               *)
(***************************************************************************)
EXTENDS Integers, Sequences

CONSTANTS NumBuffers,       \* V4L2_BUFFER_NUM = MAX_BUFFERS_IN_FLIGHT
          DefaultBuffers,   \* the buffers onStart allocates if nobody asked
          Word              \* 2^32, the modulus of an unsigned int

ASSUME EvsAssumption ==
    /\ NumBuffers \in Nat \ {0} /\ DefaultBuffers \in 1..NumBuffers
    /\ Word \in Nat /\ Word > NumBuffers + 1

Index == 0..(NumBuffers - 1)
None == -1

VARIABLES
  open,         \* mDeviceFd is a valid descriptor
  run,          \* mRunMode
  stream,       \* mStream is set
  stream11,     \* mStream_1_1 is set
  linked,       \* mEvsAppRecipient is linked to the client's death
  allowed,      \* mFramesAllowed
  inUse,        \* mFramesInUse
  dec,          \* mDecreasenum
  mapped,       \* the v4l2 indices mBufferMap maps; i is always mapped to i
  vec,          \* mCamBuffers: what each gralloc slot points to
  streaming,    \* the driver streams
  requested,    \* the driver has buffers (VIDIOC_REQBUFS)
  queue,        \* the indices the driver has
  capPc, capBuf, capTmp,        \* capture thread, its frame, mFramesInUse read
  svc, after,                   \* service thread, and what it goes on to
  svcBuf, svcTmp, need,         \* its frame, mFramesInUse read, buffers to add
  frames,       \* the frames the client has
  dead,         \* the client has died
  client11,     \* the client implements IEvsCameraStream 1.1
  ended,        \* the client was told that the stream has ended
  crash         \* how the process aborted, or "no"

modeVars == <<open, run, stream, stream11, linked>>
poolVars == <<allowed, dec, mapped, vec>>
drvVars == <<streaming, requested, queue>>
capVars == <<capPc, capBuf, capTmp>>
svcVars == <<svc, after, svcBuf, svcTmp, need>>
clientVars == <<frames, dead, client11, ended>>
vars == <<modeVars, poolVars, drvVars, inUse, capVars, svcVars, clientVars, crash>>

(* The enumerator has constructed the camera and opened its device.        *)
Init ==
    /\ open = TRUE /\ run = "stopped"
    /\ stream = FALSE /\ stream11 = FALSE /\ linked = FALSE
    /\ allowed = 0 /\ inUse = 0 /\ dec = 0 /\ mapped = {} /\ vec = <<>>
    /\ streaming = FALSE /\ requested = TRUE /\ queue = {}
    /\ capPc = "none" /\ capBuf = None /\ capTmp = 0
    /\ svc = "idle" /\ after = "idle" /\ svcBuf = None /\ svcTmp = 0 /\ need = 0
    /\ frames = {} /\ dead = FALSE /\ client11 \in BOOLEAN /\ ended = FALSE
    /\ crash = "no"

(* A thread is at a place of its code, in a process that has not aborted.  *)
SvcAt(s) == crash = "no" /\ svc = s
CapAt(s) == crash = "no" /\ capPc = s

(* at(b) on the vector of gralloc buffers throws, or finds a null pointer. *)
NoSlot(b) == b >= Len(vec)
NullSlot(b) == b < Len(vec) /\ vec[b + 1] = "null"
HasNull == \E k \in 1..Len(vec) : vec[k] = "null"

-----------------------------------------------------------------------------
(* Giving a frame back, on either thread. *)

(* onDecreaseMemoryBuffer, and the wake-up when it was the last to drop.   *)
Drop(b) ==
    /\ vec' = [vec EXCEPT ![b + 1] = "null"]
    /\ mapped' = mapped \ {b}
    /\ allowed' = allowed - 1
    /\ dec' = dec - 1
    /\ svc' = IF dec = 1 /\ svc = "wait" THEN "idle" ELSE svc
    /\ UNCHANGED <<queue, crash>>

(* VIDIOC_QBUF may fail, without effect, and does once the driver has no   *)
(* buffers.                                                                *)
AfterQbuf(b) == {queue} \cup {queue \cup {i} : i \in IF requested THEN {b} ELSE {}}

(* A null buffer is not queued.                                            *)
Requeue(b) ==
    /\ queue' \in IF NullSlot(b) THEN {queue} ELSE AfterQbuf(b)
    /\ UNCHANGED <<poolVars, crash>>

(* Without a device mCamBuffers[-1] is an empty vector and at() throws.    *)
Thrown == IF open THEN "slot" ELSE "lost"

AtThrows ==
    /\ crash' = Thrown
    /\ UNCHANGED <<poolVars, queue>>

-----------------------------------------------------------------------------
(* startVideoStream. When it is refused because the camera is closed or    *)
(* mRunMode is RUN, nothing changes.                                       *)

Startable == SvcAt("idle") /\ ~dead /\ open /\ run = "stopped"

(* mStream is still set: RUN is set by then, and stays.                    *)
StartAgain ==
    /\ Startable /\ stream
    /\ run' = "run"
    /\ UNCHANGED <<open, stream, stream11, linked, poolVars, drvVars, inUse, capVars,
                   svcVars, clientVars, crash>>

StartVideoStream ==
    /\ Startable /\ ~stream
    /\ run' = "run" /\ stream' = TRUE /\ stream11' = client11
    /\ svc' = IF allowed = 0 THEN "grow" ELSE "streamon"
    /\ need' = IF allowed = 0 THEN DefaultBuffers ELSE 0
    /\ after' = "streamon"
    /\ UNCHANGED <<open, linked, poolVars, drvVars, inUse, capVars, svcBuf, svcTmp,
                   clientVars, crash>>

(* Mutant: the death of the client is not watched.                         *)
StreamOnUnwatched ==
    /\ SvcAt("streamon")
    /\ streaming' = TRUE /\ capPc' = "check" /\ svc' = "idle"
    /\ UNCHANGED <<modeVars, poolVars, requested, queue, inUse, capBuf, capTmp,
                   after, svcBuf, svcTmp, need, clientVars, crash>>

(* VIDIOC_STREAMON, linkToDeath, and the capture thread.                   *)
StreamOn ==
    /\ SvcAt("streamon")
    /\ streaming' = TRUE /\ linked' = TRUE /\ capPc' = "check" /\ svc' = "idle"
    /\ UNCHANGED <<open, run, stream, stream11, poolVars, requested, queue, inUse,
                   capBuf, capTmp, after, svcBuf, svcTmp, need, clientVars, crash>>

(* VIDIOC_STREAMON fails: mStream is dropped and shutdown is called.       *)
StreamOnFails ==
    /\ SvcAt("streamon")
    /\ stream' = FALSE
    /\ svc' = "halt" /\ after' = "close"
    /\ UNCHANGED <<open, run, stream11, linked, poolVars, drvVars, inUse, capVars,
                   svcBuf, svcTmp, need, clientVars, crash>>

-----------------------------------------------------------------------------
(* stopVideoStream, and shutdown, which calls it first. *)

StopVideoStream ==
    /\ SvcAt("idle") /\ ~dead
    /\ svc' = "halt" /\ after' = "idle"
    /\ UNCHANGED <<modeVars, poolVars, drvVars, inUse, capVars, svcBuf, svcTmp, need,
                   clientVars, crash>>

(* Mutant: the device is closed without stopping the stream.               *)
CloseAtOnce ==
    /\ SvcAt("idle")
    /\ svc' = "close" /\ after' = "close"
    /\ UNCHANGED <<modeVars, poolVars, drvVars, inUse, capVars, svcBuf, svcTmp, need,
                   clientVars, crash>>

(* closeCamera, by the client or because another one opens the camera.     *)
Shutdown ==
    /\ SvcAt("idle")
    /\ svc' = "halt" /\ after' = "close"
    /\ UNCHANGED <<modeVars, poolVars, drvVars, inUse, capVars, svcBuf, svcTmp, need,
                   clientVars, crash>>

(* Mutant: the notification of the death is consumed, and that is all.     *)
IgnoreDeath ==
    /\ SvcAt("idle") /\ dead /\ linked
    /\ linked' = FALSE
    /\ UNCHANGED <<open, run, stream, stream11, poolVars, drvVars, inUse, capVars,
                   svcVars, clientVars, crash>>

(* EvsAppRecipient::serviceDied. The driver of binder notifies a link made *)
(* after the death too.                                                    *)
ServiceDied ==
    /\ SvcAt("idle") /\ dead /\ linked
    /\ svc' = "halt" /\ after' = "close"
    /\ UNCHANGED <<modeVars, poolVars, drvVars, inUse, capVars, svcBuf, svcTmp, need,
                   clientVars, crash>>

(* fetch_or(STOPPING) and the swap of the thread. mRunMode is never        *)
(* STOPPING here: the service thread is the only one to set it.            *)
SignalStop ==
    /\ SvcAt("halt")
    /\ run' = IF run = "run" THEN "stopping" ELSE run
    /\ svc' = IF run = "run" THEN "clear" ELSE "notify"
    /\ UNCHANGED <<open, stream, stream11, linked, poolVars, drvVars, inUse, capVars,
                   after, svcBuf, svcTmp, need, clientVars, crash>>

ClearRunMode ==
    /\ SvcAt("clear")
    /\ run' = "stopped"
    /\ svc' = "streamoff"
    /\ UNCHANGED <<open, stream, stream11, linked, poolVars, drvVars, inUse, capVars,
                   after, svcBuf, svcTmp, need, clientVars, crash>>

(* onStop: VIDIOC_STREAMOFF empties the queue, VIDIOC_REQBUFS(0) releases  *)
(* the driver's buffers. A failure of either is only logged; a driver that *)
(* goes on streaming refuses the second too.                               *)
OnStop ==
    /\ SvcAt("streamoff")
    /\ \/ streaming' = FALSE /\ queue' = {} /\ requested' \in {FALSE, requested}
       \/ UNCHANGED drvVars
    /\ svc' = "join"
    /\ UNCHANGED <<modeVars, poolVars, inUse, capVars, after, svcBuf, svcTmp, need,
                   clientVars, crash>>

(* Mutant: the thread is not joined.                                       *)
Detached == TRUE

Joined == capPc = "none"

Join ==
    /\ SvcAt("join") /\ Joined
    /\ svc' = "notify"
    /\ UNCHANGED <<modeVars, poolVars, drvVars, inUse, capVars, after, svcBuf, svcTmp,
                   need, clientVars, crash>>

(* The recipient is unlinked and the end of the stream is announced to     *)
(* whichever interface is set. mStream stays set.                          *)
NotifyEnd ==
    /\ SvcAt("notify")
    /\ linked' = FALSE
    /\ ended' = (ended \/ stream \/ stream11)
    /\ svc' = after
    /\ UNCHANGED <<open, run, stream, stream11, poolVars, drvVars, inUse, capVars, after,
                   svcBuf, svcTmp, need, frames, dead, client11, crash>>

(* onClose, then onMemoryDestroy, which skips a camera without descriptor  *)
(* and so releases nothing.                                                *)
Close ==
    /\ SvcAt("close")
    /\ open' = FALSE
    /\ streaming' = FALSE /\ requested' = FALSE /\ queue' = {}
    /\ svc' = "idle"
    /\ UNCHANGED <<run, stream, stream11, linked, poolVars, inUse, capVars, after, svcBuf,
                   svcTmp, need, clientVars, crash>>

-----------------------------------------------------------------------------
(* doneWithFrame: mFramesInUse-- is a read and a later write. *)

DoneWithFrame(b) ==
    /\ SvcAt("idle") /\ ~dead /\ b \in frames
    /\ frames' = frames \ {b}
    /\ svcBuf' = b /\ svcTmp' = inUse
    /\ svc' = "done"
    /\ UNCHANGED <<modeVars, poolVars, drvVars, inUse, capVars, after, need, dead,
                   client11, ended, crash>>

(* Mutant: a counter that does not wrap.                                   *)
MinusOne(n) == n - 1

Decremented(n) == IF n = 0 THEN Word - 1 ELSE n - 1

(* doneWithFrame_impl goes on to onFrameReturn on a closed camera too.     *)
(* mDecreasenum is 0 here: the service thread is not in a shrinking call.  *)
ReturnFrame ==
    /\ SvcAt("done")
    /\ inUse' = Decremented(svcTmp)
    /\ IF ~open \/ NoSlot(svcBuf) THEN AtThrows ELSE Requeue(svcBuf)
    /\ svc' = "idle" /\ svcBuf' = None
    /\ UNCHANGED <<modeVars, streaming, requested, capVars, after, svcTmp, need, clientVars>>

-----------------------------------------------------------------------------
(* setMaxFramesInFlight; refused without effect on a closed camera and for *)
(* a number out of range.                                                  *)

SetMaxGrow(n) ==
    /\ SvcAt("idle") /\ ~dead /\ open /\ allowed < n
    /\ need' = n - allowed
    /\ svc' = "grow" /\ after' = "idle"
    /\ UNCHANGED <<modeVars, poolVars, drvVars, inUse, capVars, svcBuf, svcTmp,
                   clientVars, crash>>

(* Mutant: the next index instead of an unmapped one.                      *)
NextIndex(i) == i = allowed

FirstUnmapped(i) == i \notin mapped /\ \A j \in Index : j < i => j \in mapped

(* onIncreaseMemoryBuffer maps an index and queues it to the driver.       *)
GrowQueue ==
    /\ SvcAt("grow")
    /\ \E i \in Index :
        /\ FirstUnmapped(i)
        /\ mapped' = mapped \cup {i}
        /\ queue' \in AfterQbuf(i)
        /\ svcBuf' = i
    /\ svc' = "store"
    /\ UNCHANGED <<modeVars, allowed, dec, vec, streaming, requested, inUse, capVars,
                   after, svcTmp, need, clientVars, crash>>

(* Then it stores the memory: in a copy of the entry when one is null, so  *)
(* that the entry stays null, at the end of the vector otherwise.          *)
GrowStore ==
    /\ SvcAt("store")
    /\ vec' = IF HasNull THEN vec ELSE Append(vec, "live")
    /\ allowed' = allowed + 1
    /\ need' = need - 1
    /\ svc' = IF need = 1 THEN after ELSE "grow"
    /\ svcBuf' = None
    /\ UNCHANGED <<modeVars, dec, mapped, drvVars, inUse, capVars, after, svcTmp,
                   clientVars, crash>>

SetMaxShrink(n) ==
    /\ SvcAt("idle") /\ ~dead /\ open /\ allowed > n
    /\ dec' = allowed - n
    /\ svc' = "shrink"
    /\ UNCHANGED <<modeVars, allowed, mapped, vec, drvVars, inUse, capVars, after, svcBuf,
                   svcTmp, need, clientVars, crash>>

(* mFramesSignal.wait: only onFrameReturn on the capture thread is left to *)
(* end it, and what it signalled before is lost.                           *)
WaitShrunk ==
    /\ SvcAt("shrink")
    /\ svc' = "wait"
    /\ UNCHANGED <<modeVars, poolVars, drvVars, inUse, capVars, after, svcBuf, svcTmp,
                   need, clientVars, crash>>

-----------------------------------------------------------------------------
(* collectFrames. *)

(* Mutant: mRunMode is looked at before the loop only.                     *)
KeepCollecting ==
    /\ CapAt("check")
    /\ capPc' = "collect"
    /\ UNCHANGED <<modeVars, poolVars, drvVars, inUse, capBuf, capTmp, svcVars,
                   clientVars, crash>>

CheckRunMode ==
    /\ CapAt("check")
    /\ capPc' = IF run = "run" THEN "collect" ELSE "none"
    /\ UNCHANGED <<modeVars, poolVars, drvVars, inUse, capBuf, capTmp, svcVars,
                   clientVars, crash>>

(* VIDIOC_DQBUF blocks while the driver streams and has no full buffer.    *)
Dequeue(b) ==
    /\ CapAt("collect") /\ streaming /\ b \in queue
    /\ queue' = queue \ {b}
    /\ capBuf' = b /\ capPc' = "forward"
    /\ crash' = IF NoSlot(b) THEN "slot" ELSE "no"
    /\ UNCHANGED <<modeVars, poolVars, streaming, requested, inUse, capTmp, svcVars,
                   clientVars>>

(* It fails when the stream is off, or with an error of the driver.        *)
DequeueFails ==
    /\ CapAt("collect")
    /\ capPc' = "check"
    /\ UNCHANGED <<modeVars, poolVars, drvVars, inUse, capBuf, capTmp, svcVars,
                   clientVars, crash>>

(* Too many frames in flight: the buffer is neither delivered nor queued.  *)
SkipFrame ==
    /\ CapAt("forward") /\ inUse > allowed
    /\ capPc' = "check" /\ capBuf' = None
    /\ UNCHANGED <<modeVars, poolVars, drvVars, inUse, capTmp, svcVars, clientVars, crash>>

(* Describing the frame reads its buffer; mFramesInUse++ begins.           *)
ForwardFrame ==
    /\ CapAt("forward") /\ inUse <= allowed
    /\ crash' = IF NullSlot(capBuf) THEN "null" ELSE "no"
    /\ capTmp' = inUse
    /\ capPc' = "deliver"
    /\ UNCHANGED <<modeVars, poolVars, drvVars, inUse, capBuf, svcVars, clientVars>>

Incremented(n) == IF n = Word - 1 THEN 0 ELSE n + 1

DeliverFrame ==
    /\ CapAt("deliver") /\ ~dead
    /\ inUse' = Incremented(capTmp)
    /\ frames' = frames \cup {capBuf}
    /\ capPc' = "check" /\ capBuf' = None
    /\ UNCHANGED <<modeVars, poolVars, drvVars, capTmp, svcVars, dead, client11, ended, crash>>

(* The transport fails, as it always does when the client is dead.         *)
DeliverFails ==
    /\ CapAt("deliver")
    /\ inUse' = Incremented(capTmp)
    /\ capPc' = "giveback"
    /\ UNCHANGED <<modeVars, poolVars, drvVars, capBuf, capTmp, svcVars, clientVars, crash>>

(* onFrameReturn on the capture thread.                                    *)
GiveBack ==
    /\ CapAt("giveback")
    /\ capPc' = "check" /\ capBuf' = None
    /\ \/ dec > 0 /\ Drop(capBuf)
       \/ dec = 0 /\ Requeue(capBuf) /\ UNCHANGED svc
    /\ UNCHANGED <<modeVars, streaming, requested, inUse, capTmp, after, svcBuf, svcTmp,
                   need, clientVars>>

ClientDies ==
    /\ ~dead
    /\ dead' = TRUE
    /\ UNCHANGED <<modeVars, poolVars, drvVars, inUse, capVars, svcVars, frames, client11,
                   ended, crash>>

-----------------------------------------------------------------------------

Calls ==
    \/ StartAgain \/ StartVideoStream \/ StopVideoStream \/ Shutdown
    \/ \E b \in Index : DoneWithFrame(b)
    \/ \E n \in 1..NumBuffers : SetMaxGrow(n) \/ SetMaxShrink(n)

ServiceThread ==
    \/ StreamOn \/ StreamOnFails
    \/ SignalStop \/ ClearRunMode \/ OnStop \/ Join \/ NotifyEnd \/ Close
    \/ ReturnFrame \/ GrowQueue \/ GrowStore \/ WaitShrunk

CaptureThread ==
    \/ CheckRunMode \/ DequeueFails \/ \E b \in Index : Dequeue(b)
    \/ SkipFrame \/ ForwardFrame \/ DeliverFrame \/ DeliverFails \/ GiveBack

Next == Calls \/ ServiceDied \/ ServiceThread \/ CaptureThread \/ ClientDies

Spec == Init /\ [][Next]_vars

(* A thread that need not wait for the driver goes on.                     *)
CaptureGoesOn ==
    \/ CheckRunMode \/ SkipFrame \/ ForwardFrame \/ DeliverFrame \/ DeliverFails \/ GiveBack
    \/ ~streaming /\ DequeueFails

(* The service thread finishes the call it runs and handles a notification *)
(* that is due. Nobody has to call, and the driver need not fill a buffer. *)
FairSpec ==
    /\ Spec
    /\ WF_vars(ServiceThread)
    /\ WF_vars(ServiceDied)
    /\ WF_vars(CaptureGoesOn)

-----------------------------------------------------------------------------
(* Properties. *)

Stopping == {"halt", "clear", "streamoff", "join", "notify", "close"}

Flags ==
    /\ open \in BOOLEAN /\ stream \in BOOLEAN /\ stream11 \in BOOLEAN /\ linked \in BOOLEAN
    /\ streaming \in BOOLEAN /\ requested \in BOOLEAN
    /\ dead \in BOOLEAN /\ client11 \in BOOLEAN /\ ended \in BOOLEAN

(* Every variable has its type.                                            *)
TypeOK ==
    /\ Flags
    /\ run \in {"stopped", "run", "stopping"}
    /\ allowed \in 0..NumBuffers /\ dec \in 0..NumBuffers /\ need \in 0..NumBuffers
    /\ inUse \in 0..(Word - 1) /\ capTmp \in 0..(Word - 1) /\ svcTmp \in 0..(Word - 1)
    /\ mapped \subseteq Index /\ queue \subseteq Index /\ frames \subseteq Index
    /\ vec \in Seq({"live", "null"})
    /\ capPc \in {"none", "check", "collect", "forward", "deliver", "giveback"}
    /\ capBuf \in Index \cup {None} /\ svcBuf \in Index \cup {None}
    /\ svc \in Stopping \cup {"idle", "done", "grow", "store", "shrink", "wait", "streamon"}
    /\ after \in {"idle", "close", "streamon"}
    /\ crash \in {"no", "slot", "lost", "null"}

Captured == {capBuf} \ {None}
Returned == IF svc = "done" THEN {svcBuf} ELSE {}

(* A v4l2 buffer is with the driver, the capture thread, the client or the *)
(* service thread, and with one of them only, and it is mapped: what the   *)
(* client reads is never written, whatever grows, shrinks, is skipped or   *)
(* fails to be delivered.                                                  *)
BuffersApart ==
    /\ queue \cap (Captured \cup frames \cup Returned) = {}
    /\ Captured \cap (frames \cup Returned) = {}
    /\ frames \cap Returned = {}
    /\ queue \cup Captured \cup frames \cup Returned \subseteq mapped

(* "Stream should be stopped first!": when onClose closes the device       *)
(* mRunMode is STOPPED and no capture thread uses the descriptor.          *)
CloseFindsStopped == svc = "close" => run = "stopped" /\ capPc = "none"

(* As long as the capture thread runs, the client's death is watched or a  *)
(* stop is under way: no thread is left behind by a client that dies.      *)
ThreadWatched == capPc # "none" => linked \/ svc \in Stopping

(* "Send one last NULL frame to signal the actual end of stream": no frame *)
(* is delivered after the client was told that the stream has ended.       *)
EndIsLast == [][ended => frames' \subseteq frames]_vars

(* The capture thread waits in VIDIOC_DQBUF of a driver that refused       *)
(* VIDIOC_STREAMOFF, and stopVideoStream waits for the thread.             *)
StuckInDqbuf == svc = "join" /\ streaming /\ capPc = "collect"

(* stopVideoStream and shutdown return: the join finds a thread that ends, *)
(* whatever it is doing when mRunMode is cleared. Only a driver that       *)
(* refuses to stop and then delivers no frame can keep them.               *)
StopReturns ==
    \/ svc \in Stopping ~> svc = "idle" \/ crash # "no"
    \/ <>[]StuckInDqbuf

(* When the client dies its stream ends, unless the stop hangs on such a   *)
(* driver or the service thread waits for ever in setMaxFramesInFlight for *)
(* frames of the dead client.                                              *)
DeathEndsStream ==
    \/ dead /\ linked ~> capPc = "none" \/ crash # "no"
    \/ <>[]StuckInDqbuf
    \/ <>[](svc = "wait")

(* "ignoring doneWithFrame call when camera has been lost.": giving back a *)
(* frame of a camera that was closed does no harm.                         *)
LateReturnIgnored == crash # "lost"
=============================================================================
