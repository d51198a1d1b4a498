---------------------------- MODULE VideoStream ----------------------------
(***************************************************************************)
(* One video stream of the camera HAL: VideoStream and its kinds           *)
(* MMAPStream, ISPCameraMMAPStream, DMAStream and UvcStream                *)
(* (src/camera/camera).                                                    *)
(*                                                                         *)
(* WorkThread configures and starts the stream and acquires its frames,    *)
(* ImgProcThread gives frames back, the driver fills buffers or stalls.    *)
(* mV4l2Lock covers ConfigAndStart past drainImages, one dequeue and one   *)
(* onFrameReturn: each is a step.                                          *)
(***************************************************************************)
EXTENDS Integers

CONSTANTS Buffers,      \* the indices below mNumBuffers
          Configs,      \* format, width, height and fps that may be asked for
          Scenes,       \* scene modes
          Omit,         \* per configuration, the frames to omit (omit_frame)
          Cameras       \* the streams considered: kind and what may go wrong

None == "none"          \* no configuration yet, no buffers, no buffer

(* "open", "configure", "start", "stop": the ioctls of that step may fail; *)
(* "dqbuf", "qbuf": dequeueing or requeueing a buffer may fail; "stall":   *)
(* the sensor may stop delivering frames for good.                         *)
Kinds == {"mmap", "isp", "dma", "uvc"}
FaultNames == {"open", "configure", "start", "stop", "dqbuf", "qbuf", "stall"}

ASSUME StreamAssumption ==
    /\ Buffers # {} /\ Scenes # {} /\ None \notin Configs
    /\ Omit \in [Configs -> Nat]
    /\ Cameras \subseteq [kind: Kinds, faults: SUBSET FaultNames, logical: BOOLEAN]

MAX_RECOVER_COUNT == 1

VARIABLES
  cam,          \* the stream's kind, its faults, whether the camera is logical
  dev,          \* mDev is a valid descriptor
  started,      \* mbStart
  streaming,    \* the driver streams
  stalled,      \* the sensor is dead
  config,       \* mFormat, mWidth, mHeight, mFps
  scene,        \* mSceneMode
  made,         \* the configuration the ImxStreamBuffers were made for
  first,        \* mFrames = 0: the next frame is the first of this configuration
  recovers,     \* mRecoverCount, up to one above the limit
  omit,         \* mOmitFrames
  queue,        \* buffers the driver has
  out,          \* buffers dequeued and not queued again
  fed,          \* those of out that an image refers to
  pc, want,     \* where WorkThread is, and what it asked of ConfigAndStart
  cur,          \* the buffer onFrameAcquire returned to it
  ret           \* what its last call returned

devVars == <<cam, stalled, dev, started, streaming>>
confVars == <<config, scene, made>>
countVars == <<first, recovers, omit>>
poolVars == <<queue, out, fed>>
vars == <<devVars, confVars, countVars, poolVars, pc, want, cur, ret>>

May(f) == f \in cam.faults

Init ==
    /\ cam \in Cameras
    /\ dev = TRUE /\ started = FALSE /\ streaming = FALSE /\ stalled = FALSE
    /\ config = None /\ scene \in Scenes /\ made = None
    /\ first = TRUE /\ recovers = 0 /\ omit = 0
    /\ queue = {} /\ out = {} /\ fed = {}
    /\ pc = "idle" /\ cur = None /\ ret = "none"
    /\ want = [config |-> None, scene |-> scene, recover |-> FALSE]

-----------------------------------------------------------------------------
(* ConfigAndStart. *)

SameConfig(c, s) == config = c /\ scene = s

ConfigSame(c, s) ==
    /\ pc = "idle" /\ SameConfig(c, s)
    /\ ret' = "ok"
    /\ UNCHANGED <<devVars, confVars, countVars, poolVars, pc, want, cur>>

ConfigAndStart(c, s) ==
    /\ pc = "idle" /\ ~SameConfig(c, s)
    /\ want' = [config |-> c, scene |-> s, recover |-> FALSE]
    /\ pc' = "drain"
    /\ UNCHANGED <<devVars, confVars, countVars, poolVars, cur, ret>>

(* Mutant: no drain before the buffers are destroyed.                      *)
NoDrain == TRUE

(* drainImages has returned: no image refers to a v4l2 buffer.             *)
Drained == fed = {}

(* Where ConfigAndStart's caller goes on. A recovery is called by          *)
(* onFrameAcquire, which tries again or returns NULL; an error of a plain  *)
(* configuration ends WorkThread, unless HandleIntent goes on to the next  *)
(* stream of a logical camera and forgets it.                              *)
ReturnError ==
    /\ ret' = IF want.recover THEN "null" ELSE "error"
    /\ pc' = IF want.recover \/ cam.logical THEN "idle" ELSE "dead"

ReturnOk ==
    /\ ret' = "ok"
    /\ pc' = IF want.recover THEN "select" ELSE "idle"

MmapBuffers == cam.kind \in {"mmap", "isp"}

(* onDeviceStopLocked fails and mbStart stays set. MMAPStream has deleted  *)
(* its buffers by then; UvcStream closes the device all the same.          *)
StopFails ==
    /\ pc = "drain" /\ Drained
    /\ started /\ (May("stop") \/ ~dev)
    /\ made' = IF dev /\ MmapBuffers THEN None ELSE made
    /\ dev' = (dev /\ cam.kind # "uvc")
    /\ \/ dev' /\ UNCHANGED <<streaming, queue>>           \* VIDIOC_STREAMOFF failed
       \/ streaming' = FALSE /\ queue' = {}                \* VIDIOC_REQBUFS failed
    /\ ReturnError
    /\ UNCHANGED <<cam, stalled, started, config, scene, countVars, out, fed, want, cur>>

(* The stream is stopped, its buffers are freed and the device is closed   *)
(* and opened again if it must be: what is left of its state.              *)
Stoppable == ~started \/ dev
Reopens == started /\ (want.recover \/ cam.kind = "isp")
DevNow == IF started THEN Reopens \/ cam.kind # "uvc" ELSE dev
MadeNow == IF started THEN None ELSE made

Stopped ==
    /\ pc = "drain" /\ Drained
    /\ Stoppable
    /\ fed' = fed /\ UNCHANGED <<cam, stalled, want, cur>>

Off == started' = FALSE /\ streaming' = FALSE /\ queue' = {} /\ out' = {}

ReopenFails ==
    /\ Stopped
    /\ Reopens /\ May("open")
    /\ dev' = FALSE /\ made' = MadeNow
    /\ Off /\ ReturnError
    /\ UNCHANGED <<config, scene, countVars>>

(* onPrepareLocked or onDeviceConfigureLocked fails, an ioctl or because   *)
(* the device is closed; UvcStream first tries to open it.                 *)
ConfigureFails ==
    /\ Stopped
    /\ \/ /\ May("configure") /\ (DevNow \/ cam.kind = "uvc")
          /\ dev' = TRUE
       \/ /\ ~DevNow
          /\ cam.kind = "uvc" => May("open")
          /\ dev' = FALSE
    /\ made' = MadeNow
    /\ Off /\ ReturnError
    /\ UNCHANGED <<config, scene, countVars>>

Configured ==
    /\ Stopped
    /\ DevNow \/ cam.kind = "uvc"
    /\ dev' = TRUE
    /\ config' = want.config
    /\ first' = TRUE

(* Mutant: the buffers of a stopped stream are still registered.           *)
KeepMade == IF made # None THEN made ELSE want.config

(* allocateBuffersLocked: buffers still registered are taken as they are.  *)
Allocated == IF MadeNow # None THEN MadeNow ELSE want.config

(* onDeviceStartLocked fails: MMAPStream deletes its buffers, DMAStream    *)
(* leaves them registered.                                                 *)
StartFails ==
    /\ Configured
    /\ May("start")
    /\ made' = IF MmapBuffers THEN None ELSE Allocated
    /\ Off /\ ReturnError
    /\ UNCHANGED <<scene, recovers, omit>>

Starts ==
    /\ Configured
    /\ made' = Allocated
    /\ queue' = Buffers /\ out' = {}
    /\ started' = TRUE /\ streaming' = TRUE
    /\ omit' = Omit[want.config]
    /\ scene' = want.scene
    /\ ReturnOk
    /\ UNCHANGED recovers

ConfigLocked == StopFails \/ ReopenFails \/ ConfigureFails \/ StartFails \/ Starts

-----------------------------------------------------------------------------
(* onFrameAcquire. *)

ReturnNull == pc' = "idle" /\ ret' = "null"

AcquireClosed ==
    /\ pc = "idle" /\ ~dev
    /\ ReturnNull
    /\ UNCHANGED <<devVars, confVars, countVars, poolVars, want, cur>>

AcquireOpen ==
    /\ pc = "idle" /\ dev
    /\ pc' = "select"
    /\ UNCHANGED <<devVars, confVars, countVars, poolVars, want, cur, ret>>

(* Mutant: recover as often as select times out.                           *)
RecoverAlways == TRUE

MayRecover == recovers + 1 <= MAX_RECOVER_COUNT

(* select times out after three seconds. (On a device that does not stream *)
(* it returns at once, and the dequeue fails.)                             *)
SelectTimeout ==
    /\ pc = "select" /\ streaming
    /\ recovers' = IF recovers <= MAX_RECOVER_COUNT THEN recovers + 1 ELSE recovers
    /\ \/ /\ MayRecover
          /\ want' = [config |-> config, scene |-> scene, recover |-> TRUE]
          /\ pc' = "drain"
          /\ UNCHANGED ret
       \/ ~MayRecover /\ ReturnNull /\ UNCHANGED want
    /\ UNCHANGED <<devVars, confVars, first, omit, poolVars, cur>>

DequeueFails ==
    /\ pc = "select"
    /\ ~streaming \/ May("dqbuf")
    /\ ReturnNull
    /\ UNCHANGED <<devVars, confVars, countVars, poolVars, want, cur>>

(* VIDIOC_DQBUF gives buffer b; the first frame of a configuration makes   *)
(* mRecoverCount 0.                                                        *)
Dequeue(b) ==
    /\ pc = "select" /\ streaming /\ ~stalled
    /\ b \in queue
    /\ first' = FALSE
    /\ recovers' = IF first THEN 0 ELSE recovers
    /\ UNCHANGED <<devVars, confVars, fed, want>>

(* Mutant: a frame that is only too old counted as an omitted one.         *)
OmitEverySkipped == omit - 1

OmitLeft == IF omit > 0 THEN omit - 1 ELSE 0

(* The frame is to be omitted or is too old: it is queued again, or lost   *)
(* if that fails.                                                          *)
SkipFrame(b) ==
    /\ Dequeue(b)
    /\ UNCHANGED cur
    /\ \/ /\ omit' = OmitLeft
          /\ UNCHANGED <<queue, out, pc, ret>>
       \/ /\ May("qbuf")
          /\ queue' = queue \ {b} /\ out' = out \cup {b}
          /\ ReturnNull
          /\ UNCHANGED omit

TakeFrame(b) ==
    /\ omit = 0
    /\ Dequeue(b)
    /\ queue' = queue \ {b} /\ out' = out \cup {b}
    /\ pc' = "got" /\ cur' = b /\ ret' = "frame"
    /\ UNCHANGED omit

(* CapAndFeed feeds the buffer to the image list, ...                      *)
Feed ==
    /\ pc = "got"
    /\ fed' = fed \cup {cur}
    /\ pc' = "idle" /\ cur' = None
    /\ UNCHANGED <<devVars, confVars, countVars, queue, out, want, ret>>

(* ... or, when another stream of a logical camera fails, forgets it.      *)
Forget ==
    /\ pc = "got" /\ cam.logical
    /\ pc' = "idle" /\ cur' = None
    /\ UNCHANGED <<devVars, confVars, countVars, poolVars, want, ret>>

(* Mutant: the buffer is queued again and stays with its image.            *)
StillFed(b) == fed

Unfed(b) == fed \ {b}

(* onFrameReturn, by ImgProcThread. *)
ReturnFrame(b) ==
    /\ b \in fed
    /\ fed' = Unfed(b)
    /\ \/ streaming /\ queue' = queue \cup {b} /\ out' = out \ {b}
       \/ (May("qbuf") \/ ~streaming) /\ UNCHANGED <<queue, out>>
    /\ UNCHANGED <<devVars, confVars, countVars, pc, want, cur, ret>>

(* The sensor dies. *)
Stall ==
    /\ May("stall") /\ ~stalled
    /\ stalled' = TRUE
    /\ UNCHANGED <<cam, dev, started, streaming, confVars, countVars, poolVars, pc, want,
                   cur, ret>>

(* The session's destructor: both threads have ended, and nothing looks at *)
(* the images left in the list; Stop and closeDev.                         *)
Close ==
    /\ pc \in {"idle", "dead"}
    /\ \/ /\ started /\ dev /\ made' = None /\ started' = FALSE
       \/ /\ ~started /\ UNCHANGED <<made, started>>
       \/ /\ started /\ (May("stop") \/ ~dev)
          /\ made' = (IF dev /\ MmapBuffers THEN None ELSE made)
          /\ UNCHANGED started
    /\ dev' = FALSE /\ streaming' = FALSE
    /\ queue' = {} /\ out' = {} /\ fed' = {}
    /\ pc' = "closed" /\ ret' = "none"
    /\ UNCHANGED <<cam, stalled, config, scene, countVars, want, cur>>

-----------------------------------------------------------------------------

WorkThread ==
    \/ ConfigLocked \/ SelectTimeout \/ DequeueFails \/ Feed \/ Forget
    \/ \E b \in Buffers : SkipFrame(b) \/ TakeFrame(b)

Session ==
    \/ \E c \in Configs, s \in Scenes : ConfigSame(c, s) \/ ConfigAndStart(c, s)
    \/ AcquireClosed \/ AcquireOpen \/ Close

Next == WorkThread \/ Session \/ Stall \/ \E b \in Buffers : ReturnFrame(b)

Spec == Init /\ [][Next]_vars

(* The threads run, and a driver that goes on filling buffers does not     *)
(* fill every one too late. A dead one fills none.                         *)
FairSpec ==
    /\ Spec
    /\ WF_vars(WorkThread)
    /\ \A b \in Buffers : WF_vars(ReturnFrame(b))
    /\ SF_vars(\E b \in Buffers : TakeFrame(b))

-----------------------------------------------------------------------------
(* Properties. *)

(* Every variable has its type.                                            *)
TypeOK ==
    /\ cam \in Cameras
    /\ dev \in BOOLEAN /\ started \in BOOLEAN /\ streaming \in BOOLEAN
    /\ stalled \in BOOLEAN /\ first \in BOOLEAN
    /\ config \in Configs \cup {None} /\ made \in Configs \cup {None} /\ scene \in Scenes
    /\ recovers \in 0..(MAX_RECOVER_COUNT + 1) /\ omit \in Nat
    /\ queue \subseteq Buffers /\ out \subseteq Buffers /\ fed \subseteq Buffers
    /\ pc \in {"idle", "drain", "select", "got", "dead", "closed"}
    /\ want \in [config: Configs \cup {None}, scene: Scenes, recover: BOOLEAN]
    /\ cur \in Buffers \cup {None}
    /\ ret \in {"none", "ok", "error", "null", "frame"}

Referenced == IF pc = "got" THEN fed \cup {cur} ELSE fed

(* Every buffer of a stream that streams is with the driver or dequeued,   *)
(* never both: VIDIOC_QBUF is called once for each VIDIOC_DQBUF.           *)
BuffersAccounted ==
    /\ queue \cap out = {}
    /\ streaming => queue \cup out = Buffers
    /\ Referenced \subseteq out

(* "Drain images in mImageList, or the returned v4l2 buffers may not match *)
(* the latest config": a buffer an image refers to exists and was made for *)
(* the stream's present configuration.                                     *)
BuffersFit ==
    /\ Referenced # {} => made = config /\ made # None
    /\ streaming => made = config

(* ConfigAndStart returns 0 only when the stream has been started.         *)
OkMeansStarted == ret = "ok" => started

(* What the session relies on.                                             *)
Pool == INSTANCE CapturePool WITH open <- pc # "closed", taken <- out, inUse <- Referenced

(* Every step of the stream is a step the session allows: no buffer is     *)
(* handed out twice, or renewed while an image refers to it.               *)
PoolSpec == Pool!Spec

(* select timed out on a stream that had delivered a frame since it was    *)
(* last started, and the stream is restarted once more.                    *)
Flickers == pc = "drain" /\ want.recover /\ ~first

(* onFrameAcquire returns, with a frame or with NULL, dead sensor or not.  *)
(* The one way to keep it is a sensor that for ever delivers a frame after *)
(* each restart and then stops: while its frames are omitted, that one     *)
(* frame makes mRecoverCount 0 and MAX_RECOVER_COUNT is never reached.     *)
AcquireReturns ==
    \/ pc = "select" ~> pc \in {"idle", "got", "closed"}
    \/ []<>Flickers
=============================================================================
