# A verification project for platform_hardware_imx

The repository holds the hardware abstraction layers (HALs) of Android on NXP i.MX:
independent services, each a process that talks to the Android framework on one side
and to Linux drivers on the other. This directory models, with TLA+, the parts whose
correctness depends on several threads, on failing drivers or on long sequences of
calls; TLC checks the models on small instances and TLAPS proves the main results for
every value of the constants.

## 1. Inventory

`PROJECT.json` lists every component with its sources. The ones with a protocol of
their own:

| Component | State it keeps | Operations | Hard behaviour |
|---|---|---|---|
| Camera session (`camera/camera/CameraDeviceSessionHWLImpl`) | pipelines, queue of frame requests, list of captured images, four progress indices | ConfigurePipeline, BuildPipelines, SubmitRequests, DestroyPipelines, delete; WorkThread: HandleRequest; ImgProcThread: HandleImage | three kinds of threads, two locks dropped while polling, objects freed by one thread and used by another, NULL captures, threads that end |
| Video stream (`VideoStream`, `MMAPStream`, `DMAStream`, `UvcStream`, ISP variant) | device descriptor, configuration, v4l2 buffers, recovery and omit counters | ConfigAndStart, onFrameAcquire, onFrameReturn, Stop | every ioctl may fail half way, a timeout restarts the stream under images that use its buffers, a dead sensor |
| EVS camera (`evs/evs_hal`) | run mode, capture thread, client stream, frames in flight, buffers per physical camera | startVideoStream, stopVideoStream, doneWithFrame, setMaxFramesInFlight, shutdown, client death | reentrant stop, lost signals, buffers never requeued |
| EVS enumerator and display | active camera and display instances | openCamera, closeCamera, openDisplay, setDisplayState | ownership stolen by the next caller, weak references |
| DisplayHal (`display/display`) | layers and slots handed to clients | getLayer, getSlot, presentLayer, putLayer | a layer used after the lock is dropped |
| Audio streams (`audio/default/Stream`) | AIDL stream state, command queue | StreamIn/StreamOut worker cycles | transient states, asynchronous drivers |
| Remote submix (`audio/default/r_submix`) | one pipe, reference counts | open, close, standby, shutdown | input and output close in any order |
| Vehicle HAL (`vehicle/common`, `vehicle/impl`) | clients per property, merged subscriptions, table of recurrent events, event queue | subscribe, unsubscribe, client death; timer loop; push, batching consumer; the destructors | the HAL is told outside the lock, deaths handled piecemeal, a timer thread that is late or does not notice a registration, stop and start of the consumer |
| External camera session (`libextcam`) | V4L2 stream and its buffer counts, requests in flight, the request list | configureStreams, processCaptureRequest, flush, close; OutputThread | every ioctl may fail, waits with the lock dropped and a timeout, a restart for another frame rate, two threads that finish requests |
| Power HAL | sessions, tasks, votes, queue of timed packages | create, update, pause, close, worker loop | late packages for closed sessions |
| Sensors, USB, thermal | see `PROJECT.json` | | one worker thread each |

The others (image processing, JPEG, gralloc, key and firmware tools, mocks, small
services) have no concurrency or failure protocol of their own and are not modelled.

How the modelled parts interact: the framework calls the session; the session's
WorkThread calls `ConfigAndStart` and `onFrameAcquire` of its video streams and feeds
images to ImgProcThread, which calls `onFrameReturn` and answers the framework through
the callbacks of a `PipelineInfo`. `ConfigAndStart` calls back into the session
(`drainImages`) before it destroys buffers. In the vehicle HAL `VehicleHalManager` keeps
the subscriptions and tells `EmulatedVehicleHal`, whose recurrent timer pushes events into
the manager's queue; the manager's consumer hands them to the clients. The EVS service and
the external camera session talk only to the framework and to their driver.

What makes them correct: nothing is freed while another thread can use it (pipelines,
request vectors, v4l2 buffers); every request is answered once, in order; buffers go
back to the driver exactly once; a buffer in use fits the configuration; calls return.

`PROJECT.json` lists the hazards at the lines where they bite, each with the
properties that cover it or the reason why none does yet.

## 2. Modules

| Module | Models |
|---|---|
| `CameraSession` | the session, its two threads and the framework's calls |
| `CaptureContract` | abstract: what the framework may hear of the requests it submitted |
| `CameraSessionProofs` | the session's inductive invariant and its first safety theorems |
| `CameraAnswersProofs` | that it implements `CaptureContract`, and what a deleted session leaves |
| `CameraBuffersProofs` | that every captured v4l2 buffer is counted |
| `VideoStream` | one stream of any kind, its driver's failures, the two threads that use it |
| `CapturePool` | abstract: what a stream promises the session |
| `VideoStreamProofs` | its invariants, and that it implements `CapturePool` |
| `MCVideoStream` | constant values for TLC |
| `EvsCamera` | one EVS camera: service thread, capture thread, driver and client |
| `EvsCameraProofs` | its inductive invariant and safety theorems |
| `SubscriptionManager` | clients, their options per property, what the HAL was asked; client death |
| `VehicleHal` | composes it with the binder threads of `VehicleHalManager` and the timers the HAL runs |
| `MCVehicleHal` | the option lists clients send, for TLC |
| `RecurrentTimer` | the table of recurrent events and the timer's thread |
| `EventQueue` | `ConcurrentQueue` and `BatchingConsumer` |
| `VehicleEvents` | composes the two: HAL, car, consumer and the end of the service |
| `VehicleHalProofs`, `VehicleEventsProofs` | their inductive invariants and safety theorems |
| `ExtCamSession` | the external camera session, OutputThread and the driver |
| `ExtCamSessionProofs` | its inductive invariant and safety theorems |

### CameraSession

One step is one region the code runs under `mLock` or `mImageListLock`, or one use of
an object another thread can free. WorkThread's `workPc` follows HandleRequest: pop the
oldest frame (`PopRequest`), look up the pipeline (`CheckPipeline`), keep, restart or
fail to start the stream (`StartKeep`, `StartReconfigure`, `Restarted`, `StartFailed`),
capture from each stream needed (`AcquireFrame`, `AcquireTimeout`, `AcquireNull`), feed
the image (`FeedImage`), count the request (`FinishRequest`). ImgProcThread's `imgPc`
follows HandleImage. `destroyPc` follows DestroyPipelines, which polls the request
indices with `mLock` dropped and drains the images with it held; `sesPc` follows the
destructor.

Data is abstracted: a request is its pipeline and the set of streams its output buffers
need; a v4l2 buffer is counted per stream (`held`); a captured image is the set of
streams it holds a buffer of; the answer is the last thing the framework was told.
Image conversion, JPEG, metadata and the intent tables happen within a step and change
nothing another thread sees. An unsupported configuration changes no state; a wait on
an empty queue that times out is a stuttering step; failing `malloc` is left out.

The framework's side of the contract, in `Submittable` and the guards: frame numbers
grow, a request has output buffers and names a pipeline that is built or, with the
fault "stale", one already destroyed; pipelines are destroyed before the session is
deleted. Whether a start is needed is a choice, so every sequence of intents, scene
modes and frame rates is covered.

`CaptureContract` is the session as the framework sees it: a set of requests submitted and
the last callback for each. A request hears a shutter and then its result, or an error
alone, or it is refused or given up in silence; between a shutter and its result no other
request is told anything, and when it is the turn of a request, no later one was told
anything. It knows of no thread, stream, image or pipeline. `Contract` in `CameraSession`
is the refinement mapping: a request is its frame and its index in the frame's vector,
`Submitted` those handed over.

### VideoStream

`mV4l2Lock` covers ConfigAndStart past `drainImages`, one dequeue and one requeue: each
is a step, and ConfigAndStart's outcomes (stop fails, reopen fails, configure fails,
start fails, started) are the disjuncts of `ConfigLocked`. The kinds differ in who
destroys the buffers (MMAP with the stop, DMA and UVC in `freeBuffersLocked`), in
reopening the device (ISP always, the others to recover; UVC closes it at every stop and
opens it when it configures) and in what a failed start leaves behind. `made` is the
configuration the existing buffers were made for, `queue` what the driver has, `out`
what was dequeued, `fed` what an image refers to. `config` stands for format, width,
height and frame rate together. On a device that does not stream `select` returns at
once, and the dequeue fails. The driver is external: it fills queued buffers, fails as
`cam.faults` allows, or stalls for good.

`CapturePool` says what the session relies on: a buffer handed out is nobody else's
until it is returned, a lost buffer is never handed out, and buffers are renewed only
while nobody refers to one. `Pool` in `VideoStream` is the refinement mapping.

### EvsCamera

The EVS service has one binder thread (`service.cpp` configures the pool so), which runs
calls and death notifications one after the other; `svc` follows it through
startVideoStream, stopVideoStream, shutdown, doneWithFrame and setMaxFramesInFlight, and
`after` says where a shared part (growing, stopping) goes on. `capPc` follows
collectFrames. A step is a region under `mLock`, an ioctl, or one access to
`mFramesInUse`, whose `++` and `--` race: each is a read and a later write, modulo
`Word`. `mRunMode` is `run`; the branch for a stop during a stop needs a second service
thread and is left out.

`vec` is the vector of gralloc buffers, `mapped` the v4l2 indices in use. With one
physical camera `mBufferMap` maps every index to itself: the first index without a
mapping and the first slot without one coincide, and stay so when a buffer is dropped.
An exception of `at()` and a null pointer end the process (`crash` names the cause); the
runs let this happen and check the rest around it. A `VIDIOC_STREAMOFF` or
`VIDIOC_REQBUFS` that fails in `onStop` is only logged: the stream then goes on, or its
buffers stay requested, and the stop joins the capture thread all the same. `frames` is what
the client has: it
returns only frames it was given, maybe long after. A wake-up of
`mFramesSignal.wait` without a signal is left out, as are failing allocations, a device
that does not open and logical cameras.

### VehicleHal

A step is a region under `SubscriptionManager::mLock` or one call to the HAL. `Subscribe`
verifies the options (`Verified`: flags, rate limits, unknown properties dropped), merges
them into the client's and the HAL's, and leaves in `halPending` what its binder thread
has still to tell the HAL; `HalSubscribe` tells it, outside the lock, property by
property. `Unsubscribe` and a death tell the HAL within the lock region when the last
client goes. `onCallbackDead` reads the client's properties in one region and gives each
up in another (`deathPc`, `deathTodo`). Of the HAL's timer only the interval per property
is kept. Rates are whole numbers of a unit, whose interval is `UnitInterval`: with tenths of
a Hz, 0.1 Hz has ten seconds. Each continuous property has its own limits, and a least rate
of 0, which `DefaultConfig.h` has five times, is legal: `hertzToNanoseconds` is the set of
what it may return, and for 0, where the cast of the infinite quotient is undefined, that is
the constant `ZeroRateIntervals`. A rate that is not a number is left out. `late` and
`overtaken` are history: clients whose own call was served after
their death was handled, and properties for which a subscribe and another change raced.

### VehicleEvents

`RecurrentTimer` has an integer clock. Its thread's `loopPc` follows `loop`: read the
clock, scan the table for the events due and the next time, fire the callbacks, and wait;
it unlocks between the scan and the wait, so a registration, an unregistration or a stop
may fall in between. `unseen` (history) is what was registered since the last scan,
`fires` (history) how often an event fired at one reading of the clock. Its intervals are
those of positive rates. `EventQueue` tells an empty queue from one with items, which is
exact: the consumer takes all there are. A step of it is a region of the queue's lock or a
notification, which `push` and `deactivate` send after the unlock (`notifying`, the service
"deactivating"). A consumer that found nothing is "blocked" and leaves that state only by a
notification or a spurious wake-up, after which it tests again; a notification that finds
nobody blocked is lost. The timer's thread and the car's threads push at the same time.
The consumer then sleeps the batching interval, flushes and calls back; `~VehicleHalManager`
requests the stop, deactivates the queue and joins. A push to the deactivated queue is
dropped.

### ExtCamSession

`mInterfaceLock` takes the framework's calls one at a time, so one thread, "call", runs
them; "out" is OutputThread. A step is a lock region, an ioctl or a callback. `cont` is the
call, to which the shared parts (stop of the stream, start of the stream, flush) return;
both threads finish requests with the same steps (`enqueueV4l2Frame`, `countReturn`,
`eraseInflight`, `answerRequest`, `callbackReturns`). A result is delivered under
`mProcessCaptureResultLock`, which the thread in "callback" has; a thread that does not get
it within a second gives the result up without telling the framework (`dropResult`).
The wait for a returned buffer tests nothing when it wakes up, so `bufferReturned` has no
condition, and a request may dequeue with every buffer counted out. A dequeued frame is
accepted, lost or, when it is too old, given back and another one dequeued (`dropOldFrame`),
without a limit. A wait of a flush may end early like a timeout (`flushTimeout`). The stream's start has four outcomes, by how much the
driver had done when an ioctl failed; the result is ignored by a request that changes the
frame rate, as in the code. Frame numbers grow, so that the request list is a set of frame
numbers and its head the oldest. A request that is refused changes nothing. A stream always
gets the same number of buffers, a driver may or may not refuse to make buffers
anew while it streams, and whether a result is a success or an error is not told apart.

## 3. Runs

| Run | Question | Result |
|---|---|---|
| `session_safety` | Can destroying, draining or restarting free what another thread uses; is `CaptureContract` implemented (`ContractSpec`)? Logical camera, two streams, every fault | holds, 4.9 million states |
| `session_liveness` | Does DestroyPipelines return, is every request of a plain camera answered? | holds, when streams start |
| `session_start_fails` | The same when a stream may fail to start | **violated**: WorkThread ends, the request is never counted, DestroyPipelines polls for ever |
| `session_error_path` | Does the error notification use a live PipelineInfo? | **violated**: the image is counted before the notification, so DestroyPipelines may free the PipelineInfo in between |
| `stream` | Every kind of stream with the faults it copes with, and up to two frames to omit: buffers accounted for, fitting, CapturePool implemented, onFrameAcquire returns unless a sensor for ever delivers one frame after each restart (`Flickers`) | holds, 66 thousand states |
| `stream_recover` | Does ConfigAndStart return 0 only for a started stream? | **violated**: a failed recovery leaves the configuration saved, so the next call is taken for "same config" |
| `stream_stale_buffers` | Do a DMA stream's buffers fit after a failed start? | **violated**: they stay registered and serve the next configuration |
| `evs_camera` | Every order of calls, captures, failing deliveries, returns and client death: one holder per buffer, close after the capture thread ended, nothing after the end of the stream, stops return and a dead client's stream ends unless a driver that refuses to stop delivers nothing more | holds, 228 thousand states |
| `vehicle_subscriptions` | Two clients, three properties (least rate 0, positive, on change), two binder threads, deaths at any point: do lists, clients and the HAL's timers agree; are the dead given up? | holds, 257 thousand states |
| `vehicle_events` | Two events at two rates, a late timer thread, a stop at any point, notifications that come early, late or for no reason: is no seen event slept through, are events aligned and not fired in bursts, is every queued event taken, does the consumer stop? | holds, 411 thousand states |
| `external_camera` | Requests, frame rate changes, configurations, flushes and a close against OutputThread, every ioctl failing, every wait timing out or waking early, results given up at the callback lock: one owner per V4L2 buffer, single and ordered answers, calls that return unless a start or too-old frames have no end, requests that are settled | holds, 426 thousand states |
| `evs_late_return` | Is a frame returned after the camera was closed ignored? | **violated**: a missing return leads to `at()` on an empty vector, which aborts the service |

Bounds. Two streams are the logical camera of the products; two buffers are the least
with which one can be lost, one held and the pool exhausted; two frames of up to two
requests let one frame be processed while another is captured, and give a vector a first
and a last request; two pipelines let a request name a destroyed one while another is
live. Two configurations (one with two frames to omit, one more than makes `mRecoverCount` 0) and two scene modes let a stream be
restarted with and without a change. `MaxFrame`, `MaxBatch` and `MaxPipeline` are guards
on what the framework submits; nothing in the code is cut short by them. An EVS camera has two
buffers, so that one can be with the client while the other is captured, dropped or
added, and one by default, so that it can grow while streaming; `Word` is the least that
tells a wrapped counter from every number of frames. Two clients and
two threads are what a race needs; property 1 is continuous with a least rate of 0, property
2 continuous with a positive one, property 3 is not continuous, and the requests name rates
below, within and above the limits; three calls let both clients subscribe and one leave.
Two events with the intervals 1 and 2 of a unit of two come due together and apart, and a
clock of three instants lets the thread be late for one of them twice; one thread of the car
beside the timer's lets two pushes overlap, and the queue needs no bound. The
external camera has two buffers, three requests, so that one can be processed while another
waits and a third is refused or flushed, and three configurations or flushes. Deadlock is not
checked: a deleted or closed session, or one that used up its frames or calls, stops.

Faults left out of `stream`: a failed `VIDIOC_STREAMOFF` of an MMAP kind and a failed
start of a DMA kind, both of which break `BuffersFit`. The first has no document to
disagree with; the second has its own run. `RequestsAnswered` is stated for plain cameras
because a logical request whose capture fails is given up silently by design
(`CapAndFeed`, `goto fail`).

Fairness. `WF(HandleRequest)` and `WF(HandleImage)`: the threads are endless loops.
`WF(DestroySteps)`, `WF(DeleteSteps)`: a call that was made goes on polling. The
framework is never obliged to call. In `VideoStream`, `WF(WorkThread)` and
`WF(ReturnFrame(b))` are the threads; `SF(TakeFrame)` says a living driver does not
deliver every frame too late for the lag limit. A stalled one disables `TakeFrame`, so
nothing is assumed of it. That a flickering sensor becomes steady or dies is not assumed:
`AcquireReturns` names it as the exception, because the first frame after a restart makes
`mRecoverCount` 0 even when it is omitted. In `EvsCamera`, `WF(ServiceThread)` and `WF(ServiceDied)` say
that the service thread finishes its call and takes a pending notification (binder
queues it), `WF(CaptureGoesOn)` that the capture thread runs whenever it need not wait
for the driver; `VIDIOC_DQBUF` returns when the stream is off and otherwise need not, so a
stop whose `VIDIOC_STREAMOFF` failed may hang in its join: `StopReturns` and
`DeathEndsStream` except that (`StuckInDqbuf`), and the latter the wait of a shrink.
In `VehicleHal` a binder thread finishes the call or the death notice it serves; in
`VehicleEvents` the consumer, the timer's thread, the clock, a push and a destructor that
have begun go on, and one-way callbacks return; a wait on `mCond` need not end by itself, and
nobody is obliged to subscribe or to die. In
`ExtCamSession` `WF(OutputThread)` is the thread and `WF(CallGoesOn)` a call that has begun:
its waits for a buffer, a frame or OutputThread time out, and the framework's callbacks
return. No fairness makes a start end: the attempts of `VIDIOC_STREAMON` are never
incremented, so `MAX_RETRY` does not end them, and the first frame is awaited without a
timeout. Nor does a driver ever have to deliver a frame that is not too old. `CallsReturn`
names both as its exceptions; without either the run is violated.

## 4. Proofs

All are for every value of the constants that satisfies `SessionAssumption`,
`StreamAssumption`, `EvsAssumption`, `SubscriptionAssumption` and `VehicleAssumption`,
`TimerAssumption` and `EventsAssumption`, or `ExtCamAssumption`. `VehicleAssumption` wants of
the rates only that a property's least is not above its greatest; 0 is legal. It takes the
undefined interval of rate 0 for any integers but 0, which in the model is "no timer".
`EventsAssumption` has positive rates only: what the timer does with an undefined interval is
left open.

`CameraSessionProofs`. The properties are not inductive alone. `Invariance` proves a
conjunction of: the types; *counting* (the request indices differ by the frames queued
plus the one WorkThread is handling, dead or alive; the image indices by the images in
the list plus the one under processing before its count); *life* (the pipeline of every
request between its check and its count is allocated, because DestroyPipelines passes
its first loop only with the indices equal); and the ranges of the indices into a frame's
vector. From it follow `DestroyWaits` (DestroyFindsIdle), `DrainIsSafe`
(DrainedBuffersUnused) and `CallbacksAreLive` (PipelineInfoLive). `VectorsAreAlive`
(VectorAlive) needs an order: every request referred to, from the image under processing
through the list to WorkThread's, is strictly after the one before, so the last of a
frame is released after all others.

`CameraAnswersProofs`. `KeepsContract` (ContractSpec) adds *told* to that order: nothing
was told of a request WorkThread has not fed, nothing of one in the list, of the image under
processing exactly what HandleImage has come to, and a shutter without its result is only
that image's. Every callback then finds its request in turn, and every step of the session
is a step of the contract or leaves the framework's view as it is. `Ordered`
(AnswersInOrder, the same promise stated on the session's variables) follows from the
contract alone. `LeavesNothing` (NothingLeaks) needs four more facts: *named* (pipeline
numbers grow, and with no pipelines built none of the requests submitted names a live one,
so nothing of them is in flight), *exits* (the session is deleted without pipelines, and its
threads end in turn), *fences* (a request whose fences are open is queued, refused, in the
list or in a thread's hand) and *last freed* (a vector of which the last request was answered
is the one under release).

`CameraBuffersProofs`. BuffersBounded is not inductive: that no buffer is given back twice
rests on who has it. *Lent* counts, per stream, the images in the list captured from it, the
one under processing until it gives its buffers back, and WorkThread's own: together at most
`held`, which is at most the buffers the stream has. *Capturing* says that a recovery
restarts only streams WorkThread has no buffer of. Lemmas on cardinalities follow an image
into and out of the list. A restart clears `held` and is sound because the drain before it
leaves no image; the end of the session is sound because of *named* and *exits*.
The inequality is strict where a logical request was given up and kept a buffer out.

`VideoStreamProofs`. `Accounted` (BuffersAccounted) and `Implements` (PoolSpec) hold
whatever fails, of any kind of stream: the invariant adds to the accounting that a
dequeued buffer held by WorkThread is not yet fed and that what is wanted of
ConfigAndStart is a real configuration. `Fit` (BuffersFit) needs the assumption `Copes`:
no failing stop for the MMAP kinds and no failing start for the DMA kinds, which is what
the runs show to be necessary.

`EvsCameraProofs`. `Invariance` adds to the properties: *counters* (buffers are added and
dropped only as many as asked for; a thread has a frame in hand exactly while it deals
with one); *phases* (mRunMode is RUN from the start of a stream until its stop has
signalled, and past the join no thread is left); *announcement* (once the end was
announced mStream stays set or the camera is closed, so no stream can start again). From
it follow `Types`, `Apart` (BuffersApart), `CloseIsLast` (CloseFindsStopped), `Watched`
(ThreadWatched) and the action property `EndAnnounced` (EndIsLast). They hold although
the counters race and the process may abort.

`VehicleHalProofs`. `Inductive` adds to the properties: *deaths* (a dead client whose
properties were read is listed only by the ones it has still to give up), *pending* (what
a thread has still to tell the HAL is what the manager holds, unless calls raced) and
*rates* (a continuous property is asked for with a rate within its limits, so its timer has
the interval of such a rate). It gives `ListedKnown`, `DeadGone`, `Covered`, `InSync` and `NoStarvation`.

`VehicleEventsProofs`. `CoverInv` extends SleepCoversEvents from the sleep back to the scan
that computed its end; `BurstInv` relates how often an event fired at one reading of the
clock to how far behind it is; alignment rests on lemmas about division with remainder.
Together they give `SleepCovers`, `Aligned` and `Burst`. `WakeUps` (NoLostWakeUp) says why
`EventsTaken` and `ConsumerStops` hold: a consumer that waits while the queue has items, or
was deactivated, has a notification still to come, because the test and the wait are one
region of the lock.

`ExtCamSessionProofs`. FramesOwned needs to know that the buffers are made anew only when
no frame is held. For configureStreams that is *flight*: a request is in `mInflightFrames`
until it is erased, which comes after its frame was given back. For a change of the frame
rate it is *count* (`CountCovers`, proved as `Counted`): `mNumDequeuedV4l2Buffers` is at
least the number of frames held plus those between `VIDIOC_QBUF` and their count. There is no
bound the other way: the wait for a buffer tests nothing, so the count may exceed the number
of buffers, and nothing proved here rests on it. *Restart* carries both conditions from their
test to the ioctls, *phases* say what each thread has in hand where, and *order*
(OutputThread's request is older than all others; past the wait of a flush it is gone or was
given up on) gives `InOrder` (AnswersInOrder). `Owned` is FramesOwned, the frame that is just
being accepted included. *Drops* gives `Drops` (DropsExplained): the threads meet at
`mProcessCaptureResultLock` only when a flush stopped waiting, so only then is a result lost.

Every safety property a passing run checks is proved. Only model-checked is liveness, which
is out of the prover's reach: `DestroyReturns`, `RequestsAnswered`, `AcquireReturns`,
`StopReturns`, `DeathEndsStream`, `DeadClientsReleased`, `ConsumerStops`, `EventsTaken`,
`SeenEventsFire`, `CallsReturn` and `RequestsSettled`. `Implements` and `KeepsContract` are
about the safety of their abstract specifications, which state no fairness.

## 5. Not modelled

Within the camera HAL: DMA allocation failure (`allocateBuffersLocked` shadows `ret`),
device paths (a recovery reopens the first stream's device), `onFlush` (no caller),
`PickValidFps`, and the SoC forks `camera-hal` and `camera-hal-v2`, which repeat the
protocol.

Within the vehicle HAL: get and set with the property store, property set errors, the value
pool, VMS messages, the emulator and the user HAL, which are lookups and conversions under
a lock. That a registration or a stop is always noticed by the timer's thread does not hold
(the gap between scan and wait); the model has the gap, and the properties except it.

Within the external camera library: `switchToOffline` and the offline session. A frame that
goes offline gets two owning pointers (`ExternalCameraDeviceSession.cpp:894`), so what
follows is undefined; up to there the call is a flush whose requests are kept. The buffer
request thread serves only the offline session: no characteristics of this repository switch
the buffer manager on. Image conversion, the buffer caches and the ISP controls are data.

Outside them: every component with status `not_modelled` in `PROJECT.json`. The largest files
of the repository are tables, headers of other projects, and single-threaded conversions or
request-and-answer wrappers, in which a model would find no control to check.

## 6. What remains

In order of importance:

1. `EvsOwnership` for the enumerator and the display, with devices that fail to open, and
   logical cameras of several physical ones in `EvsCamera`.
2. `AudioStream`: the AIDL state machine of the worker against the states a client may
   observe; `SubmixRoute` for the shared pipe.
3. `WorkerPool` and `SessionTaskMap` of the power HAL.
4. Two streams with device paths and DMA allocation failure in the camera HAL.

Abstract specifications worth stating: the exclusive owner of an EVS camera or display;
the AIDL stream state diagram; a pub/sub registry that `SubscriptionManager` implements
where no calls race. Theorems worth proving next: that `SubscriptionManager` implements
that registry, and that the external camera session implements a contract like
`CaptureContract`, with the requests a flush gave up waiting for as its exception.
