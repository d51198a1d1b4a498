--------------------------- MODULE ExtCamSession ---------------------------
(***************************************************************************)
(* ExternalCameraDeviceSession of libextcam: the session of a USB camera.  *)
(* Two threads: the one that runs the framework's calls, which             *)
(* mInterfaceLock takes one at a time ("call"), and OutputThread ("out").  *)
(* A request is accepted together with a dequeued V4L2 frame, which        *)
(* whoever finishes the request gives back to the driver: OutputThread     *)
(* when it has processed it, or the call that flushes it.                  *)
(*                                                                         *)
(* A step is a region under one lock, an ioctl or a callback.  The calls   *)
(* alone add requests and read mInflightFrames, so counting a dequeued     *)
(* frame and submitting its request are one step.  Frame numbers grow, so  *)
(* that a list of requests is the set of their frame numbers.              *)
(***************************************************************************)
EXTENDS Naturals, FiniteSets

CONSTANTS Bufs,       \* the V4L2 buffers a stream is started with
          MaxFrame,   \* bound: requests the framework submits
          MaxCalls    \* bound: its configureStreams and flush calls

ASSUME ExtCamAssumption == /\ IsFiniteSet(Bufs) /\ Bufs # {}
                           /\ MaxFrame \in Nat
                           /\ MaxCalls \in Nat

Threads == {"call", "out"}
Frames == 1..MaxFrame

VARIABLES
  pc,                       \* where each thread is
  cont,                     \* the call that runs: what a shared part returns to
  mRequestList,             \* requests submitted to OutputThread
  work,                     \* requests a thread has taken off the list
  buf,                      \* the V4L2 buffer of each accepted request
  mInflightFrames,
  mV4l2Streaming,
  mV4L2BufferCount,
  mNumDequeuedV4l2Buffers,
  dev,                      \* the driver: streaming, buffers made, buffers it has
  next, calls,              \* what the framework did so far
  answered,                 \* requests whose result the framework was called with
  dropped,                  \* requests whose result was given up, undelivered
  late,                     \* requests under processing when a flush stopped waiting
  gaveUp,                   \* a flush stopped waiting for OutputThread
  broken                    \* ERROR_DEVICE was reported

counts == <<mV4L2BufferCount, mNumDequeuedV4l2Buffers>>
lists == <<mRequestList, work, buf, mInflightFrames>>
told == <<answered, dropped, late, gaveUp, broken>>
vars == <<pc, cont, lists, counts, mV4l2Streaming, dev, next, calls, told>>

Init ==
  /\ pc = [t \in Threads |-> IF t = "call" THEN "idle" ELSE "wait"]
  /\ cont = "none"
  /\ mRequestList = {}
  /\ work = [t \in Threads |-> {}]
  /\ buf = [f \in Frames |-> CHOOSE b \in Bufs : TRUE]
  /\ mInflightFrames = {}
  /\ mV4l2Streaming = FALSE
  /\ mV4L2BufferCount = 0
  /\ mNumDequeuedV4l2Buffers = 0
  /\ dev = [on |-> FALSE, made |-> FALSE, queued |-> {}]
  /\ next = 1
  /\ calls = 0
  /\ answered = {}
  /\ dropped = {}
  /\ late = {}
  /\ gaveUp = FALSE
  /\ broken = FALSE

Goto(t, l) == pc' = [pc EXCEPT ![t] = l]
Oldest(S) == CHOOSE f \in S : \A g \in S : f <= g

\* Set from waitForNextRequest until signalRequestDone or a device error.
mProcessingRequest == pc["out"] \notin {"wait", "ended"}

-----------------------------------------------------------------------------
(* configureStreams, and the start and stop of the V4L2 stream.            *)

\* Mutant: configureStreams does not look at mInflightFrames.
NothingInFlightUnchecked == TRUE

\* Nothing is in flight: the one condition besides an open session and a
\* supported combination, without which the call changes nothing.
NothingInFlight == mInflightFrames = {}

configureStreams ==
  /\ pc["call"] = "idle"
  /\ calls < MaxCalls
  /\ NothingInFlight
  /\ Goto("call", "off")
  /\ cont' = "config"
  /\ calls' = calls + 1
  /\ UNCHANGED <<lists, counts, mV4l2Streaming, dev, next, told>>

\* Where v4l2StreamOffLocked and configureV4l2StreamLocked return to.
\* A request ignores the result of the latter and dequeues a frame anyway.
AfterFailure == CASE cont = "config" -> "idle"
                  [] cont = "request" -> "dequeue"
                  [] OTHER -> "closed"
AfterStreamOff == IF cont = "close" THEN "closed" ELSE "configure"

\* v4l2StreamOffLocked.  The buffer count is cleared before the ioctls,
\* which may fail: the stream then counts as on, with no buffers.
streamOffNotNeeded ==
  /\ ~ mV4l2Streaming
  /\ Goto("call", AfterStreamOff)
  /\ UNCHANGED <<counts, mV4l2Streaming, dev>>

streamOffRefused ==
  /\ mV4l2Streaming
  /\ mNumDequeuedV4l2Buffers # 0
  /\ Goto("call", AfterFailure)
  /\ UNCHANGED <<counts, mV4l2Streaming, dev>>

streamOffFails ==
  /\ mV4l2Streaming
  /\ mNumDequeuedV4l2Buffers = 0
  /\ mV4L2BufferCount' = 0
  /\ \/ UNCHANGED dev                                         \* VIDIOC_STREAMOFF
     \/ dev' = [dev EXCEPT !.on = FALSE, !.queued = {}]       \* VIDIOC_REQBUFS
  /\ Goto("call", AfterFailure)
  /\ UNCHANGED <<mNumDequeuedV4l2Buffers, mV4l2Streaming>>

streamedOff ==
  /\ mV4l2Streaming
  /\ mNumDequeuedV4l2Buffers = 0
  /\ mV4L2BufferCount' = 0
  /\ dev' = [on |-> FALSE, made |-> FALSE, queued |-> {}]
  /\ mV4l2Streaming' = FALSE
  /\ Goto("call", AfterStreamOff)
  /\ UNCHANGED mNumDequeuedV4l2Buffers

v4l2StreamOffLocked ==
  /\ pc["call"] = "off"
  /\ \/ streamOffNotNeeded
     \/ streamOffRefused
     \/ streamOffFails
     \/ streamedOff
  /\ UNCHANGED <<cont, lists, next, calls, told>>

AfterConfigure == IF cont = "config" THEN "idle" ELSE "dequeue"

\* configureV4l2StreamLocked past the stop: an ioctl fails before the
\* buffers are made, while they are queued, or once the stream is on, when
\* the first frame is swallowed; or the stream is started.
configureFailsEarly ==
  /\ \/ UNCHANGED dev
     \/ dev' = [on |-> FALSE, made |-> TRUE, queued |-> {}]  \* too few buffers
  /\ UNCHANGED <<mV4L2BufferCount, mV4l2Streaming>>

configureFailsQueueing ==
  /\ mV4L2BufferCount' = Cardinality(Bufs)
  /\ \E B \in SUBSET Bufs :
        /\ B # Bufs
        /\ dev' = [on |-> FALSE, made |-> TRUE, queued |-> B]
  /\ UNCHANGED mV4l2Streaming

configureFailsStarted ==
  /\ mV4L2BufferCount' = Cardinality(Bufs)
  /\ \E b \in Bufs :
        \E B \in {Bufs, Bufs \ {b}} :
           dev' = [on |-> TRUE, made |-> TRUE, queued |-> B]
  /\ UNCHANGED mV4l2Streaming

streamStarted ==
  /\ mV4L2BufferCount' = Cardinality(Bufs)
  /\ dev' = [on |-> TRUE, made |-> TRUE, queued |-> Bufs]
  /\ mV4l2Streaming' = TRUE

configureV4l2StreamLocked ==
  /\ pc["call"] = "configure"
  /\ \/ configureFailsEarly
     \/ configureFailsQueueing
     \/ configureFailsStarted
     \/ streamStarted
  /\ Goto("call", AfterConfigure)
  /\ UNCHANGED <<cont, lists, mNumDequeuedV4l2Buffers, next, calls, told>>

-----------------------------------------------------------------------------
(* processOneCaptureRequest.                                               *)

\* The request asks for the frame rate the stream has, or for another one.
processOneCaptureRequest ==
  /\ pc["call"] = "idle"
  /\ next <= MaxFrame
  /\ mV4l2Streaming
  /\ \E l \in {"dequeue", "fps"} : Goto("call", l)
  /\ cont' = "request"
  /\ UNCHANGED <<lists, counts, mV4l2Streaming, dev, next, calls, told>>

\* The stream is restarted once no V4L2 buffer is out.
pipelineIdle ==
  /\ pc["call"] = "fps"
  /\ mNumDequeuedV4l2Buffers = 0
  /\ Goto("call", "off")
  /\ UNCHANGED <<cont, lists, counts, mV4l2Streaming, dev, next, calls, told>>

\* dequeueV4l2FrameLocked: wait for a return when every buffer is out.
allDequeued == mNumDequeuedV4l2Buffers = mV4L2BufferCount

waitForFrame ==
  /\ pc["call"] = "dequeue"
  /\ Goto("call", IF allDequeued THEN "bufWait" ELSE "dqbuf")
  /\ UNCHANGED <<cont, lists, counts, mV4l2Streaming, dev, next, calls, told>>

\* waitForV4L2BufferReturnLocked tests nothing when it wakes up, and neither
\* does this caller: a wake-up may be spurious, or the notification of a
\* return that was counted before the test.
bufferReturned ==
  /\ pc["call"] = "bufWait"
  /\ Goto("call", "dqbuf")
  /\ UNCHANGED <<cont, lists, counts, mV4l2Streaming, dev, next, calls, told>>

\* The request is refused: the pipeline does not get idle or no buffer comes
\* back in time, its buffers cannot be imported, or no frame can be dequeued.
refuseRequest ==
  /\ \/ pc["call"] = "fps" /\ mNumDequeuedV4l2Buffers # 0
     \/ pc["call"] \in {"dequeue", "bufWait", "dqbuf"}
  /\ Goto("call", "idle")
  /\ UNCHANGED <<cont, lists, counts, mV4l2Streaming, dev, next, calls, told>>

\* select and VIDIOC_DQBUF.
dequeueV4l2FrameLocked ==
  /\ pc["call"] = "dqbuf"
  /\ dev.on
  /\ \E b \in dev.queued :
        /\ dev' = [dev EXCEPT !.queued = @ \ {b}]
        /\ buf' = [buf EXCEPT ![next] = b]
  /\ Goto("call", "frame")
  /\ UNCHANGED <<cont, mRequestList, work, mInflightFrames, counts,
                 mV4l2Streaming, next, calls, told>>

\* The index of a dequeued buffer is one of those counted: none is when a
\* failed v4l2StreamOffLocked left the stream on.
validIndex == mV4L2BufferCount # 0

\* A frame that is too old goes back to the driver and another one is
\* dequeued, as often as it takes.
dropOldFrame ==
  /\ pc["call"] = "frame"
  /\ validIndex
  /\ dev' = [dev EXCEPT !.queued = @ \cup {buf[next]}]
  /\ Goto("call", "dqbuf")
  /\ UNCHANGED <<cont, lists, counts, mV4l2Streaming, next, calls, told>>

\* A dequeued frame that is too large or has no valid index, or that is too
\* old and not taken back by the driver, is dropped without being counted.
loseFrame ==
  /\ pc["call"] = "frame"
  /\ Goto("call", "idle")
  /\ UNCHANGED <<cont, lists, counts, mV4l2Streaming, dev, next, calls, told>>

acceptRequest ==
  /\ pc["call"] = "frame"
  /\ validIndex
  /\ mNumDequeuedV4l2Buffers' = mNumDequeuedV4l2Buffers + 1
  /\ mInflightFrames' = mInflightFrames \cup {next}
  /\ mRequestList' = mRequestList \cup {next}
  /\ next' = next + 1
  /\ Goto("call", "idle")
  /\ UNCHANGED <<cont, work, buf, mV4L2BufferCount, mV4l2Streaming, dev, calls,
                 told>>

-----------------------------------------------------------------------------
(* flush and close.                                                        *)

\* Mutant: the request under processing is not waited for.
AfterTakingNoWait == "flushing"

\* OutputThread::flush takes every request off the list and waits, once, for
\* the one that OutputThread is processing.
AfterTaking == IF mProcessingRequest THEN "flushWait" ELSE "flushing"

\* Mutant: the list is cleared before it is moved.
takeRequestsCleared(c) ==
  /\ pc["call"] = "idle"
  /\ mRequestList' = {}
  /\ Goto("call", AfterTaking)
  /\ cont' = c
  /\ UNCHANGED <<work, buf, mInflightFrames, counts, mV4l2Streaming, dev, next, told>>

takeRequests(c) ==
  /\ pc["call"] = "idle"
  /\ work' = [work EXCEPT !["call"] = mRequestList]
  /\ mRequestList' = {}
  /\ Goto("call", AfterTaking)
  /\ cont' = c
  /\ UNCHANGED <<buf, mInflightFrames, counts, mV4l2Streaming, dev, next, told>>

flush ==
  /\ calls < MaxCalls
  /\ takeRequests("flush")
  /\ calls' = calls + 1

\* closeImpl begins with closeOutputThread, which begins with a flush.
close ==
  /\ takeRequests("close")
  /\ UNCHANGED calls

requestDone ==
  /\ pc["call"] = "flushWait"
  /\ ~ mProcessingRequest
  /\ Goto("call", "flushing")
  /\ UNCHANGED <<cont, lists, counts, mV4l2Streaming, dev, next, calls, told>>

\* The wait times out, or wakes up early: its result is only logged.
flushTimeout ==
  /\ pc["call"] = "flushWait"
  /\ mProcessingRequest
  /\ Goto("call", "flushing")
  /\ late' = late \cup work["out"]
  /\ gaveUp' = TRUE
  /\ UNCHANGED <<cont, lists, counts, mV4l2Streaming, dev, next, calls,
                 answered, dropped, broken>>

flushNext ==
  /\ pc["call"] = "flushing"
  /\ Goto("call", CASE work["call"] # {} -> "return"
                    [] work["call"] = {} /\ cont = "close" -> "join"
                    [] OTHER -> "idle")
  /\ UNCHANGED <<cont, lists, counts, mV4l2Streaming, dev, next, calls, told>>

\* Mutant: OutputThread does not look at exitPending.
exitNeverPending == FALSE

\* requestExitAndWait; then closeImpl turns the stream off and closes the
\* device whatever came of it.
exitPending == pc["call"] = "join"

joined ==
  /\ pc["call"] = "join"
  /\ pc["out"] = "ended"
  /\ Goto("call", "off")
  /\ UNCHANGED <<cont, lists, counts, mV4l2Streaming, dev, next, calls, told>>

-----------------------------------------------------------------------------
(* processCaptureResult and processCaptureRequestError, by either thread.  *)

request(t) == Oldest(work[t])

\* enqueueV4l2Frame: VIDIOC_QBUF, then, if it succeeded, the count.
enqueueV4l2Frame(t) ==
  /\ pc[t] = "return"
  /\ \/ /\ dev' = [dev EXCEPT !.queued = @ \cup {buf[request(t)]}]
        /\ Goto(t, "count")
     \/ /\ Goto(t, "erase")
        /\ UNCHANGED dev
  /\ UNCHANGED <<cont, lists, counts, mV4l2Streaming, next, calls, told>>

countReturn(t) ==
  /\ pc[t] = "count"
  /\ mNumDequeuedV4l2Buffers' = mNumDequeuedV4l2Buffers - 1
  /\ Goto(t, "erase")
  /\ UNCHANGED <<cont, lists, mV4L2BufferCount, mV4l2Streaming, dev, next,
                 calls, told>>

eraseInflight(t) ==
  /\ pc[t] = "erase"
  /\ mInflightFrames' = mInflightFrames \ {request(t)}
  /\ Goto(t, "answer")
  /\ UNCHANGED <<cont, mRequestList, work, buf, counts, mV4l2Streaming, dev,
                 next, calls, told>>

\* invokeProcessCaptureResultCallback.  The thread inside its callback has
\* mProcessCaptureResultLock.
lockFree(t) == \A u \in Threads \ {t} : pc[u] # "callback"
AfterRequest(t) == IF t = "call" THEN "flushing" ELSE "signal"

answerRequest(t) ==
  /\ pc[t] = "answer"
  /\ lockFree(t)
  /\ answered' = answered \cup {request(t)}
  /\ work' = [work EXCEPT ![t] = @ \ {request(t)}]
  /\ Goto(t, "callback")
  /\ UNCHANGED <<cont, mRequestList, buf, mInflightFrames, counts,
                 mV4l2Streaming, dev, next, calls, dropped, late, gaveUp, broken>>

\* The lock is not free within a second: the framework is not called.
dropResult(t) ==
  /\ pc[t] = "answer"
  /\ ~ lockFree(t)
  /\ dropped' = dropped \cup {request(t)}
  /\ work' = [work EXCEPT ![t] = @ \ {request(t)}]
  /\ Goto(t, AfterRequest(t))
  /\ UNCHANGED <<cont, mRequestList, buf, mInflightFrames, counts,
                 mV4l2Streaming, dev, next, calls, answered, late, gaveUp, broken>>

callbackReturns(t) ==
  /\ pc[t] = "callback"
  /\ Goto(t, AfterRequest(t))
  /\ UNCHANGED <<cont, lists, counts, mV4l2Streaming, dev, next, calls, told>>

-----------------------------------------------------------------------------
(* OutputThread::threadLoop.                                               *)

waitForNextRequest ==
  /\ pc["out"] = "wait"
  /\ mRequestList # {}
  /\ work' = [work EXCEPT !["out"] = {Oldest(mRequestList)}]
  /\ mRequestList' = mRequestList \ {Oldest(mRequestList)}
  /\ Goto("out", "convert")
  /\ UNCHANGED <<cont, buf, mInflightFrames, counts, mV4l2Streaming, dev, next,
                 calls, told>>

threadExits ==
  /\ pc["out"] = "wait"
  /\ mRequestList = {}
  /\ exitPending
  /\ Goto("out", "ended")
  /\ UNCHANGED <<cont, lists, counts, mV4l2Streaming, dev, next, calls, told>>

\* The frame is converted, or found malformed: the request is answered with
\* a result or with an error.
processFrame ==
  /\ pc["out"] = "convert"
  /\ Goto("out", "return")
  /\ UNCHANGED <<cont, lists, counts, mV4l2Streaming, dev, next, calls, told>>

\* onDeviceError: the thread ends.  The request is neither answered nor taken
\* out of mInflightFrames, and its frame stays out.
onDeviceError ==
  /\ pc["out"] = "convert"
  /\ work' = [work EXCEPT !["out"] = {}]
  /\ broken' = TRUE
  /\ Goto("out", "ended")
  /\ UNCHANGED <<cont, mRequestList, buf, mInflightFrames, counts,
                 mV4l2Streaming, dev, next, calls, answered, dropped, late,
                 gaveUp>>

signalRequestDone ==
  /\ pc["out"] = "signal"
  /\ Goto("out", "wait")
  /\ UNCHANGED <<cont, lists, counts, mV4l2Streaming, dev, next, calls, told>>

-----------------------------------------------------------------------------
Finish(t) == \/ enqueueV4l2Frame(t)
             \/ countReturn(t)
             \/ eraseInflight(t)
             \/ answerRequest(t)
             \/ dropResult(t)
             \/ callbackReturns(t)

OutputThread == \/ waitForNextRequest
                \/ threadExits
                \/ processFrame
                \/ onDeviceError
                \/ Finish("out")
                \/ signalRequestDone

\* The steps of a call that has begun, but for the start of the stream.
CallGoesOn == \/ v4l2StreamOffLocked
              \/ pipelineIdle
              \/ waitForFrame
              \/ bufferReturned
              \/ refuseRequest
              \/ dequeueV4l2FrameLocked
              \/ dropOldFrame
              \/ loseFrame
              \/ acceptRequest
              \/ requestDone
              \/ flushTimeout
              \/ flushNext
              \/ Finish("call")
              \/ joined

Next == \/ configureStreams
        \/ processOneCaptureRequest
        \/ flush
        \/ close
        \/ configureV4l2StreamLocked
        \/ CallGoesOn
        \/ OutputThread

\* Both threads go on, the framework's callbacks return, and the waits for a
\* buffer, for a frame and for OutputThread time out.  Nothing makes a start
\* end: VIDIOC_STREAMON is retried for ever while it fails, numAttempt never
\* being incremented, and the first frame is awaited without a timeout.
Fairness == WF_vars(CallGoesOn) /\ WF_vars(OutputThread)

Spec == Init /\ [][Next]_vars /\ Fairness

-----------------------------------------------------------------------------
CallPcs == {"idle", "off", "configure", "fps", "dequeue", "bufWait", "dqbuf",
            "frame", "flushWait", "flushing", "return", "count", "erase",
            "answer", "callback", "join", "closed"}
OutPcs == {"wait", "convert", "return", "count", "erase", "answer", "callback",
           "signal", "ended"}

\* Every variable has its type.
TypeOK ==
  /\ pc \in [Threads -> CallPcs \cup OutPcs]
  /\ pc["call"] \in CallPcs /\ pc["out"] \in OutPcs
  /\ cont \in {"none", "config", "request", "flush", "close"}
  /\ mRequestList \in SUBSET Frames
  /\ work \in [Threads -> SUBSET Frames]
  /\ buf \in [Frames -> Bufs]
  /\ mInflightFrames \in SUBSET Frames
  /\ mV4l2Streaming \in BOOLEAN
  /\ mV4L2BufferCount \in {0, Cardinality(Bufs)}
  /\ mNumDequeuedV4l2Buffers \in Nat
  /\ dev \in [on : BOOLEAN, made : BOOLEAN, queued : SUBSET Bufs]
  /\ next \in 1..(MaxFrame + 1)
  /\ calls \in 0..MaxCalls
  /\ answered \in SUBSET Frames
  /\ dropped \in SUBSET Frames
  /\ late \in SUBSET Frames
  /\ gaveUp \in BOOLEAN
  /\ broken \in BOOLEAN

\* The requests whose V4L2 frame will still be read or given back, once they
\* are accepted, and with the one that is being accepted.
Holding(t) == IF pc[t] \in {"count", "erase", "answer"}
              THEN work[t] \ {request(t)} ELSE work[t]
Held == mRequestList \cup Holding("call") \cup Holding("out")
Taken == IF pc["call"] = "frame" THEN {next} ELSE {}
Owners == Held \cup Taken

\* A frame that will still be read or given back is in a buffer that exists,
\* that the driver does not have, and that no other request refers to:
\* neither a restart for another frame rate nor configureStreams, nor the
\* close, takes the buffers from under OutputThread or a flush, whatever
\* failed before.
FramesOwned ==
  \A f \in Owners :
    /\ dev.made
    /\ buf[f] \notin dev.queued
    /\ \A g \in Owners : buf[f] = buf[g] => f = g

\* A request is answered once, and after every request accepted before it
\* that is answered at all, unless a flush stopped waiting for it
\* (OutputThread::flush, the wait of mRequestDoneCond).
AnswersInOrder ==
  \A t \in Threads :
    pc[t] = "answer" =>
      /\ request(t) \notin answered
      /\ request(t) \in late \/ \A g \in answered : g < request(t)

Uncounted(t) == IF pc[t] = "count" THEN 1 ELSE 0

\* mNumDequeuedV4l2Buffers counts every frame that is held, and the ones
\* between their VIDIOC_QBUF and their count (enqueueV4l2Frame), so that
\* v4l2StreamOffLocked and the wait for an idle pipeline, which look for
\* zero, miss none, and the unsigned counter never wraps.
CountCovers ==
  Cardinality(Held) + Uncounted("call") + Uncounted("out")
     <= mNumDequeuedV4l2Buffers

\* A result is given up only after a flush stopped waiting for OutputThread
\* (OutputThread::flush, the wait of mRequestDoneCond): without that the two
\* threads never meet at mProcessCaptureResultLock.
DropsExplained == dropped # {} => gaveUp

\* Every call of the framework returns, close included, although it joins
\* OutputThread and waits for requests and buffers that may never come back,
\* unless the driver never lets a start end (VIDIOC_STREAMON and the first
\* VIDIOC_DQBUF of configureV4l2StreamLocked), or keeps delivering frames
\* that are too old (the loop of dequeueV4l2FrameLocked).
CallsReturn ==
  \/ pc["call"] \notin {"idle", "closed"} ~> pc["call"] \in {"idle", "closed"}
  \/ <>[](pc["call"] = "configure")
  \/ <>[](pc["call"] \in {"dqbuf", "frame"})

\* Every request in mInflightFrames is answered in the end, by OutputThread
\* or by a flush, unless a device error is reported, or its result is given
\* up for the other thread's callback after a flush stopped waiting.
RequestsSettled ==
  \A f \in Frames :
    f \in mInflightFrames ~> f \in answered \/ broken \/ (f \in dropped /\ gaveUp)

=============================================================================
