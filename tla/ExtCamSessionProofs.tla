------------------------ MODULE ExtCamSessionProofs ------------------------
(***************************************************************************)
(* The safety properties of ExtCamSession, for every number of buffers,    *)
(* requests and calls.  Liveness (CallsReturn, RequestsSettled) stays with *)
(* TLC.                                                                    *)
(***************************************************************************)
EXTENDS ExtCamSession, FiniteSetTheorems, WellFoundedInduction, TLAPS

Finishing == {"return", "count", "erase", "answer"}
Requesting == {"fps", "dequeue", "bufWait", "dqbuf", "frame"}
Flushing == {"flushWait", "flushing", "callback"} \cup Finishing

\* The requests that were accepted and are neither answered nor dropped.
Outstanding == mRequestList \cup work["call"] \cup work["out"]

\* What each thread has in hand, and what it is doing, fit together.
PhaseInv ==
    /\ pc["call"] \notin Flushing => work["call"] = {}
    /\ pc["call"] \in Finishing => work["call"] # {}
    /\ pc["call"] \in Flushing \cup {"join"} => mRequestList = {}
    /\ pc["out"] \in Finishing \cup {"convert"} => \E f \in Frames : work["out"] = {f}
    /\ pc["out"] \notin Finishing \cup {"convert"} => work["out"] = {}
    /\ pc["call"] \in {"off", "configure"} => cont \in {"config", "request", "close"}
    /\ pc["call"] = "off" /\ cont = "close" => mRequestList = {} /\ pc["out"] = "ended"
    /\ pc["call"] = "configure" => cont # "close"
    /\ pc["call"] = "join" => cont = "close"
    /\ pc["call"] \in Requesting => cont = "request"
    /\ pc["call"] # "idle" /\ cont = "request" => next <= MaxFrame

\* The three places a request can be in are apart, what they hold was
\* submitted, and until its erasure it is in mInflightFrames.
FlightInv ==
    /\ mRequestList \cap work["call"] = {}
    /\ mRequestList \cap work["out"] = {}
    /\ work["call"] \cap work["out"] = {}
    /\ \A f \in Outstanding \cup answered \cup mInflightFrames \cup late : f < next
    /\ mRequestList \subseteq mInflightFrames
    /\ \A t \in Threads : \A f \in work[t] :
           (pc[t] = "answer" /\ f = request(t)) \/ f \in mInflightFrames

\* A stream is stopped and started only with nothing in flight or nothing
\* dequeued.
RestartInv ==
    /\ pc["call"] \in {"off", "configure"} /\ cont = "config" => mInflightFrames = {}
    /\ pc["call"] \in {"off", "configure"} /\ cont = "request" =>
           mNumDequeuedV4l2Buffers = 0

\* Requests are finished in the order of their acceptance, but for the ones
\* that a flush stopped waiting for.
OrderInv ==
    /\ \A f \in Outstanding : f \notin answered
    /\ \A f \in Outstanding \ late : \A g \in answered : g < f
    /\ \A f \in work["out"] : \A g \in mRequestList \cup work["call"] : f < g
    /\ pc["call"] \in Flushing \ {"flushWait"} => work["out"] \subseteq late

\* While a call finishes requests OutputThread has none, unless the flush
\* stopped waiting for it; and that is why results can be given up.
DropInv ==
    /\ pc["call"] \in Flushing \ {"flushWait"} /\ mProcessingRequest => gaveUp
    /\ DropsExplained

\* A driver that streams has buffers.
MadeInv == dev.on => dev.made

IInv == /\ TypeOK
        /\ MadeInv
        /\ PhaseInv
        /\ FlightInv
        /\ RestartInv
        /\ CountCovers
        /\ FramesOwned
        /\ OrderInv
        /\ DropInv

-----------------------------------------------------------------------------
\* A non-empty set of frame numbers has an oldest one.
LEMMA OldestFact ==
    ASSUME NEW S \in SUBSET Frames, S # {}
    PROVE  Oldest(S) \in S /\ \A g \in S : Oldest(S) <= g
  <1>1. S \subseteq Nat
    BY ExtCamAssumption DEF Frames
  <1>2. PICK x \in S : \A y \in S : <<y, x>> \notin OpToRel(<, Nat)
    BY <1>1, WFMin, NatLessThanWellFounded, Zenon
  <1>a. \A y \in S : ~ (y < x)
    BY <1>1, <1>2, Zenon DEF OpToRel
  <1>3. \A y \in S : x <= y
    BY <1>1, <1>a
  <1> QED BY <1>3 DEF Oldest

\* The request a thread is finishing is one of those it has taken.
LEMMA RequestFact ==
    ASSUME TypeOK, NEW t \in Threads, work[t] # {}
    PROVE  request(t) \in work[t] /\ \A g \in work[t] : request(t) <= g
  <1>1. work[t] \in SUBSET Frames
    BY DEF TypeOK
  <1> QED BY <1>1, OldestFact DEF request

\* The frame numbers are finitely many, and so are their subsets.
LEMMA FramesFinite == \A S \in SUBSET Frames : IsFiniteSet(S) /\ Cardinality(S) \in Nat
  <1>1. IsFiniteSet(Frames)
    <2>1. 1 \in Int /\ MaxFrame \in Int
      BY ExtCamAssumption
    <2> QED BY <2>1, FS_Interval DEF Frames
  <1>2. ASSUME NEW S \in SUBSET Frames PROVE IsFiniteSet(S)
    BY <1>1, FS_Subset
  <1> QED BY <1>2, FS_CardinalityType

\* Next, one disjunct at a time.
LEMMA Steps ==
    ASSUME Next
    PROVE  \/ configureStreams \/ processOneCaptureRequest \/ flush \/ close
           \/ v4l2StreamOffLocked \/ configureV4l2StreamLocked \/ pipelineIdle
           \/ waitForFrame \/ bufferReturned \/ refuseRequest
           \/ dequeueV4l2FrameLocked \/ dropOldFrame \/ loseFrame
           \/ acceptRequest \/ requestDone \/ flushTimeout \/ flushNext \/ joined
           \/ (\E t \in Threads : enqueueV4l2Frame(t))
           \/ (\E t \in Threads : countReturn(t))
           \/ (\E t \in Threads : eraseInflight(t))
           \/ (\E t \in Threads : answerRequest(t))
           \/ (\E t \in Threads : dropResult(t))
           \/ (\E t \in Threads : callbackReturns(t))
           \/ waitForNextRequest \/ threadExits \/ processFrame \/ onDeviceError
           \/ signalRequestDone
  BY Zenon DEF Next, CallGoesOn, OutputThread, Finish, Threads

-----------------------------------------------------------------------------
(* Types.                                                                  *)

\* The variables have their types at first.
LEMMA TypeInit == Init => TypeOK
  <1> SUFFICES ASSUME Init PROVE TypeOK
    OBVIOUS
  <1>1. (CHOOSE b \in Bufs : TRUE) \in Bufs
    BY ExtCamAssumption
  <1>2. buf \in [Frames -> Bufs] /\ work \in [Threads -> SUBSET Frames]
    BY <1>1 DEF Init
  <1>3. /\ pc \in [Threads -> CallPcs \cup OutPcs]
        /\ pc["call"] \in CallPcs /\ pc["out"] \in OutPcs
    BY DEF Init, Threads, CallPcs, OutPcs
  <1>4. mV4l2Streaming \in BOOLEAN /\ broken \in BOOLEAN /\ gaveUp \in BOOLEAN
    BY Zenon DEF Init
  <1>5. dev \in [on : BOOLEAN, made : BOOLEAN, queued : SUBSET Bufs]
    BY DEF Init
  <1>6. /\ mV4L2BufferCount \in {0, Cardinality(Bufs)}
        /\ mNumDequeuedV4l2Buffers \in Nat
        /\ next \in 1..(MaxFrame + 1)
        /\ calls \in 0..MaxCalls
    BY ExtCamAssumption DEF Init
  <1> QED BY <1>2, <1>3, <1>4, <1>5, <1>6 DEF Init, TypeOK

\* A jump of a thread to one of its labels.
LEMMA GotoType ==
    ASSUME TypeOK, NEW t \in Threads, NEW l \in CallPcs \cup OutPcs, Goto(t, l),
           t = "call" => l \in CallPcs, t = "out" => l \in OutPcs
    PROVE  /\ pc' \in [Threads -> CallPcs \cup OutPcs]
           /\ pc'["call"] \in CallPcs /\ pc'["out"] \in OutPcs
           /\ pc'[t] = l
           /\ \A u \in Threads \ {t} : pc'[u] = pc[u]
  BY DEF TypeOK, Goto, Threads

\* Every step keeps the types.
LEMMA TypeStep ==
    ASSUME TypeOK, PhaseInv, CountCovers, Next
    PROVE  TypeOK'
  <1>c. Cardinality(Bufs) \in Nat
    BY ExtCamAssumption, FS_CardinalityType
  <1> USE ExtCamAssumption DEF Threads, Frames, CallPcs, OutPcs, lists, counts, told, Goto
  <1>1. CASE configureStreams
    BY <1>1 DEF TypeOK, configureStreams
  <1>2. CASE processOneCaptureRequest
    BY <1>2 DEF TypeOK, processOneCaptureRequest
  <1>3. CASE flush
    BY <1>3 DEF TypeOK, flush, takeRequests, AfterTaking
  <1>4. CASE close
    BY <1>4 DEF TypeOK, close, takeRequests, AfterTaking
  <1>5. CASE v4l2StreamOffLocked
    <2> USE <1>5 DEF TypeOK, v4l2StreamOffLocked, AfterFailure, AfterStreamOff
    <2>1. CASE streamOffNotNeeded
      BY <2>1 DEF streamOffNotNeeded
    <2>2. CASE streamOffRefused
      BY <2>2 DEF streamOffRefused
    <2>3. CASE streamOffFails
      BY <2>3 DEF streamOffFails
    <2>4. CASE streamedOff
      BY <2>4 DEF streamedOff
    <2> QED BY <2>1, <2>2, <2>3, <2>4
  <1>6. CASE configureV4l2StreamLocked
    <2> USE <1>6 DEF TypeOK, configureV4l2StreamLocked, AfterConfigure
    <2>1. CASE configureFailsEarly
      <3>1. dev' \in [on : BOOLEAN, made : BOOLEAN, queued : SUBSET Bufs]
        <4>1. CASE dev' = dev
          BY <4>1
        <4>2. CASE dev' = [on |-> FALSE, made |-> TRUE, queued |-> {}]
          BY <4>2
        <4> QED BY <2>1, <4>1, <4>2 DEF configureFailsEarly
      <3> QED BY <2>1, <3>1 DEF configureFailsEarly
    <2>2. CASE configureFailsQueueing
      BY <2>2 DEF configureFailsQueueing
    <2>3. CASE configureFailsStarted
      BY <2>3 DEF configureFailsStarted
    <2>4. CASE streamStarted
      BY <2>4 DEF streamStarted
    <2> QED BY <2>1, <2>2, <2>3, <2>4
  <1>7. CASE pipelineIdle
    BY <1>7 DEF TypeOK, pipelineIdle
  <1>8. CASE waitForFrame
    BY <1>8 DEF TypeOK, waitForFrame
  <1>9. CASE bufferReturned
    BY <1>9 DEF TypeOK, bufferReturned
  <1>10. CASE refuseRequest
    BY <1>10 DEF TypeOK, refuseRequest
  <1>11. CASE loseFrame
    BY <1>11 DEF TypeOK, loseFrame
  <1>12. CASE acceptRequest
    <2> USE <1>12 DEF TypeOK, acceptRequest
    <2>1. /\ dev' \in [on : BOOLEAN, made : BOOLEAN, queued : SUBSET Bufs]
          /\ buf' \in [Frames -> Bufs]
      OBVIOUS
    <2>2. next \in Frames /\ next' \in 1..(MaxFrame + 1)
      BY DEF PhaseInv, Requesting
    <2> QED BY <2>1, <2>2
  <1>13. CASE requestDone
    BY <1>13 DEF TypeOK, requestDone
  <1>14. CASE flushTimeout
    BY <1>14 DEF TypeOK, flushTimeout
  <1>15. CASE flushNext
    BY <1>15 DEF TypeOK, flushNext
  <1>16. CASE joined
    BY <1>16 DEF TypeOK, joined
  <1>17. ASSUME NEW t \in Threads, enqueueV4l2Frame(t) PROVE TypeOK'
    <2>1. request(t) \in Frames
      <3>1. work[t] # {}
        BY <1>17 DEF PhaseInv, Finishing, enqueueV4l2Frame
      <3> QED BY <3>1, RequestFact DEF TypeOK
    <2>2. dev' \in [on : BOOLEAN, made : BOOLEAN, queued : SUBSET Bufs]
      BY <1>17, <2>1 DEF TypeOK, enqueueV4l2Frame
    <2>3. PICK l \in {"count", "erase"} : Goto(t, l)
      BY <1>17 DEF enqueueV4l2Frame
    <2>4. /\ pc' \in [Threads -> CallPcs \cup OutPcs]
          /\ pc'["call"] \in CallPcs /\ pc'["out"] \in OutPcs
      BY <2>3 DEF TypeOK
    <2>5. UNCHANGED <<cont, lists, counts, mV4l2Streaming, next, calls, told>>
      BY <1>17 DEF enqueueV4l2Frame
    <2> QED BY <2>2, <2>4, <2>5 DEF TypeOK
  <1>18. ASSUME NEW t \in Threads, countReturn(t) PROVE TypeOK'
    <2>1. mNumDequeuedV4l2Buffers >= 1
      <3>1. Held \in SUBSET Frames
        BY DEF TypeOK, Held, Holding
      <3>2. Cardinality(Held) \in Nat
        BY <3>1, FramesFinite
      <3> QED BY <1>18, <3>2 DEF CountCovers, Uncounted, countReturn, TypeOK
    <2> QED BY <1>18, <2>1 DEF TypeOK, countReturn
  <1>19. ASSUME NEW t \in Threads, eraseInflight(t) PROVE TypeOK'
    BY <1>19 DEF TypeOK, eraseInflight
  <1>20. ASSUME NEW t \in Threads, answerRequest(t) PROVE TypeOK'
    <2>1. request(t) \in Frames
      <3>1. work[t] # {}
        BY <1>20 DEF PhaseInv, Finishing, answerRequest
      <3> QED BY <3>1, RequestFact DEF TypeOK
    <2> QED BY <1>20, <2>1 DEF TypeOK, answerRequest
  <1>21. CASE waitForNextRequest
    <2>1. Oldest(mRequestList) \in mRequestList
      BY <1>21, OldestFact DEF TypeOK, waitForNextRequest
    <2> QED BY <1>21, <2>1 DEF TypeOK, waitForNextRequest
  <1>22. CASE threadExits
    BY <1>22 DEF TypeOK, threadExits
  <1>23. CASE processFrame
    BY <1>23 DEF TypeOK, processFrame
  <1>24. CASE onDeviceError
    BY <1>24 DEF TypeOK, onDeviceError
  <1>25. CASE signalRequestDone
    BY <1>25 DEF TypeOK, signalRequestDone
  <1>26. CASE dequeueV4l2FrameLocked
    BY <1>26 DEF TypeOK, PhaseInv, Requesting, dequeueV4l2FrameLocked
  <1>27. CASE dropOldFrame
    <2>1. next \in Frames
      BY <1>27 DEF TypeOK, PhaseInv, Requesting, dropOldFrame
    <2>2. dev' \in [on : BOOLEAN, made : BOOLEAN, queued : SUBSET Bufs]
      BY <1>27, <2>1 DEF TypeOK, dropOldFrame
    <2> QED BY <1>27, <2>2 DEF TypeOK, dropOldFrame
  <1>28. ASSUME NEW t \in Threads, dropResult(t) PROVE TypeOK'
    <2>1. request(t) \in work[t] /\ \A g \in work[t] : request(t) <= g
      BY <1>28, RequestFact DEF PhaseInv, Finishing, dropResult
    <2> QED BY <1>28, <2>1 DEF TypeOK, dropResult, AfterRequest
  <1>29. ASSUME NEW t \in Threads, callbackReturns(t) PROVE TypeOK'
    BY <1>29 DEF TypeOK, callbackReturns, AfterRequest
  <1> QED BY <1>1, <1>2, <1>3, <1>4, <1>5, <1>6, <1>7, <1>8, <1>9, <1>10, <1>11,
             <1>12, <1>13, <1>14, <1>15, <1>16, <1>17, <1>18, <1>19, <1>20,
             <1>21, <1>22, <1>23, <1>24, <1>25, <1>26, <1>27, <1>28, <1>29, Steps

-----------------------------------------------------------------------------
(* Preservation of the other parts of the invariant.                        *)

\* What the threads do keeps fitting what they have.
LEMMA PhaseStep ==
    ASSUME IInv, Next, TypeOK'
    PROVE  PhaseInv'
  <1> USE DEF IInv, PhaseInv, TypeOK, Finishing, Flushing, Requesting, Threads, Frames, lists, counts, told, Goto
  <1>1. CASE configureStreams
    BY <1>1 DEF configureStreams, NothingInFlight
  <1>2. CASE processOneCaptureRequest
    BY <1>2 DEF processOneCaptureRequest
  <1>3. CASE flush
    BY <1>3 DEF flush, takeRequests, AfterTaking, mProcessingRequest
  <1>4. CASE close
    BY <1>4 DEF close, takeRequests, AfterTaking, mProcessingRequest
  <1>5. CASE v4l2StreamOffLocked
    BY <1>5 DEF v4l2StreamOffLocked, streamOffNotNeeded, streamOffRefused, streamOffFails,
                    streamedOff, AfterFailure, AfterStreamOff
  <1>6. CASE configureV4l2StreamLocked
    BY <1>6 DEF configureV4l2StreamLocked, configureFailsEarly, configureFailsQueueing,
                    configureFailsStarted, streamStarted, AfterConfigure
  <1>7. CASE pipelineIdle
    BY <1>7 DEF pipelineIdle
  <1>8. CASE waitForFrame
    BY <1>8 DEF waitForFrame, allDequeued
  <1>9. CASE bufferReturned
    BY <1>9 DEF bufferReturned
  <1>10. CASE refuseRequest
    BY <1>10 DEF refuseRequest
  <1>11. CASE loseFrame
    BY <1>11 DEF loseFrame
  <1>12. CASE acceptRequest
    BY <1>12 DEF acceptRequest
  <1>13. CASE requestDone
    BY <1>13 DEF requestDone, mProcessingRequest
  <1>14. CASE flushTimeout
    BY <1>14 DEF flushTimeout, mProcessingRequest
  <1>15. CASE flushNext
    BY <1>15 DEF flushNext
  <1>16. CASE joined
    BY <1>16 DEF joined
  <1>17. ASSUME NEW t \in Threads, enqueueV4l2Frame(t) PROVE PhaseInv'
    BY <1>17 DEF enqueueV4l2Frame
  <1>18. ASSUME NEW t \in Threads, countReturn(t) PROVE PhaseInv'
    BY <1>18 DEF countReturn
  <1>19. ASSUME NEW t \in Threads, eraseInflight(t) PROVE PhaseInv'
    BY <1>19 DEF eraseInflight
  <1>20. ASSUME NEW t \in Threads, answerRequest(t) PROVE PhaseInv'
    <2>1. request(t) \in work[t] /\ \A g \in work[t] : request(t) <= g
      BY <1>20, RequestFact DEF PhaseInv, Finishing, answerRequest
    <2> QED BY <1>20, <2>1 DEF answerRequest
  <1>21. CASE waitForNextRequest
    <2>1. Oldest(mRequestList) \in mRequestList
          /\ \A g \in mRequestList : Oldest(mRequestList) <= g
      BY <1>21, OldestFact DEF waitForNextRequest
    <2> QED BY <1>21, <2>1 DEF waitForNextRequest
  <1>22. CASE threadExits
    BY <1>22 DEF threadExits, exitPending
  <1>23. CASE processFrame
    BY <1>23 DEF processFrame
  <1>24. CASE onDeviceError
    BY <1>24 DEF onDeviceError
  <1>25. CASE signalRequestDone
    BY <1>25 DEF signalRequestDone
  <1>26. CASE dequeueV4l2FrameLocked
    BY <1>26 DEF dequeueV4l2FrameLocked
  <1>27. CASE dropOldFrame
    BY <1>27 DEF dropOldFrame
  <1>28. ASSUME NEW t \in Threads, dropResult(t) PROVE PhaseInv'
    <2>1. request(t) \in work[t] /\ \A g \in work[t] : request(t) <= g
      BY <1>28, RequestFact DEF PhaseInv, Finishing, dropResult
    <2> QED BY <1>28, <2>1 DEF dropResult, AfterRequest
  <1>29. ASSUME NEW t \in Threads, callbackReturns(t) PROVE PhaseInv'
    BY <1>29 DEF callbackReturns, AfterRequest
  <1> QED BY <1>1, <1>2, <1>3, <1>4, <1>5, <1>6, <1>7, <1>8, <1>9, <1>10, <1>11,
             <1>12, <1>13, <1>14, <1>15, <1>16, <1>17, <1>18, <1>19, <1>20,
             <1>21, <1>22, <1>23, <1>24, <1>25, <1>26, <1>27, <1>28, <1>29, Steps

\* Requests stay apart, and in mInflightFrames until they are erased.
LEMMA FlightStep ==
    ASSUME IInv, Next, TypeOK'
    PROVE  FlightInv'
  <1> USE DEF IInv, PhaseInv, FlightInv, TypeOK, Outstanding, request, Finishing, Flushing,
              Requesting, Threads, Frames, lists, counts, told, Goto
  <1>1. CASE configureStreams
    BY <1>1 DEF configureStreams, NothingInFlight
  <1>2. CASE processOneCaptureRequest
    BY <1>2 DEF processOneCaptureRequest
  <1>3. CASE flush
    BY <1>3 DEF flush, takeRequests, AfterTaking, mProcessingRequest
  <1>4. CASE close
    BY <1>4 DEF close, takeRequests, AfterTaking, mProcessingRequest
  <1>5. CASE v4l2StreamOffLocked
    BY <1>5 DEF v4l2StreamOffLocked, streamOffNotNeeded, streamOffRefused, streamOffFails,
                    streamedOff, AfterFailure, AfterStreamOff
  <1>6. CASE configureV4l2StreamLocked
    BY <1>6 DEF configureV4l2StreamLocked, configureFailsEarly, configureFailsQueueing,
                    configureFailsStarted, streamStarted, AfterConfigure
  <1>7. CASE pipelineIdle
    BY <1>7 DEF pipelineIdle
  <1>8. CASE waitForFrame
    BY <1>8 DEF waitForFrame, allDequeued
  <1>9. CASE bufferReturned
    BY <1>9 DEF bufferReturned
  <1>10. CASE refuseRequest
    BY <1>10 DEF refuseRequest
  <1>11. CASE loseFrame
    BY <1>11 DEF loseFrame
  <1>12. CASE acceptRequest
    BY <1>12 DEF acceptRequest
  <1>13. CASE requestDone
    BY <1>13 DEF requestDone, mProcessingRequest
  <1>14. CASE flushTimeout
    BY <1>14 DEF flushTimeout, mProcessingRequest
  <1>15. CASE flushNext
    BY <1>15 DEF flushNext
  <1>16. CASE joined
    BY <1>16 DEF joined
  <1>17. ASSUME NEW t \in Threads, enqueueV4l2Frame(t) PROVE FlightInv'
    BY <1>17 DEF enqueueV4l2Frame
  <1>18. ASSUME NEW t \in Threads, countReturn(t) PROVE FlightInv'
    BY <1>18 DEF countReturn
  <1>19. ASSUME NEW t \in Threads, eraseInflight(t) PROVE FlightInv'
    <2>1. request(t) \in work[t] /\ \A g \in work[t] : request(t) <= g
      BY <1>19, RequestFact DEF PhaseInv, Finishing, eraseInflight
    <2> QED BY <1>19, <2>1 DEF eraseInflight
  <1>20. ASSUME NEW t \in Threads, answerRequest(t) PROVE FlightInv'
    <2>1. request(t) \in work[t] /\ \A g \in work[t] : request(t) <= g
      BY <1>20, RequestFact DEF PhaseInv, Finishing, answerRequest
    <2> QED BY <1>20, <2>1 DEF answerRequest
  <1>21. CASE waitForNextRequest
    <2>1. Oldest(mRequestList) \in mRequestList
          /\ \A g \in mRequestList : Oldest(mRequestList) <= g
      BY <1>21, OldestFact DEF waitForNextRequest
    <2> QED BY <1>21, <2>1 DEF waitForNextRequest
  <1>22. CASE threadExits
    BY <1>22 DEF threadExits, exitPending
  <1>23. CASE processFrame
    BY <1>23 DEF processFrame
  <1>24. CASE onDeviceError
    BY <1>24 DEF onDeviceError
  <1>25. CASE signalRequestDone
    BY <1>25 DEF signalRequestDone
  <1>26. CASE dequeueV4l2FrameLocked
    BY <1>26 DEF dequeueV4l2FrameLocked
  <1>27. CASE dropOldFrame
    BY <1>27 DEF dropOldFrame
  <1>28. ASSUME NEW t \in Threads, dropResult(t) PROVE FlightInv'
    <2>1. request(t) \in work[t] /\ \A g \in work[t] : request(t) <= g
      BY <1>28, RequestFact DEF PhaseInv, Finishing, dropResult
    <2> QED BY <1>28, <2>1 DEF dropResult, AfterRequest
  <1>29. ASSUME NEW t \in Threads, callbackReturns(t) PROVE FlightInv'
    BY <1>29 DEF callbackReturns, AfterRequest
  <1> QED BY <1>1, <1>2, <1>3, <1>4, <1>5, <1>6, <1>7, <1>8, <1>9, <1>10, <1>11,
             <1>12, <1>13, <1>14, <1>15, <1>16, <1>17, <1>18, <1>19, <1>20,
             <1>21, <1>22, <1>23, <1>24, <1>25, <1>26, <1>27, <1>28, <1>29, Steps

\* A restart keeps finding the stream idle.
LEMMA RestartStep ==
    ASSUME IInv, Next, TypeOK'
    PROVE  RestartInv'
  <1> USE DEF IInv, PhaseInv, RestartInv, TypeOK, Finishing, Flushing, Requesting,
              Threads, Frames, lists, counts, told, Goto
  <1>1. CASE configureStreams
    BY <1>1 DEF configureStreams, NothingInFlight
  <1>2. CASE processOneCaptureRequest
    BY <1>2 DEF processOneCaptureRequest
  <1>3. CASE flush
    BY <1>3 DEF flush, takeRequests, AfterTaking, mProcessingRequest
  <1>4. CASE close
    BY <1>4 DEF close, takeRequests, AfterTaking, mProcessingRequest
  <1>5. CASE v4l2StreamOffLocked
    BY <1>5 DEF v4l2StreamOffLocked, streamOffNotNeeded, streamOffRefused, streamOffFails,
                    streamedOff, AfterFailure, AfterStreamOff
  <1>6. CASE configureV4l2StreamLocked
    BY <1>6 DEF configureV4l2StreamLocked, configureFailsEarly, configureFailsQueueing,
                    configureFailsStarted, streamStarted, AfterConfigure
  <1>7. CASE pipelineIdle
    BY <1>7 DEF pipelineIdle
  <1>8. CASE waitForFrame
    BY <1>8 DEF waitForFrame, allDequeued
  <1>9. CASE bufferReturned
    BY <1>9 DEF bufferReturned
  <1>10. CASE refuseRequest
    BY <1>10 DEF refuseRequest
  <1>11. CASE loseFrame
    BY <1>11 DEF loseFrame
  <1>12. CASE acceptRequest
    BY <1>12 DEF acceptRequest
  <1>13. CASE requestDone
    BY <1>13 DEF requestDone, mProcessingRequest
  <1>14. CASE flushTimeout
    BY <1>14 DEF flushTimeout, mProcessingRequest
  <1>15. CASE flushNext
    BY <1>15 DEF flushNext
  <1>16. CASE joined
    BY <1>16 DEF joined
  <1>17. ASSUME NEW t \in Threads, enqueueV4l2Frame(t) PROVE RestartInv'
    BY <1>17 DEF enqueueV4l2Frame
  <1>18. ASSUME NEW t \in Threads, countReturn(t) PROVE RestartInv'
    BY <1>18 DEF countReturn
  <1>19. ASSUME NEW t \in Threads, eraseInflight(t) PROVE RestartInv'
    BY <1>19 DEF eraseInflight
  <1>20. ASSUME NEW t \in Threads, answerRequest(t) PROVE RestartInv'
    BY <1>20 DEF answerRequest
  <1>21. CASE waitForNextRequest
    BY <1>21 DEF waitForNextRequest
  <1>22. CASE threadExits
    BY <1>22 DEF threadExits, exitPending
  <1>23. CASE processFrame
    BY <1>23 DEF processFrame
  <1>24. CASE onDeviceError
    BY <1>24 DEF onDeviceError
  <1>25. CASE signalRequestDone
    BY <1>25 DEF signalRequestDone
  <1>26. CASE dequeueV4l2FrameLocked
    BY <1>26 DEF dequeueV4l2FrameLocked
  <1>27. CASE dropOldFrame
    BY <1>27 DEF dropOldFrame
  <1>28. ASSUME NEW t \in Threads, dropResult(t) PROVE RestartInv'
    <2>1. request(t) \in work[t] /\ \A g \in work[t] : request(t) <= g
      BY <1>28, RequestFact DEF PhaseInv, Finishing, dropResult
    <2> QED BY <1>28, <2>1 DEF dropResult, AfterRequest
  <1>29. ASSUME NEW t \in Threads, callbackReturns(t) PROVE RestartInv'
    BY <1>29 DEF callbackReturns, AfterRequest
  <1> QED BY <1>1, <1>2, <1>3, <1>4, <1>5, <1>6, <1>7, <1>8, <1>9, <1>10, <1>11,
             <1>12, <1>13, <1>14, <1>15, <1>16, <1>17, <1>18, <1>19, <1>20,
             <1>21, <1>22, <1>23, <1>24, <1>25, <1>26, <1>27, <1>28, <1>29, Steps

\* Requests are finished in order.
LEMMA OrderStep ==
    ASSUME IInv, Next, TypeOK'
    PROVE  OrderInv'
  <1> USE DEF IInv, PhaseInv, FlightInv, OrderInv, TypeOK, Outstanding, Finishing, Flushing,
              Requesting, Threads, Frames, lists, counts, told, Goto
  <1>1. CASE configureStreams
    BY <1>1 DEF configureStreams, NothingInFlight
  <1>2. CASE processOneCaptureRequest
    BY <1>2 DEF processOneCaptureRequest
  <1>3. CASE flush
    BY <1>3 DEF flush, takeRequests, AfterTaking, mProcessingRequest
  <1>4. CASE close
    BY <1>4 DEF close, takeRequests, AfterTaking, mProcessingRequest
  <1>5. CASE v4l2StreamOffLocked
    BY <1>5 DEF v4l2StreamOffLocked, streamOffNotNeeded, streamOffRefused, streamOffFails,
                    streamedOff, AfterFailure, AfterStreamOff
  <1>6. CASE configureV4l2StreamLocked
    BY <1>6 DEF configureV4l2StreamLocked, configureFailsEarly, configureFailsQueueing,
                    configureFailsStarted, streamStarted, AfterConfigure
  <1>7. CASE pipelineIdle
    BY <1>7 DEF pipelineIdle
  <1>8. CASE waitForFrame
    BY <1>8 DEF waitForFrame, allDequeued
  <1>9. CASE bufferReturned
    BY <1>9 DEF bufferReturned
  <1>10. CASE refuseRequest
    BY <1>10 DEF refuseRequest
  <1>11. CASE loseFrame
    BY <1>11 DEF loseFrame
  <1>12. CASE acceptRequest
    BY <1>12 DEF acceptRequest
  <1>13. CASE requestDone
    BY <1>13 DEF requestDone, mProcessingRequest
  <1>14. CASE flushTimeout
    BY <1>14 DEF flushTimeout, mProcessingRequest
  <1>15. CASE flushNext
    BY <1>15 DEF flushNext
  <1>16. CASE joined
    BY <1>16 DEF joined
  <1>17. ASSUME NEW t \in Threads, enqueueV4l2Frame(t) PROVE OrderInv'
    BY <1>17 DEF enqueueV4l2Frame
  <1>18. ASSUME NEW t \in Threads, countReturn(t) PROVE OrderInv'
    BY <1>18 DEF countReturn
  <1>19. ASSUME NEW t \in Threads, eraseInflight(t) PROVE OrderInv'
    BY <1>19 DEF eraseInflight
  <1>20. ASSUME NEW t \in Threads, answerRequest(t) PROVE OrderInv'
    <2>1. request(t) \in work[t] /\ \A g \in work[t] : request(t) <= g
      BY <1>20, RequestFact DEF PhaseInv, Finishing, answerRequest
    <2> QED BY <1>20, <2>1 DEF answerRequest
  <1>21. CASE waitForNextRequest
    <2>1. Oldest(mRequestList) \in mRequestList
          /\ \A g \in mRequestList : Oldest(mRequestList) <= g
      BY <1>21, OldestFact DEF waitForNextRequest
    <2> QED BY <1>21, <2>1 DEF waitForNextRequest
  <1>22. CASE threadExits
    BY <1>22 DEF threadExits, exitPending
  <1>23. CASE processFrame
    BY <1>23 DEF processFrame
  <1>24. CASE onDeviceError
    BY <1>24 DEF onDeviceError
  <1>25. CASE signalRequestDone
    BY <1>25 DEF signalRequestDone
  <1>26. CASE dequeueV4l2FrameLocked
    BY <1>26 DEF dequeueV4l2FrameLocked
  <1>27. CASE dropOldFrame
    BY <1>27 DEF dropOldFrame
  <1>28. ASSUME NEW t \in Threads, dropResult(t) PROVE OrderInv'
    <2>1. request(t) \in work[t] /\ \A g \in work[t] : request(t) <= g
      BY <1>28, RequestFact DEF PhaseInv, Finishing, dropResult
    <2> QED BY <1>28, <2>1 DEF dropResult, AfterRequest
  <1>29. ASSUME NEW t \in Threads, callbackReturns(t) PROVE OrderInv'
    BY <1>29 DEF callbackReturns, AfterRequest
  <1> QED BY <1>1, <1>2, <1>3, <1>4, <1>5, <1>6, <1>7, <1>8, <1>9, <1>10, <1>11,
             <1>12, <1>13, <1>14, <1>15, <1>16, <1>17, <1>18, <1>19, <1>20,
             <1>21, <1>22, <1>23, <1>24, <1>25, <1>26, <1>27, <1>28, <1>29, Steps

-----------------------------------------------------------------------------
(* The frames that are held.                                               *)

\* They are finitely many.
LEMMA HeldFinite ==
    ASSUME TypeOK
    PROVE  /\ Held \in SUBSET Frames
           /\ IsFiniteSet(Held)
           /\ Cardinality(Held) \in Nat
  <1>1. Held \in SUBSET Frames
    BY DEF TypeOK, Held, Holding, Threads
  <1> QED BY <1>1, FramesFinite

\* The same after a step.
LEMMA HeldFiniteNext ==
    ASSUME TypeOK'
    PROVE  IsFiniteSet(Held') /\ Cardinality(Held') \in Nat
  <1>1. Held' \in SUBSET Frames
    BY DEF TypeOK, Held, Holding, Threads
  <1> QED BY <1>1, FramesFinite

\* With no buffer counted as dequeued, none is held, and no thread is about
\* to count one.
LEMMA NoneHeld ==
    ASSUME IInv, mNumDequeuedV4l2Buffers = 0
    PROVE  Held = {} /\ pc["call"] # "count" /\ pc["out"] # "count"
  <1>1. IsFiniteSet(Held) /\ Cardinality(Held) \in Nat
    BY HeldFinite DEF IInv
  <1>2. Cardinality(Held) = 0 /\ Uncounted("call") = 0 /\ Uncounted("out") = 0
    BY <1>1 DEF IInv, CountCovers, Uncounted
  <1> QED BY <1>1, <1>2, FS_EmptySet DEF Uncounted

\* With nothing in flight no frame is held.
LEMMA IdleHeld ==
    ASSUME IInv, mInflightFrames = {}
    PROVE  Held = {}
  BY DEF IInv, FlightInv, Held, Holding, Threads

\* The buffers are made again only when no frame is held.
LEMMA RestartHeld ==
    ASSUME IInv, pc["call"] = "configure"
    PROVE  Held = {}
  BY NoneHeld, IdleHeld DEF IInv, RestartInv, PhaseInv

\* A step adds a frame to the ones held only when it accepts a request.
LEMMA HeldStep ==
    ASSUME IInv, Next, TypeOK'
    PROVE  acceptRequest \/ Held' \subseteq Held
  <1> USE DEF IInv, PhaseInv, FlightInv, TypeOK, Outstanding, Held, Holding, request,
              Finishing, Flushing, Requesting, Threads, Frames, lists, counts, told, Goto
  <1>1. CASE configureStreams
    BY <1>1 DEF configureStreams, NothingInFlight
  <1>2. CASE processOneCaptureRequest
    BY <1>2 DEF processOneCaptureRequest
  <1>3. CASE flush
    BY <1>3 DEF flush, takeRequests, AfterTaking, mProcessingRequest
  <1>4. CASE close
    BY <1>4 DEF close, takeRequests, AfterTaking, mProcessingRequest
  <1>5. CASE v4l2StreamOffLocked
    BY <1>5 DEF v4l2StreamOffLocked, streamOffNotNeeded, streamOffRefused, streamOffFails,
                    streamedOff, AfterFailure, AfterStreamOff
  <1>6. CASE configureV4l2StreamLocked
    BY <1>6 DEF configureV4l2StreamLocked, configureFailsEarly, configureFailsQueueing,
                    configureFailsStarted, streamStarted, AfterConfigure
  <1>7. CASE pipelineIdle
    BY <1>7 DEF pipelineIdle
  <1>8. CASE waitForFrame
    BY <1>8 DEF waitForFrame, allDequeued
  <1>9. CASE bufferReturned
    BY <1>9 DEF bufferReturned
  <1>10. CASE refuseRequest
    BY <1>10 DEF refuseRequest
  <1>11. CASE loseFrame
    BY <1>11 DEF loseFrame
  <1>12. CASE acceptRequest
    BY <1>12 DEF acceptRequest
  <1>13. CASE requestDone
    BY <1>13 DEF requestDone, mProcessingRequest
  <1>14. CASE flushTimeout
    BY <1>14 DEF flushTimeout, mProcessingRequest
  <1>15. CASE flushNext
    BY <1>15 DEF flushNext
  <1>16. CASE joined
    BY <1>16 DEF joined
  <1>17. ASSUME NEW t \in Threads, enqueueV4l2Frame(t) PROVE Held' \subseteq Held
    BY <1>17 DEF enqueueV4l2Frame
  <1>18. ASSUME NEW t \in Threads, countReturn(t) PROVE Held' \subseteq Held
    BY <1>18 DEF countReturn
  <1>19. ASSUME NEW t \in Threads, eraseInflight(t) PROVE Held' \subseteq Held
    BY <1>19 DEF eraseInflight
  <1>20. ASSUME NEW t \in Threads, answerRequest(t) PROVE Held' \subseteq Held
    <2>1. request(t) \in work[t] /\ \A g \in work[t] : request(t) <= g
      BY <1>20, RequestFact DEF PhaseInv, Finishing, answerRequest
    <2> QED BY <1>20, <2>1 DEF answerRequest
  <1>21. CASE waitForNextRequest
    <2>1. Oldest(mRequestList) \in mRequestList
          /\ \A g \in mRequestList : Oldest(mRequestList) <= g
      BY <1>21, OldestFact DEF waitForNextRequest
    <2> QED BY <1>21, <2>1 DEF waitForNextRequest
  <1>22. CASE threadExits
    BY <1>22 DEF threadExits, exitPending
  <1>23. CASE processFrame
    BY <1>23 DEF processFrame
  <1>24. CASE onDeviceError
    BY <1>24 DEF onDeviceError
  <1>25. CASE signalRequestDone
    BY <1>25 DEF signalRequestDone
  <1>26. CASE dequeueV4l2FrameLocked
    BY <1>26 DEF dequeueV4l2FrameLocked
  <1>27. CASE dropOldFrame
    BY <1>27 DEF dropOldFrame
  <1>28. ASSUME NEW t \in Threads, dropResult(t) PROVE Held' \subseteq Held
    <2>1. request(t) \in work[t] /\ \A g \in work[t] : request(t) <= g
      BY <1>28, RequestFact DEF PhaseInv, Finishing, dropResult
    <2> QED BY <1>28, <2>1 DEF dropResult, AfterRequest
  <1>29. ASSUME NEW t \in Threads, callbackReturns(t) PROVE Held' \subseteq Held
    BY <1>29 DEF callbackReturns, AfterRequest
  <1> QED BY <1>1, <1>2, <1>3, <1>4, <1>5, <1>6, <1>7, <1>8, <1>9, <1>10, <1>11,
             <1>12, <1>13, <1>14, <1>15, <1>16, <1>17, <1>18, <1>19, <1>20,
             <1>21, <1>22, <1>23, <1>24, <1>25, <1>26, <1>27, <1>28, <1>29, Steps

\* An accepted request adds its frame.
LEMMA HeldAccept ==
    ASSUME IInv, acceptRequest, TypeOK'
    PROVE  Held' = Held \cup {next} /\ next \notin Held /\ next \in Frames
  <1>1. next \notin Outstanding
    BY DEF IInv, TypeOK, FlightInv
  <1>2. next \in Frames
    BY DEF IInv, TypeOK, PhaseInv, Requesting, acceptRequest, Frames
  <1>3. work' = work /\ mRequestList' = mRequestList \cup {next}
    BY DEF acceptRequest
  <1>4. Holding("call")' = Holding("call") /\ Holding("out")' = Holding("out")
    BY <1>3 DEF IInv, TypeOK, acceptRequest, Holding, request, Goto, Threads
  <1> QED BY <1>1, <1>2, <1>3, <1>4 DEF Held, Holding, Outstanding

\* A frame that is given back, or fails to be, is held no more.
LEMMA HeldReturn ==
    ASSUME IInv, NEW t \in Threads, enqueueV4l2Frame(t)
    PROVE  Held' = Held \ {request(t)} /\ request(t) \in Held
  <1>1. request(t) \in work[t]
    BY RequestFact DEF IInv, PhaseInv, Finishing, enqueueV4l2Frame, Threads
  <1>2. mRequestList' = mRequestList /\ work' = work
    BY DEF enqueueV4l2Frame, lists
  <1>3. request(t) \notin mRequestList /\ \A u \in Threads \ {t} : request(t) \notin work[u]
    BY <1>1 DEF IInv, FlightInv, Threads
  <1>4. Holding(t) = work[t] /\ Holding(t)' = work[t] \ {request(t)}
    BY <1>2 DEF IInv, TypeOK, enqueueV4l2Frame, Holding, request, Goto
  <1>5. \A u \in Threads \ {t} : Holding(u)' = Holding(u) /\ request(t) \notin Holding(u)
    BY <1>2, <1>3 DEF IInv, TypeOK, enqueueV4l2Frame, Holding, request, Goto
  <1>6. CASE t = "call"
    <2>1. Holding("out")' = Holding("out") /\ request(t) \notin Holding("out")
      BY <1>5, <1>6 DEF Threads
    <2> QED BY <1>1, <1>2, <1>3, <1>4, <1>6, <2>1 DEF Held
  <1>7. CASE t = "out"
    <2>1. Holding("call")' = Holding("call") /\ request(t) \notin Holding("call")
      BY <1>5, <1>7 DEF Threads
    <2> QED BY <1>1, <1>2, <1>3, <1>4, <1>7, <2>1 DEF Held
  <1> QED BY <1>6, <1>7 DEF Threads

-----------------------------------------------------------------------------
(* Ownership of the buffers.                                               *)

\* A frame that is being accepted was just dequeued.
LEMMA TakenStep ==
    ASSUME TypeOK, Next
    PROVE  dequeueV4l2FrameLocked \/ Taken' \subseteq Taken
  <1> USE DEF Taken, TypeOK, Threads, Goto
  <1>1. CASE configureStreams \/ processOneCaptureRequest
    BY <1>1 DEF configureStreams, processOneCaptureRequest
  <1>2. CASE flush \/ close
    BY <1>2 DEF flush, close, takeRequests, AfterTaking
  <1>3. CASE v4l2StreamOffLocked
    BY <1>3 DEF v4l2StreamOffLocked, streamOffNotNeeded, streamOffRefused,
       streamOffFails, streamedOff, AfterFailure, AfterStreamOff
  <1>4. CASE configureV4l2StreamLocked
    BY <1>4 DEF configureV4l2StreamLocked, AfterConfigure
  <1>5. CASE pipelineIdle \/ waitForFrame \/ bufferReturned \/ refuseRequest
    BY <1>5 DEF pipelineIdle, waitForFrame, bufferReturned, refuseRequest
  <1>6. CASE dropOldFrame \/ loseFrame \/ acceptRequest
    BY <1>6 DEF dropOldFrame, loseFrame, acceptRequest
  <1>7. CASE requestDone \/ flushTimeout \/ flushNext \/ joined
    BY <1>7 DEF requestDone, flushTimeout, flushNext, joined
  <1>8. CASE \E t \in Threads : enqueueV4l2Frame(t) \/ countReturn(t) \/ eraseInflight(t)
    BY <1>8 DEF enqueueV4l2Frame, countReturn, eraseInflight
  <1>9. CASE \E t \in Threads : answerRequest(t) \/ dropResult(t) \/ callbackReturns(t)
    BY <1>9 DEF answerRequest, dropResult, callbackReturns, AfterRequest
  <1>10. CASE waitForNextRequest \/ threadExits \/ processFrame
    BY <1>10 DEF waitForNextRequest, threadExits, processFrame
  <1>11. CASE onDeviceError \/ signalRequestDone
    BY <1>11 DEF onDeviceError, signalRequestDone
  <1> QED BY <1>1, <1>2, <1>3, <1>4, <1>5, <1>6, <1>7, <1>8, <1>9, <1>10, <1>11, Steps

\* A step adds an owner only when it dequeues a frame.
LEMMA OwnersStep ==
    ASSUME IInv, Next, TypeOK'
    PROVE  dequeueV4l2FrameLocked \/ Owners' \subseteq Owners
  <1>1. dequeueV4l2FrameLocked \/ Taken' \subseteq Taken
    BY TakenStep DEF IInv
  <1>2. CASE acceptRequest
    <2>1. Held' = Held \cup {next} /\ Taken = {next}
      BY <1>2, HeldAccept DEF acceptRequest, Taken
    <2> QED BY <1>1, <2>1 DEF Owners
  <1>3. CASE Held' \subseteq Held
    BY <1>1, <1>3 DEF Owners
  <1> QED BY <1>2, <1>3, HeldStep

\* What is taken from nobody stays owned.
LEMMA OwnKept ==
    ASSUME FramesOwned, Owners' \subseteq Owners, buf' = buf,
           dev.made => dev'.made, dev'.queued \subseteq dev.queued
    PROVE  FramesOwned'
  BY DEF FramesOwned

\* The frames that are held stay owned by those who hold them.
LEMMA OwnStep ==
    ASSUME IInv, Next, TypeOK'
    PROVE  FramesOwned'
  <1> USE DEF lists
  <1>o. FramesOwned /\ TypeOK
    BY DEF IInv
  <1>h. \A f \in Held : f \in Frames /\ f # next
    <2>1. Held \subseteq Outstanding
      BY DEF Held, Holding, Outstanding
    <2> QED BY <2>1, <1>o, HeldFinite DEF IInv, FlightInv, TypeOK, Frames
  <1>1. CASE dequeueV4l2FrameLocked
    <2>1. PICK b \in dev.queued :
             /\ dev' = [dev EXCEPT !.queued = @ \ {b}]
             /\ buf' = [buf EXCEPT ![next] = b]
      BY <1>1 DEF dequeueV4l2FrameLocked
    <2>2. next \in Frames
      BY <1>1 DEF IInv, TypeOK, PhaseInv, Requesting, dequeueV4l2FrameLocked, Frames
    <2>3. Owners = Held /\ Owners' \subseteq Held \cup {next}
      <3>1. Taken = {} /\ next' = next
        BY <1>1 DEF dequeueV4l2FrameLocked, Taken
      <3>2. Held' \subseteq Held
        BY <1>1, HeldStep DEF dequeueV4l2FrameLocked, acceptRequest
      <3> QED BY <3>1, <3>2 DEF Owners, Taken
    <2>4. \A f \in Held : buf'[f] = buf[f] /\ buf[f] # b
      BY <1>h, <1>o, <2>1, <2>3 DEF FramesOwned, TypeOK
    <2>5. buf'[next] = b /\ b \notin dev'.queued /\ dev'.queued \subseteq dev.queued
          /\ dev'.made = dev.made
      BY <1>o, <2>1, <2>2 DEF TypeOK
    <2>6. dev.made
      BY <1>1 DEF IInv, MadeInv, dequeueV4l2FrameLocked
    <2> QED BY <1>o, <2>3, <2>4, <2>5, <2>6 DEF FramesOwned
  <1>2. ASSUME NEW t \in Threads, enqueueV4l2Frame(t) PROVE FramesOwned'
    <2>1. Owners' \subseteq Owners \ {request(t)} /\ request(t) \in Owners
      <3>1. Held' = Held \ {request(t)} /\ request(t) \in Held
        BY <1>2, HeldReturn
      <3>2. Taken' \subseteq Taken
        BY <1>2, <1>o DEF enqueueV4l2Frame, TypeOK, Goto, Taken, Threads
      <3>3. request(t) \notin Taken
        BY <1>h, <3>1 DEF Taken
      <3> QED BY <3>1, <3>2, <3>3 DEF Owners
    <2>2. /\ buf' = buf
          /\ dev'.made = dev.made
          /\ dev'.queued \subseteq dev.queued \cup {buf[request(t)]}
      BY <1>2, <1>o DEF TypeOK, enqueueV4l2Frame
    <2> QED BY <1>o, <2>1, <2>2 DEF FramesOwned
  <1>8. CASE dropOldFrame
    <2>1. Owners' \subseteq Owners \ {next} /\ next \in Owners
      <3>1. Held' \subseteq Held
        BY <1>8, HeldStep DEF dropOldFrame, acceptRequest, Goto, TypeOK, IInv, Threads
      <3>2. Taken = {next} /\ Taken' = {}
        BY <1>8, <1>o DEF dropOldFrame, Taken, Goto, TypeOK, Threads
      <3> QED BY <1>h, <3>1, <3>2 DEF Owners
    <2>2. /\ buf' = buf
          /\ dev'.made = dev.made
          /\ dev'.queued \subseteq dev.queued \cup {buf[next]}
      BY <1>8, <1>o DEF TypeOK, dropOldFrame
    <2> QED BY <1>o, <2>1, <2>2 DEF FramesOwned
  <1>3. CASE configureV4l2StreamLocked
    <2>1. Owners = {}
      BY <1>3, RestartHeld DEF configureV4l2StreamLocked, Owners, Taken
    <2>2. Owners' \subseteq Owners
      BY <1>3, OwnersStep DEF configureV4l2StreamLocked, dequeueV4l2FrameLocked
    <2> QED BY <2>1, <2>2 DEF FramesOwned
  <1>4. CASE v4l2StreamOffLocked
    <2>1. Owners' \subseteq Owners
      BY <1>4, OwnersStep DEF v4l2StreamOffLocked, dequeueV4l2FrameLocked
    <2>2. CASE mNumDequeuedV4l2Buffers = 0
      <3>1. Owners = {}
        BY <1>4, <2>2, NoneHeld DEF v4l2StreamOffLocked, Owners, Taken
      <3> QED BY <2>1, <3>1 DEF FramesOwned
    <2>3. CASE mNumDequeuedV4l2Buffers # 0
      <3>1. dev' = dev /\ buf' = buf
        BY <1>4, <2>3 DEF v4l2StreamOffLocked, streamOffNotNeeded, streamOffRefused,
                          streamOffFails, streamedOff
      <3> QED BY <1>o, <2>1, <3>1, OwnKept
    <2> QED BY <2>2, <2>3
  <1>6. CASE dev' = dev /\ buf' = buf
    <2>1. CASE dequeueV4l2FrameLocked
      BY <1>1, <2>1
    <2>2. CASE Owners' \subseteq Owners
      BY <1>o, <1>6, <2>2, OwnKept
    <2> QED BY <2>1, <2>2, OwnersStep
  <1>7. \/ dequeueV4l2FrameLocked \/ (\E t \in Threads : enqueueV4l2Frame(t))
        \/ configureV4l2StreamLocked \/ v4l2StreamOffLocked \/ dropOldFrame
        \/ (dev' = dev /\ buf' = buf)
    BY Steps DEF configureStreams, processOneCaptureRequest, flush, close, takeRequests,
       pipelineIdle, waitForFrame, bufferReturned, refuseRequest, loseFrame,
       acceptRequest, requestDone, flushTimeout, flushNext, joined, countReturn,
       eraseInflight, answerRequest, dropResult, callbackReturns,
       waitForNextRequest, threadExits, processFrame, onDeviceError, signalRequestDone
  <1> QED BY <1>1, <1>2, <1>3, <1>4, <1>6, <1>7, <1>8

\* A driver that streams keeps having buffers.
LEMMA MadeStep ==
    ASSUME IInv, Next
    PROVE  MadeInv'
  <1>o. MadeInv /\ TypeOK
    BY DEF IInv
  <1>1. CASE dev'.on = dev.on /\ dev'.made = dev.made
    BY <1>o, <1>1 DEF MadeInv
  <1>2. CASE configureV4l2StreamLocked
    BY <1>o, <1>2 DEF MadeInv, configureV4l2StreamLocked, configureFailsEarly,
       configureFailsQueueing, configureFailsStarted, streamStarted
  <1>3. CASE v4l2StreamOffLocked
    <2>1. \/ dev' = dev
          \/ dev' = [dev EXCEPT !.on = FALSE, !.queued = {}]
          \/ dev' = [on |-> FALSE, made |-> FALSE, queued |-> {}]
      BY <1>3, Zenon DEF v4l2StreamOffLocked, streamOffNotNeeded, streamOffRefused,
                         streamOffFails, streamedOff
    <2>2. dev' = dev \/ ~ dev'.on
      <3>1. dev' = [dev EXCEPT !.on = FALSE, !.queued = {}] => ~ dev'.on
        BY <1>o DEF TypeOK
      <3>2. dev' = [on |-> FALSE, made |-> FALSE, queued |-> {}] => ~ dev'.on
        OBVIOUS
      <3> QED BY <2>1, <3>1, <3>2, Zenon
    <2> QED BY <1>o, <2>2 DEF MadeInv
  <1>4. \/ configureV4l2StreamLocked \/ v4l2StreamOffLocked
        \/ (dev'.on = dev.on /\ dev'.made = dev.made)
    BY <1>o, Steps DEF TypeOK, configureStreams, processOneCaptureRequest, flush, close,
       takeRequests, pipelineIdle, waitForFrame, bufferReturned, refuseRequest,
       requestDone, flushTimeout, flushNext, joined, dequeueV4l2FrameLocked,
       dropOldFrame, loseFrame, acceptRequest, enqueueV4l2Frame, countReturn,
       eraseInflight, answerRequest, dropResult, callbackReturns, waitForNextRequest, threadExits, processFrame, onDeviceError, signalRequestDone
  <1> QED BY <1>1, <1>2, <1>3, <1>4

-----------------------------------------------------------------------------
(* The count of dequeued buffers.                                          *)

\* It keeps covering what is held when nobody is about to count.
LEMMA CountKept ==
    ASSUME IInv, TypeOK', Held' \subseteq Held,
           mNumDequeuedV4l2Buffers' = mNumDequeuedV4l2Buffers,
           Uncounted("call")' + Uncounted("out")' <= Uncounted("call") + Uncounted("out")
    PROVE  CountCovers'
  <1>1. IsFiniteSet(Held) /\ Cardinality(Held) \in Nat /\ Cardinality(Held') \in Nat
    BY HeldFinite, HeldFiniteNext DEF IInv
  <1>2. Cardinality(Held') <= Cardinality(Held)
    BY <1>1, FS_Subset
  <1> QED BY <1>1, <1>2 DEF IInv, TypeOK, CountCovers, Uncounted

\* A thread's jump between two labels that are not "count".
LEMMA UncountedKept ==
    ASSUME TypeOK, NEW t \in Threads, NEW l, Goto(t, l), l # "count"
    PROVE  Uncounted("call")' + Uncounted("out")' <= Uncounted("call") + Uncounted("out")
  BY DEF TypeOK, Goto, Uncounted, Threads

\* The count keeps covering the frames that are held.
LEMMA CountStep ==
    ASSUME IInv, Next, TypeOK'
    PROVE  CountCovers'
  <1>o. TypeOK /\ CountCovers
    BY DEF IInv
  <1>f. /\ IsFiniteSet(Held) /\ Cardinality(Held) \in Nat
        /\ IsFiniteSet(Held') /\ Cardinality(Held') \in Nat
    BY <1>o, HeldFinite, HeldFiniteNext
  <1>1. CASE acceptRequest
    <2>1. Held' = Held \cup {next} /\ next \notin Held
      BY <1>1, HeldAccept
    <2>2. Cardinality(Held') = Cardinality(Held) + 1
      BY <1>f, <2>1, FS_AddElement
    <2>3. mNumDequeuedV4l2Buffers' = mNumDequeuedV4l2Buffers + 1
      BY <1>1 DEF acceptRequest
    <2>4. Uncounted("call")' + Uncounted("out")' <= Uncounted("call") + Uncounted("out")
      BY <1>1, <1>o, UncountedKept DEF acceptRequest, Threads
    <2> QED BY <1>o, <1>f, <2>2, <2>3, <2>4 DEF TypeOK, CountCovers, Uncounted
  <1>2. ASSUME NEW t \in Threads, enqueueV4l2Frame(t) PROVE CountCovers'
    <2>1. Held' = Held \ {request(t)} /\ request(t) \in Held
      BY <1>2, HeldReturn
    <2>2. Cardinality(Held') = Cardinality(Held) - 1
      BY <1>f, <2>1, FS_RemoveElement
    <2>3. counts' = counts
      BY <1>2 DEF enqueueV4l2Frame, counts
    <2>4. Uncounted("call")' + Uncounted("out")' <= Uncounted("call") + Uncounted("out") + 1
      BY <1>2, <1>o DEF enqueueV4l2Frame, Goto, TypeOK, Uncounted, Threads
    <2> QED BY <1>o, <1>f, <2>2, <2>3, <2>4 DEF TypeOK, CountCovers, Uncounted, counts
  <1>3. ASSUME NEW t \in Threads, countReturn(t) PROVE CountCovers'
    <2>1. Held' \subseteq Held
      BY <1>o, <1>3, HeldStep DEF countReturn, acceptRequest, TypeOK
    <2>2. Cardinality(Held') <= Cardinality(Held)
      BY <1>f, <2>1, FS_Subset
    <2>3. mNumDequeuedV4l2Buffers' = mNumDequeuedV4l2Buffers - 1
      BY <1>3 DEF countReturn
    <2>4. Uncounted("call")' + Uncounted("out")' = Uncounted("call") + Uncounted("out") - 1
      BY <1>3, <1>o DEF countReturn, Goto, TypeOK, Uncounted, Threads
    <2> QED BY <1>o, <1>f, <2>2, <2>3, <2>4 DEF TypeOK, CountCovers, Uncounted
  <1> USE DEF counts, Threads
  <1>4. CASE v4l2StreamOffLocked
    <2>1. Held' \subseteq Held
      BY <1>4, HeldStep DEF v4l2StreamOffLocked, acceptRequest
    <2>2. mNumDequeuedV4l2Buffers' = mNumDequeuedV4l2Buffers
      BY <1>4 DEF v4l2StreamOffLocked, streamOffNotNeeded,
         streamOffRefused, streamOffFails, streamedOff
    <2>3. PICK l \in CallPcs \ {"count"} : Goto("call", l)
      BY <1>4 DEF v4l2StreamOffLocked, streamOffNotNeeded, streamOffRefused,
         streamOffFails, streamedOff, AfterFailure, AfterStreamOff, CallPcs
    <2> QED BY <1>o, <2>1, <2>2, <2>3, CountKept, UncountedKept
  <1>5. CASE configureV4l2StreamLocked
    <2>1. Held' \subseteq Held
      BY <1>5, HeldStep DEF configureV4l2StreamLocked, acceptRequest
    <2>2. mNumDequeuedV4l2Buffers' = mNumDequeuedV4l2Buffers
      BY <1>5 DEF configureV4l2StreamLocked
    <2>3. Goto("call", AfterConfigure) /\ AfterConfigure # "count"
      BY <1>5 DEF configureV4l2StreamLocked, AfterConfigure
    <2> QED BY <1>o, <2>1, <2>2, <2>3, CountKept, UncountedKept
  <1>6. ASSUME counts' = counts, \E t \in Threads : \E l \in (CallPcs \cup OutPcs) \ {"count"} : Goto(t, l),
               ~ acceptRequest
        PROVE  CountCovers'
    <2>1. Held' \subseteq Held
      BY <1>6, HeldStep
    <2>2. PICK t \in Threads, l \in (CallPcs \cup OutPcs) \ {"count"} : Goto(t, l)
      BY <1>6
    <2>3. Uncounted("call")' + Uncounted("out")' <= Uncounted("call") + Uncounted("out")
      BY <1>o, <2>2, UncountedKept
    <2>4. mNumDequeuedV4l2Buffers' = mNumDequeuedV4l2Buffers
      BY <1>6
    <2> QED BY <2>1, <2>3, <2>4, CountKept
  <1>7. \/ acceptRequest \/ (\E t \in Threads : enqueueV4l2Frame(t))
        \/ (\E t \in Threads : countReturn(t))
        \/ configureV4l2StreamLocked \/ v4l2StreamOffLocked
        \/ /\ counts' = counts
           /\ \E t \in Threads : \E l \in (CallPcs \cup OutPcs) \ {"count"} : Goto(t, l)
    <2> USE DEF CallPcs, OutPcs
    <2>1. CASE configureStreams
      BY <2>1 DEF configureStreams
    <2>2. CASE processOneCaptureRequest
      BY <2>2 DEF processOneCaptureRequest
    <2>3. CASE flush \/ close
      BY <2>3 DEF flush, close, takeRequests, AfterTaking
    <2>4. CASE pipelineIdle \/ bufferReturned \/ refuseRequest \/ loseFrame
      BY <2>4 DEF pipelineIdle, bufferReturned, refuseRequest, loseFrame
    <2>11. CASE dequeueV4l2FrameLocked \/ dropOldFrame
      BY <2>11 DEF dequeueV4l2FrameLocked, dropOldFrame
    <2>12. CASE \E t \in Threads : dropResult(t) \/ callbackReturns(t)
      BY <2>12 DEF dropResult, callbackReturns, AfterRequest
    <2>5. CASE waitForFrame
      BY <2>5 DEF waitForFrame
    <2>6. CASE requestDone \/ flushTimeout \/ joined
      BY <2>6 DEF requestDone, flushTimeout, joined
    <2>7. CASE flushNext
      BY <2>7 DEF flushNext
    <2>8. CASE \E t \in Threads : eraseInflight(t) \/ answerRequest(t)
      BY <2>8 DEF eraseInflight, answerRequest
    <2>9. CASE waitForNextRequest \/ threadExits \/ processFrame
      BY <2>9 DEF waitForNextRequest, threadExits, processFrame
    <2>10. CASE onDeviceError \/ signalRequestDone
      BY <2>10 DEF onDeviceError, signalRequestDone
    <2> QED BY <2>1, <2>2, <2>3, <2>4, <2>5, <2>6, <2>7, <2>8, <2>9, <2>10, <2>11, <2>12,
               Steps
  <1> QED BY <1>1, <1>2, <1>3, <1>4, <1>5, <1>6, <1>7

-----------------------------------------------------------------------------
(* Results that are given up.                                              *)

\* A thread finds the lock taken only when the flush stopped waiting.
LEMMA DropStep ==
    ASSUME IInv, Next, TypeOK'
    PROVE  DropInv'
  <1>o. TypeOK /\ PhaseInv /\ DropInv
    BY DEF IInv
  <1> USE <1>o DEF DropInv, DropsExplained, PhaseInv, TypeOK, Finishing, Flushing,
              mProcessingRequest, Threads, lists, told, Goto
  <1>1. CASE configureStreams \/ processOneCaptureRequest
    BY <1>1 DEF configureStreams, processOneCaptureRequest
  <1>2. CASE flush \/ close
    BY <1>2 DEF flush, close, takeRequests, AfterTaking
  <1>3. CASE v4l2StreamOffLocked
    BY <1>3 DEF v4l2StreamOffLocked, streamOffNotNeeded, streamOffRefused,
       streamOffFails, streamedOff, AfterFailure, AfterStreamOff
  <1>4. CASE configureV4l2StreamLocked
    BY <1>4 DEF configureV4l2StreamLocked, AfterConfigure
  <1>5. CASE pipelineIdle \/ waitForFrame \/ bufferReturned \/ refuseRequest
    BY <1>5 DEF pipelineIdle, waitForFrame, bufferReturned, refuseRequest
  <1>6. CASE dequeueV4l2FrameLocked \/ dropOldFrame \/ loseFrame \/ acceptRequest
    BY <1>6 DEF dequeueV4l2FrameLocked, dropOldFrame, loseFrame, acceptRequest
  <1>7. CASE requestDone \/ flushTimeout \/ flushNext \/ joined
    BY <1>7 DEF requestDone, flushTimeout, flushNext, joined
  <1>8. CASE \E t \in Threads : enqueueV4l2Frame(t) \/ countReturn(t) \/ eraseInflight(t)
    BY <1>8 DEF enqueueV4l2Frame, countReturn, eraseInflight
  <1>9. CASE \E t \in Threads : answerRequest(t) \/ callbackReturns(t)
    BY <1>9 DEF answerRequest, callbackReturns, AfterRequest
  <1>10. ASSUME NEW t \in Threads, dropResult(t) PROVE DropInv'
    <2>1. gaveUp
      BY <1>10 DEF dropResult, lockFree
    <2> QED BY <1>10, <2>1 DEF dropResult
  <1>11. CASE waitForNextRequest \/ threadExits \/ processFrame
    BY <1>11 DEF waitForNextRequest, threadExits, processFrame
  <1>12. CASE onDeviceError \/ signalRequestDone
    BY <1>12 DEF onDeviceError, signalRequestDone
  <1> QED BY <1>1, <1>2, <1>3, <1>4, <1>5, <1>6, <1>7, <1>8, <1>9, <1>10, <1>11,
             <1>12, Steps

-----------------------------------------------------------------------------
(* The invariant, and the theorems.                                        *)

\* The invariant holds at first.
LEMMA InitInv == Init => IInv
  <1> SUFFICES ASSUME Init PROVE IInv
    OBVIOUS
  <1>1. TypeOK
    BY TypeInit
  <1>2. /\ pc["call"] = "idle" /\ pc["out"] = "wait"
        /\ work["call"] = {} /\ work["out"] = {}
        /\ mRequestList = {} /\ mInflightFrames = {}
        /\ answered = {} /\ dropped = {} /\ late = {} /\ ~ dev.on
        /\ cont = "none" /\ mNumDequeuedV4l2Buffers = 0 /\ mV4L2BufferCount = 0
    BY DEF Init, Threads
  <1>3. Held = {} /\ Outstanding = {}
    BY <1>2 DEF Held, Holding, Outstanding
  <1>4. CountCovers
    BY <1>2, <1>3, FS_EmptySet DEF CountCovers, Uncounted
  <1>5. PhaseInv
    BY <1>2 DEF PhaseInv, Flushing, Finishing, Requesting
  <1>6. FlightInv
    BY <1>2, <1>3 DEF FlightInv, Threads
  <1>7. RestartInv
    BY <1>2 DEF RestartInv
  <1>8. MadeInv /\ FramesOwned
    BY <1>2, <1>3 DEF MadeInv, FramesOwned, Owners, Taken
  <1>9. OrderInv
    BY <1>2, <1>3 DEF OrderInv, Flushing, Finishing
  <1>10. DropInv
    BY <1>2 DEF DropInv, DropsExplained, mProcessingRequest
  <1> QED BY <1>1, <1>4, <1>5, <1>6, <1>7, <1>8, <1>9, <1>10 DEF IInv

\* Every step of the session, of either thread and with any failure, keeps
\* the invariant.
LEMMA NextInv ==
    ASSUME IInv, [Next]_vars
    PROVE  IInv'
  <1>1. CASE Next
    <2>1. TypeOK'
      BY <1>1, TypeStep DEF IInv
    <2> QED BY <1>1, <2>1, MadeStep, PhaseStep, FlightStep, RestartStep, CountStep,
               OwnStep, OrderStep, DropStep DEF IInv
  <1>2. CASE UNCHANGED vars
    BY <1>2 DEF IInv, vars, lists, counts, told, TypeOK, MadeInv, PhaseInv, FlightInv,
       RestartInv, CountCovers, Uncounted, FramesOwned, Owners, Taken, Held, Holding,
       OrderInv, Outstanding, request, DropInv, DropsExplained, mProcessingRequest
  <1> QED BY <1>1, <1>2

\* The invariant the theorems rest on: what the threads have fits what they
\* do, requests in flight are in mInflightFrames, a restart finds nothing in
\* flight or nothing dequeued, requests are finished in order, and results
\* are given up only after a flush stopped waiting.
THEOREM Inductive == Spec => []IInv
  BY InitInv, NextInv, PTL DEF Spec

\* The variables of the session keep their types.
THEOREM Types == Spec => []TypeOK
  <1>1. IInv => TypeOK
    BY DEF IInv
  <1> QED BY <1>1, Inductive, PTL

\* No V4L2 buffer is read or given back by two, or taken from under a
\* request by a restart, a configuration or a close, whatever ioctl fails.
THEOREM Owned == Spec => []FramesOwned
  <1>1. IInv => FramesOwned
    BY DEF IInv
  <1> QED BY <1>1, Inductive, PTL

\* mNumDequeuedV4l2Buffers never misses a frame that is held, nor one that
\* is back with the driver and not yet counted, whatever wakes up the wait for
\* a buffer: a stream found with no buffer out has none out, and the counter
\* is never decremented below zero.
THEOREM Counted == Spec => []CountCovers
  <1>1. IInv => CountCovers
    BY DEF IInv
  <1> QED BY <1>1, Inductive, PTL

\* Requests are answered once and in order, but for the ones that a flush
\* stopped waiting for.
THEOREM InOrder == Spec => []AnswersInOrder
  <1>1. ASSUME IInv PROVE AnswersInOrder
    <2>1. ASSUME NEW t \in Threads, pc[t] = "answer"
          PROVE  /\ request(t) \notin answered
                 /\ request(t) \in late \/ \A g \in answered : g < request(t)
      <3>1. request(t) \in work[t]
        BY <1>1, <2>1, RequestFact DEF IInv, PhaseInv, Finishing, Threads
      <3>2. request(t) \in Outstanding
        BY <3>1 DEF Outstanding, Threads
      <3> QED BY <1>1, <3>2 DEF IInv, OrderInv
    <2> QED BY <2>1 DEF AnswersInOrder
  <1> QED BY <1>1, Inductive, PTL

\* The result of a request is given up for mProcessCaptureResultLock only
\* after a flush stopped waiting for OutputThread.
THEOREM Drops == Spec => []DropsExplained
  <1>1. IInv => DropsExplained
    BY DEF IInv, DropInv
  <1> QED BY <1>1, Inductive, PTL

=============================================================================
