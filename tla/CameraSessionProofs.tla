------------------------ MODULE CameraSessionProofs ------------------------
(***************************************************************************)
(* Proofs about CameraSession, for every number of streams, buffers,       *)
(* frames, requests and pipelines and every set of faults.                 *)
(*                                                                         *)
(* The argument. DestroyPipelines is safe because of two pairs of          *)
(* counters. Counting ties mInQueRequestIdx and mDeQueRequestIdx to what   *)
(* is queued and to where WorkThread is; ImageCount ties mLatestImageIdx   *)
(* and mProcdImageIdx to mImageList and to where ImgProcThread is. Live    *)
(* says that whatever is between those counters still has its              *)
(* PipelineInfo, which holds because DestroyPipelines frees them only when *)
(* both pairs agree. Order and Vectors add that requests are handled in    *)
(* order, so the image that frees a frame's vector is the last to use it.  *)
(***************************************************************************)
EXTENDS CameraSession, SequenceTheorems, TLAPS

(* WorkThread works on a request, ... on one whose pipeline it has found; *)
(* ImgProcThread has an image, ... one that mProcdImageIdx does not count. *)
Handling == {"check", "start", "drain", "capture", "recover", "feed"}
Started == {"start", "drain", "capture", "recover", "feed"}
Uncounted == {"check", "process", "return", "result", "count", "errCount"}
ImgBusy == imgPc \notin {"idle", "exited"}

(* The request indices against map_frame_request and WorkThread.           *)
Counting ==
    /\ inQ = nextFrame - 1
    /\ workFrame < nextFrame
    /\ queued = (workFrame + 1)..(nextFrame - 1)
    /\ workPc = "idle" => deQ = workFrame
    /\ workPc \in Handling \cup {"finish", "dead"} => deQ = workFrame - 1

(* The calls and threads against the session's life.                       *)
Life ==
    /\ destroyPc # "idle" => sesPc = "open" /\ built
    /\ destroyPc = "drain" => deQ = inQ
    /\ workPc = "exited" => sesPc \in {"stop", "gone"}

(* What the threads hold are requests that were submitted.                 *)
InRange ==
    /\ \A f \in Frames : Len(batch[f]) <= MaxBatch
    /\ \A f \in Frames : f < nextFrame => Len(batch[f]) >= 1
    /\ workPc \in Handling => workFrame >= 1 /\ workIdx <= Len(batch[workFrame])
    /\ \A j \in 1..Len(imgList) :
         /\ imgList[j].frame <= workFrame
         /\ imgList[j].idx <= Len(batch[imgList[j].frame])
    /\ ImgBusy => /\ imgCur \in Image
                  /\ imgCur.frame <= workFrame
                  /\ imgCur.idx <= Len(batch[imgCur.frame])

(* Whatever the counters do not yet count has its PipelineInfo.            *)
Live ==
    /\ workPc \in Started => CurRequest.pid \in pipelines
    /\ \A j \in 1..Len(imgList) : batch[imgList[j].frame][imgList[j].idx].pid \in pipelines
    /\ imgPc \in Uncounted => ImgPid \in pipelines

(* The image indices against mImageList and ImgProcThread.                 *)
ImageCount ==
    latest = procd + Len(imgList) + (IF imgPc \in Uncounted THEN 1 ELSE 0)

IInv == TypeOK /\ Counting /\ Life /\ InRange /\ Live /\ ImageCount

Ref(i) == <<i.frame, i.idx>>

(* The image processed, those in the list and the request worked on are in *)
(* the order of submission.                                                *)
Order ==
    /\ \A j, k \in 1..Len(imgList) : j < k => Before(Ref(imgList[j]), Ref(imgList[k]))
    /\ ImgBusy => \A j \in 1..Len(imgList) : Before(Ref(imgCur), Ref(imgList[j]))
    /\ workPc \in Handling =>
         /\ \A j \in 1..Len(imgList) : Before(Ref(imgList[j]), <<workFrame, workIdx>>)
         /\ ImgBusy => Before(Ref(imgCur), <<workFrame, workIdx>>)

(* The vectors of queued frames are allocated too.                         *)
Vectors == VectorAlive /\ queued \subseteq vecs

-----------------------------------------------------------------------------
(* feed appends to mImageList and leaves what was in it.                   *)
LEMMA AppendImage ==
  ASSUME NEW S, NEW seq \in Seq(S), NEW e \in S
  PROVE  /\ Append(seq, e) \in Seq(S)
         /\ Len(Append(seq, e)) = Len(seq) + 1
         /\ \A j \in 1..Len(seq) : Append(seq, e)[j] = seq[j]
         /\ Append(seq, e)[Len(seq) + 1] = e
  OBVIOUS

(* HandleImage takes the head; the rest moves up by one.                   *)
LEMMA TakeImage ==
  ASSUME NEW S, NEW seq \in Seq(S), seq # <<>>
  PROVE  /\ Head(seq) \in S /\ Head(seq) = seq[1]
         /\ Tail(seq) \in Seq(S)
         /\ Len(seq) >= 1 /\ Len(Tail(seq)) = Len(seq) - 1
         /\ \A j \in 1..(Len(seq) - 1) : Tail(seq)[j] = seq[j + 1]
  OBVIOUS

(* The requests of a frame, as the framework builds them, are a sequence.  *)
LEMMA RequestsSeq ==
  ASSUME NEW n \in 1..MaxBatch, NEW reqs \in [1..n -> [pid: 0..MaxPipeline, outs: Outputs]]
  PROVE  reqs \in Seq(Request) /\ Len(reqs) = n
<1>1. reqs \in [1..n -> Request] /\ n \in Nat
  BY SessionAssumption DEF Request
<1>2. reqs \in Seq(Request)
  BY <1>1, SeqDef
<1>3. DOMAIN reqs = 1..Len(reqs) /\ DOMAIN reqs = 1..n /\ Len(reqs) \in Nat
  BY <1>1, <1>2
<1> QED
  BY <1>1, <1>2, <1>3

(* What CapAndFeed captures from are streams. *)
LEMMA CaptureType ==
  ASSUME IInv, workPc \in Handling
  PROVE  ToCapture \subseteq Streams
<1>1. /\ workFrame \in Frames /\ batch[workFrame] \in Seq(Request)
      /\ workIdx \in 1..Len(batch[workFrame])
  BY SessionAssumption DEF IInv, TypeOK, InRange, Frames
<1>2. CurRequest \in Request
  BY <1>1 DEF CurRequest
<1> QED
  BY <1>2, SessionAssumption DEF ToCapture, Request

(* Every step keeps the types.                                             *)
LEMMA TypeStep ==
  ASSUME IInv, [Next]_vars
  PROVE  TypeOK'
<1> USE DEF IInv, TypeOK, pipeVars, reqVars, workVars, imgVars, lifeVars, WorkPcs, ImgPcs
<1>1. ASSUME NEW logical \in {FALSE, HasPhysical}, ConfigurePipeline(logical)
      PROVE  TypeOK'
  <2>1. logical \in BOOLEAN
    BY SessionAssumption, Zenon
  <2> QED
    BY <1>1, <2>1 DEF ConfigurePipeline
<1>2. CASE BuildPipelines
  BY <1>2 DEF BuildPipelines
<1>3. ASSUME NEW n \in 1..MaxBatch,
             NEW reqs \in [1..n -> [pid: 0..MaxPipeline, outs: Outputs]],
             SubmitRequests(reqs)
      PROVE  TypeOK'
  <2>1. reqs \in Seq(Request) /\ Len(reqs) = n
    BY RequestsSeq
  <2>2. {<<nextFrame, i>> : i \in 1..Len(reqs)} \subseteq Refs
    <3>1. nextFrame \in Frames /\ \A i \in 1..Len(reqs) : i \in 1..MaxBatch
      BY <1>3, <2>1, SessionAssumption DEF SubmitRequests
    <3> QED
      BY <3>1, Zenon DEF Refs
  <2>3. nextFrame + 1 \in 1..(MaxFrame + 1)
    BY <1>3, SessionAssumption DEF SubmitRequests, Frames
  <2> QED
    BY <1>3, <2>1, <2>2, <2>3 DEF SubmitRequests
<1>4. CASE DestroyPipelines
  BY <1>4 DEF DestroyPipelines
<1>5. CASE DestroyRequestsDone
  BY <1>5 DEF DestroyRequestsDone
<1>6. CASE DestroyDrained
  BY <1>6 DEF DestroyDrained
<1>7. CASE PopRequest
  BY <1>7, SessionAssumption DEF PopRequest, Frames
<1>8. CASE CheckPipeline
  <2>1. workIdx' \in 1..MaxBatch
    BY <1>8, SessionAssumption
    DEF CheckPipeline, SkipRequest, NextRequest, MoreRequests, InRange, Handling, Frames
  <2>2. answer' \in [Refs -> Answers]
    BY <1>8 DEF CheckPipeline, Answers
  <2> QED
    BY <1>8, <2>1, <2>2 DEF CheckPipeline, SkipRequest, NextRequest
<1>9. CASE StartKeep
  BY <1>9, CaptureType DEF StartKeep, Handling
<1>10. CASE StartReconfigure
  BY <1>10, SessionAssumption DEF StartReconfigure
<1>11. CASE Restarted
  BY <1>11, CaptureType, SessionAssumption DEF Restarted, Handling, Emptied
<1>12. CASE StartFailed
  BY <1>12 DEF StartFailed, Emptied
<1>13. ASSUME NEW s \in Streams, AcquireFrame(s)
      PROVE  TypeOK'
  <2>1. held' \in [Streams -> Int]
    BY <1>13 DEF AcquireFrame
  <2> QED
    BY <1>13, <2>1 DEF AcquireFrame
<1>14. ASSUME NEW s \in Streams, AcquireTimeout(s)
      PROVE  TypeOK'
  BY <1>14 DEF AcquireTimeout
<1>15. ASSUME NEW s \in Streams, AcquireNull(s)
      PROVE  TypeOK'
  <2>1. workIdx' \in 1..MaxBatch
    BY <1>15, SessionAssumption
    DEF AcquireNull, NextRequest, MoreRequests, InRange, Handling, Frames
  <2> QED
    BY <1>15, <2>1 DEF AcquireNull, NextRequest
<1>16. CASE FeedImage
  <2>1. [frame |-> workFrame, idx |-> workIdx, bufs |-> workBufs] \in Image
    BY <1>16 DEF FeedImage, Image, InRange, Handling, Frames
  <2>2. imgList' \in Seq(Image)
    BY <1>16, <2>1 DEF FeedImage
  <2>3. workIdx' \in 1..MaxBatch
    BY <1>16, SessionAssumption DEF FeedImage, NextRequest, MoreRequests, InRange,
       Handling, Frames
  <2> QED
    BY <1>16, <2>2, <2>3 DEF FeedImage, NextRequest
<1>17. CASE FinishRequest
  BY <1>17, SessionAssumption DEF FinishRequest
<1>18. CASE PopImage
  <2>1. imgCur' \in Image /\ imgList' \in Seq(Image)
    BY <1>18, TakeImage DEF PopImage
  <2>2. imgCur' \in [frame: Nat, idx: Nat, bufs: SUBSET Streams]
    BY <2>1 DEF Image, Frames
  <2> QED
    BY <1>18, <2>1, <2>2 DEF PopImage
<1>19. CASE CheckImage
  BY <1>19 DEF CheckImage, ErrorPath
<1>20. CASE ProcessImage
  BY <1>20 DEF ProcessImage, Answered, Answers
<1>21. CASE ReturnBuffers
  BY <1>21 DEF ReturnBuffers
<1>22. CASE SendResult
  BY <1>22 DEF SendResult, Answered, Answers
<1>23. CASE CountImage
  BY <1>23 DEF CountImage
<1>24. CASE NotifyError
  BY <1>24 DEF NotifyError, Answered, Answers
<1>25. CASE ReleaseImage
  BY <1>25 DEF ReleaseImage, NoImage
<1>26. CASE DeleteSession
  BY <1>26 DEF DeleteSession
<1>27. CASE ImgProcExit
  BY <1>27 DEF ImgProcExit
<1>28. CASE WorkExit
  BY <1>28 DEF WorkExit
<1>29. CASE StopStreams
  BY <1>29 DEF StopStreams
<1>30. CASE UNCHANGED vars
  BY <1>30 DEF vars
<1> QED
  BY <1>1, <1>2, <1>3, <1>4, <1>5, <1>6, <1>7, <1>8, <1>9, <1>10, <1>11, <1>12, <1>13,
     <1>14, <1>15, <1>16, <1>17, <1>18, <1>19, <1>20, <1>21, <1>22, <1>23, <1>24, <1>25,
     <1>26, <1>27, <1>28, <1>29, <1>30
  DEF Next, Framework, DestroySteps, DeleteSteps, HandleRequest, HandleImage

(* With mLock held for the drain, nothing is queued and nothing handled.   *)
LEMMA IdleWhenDrained ==
  ASSUME IInv, destroyPc = "drain"
  PROVE  queued = {} /\ workPc = "idle"
<1>1. deQ = inQ /\ sesPc = "open" /\ workPc # "exited" /\ workPc \in WorkPcs
  BY DEF IInv, TypeOK, Life
<1>2. nextFrame \in Nat /\ workFrame \in Nat /\ deQ \in Nat
  BY SessionAssumption DEF IInv, TypeOK
<1> QED
  BY <1>1, <1>2 DEF IInv, Counting, Handling, WorkPcs

(* The counters of the requests. *)
LEMMA CountingStep ==
  ASSUME IInv, [Next]_vars
  PROVE  Counting'
<1> USE DEF Counting, Handling, pipeVars, reqVars, workVars, lifeVars
<1>a. /\ Counting /\ workPc \in WorkPcs
      /\ nextFrame \in Nat /\ workFrame \in Nat /\ inQ \in Nat /\ deQ \in Nat
  BY SessionAssumption DEF IInv, TypeOK
<1> USE <1>a
<1>1. ASSUME NEW logical \in {FALSE, HasPhysical}, ConfigurePipeline(logical)
      PROVE  Counting'
  BY <1>1 DEF ConfigurePipeline
<1>2. CASE BuildPipelines
  BY <1>2 DEF BuildPipelines
<1>3. ASSUME NEW n \in 1..MaxBatch,
             NEW reqs \in [1..n -> [pid: 0..MaxPipeline, outs: Outputs]],
             SubmitRequests(reqs)
      PROVE  Counting'
  BY <1>3 DEF SubmitRequests
<1>4. CASE DestroyPipelines
  BY <1>4 DEF DestroyPipelines
<1>5. CASE DestroyRequestsDone
  BY <1>5 DEF DestroyRequestsDone
<1>6. CASE DestroyDrained
  BY <1>6, IdleWhenDrained DEF DestroyDrained
<1>7. CASE PopRequest
  BY <1>7 DEF PopRequest, OldestQueued
<1>8. CASE CheckPipeline
  BY <1>8 DEF CheckPipeline, SkipRequest, NextRequest
<1>9. CASE StartKeep
  BY <1>9 DEF StartKeep
<1>10. CASE StartReconfigure
  BY <1>10 DEF StartReconfigure
<1>11. CASE Restarted
  BY <1>11 DEF Restarted
<1>12. CASE StartFailed
  BY <1>12 DEF StartFailed
<1>13. ASSUME NEW s \in Streams, AcquireFrame(s)
      PROVE  Counting'
  BY <1>13 DEF AcquireFrame
<1>14. ASSUME NEW s \in Streams, AcquireTimeout(s)
      PROVE  Counting'
  BY <1>14 DEF AcquireTimeout
<1>15. ASSUME NEW s \in Streams, AcquireNull(s)
      PROVE  Counting'
  BY <1>15 DEF AcquireNull, NextRequest
<1>16. CASE FeedImage
  BY <1>16 DEF FeedImage, NextRequest
<1>17. CASE FinishRequest
  BY <1>17 DEF FinishRequest
<1>18. CASE PopImage
  BY <1>18 DEF PopImage
<1>19. CASE CheckImage
  BY <1>19 DEF CheckImage
<1>20. CASE ProcessImage
  BY <1>20 DEF ProcessImage
<1>21. CASE ReturnBuffers
  BY <1>21 DEF ReturnBuffers
<1>22. CASE SendResult
  BY <1>22 DEF SendResult
<1>23. CASE CountImage
  BY <1>23 DEF CountImage
<1>24. CASE NotifyError
  BY <1>24 DEF NotifyError
<1>25. CASE ReleaseImage
  BY <1>25 DEF ReleaseImage
<1>26. CASE DeleteSession
  BY <1>26 DEF DeleteSession
<1>27. CASE ImgProcExit
  BY <1>27 DEF ImgProcExit
<1>28. CASE WorkExit
  BY <1>28 DEF WorkExit
<1>29. CASE StopStreams
  BY <1>29 DEF StopStreams
<1>30. CASE UNCHANGED vars
  BY <1>30 DEF vars
<1> QED
  BY <1>1, <1>2, <1>3, <1>4, <1>5, <1>6, <1>7, <1>8, <1>9, <1>10, <1>11, <1>12, <1>13,
     <1>14, <1>15, <1>16, <1>17, <1>18, <1>19, <1>20, <1>21, <1>22, <1>23, <1>24, <1>25,
     <1>26, <1>27, <1>28, <1>29, <1>30
  DEF Next, Framework, DestroySteps, DeleteSteps, HandleRequest, HandleImage

(* The life of the calls and of the session. *)
LEMMA LifeStep ==
  ASSUME IInv, [Next]_vars
  PROVE  Life'
<1> USE DEF Life, pipeVars, reqVars, workVars, lifeVars
<1>a. Life /\ (destroyPc = "drain" => workPc = "idle")
  BY IdleWhenDrained DEF IInv
<1> USE <1>a
<1>1. ASSUME NEW logical \in {FALSE, HasPhysical}, ConfigurePipeline(logical)
      PROVE  Life'
  BY <1>1 DEF ConfigurePipeline
<1>2. CASE BuildPipelines
  BY <1>2 DEF BuildPipelines
<1>3. ASSUME NEW n \in 1..MaxBatch,
             NEW reqs \in [1..n -> [pid: 0..MaxPipeline, outs: Outputs]],
             SubmitRequests(reqs)
      PROVE  Life'
  BY <1>3 DEF SubmitRequests, MLockFree
<1>4. CASE DestroyPipelines
  BY <1>4 DEF DestroyPipelines
<1>5. CASE DestroyRequestsDone
  BY <1>5 DEF DestroyRequestsDone, RequestsHandled
<1>6. CASE DestroyDrained
  BY <1>6 DEF DestroyDrained
<1>7. CASE PopRequest
  BY <1>7 DEF PopRequest
<1>8. CASE CheckPipeline
  BY <1>8 DEF CheckPipeline, SkipRequest, NextRequest
<1>9. CASE StartKeep
  BY <1>9 DEF StartKeep
<1>10. CASE StartReconfigure
  BY <1>10 DEF StartReconfigure
<1>11. CASE Restarted
  BY <1>11 DEF Restarted
<1>12. CASE StartFailed
  BY <1>12 DEF StartFailed
<1>13. ASSUME NEW s \in Streams, AcquireFrame(s)
      PROVE  Life'
  BY <1>13 DEF AcquireFrame
<1>14. ASSUME NEW s \in Streams, AcquireTimeout(s)
      PROVE  Life'
  BY <1>14 DEF AcquireTimeout
<1>15. ASSUME NEW s \in Streams, AcquireNull(s)
      PROVE  Life'
  BY <1>15 DEF AcquireNull, NextRequest
<1>16. CASE FeedImage
  BY <1>16 DEF FeedImage, NextRequest
<1>17. CASE FinishRequest
  BY <1>17 DEF FinishRequest, MLockFree
<1>18. CASE PopImage
  BY <1>18 DEF PopImage
<1>19. CASE CheckImage
  BY <1>19 DEF CheckImage
<1>20. CASE ProcessImage
  BY <1>20 DEF ProcessImage
<1>21. CASE ReturnBuffers
  BY <1>21 DEF ReturnBuffers
<1>22. CASE SendResult
  BY <1>22 DEF SendResult
<1>23. CASE CountImage
  BY <1>23 DEF CountImage
<1>24. CASE NotifyError
  BY <1>24 DEF NotifyError
<1>25. CASE ReleaseImage
  BY <1>25 DEF ReleaseImage
<1>26. CASE DeleteSession
  BY <1>26 DEF DeleteSession
<1>27. CASE ImgProcExit
  BY <1>27 DEF ImgProcExit
<1>28. CASE WorkExit
  BY <1>28 DEF WorkExit
<1>29. CASE StopStreams
  BY <1>29 DEF StopStreams
<1>30. CASE UNCHANGED vars
  BY <1>30 DEF vars
<1> QED
  BY <1>1, <1>2, <1>3, <1>4, <1>5, <1>6, <1>7, <1>8, <1>9, <1>10, <1>11, <1>12, <1>13,
     <1>14, <1>15, <1>16, <1>17, <1>18, <1>19, <1>20, <1>21, <1>22, <1>23, <1>24, <1>25,
     <1>26, <1>27, <1>28, <1>29, <1>30
  DEF Next, Framework, DestroySteps, DeleteSteps, HandleRequest, HandleImage

(* What the threads hold are requests that were submitted. *)
LEMMA InRangeStep ==
  ASSUME IInv, [Next]_vars
  PROVE  InRange'
<1> USE DEF InRange, Handling, ImgBusy, pipeVars, reqVars, workVars, imgVars, lifeVars
<1>a. /\ InRange /\ Counting
      /\ nextFrame \in 1..(MaxFrame + 1) /\ workFrame \in 0..MaxFrame /\ workIdx \in 1..MaxBatch
      /\ batch \in [Frames -> Seq(Request)] /\ imgList \in Seq(Image)
      /\ MaxFrame \in Nat /\ MaxBatch \in Nat
  BY SessionAssumption DEF IInv, TypeOK
<1>b. \A f \in Frames : Len(batch[f]) \in Nat
  BY <1>a
<1>c. \A j \in 1..Len(imgList) : imgList[j] \in Image
  BY <1>a
<1> USE <1>a, <1>b
<1>1. ASSUME NEW logical \in {FALSE, HasPhysical}, ConfigurePipeline(logical)
      PROVE  InRange'
  BY <1>1 DEF ConfigurePipeline
<1>2. CASE BuildPipelines
  BY <1>2 DEF BuildPipelines
<1>3. ASSUME NEW n \in 1..MaxBatch,
             NEW reqs \in [1..n -> [pid: 0..MaxPipeline, outs: Outputs]],
             SubmitRequests(reqs)
      PROVE  InRange'
  <2>1. reqs \in Seq(Request) /\ Len(reqs) = n
    BY RequestsSeq
  <2>2. workFrame < nextFrame /\ nextFrame \in Frames
    BY <1>3 DEF SubmitRequests, Counting
  <2>3. \A f \in Frames : batch'[f] = IF f = nextFrame THEN reqs ELSE batch[f]
    BY <1>3, <2>2 DEF SubmitRequests
  <2>4. \A f \in Frames : f <= workFrame => batch'[f] = batch[f]
    BY <2>2, <2>3 DEF Frames
  <2>5. \A j \in 1..Len(imgList) : imgList[j].frame \in Frames
    BY <1>c DEF Image
  <2>6. ImgBusy => imgCur.frame \in Frames
    BY DEF Image
  <2>7. workPc \in Handling => workFrame \in Frames
    BY DEF Frames
  <2>8. \A f \in Frames : Len(batch'[f]) <= MaxBatch
    BY <2>1, <2>3
  <2>9. \A f \in Frames : f < nextFrame' => Len(batch'[f]) >= 1
    <3>1. nextFrame' = nextFrame + 1 /\ Len(reqs) >= 1
      BY <1>3, <2>1, SessionAssumption DEF SubmitRequests
    <3>2. ASSUME NEW f \in Frames, f < nextFrame', f # nextFrame
          PROVE  Len(batch[f]) >= 1
      BY <3>1, <3>2 DEF Frames
    <3> QED
      BY <2>3, <3>1, <3>2
  <2> QED
    BY <1>3, <2>4, <2>5, <2>6, <2>7, <2>8, <2>9 DEF SubmitRequests
<1>4. CASE DestroyPipelines
  BY <1>4 DEF DestroyPipelines
<1>5. CASE DestroyRequestsDone
  BY <1>5 DEF DestroyRequestsDone
<1>6. CASE DestroyDrained
  BY <1>6 DEF DestroyDrained
<1>7. CASE PopRequest
  <2>1. workFrame < workFrame' /\ workFrame' \in Frames /\ workFrame' < nextFrame
    BY <1>7 DEF PopRequest, Counting, Frames
  <2>2. \A j \in 1..Len(imgList) : imgList[j].frame <= workFrame'
    <3> TAKE j \in 1..Len(imgList)
    <3>1. imgList[j] \in Image /\ imgList[j].frame <= workFrame
      BY <1>c
    <3>2. imgList[j].frame \in Int /\ workFrame' \in Int
      BY <2>1, <3>1 DEF Image, Frames
    <3> QED
      BY <2>1, <3>1, <3>2
  <2>3. ImgBusy => imgCur.frame <= workFrame'
    BY <2>1 DEF Image, Frames
  <2>4. workFrame' >= 1 /\ 1 <= Len(batch[workFrame'])
    BY <2>1 DEF Frames
  <2> QED
    BY <1>7, <2>2, <2>3, <2>4 DEF PopRequest
<1>8. CASE CheckPipeline
  BY <1>8 DEF CheckPipeline, SkipRequest, NextRequest, MoreRequests
<1>9. CASE StartKeep
  BY <1>9 DEF StartKeep
<1>10. CASE StartReconfigure
  BY <1>10 DEF StartReconfigure
<1>11. CASE Restarted
  BY <1>11 DEF Restarted
<1>12. CASE StartFailed
  BY <1>12 DEF StartFailed
<1>13. ASSUME NEW s \in Streams, AcquireFrame(s)
      PROVE  InRange'
  BY <1>13 DEF AcquireFrame
<1>14. ASSUME NEW s \in Streams, AcquireTimeout(s)
      PROVE  InRange'
  BY <1>14 DEF AcquireTimeout
<1>15. ASSUME NEW s \in Streams, AcquireNull(s)
      PROVE  InRange'
  BY <1>15 DEF AcquireNull, NextRequest, MoreRequests
<1>16. CASE FeedImage
  <2> DEFINE i == [frame |-> workFrame, idx |-> workIdx, bufs |-> workBufs]
  <2>1. i \in Image
    BY <1>16 DEF FeedImage, Image, IInv, TypeOK, Frames
  <2>2. \A j \in 1..Len(imgList') : imgList'[j] = IF j = Len(imgList) + 1 THEN i ELSE imgList[j]
    BY <1>16, <2>1, AppendImage DEF FeedImage
  <2>3. Len(imgList') = Len(imgList) + 1
    BY <1>16, <2>1, AppendImage DEF FeedImage
  <2>4. i.frame = workFrame /\ i.idx = workIdx
    OBVIOUS
  <2> HIDE DEF i
  <2>5. \A j \in 1..Len(imgList') :
          imgList'[j].frame <= workFrame /\ imgList'[j].idx <= Len(batch[imgList'[j].frame])
    BY <1>16, <2>2, <2>3, <2>4 DEF FeedImage
  <2>6. workPc' \in Handling => workFrame >= 1 /\ workIdx' <= Len(batch[workFrame])
    BY <1>16 DEF FeedImage, NextRequest, MoreRequests, Frames
  <2> QED
    BY <1>16, <2>5, <2>6 DEF FeedImage, NextRequest
<1>17. CASE FinishRequest
  BY <1>17 DEF FinishRequest
<1>18. CASE PopImage
  <2>1. /\ imgCur' \in Image /\ imgCur' = imgList[1] /\ Len(imgList) >= 1
        /\ Len(imgList') = Len(imgList) - 1
        /\ \A j \in 1..Len(imgList') : imgList'[j] = imgList[j + 1]
    BY <1>18, TakeImage DEF PopImage
  <2> QED
    BY <1>18, <2>1 DEF PopImage
<1>19. CASE CheckImage
  BY <1>19 DEF CheckImage, ErrorPath
<1>20. CASE ProcessImage
  BY <1>20 DEF ProcessImage
<1>21. CASE ReturnBuffers
  BY <1>21 DEF ReturnBuffers
<1>22. CASE SendResult
  BY <1>22 DEF SendResult
<1>23. CASE CountImage
  BY <1>23 DEF CountImage
<1>24. CASE NotifyError
  BY <1>24 DEF NotifyError
<1>25. CASE ReleaseImage
  BY <1>25 DEF ReleaseImage, NoImage
<1>26. CASE DeleteSession
  BY <1>26 DEF DeleteSession
<1>27. CASE ImgProcExit
  BY <1>27 DEF ImgProcExit
<1>28. CASE WorkExit
  BY <1>28 DEF WorkExit
<1>29. CASE StopStreams
  BY <1>29 DEF StopStreams
<1>30. CASE UNCHANGED vars
  BY <1>30 DEF vars
<1> QED
  BY <1>1, <1>2, <1>3, <1>4, <1>5, <1>6, <1>7, <1>8, <1>9, <1>10, <1>11, <1>12, <1>13,
     <1>14, <1>15, <1>16, <1>17, <1>18, <1>19, <1>20, <1>21, <1>22, <1>23, <1>24, <1>25,
     <1>26, <1>27, <1>28, <1>29, <1>30
  DEF Next, Framework, DestroySteps, DeleteSteps, HandleRequest, HandleImage

(* When drainImages lets its caller go on, no image is left uncounted.     *)
LEMMA NoImageWhenDrained ==
  ASSUME TypeOK, ImageCount, Drained
  PROVE  imgList = <<>> /\ Len(imgList) = 0 /\ imgPc \notin Uncounted
<1>1. Len(imgList) \in Nat /\ procd \in Nat /\ imgList \in Seq(Image)
  BY DEF TypeOK
<1>2. Len(imgList) = 0 /\ imgPc \notin Uncounted
  BY <1>1 DEF ImageCount, Drained
<1> QED
  BY <1>1, <1>2, EmptySeq

(* What is in flight has its PipelineInfo. *)
LEMMA LiveStep ==
  ASSUME IInv, [Next]_vars
  PROVE  Live'
<1> USE DEF Live, Started, Uncounted, CurRequest, ImgPid, pipeVars, reqVars, workVars, imgVars
<1>a. Live
  BY DEF IInv
<1> USE <1>a
<1>1. ASSUME NEW logical \in {FALSE, HasPhysical}, ConfigurePipeline(logical)
      PROVE  Live'
  BY <1>1 DEF ConfigurePipeline
<1>2. CASE BuildPipelines
  BY <1>2 DEF BuildPipelines
<1>3. ASSUME NEW n \in 1..MaxBatch,
             NEW reqs \in [1..n -> [pid: 0..MaxPipeline, outs: Outputs]],
             SubmitRequests(reqs)
      PROVE  Live'
  <2>1. \A f \in Frames : f <= workFrame => batch'[f] = batch[f]
    BY <1>3 DEF SubmitRequests, IInv, TypeOK, Counting, Frames
  <2>2. \A j \in 1..Len(imgList) : batch'[imgList[j].frame] = batch[imgList[j].frame]
    <3> TAKE j \in 1..Len(imgList)
    <3>1. imgList[j] \in Image /\ imgList[j].frame <= workFrame
      BY DEF IInv, TypeOK, InRange
    <3> QED
      BY <2>1, <3>1 DEF Image
  <2>3. imgPc \in Uncounted => batch'[imgCur.frame] = batch[imgCur.frame]
    BY <2>1 DEF IInv, InRange, ImgBusy, Image
  <2>4. workPc \in Started => batch'[workFrame] = batch[workFrame]
    <3>1. workPc \in Started => workFrame >= 1
      BY DEF IInv, InRange, Handling
    <3>2. workFrame \in 0..MaxFrame /\ MaxFrame \in Nat
      BY SessionAssumption DEF IInv, TypeOK
    <3> QED
      BY <2>1, <3>1, <3>2 DEF Frames
  <2> QED
    BY <1>3, <2>2, <2>3, <2>4 DEF SubmitRequests
<1>4. CASE DestroyPipelines
  BY <1>4 DEF DestroyPipelines
<1>5. CASE DestroyRequestsDone
  BY <1>5 DEF DestroyRequestsDone
<1>6. CASE DestroyDrained
  BY <1>6, IdleWhenDrained, NoImageWhenDrained DEF DestroyDrained, IInv
<1>7. CASE PopRequest
  BY <1>7 DEF PopRequest
<1>8. CASE CheckPipeline
  BY <1>8 DEF CheckPipeline, SkipRequest, NextRequest, MoreRequests
<1>9. CASE StartKeep
  BY <1>9 DEF StartKeep
<1>10. CASE StartReconfigure
  BY <1>10 DEF StartReconfigure
<1>11. CASE Restarted
  BY <1>11 DEF Restarted
<1>12. CASE StartFailed
  BY <1>12 DEF StartFailed
<1>13. ASSUME NEW s \in Streams, AcquireFrame(s)
      PROVE  Live'
  BY <1>13 DEF AcquireFrame
<1>14. ASSUME NEW s \in Streams, AcquireTimeout(s)
      PROVE  Live'
  BY <1>14 DEF AcquireTimeout
<1>15. ASSUME NEW s \in Streams, AcquireNull(s)
      PROVE  Live'
  BY <1>15 DEF AcquireNull, NextRequest, MoreRequests
<1>16. CASE FeedImage
  <2> DEFINE i == [frame |-> workFrame, idx |-> workIdx, bufs |-> workBufs]
  <2>1. i \in Image
    BY <1>16 DEF FeedImage, Image, IInv, TypeOK, Frames, InRange, Handling
  <2>2. /\ \A j \in 1..Len(imgList') : imgList'[j] = IF j = Len(imgList) + 1 THEN i ELSE imgList[j]
        /\ Len(imgList') = Len(imgList) + 1 /\ Len(imgList) \in Nat
    BY <1>16, <2>1, AppendImage DEF FeedImage, IInv, TypeOK
  <2>3. i.frame = workFrame /\ i.idx = workIdx
    OBVIOUS
  <2> HIDE DEF i
  <2>4. \A j \in 1..Len(imgList') : batch[imgList'[j].frame][imgList'[j].idx].pid \in pipelines
    BY <1>16, <2>2, <2>3 DEF FeedImage
  <2> QED
    BY <1>16, <2>4 DEF FeedImage, NextRequest
<1>17. CASE FinishRequest
  BY <1>17 DEF FinishRequest
<1>18. CASE PopImage
  <2>1. /\ imgCur' = imgList[1] /\ Len(imgList) >= 1
        /\ Len(imgList') = Len(imgList) - 1 /\ Len(imgList) \in Nat
        /\ \A j \in 1..Len(imgList') : imgList'[j] = imgList[j + 1]
    BY <1>18, TakeImage DEF PopImage, IInv, TypeOK
  <2> QED
    BY <1>18, <2>1 DEF PopImage
<1>19. CASE CheckImage
  BY <1>19 DEF CheckImage, ErrorPath
<1>20. CASE ProcessImage
  BY <1>20 DEF ProcessImage
<1>21. CASE ReturnBuffers
  BY <1>21 DEF ReturnBuffers
<1>22. CASE SendResult
  BY <1>22 DEF SendResult
<1>23. CASE CountImage
  BY <1>23 DEF CountImage
<1>24. CASE NotifyError
  BY <1>24 DEF NotifyError
<1>25. CASE ReleaseImage
  BY <1>25 DEF ReleaseImage
<1>26. CASE DeleteSession
  BY <1>26 DEF DeleteSession
<1>27. CASE ImgProcExit
  BY <1>27 DEF ImgProcExit
<1>28. CASE WorkExit
  BY <1>28 DEF WorkExit
<1>29. CASE StopStreams
  BY <1>29 DEF StopStreams
<1>30. CASE UNCHANGED vars
  BY <1>30 DEF vars
<1> QED
  BY <1>1, <1>2, <1>3, <1>4, <1>5, <1>6, <1>7, <1>8, <1>9, <1>10, <1>11, <1>12, <1>13,
     <1>14, <1>15, <1>16, <1>17, <1>18, <1>19, <1>20, <1>21, <1>22, <1>23, <1>24, <1>25,
     <1>26, <1>27, <1>28, <1>29, <1>30
  DEF Next, Framework, DestroySteps, DeleteSteps, HandleRequest, HandleImage

(* The counters of the images. *)
LEMMA ImageCountStep ==
  ASSUME IInv, [Next]_vars
  PROVE  ImageCount'
<1> USE DEF ImageCount, Uncounted, pipeVars, reqVars, workVars, imgVars
<1>a. /\ ImageCount /\ imgPc \in ImgPcs
      /\ latest \in Nat /\ procd \in Nat /\ Len(imgList) \in Nat
  BY DEF IInv, TypeOK
<1> USE <1>a
<1>1. ASSUME NEW logical \in {FALSE, HasPhysical}, ConfigurePipeline(logical)
      PROVE  ImageCount'
  BY <1>1 DEF ConfigurePipeline
<1>2. CASE BuildPipelines
  BY <1>2 DEF BuildPipelines
<1>3. ASSUME NEW n \in 1..MaxBatch,
             NEW reqs \in [1..n -> [pid: 0..MaxPipeline, outs: Outputs]],
             SubmitRequests(reqs)
      PROVE  ImageCount'
  BY <1>3 DEF SubmitRequests
<1>4. CASE DestroyPipelines
  BY <1>4 DEF DestroyPipelines
<1>5. CASE DestroyRequestsDone
  BY <1>5 DEF DestroyRequestsDone
<1>6. CASE DestroyDrained
  BY <1>6 DEF DestroyDrained
<1>7. CASE PopRequest
  BY <1>7 DEF PopRequest
<1>8. CASE CheckPipeline
  BY <1>8 DEF CheckPipeline
<1>9. CASE StartKeep
  BY <1>9 DEF StartKeep
<1>10. CASE StartReconfigure
  BY <1>10 DEF StartReconfigure
<1>11. CASE Restarted
  BY <1>11 DEF Restarted
<1>12. CASE StartFailed
  BY <1>12 DEF StartFailed
<1>13. ASSUME NEW s \in Streams, AcquireFrame(s)
      PROVE  ImageCount'
  BY <1>13 DEF AcquireFrame
<1>14. ASSUME NEW s \in Streams, AcquireTimeout(s)
      PROVE  ImageCount'
  BY <1>14 DEF AcquireTimeout
<1>15. ASSUME NEW s \in Streams, AcquireNull(s)
      PROVE  ImageCount'
  BY <1>15 DEF AcquireNull
<1>16. CASE FeedImage
  <2> DEFINE i == [frame |-> workFrame, idx |-> workIdx, bufs |-> workBufs]
  <2>1. i \in Image
    BY <1>16 DEF FeedImage, Image, IInv, TypeOK, Frames, InRange, Handling
  <2>2. /\ \A j \in 1..Len(imgList') : imgList'[j] = IF j = Len(imgList) + 1 THEN i ELSE imgList[j]
        /\ Len(imgList') = Len(imgList) + 1 /\ Len(imgList) \in Nat
    BY <1>16, <2>1, AppendImage DEF FeedImage, IInv, TypeOK
  <2>3. i.frame = workFrame /\ i.idx = workIdx
    OBVIOUS
  <2> HIDE DEF i
  <2> QED
    BY <1>16, <2>2 DEF FeedImage
<1>17. CASE FinishRequest
  BY <1>17 DEF FinishRequest
<1>18. CASE PopImage
  <2>1. /\ imgCur' = imgList[1] /\ Len(imgList) >= 1
        /\ Len(imgList') = Len(imgList) - 1 /\ Len(imgList) \in Nat
        /\ \A j \in 1..Len(imgList') : imgList'[j] = imgList[j + 1]
    BY <1>18, TakeImage DEF PopImage, IInv, TypeOK
  <2> QED
    BY <1>18, <2>1 DEF PopImage
<1>19. CASE CheckImage
  BY <1>19 DEF CheckImage, ErrorPath, IInv, Live
<1>20. CASE ProcessImage
  BY <1>20 DEF ProcessImage
<1>21. CASE ReturnBuffers
  BY <1>21 DEF ReturnBuffers
<1>22. CASE SendResult
  BY <1>22 DEF SendResult
<1>23. CASE CountImage
  BY <1>23 DEF CountImage
<1>24. CASE NotifyError
  BY <1>24 DEF NotifyError
<1>25. CASE ReleaseImage
  BY <1>25 DEF ReleaseImage
<1>26. CASE DeleteSession
  BY <1>26 DEF DeleteSession
<1>27. CASE ImgProcExit
  BY <1>27 DEF ImgProcExit
<1>28. CASE WorkExit
  BY <1>28 DEF WorkExit
<1>29. CASE StopStreams
  BY <1>29 DEF StopStreams
<1>30. CASE UNCHANGED vars
  BY <1>30 DEF vars
<1> QED
  BY <1>1, <1>2, <1>3, <1>4, <1>5, <1>6, <1>7, <1>8, <1>9, <1>10, <1>11, <1>12, <1>13,
     <1>14, <1>15, <1>16, <1>17, <1>18, <1>19, <1>20, <1>21, <1>22, <1>23, <1>24, <1>25,
     <1>26, <1>27, <1>28, <1>29, <1>30
  DEF Next, Framework, DestroySteps, DeleteSteps, HandleRequest, HandleImage

(* The session's initial state satisfies the inductive invariants.         *)
LEMMA InitIInv == Init => IInv /\ Order /\ Vectors
<1> SUFFICES ASSUME Init PROVE IInv /\ Order /\ Vectors
  OBVIOUS
<1> USE SessionAssumption DEF Init
<1>1. TypeOK
  <2>1. batch \in [Frames -> Seq(Request)] /\ imgList \in Seq(Image)
    BY EmptySeq
  <2>2. answer \in [Refs -> Answers]
    BY DEF Answers
  <2>3. imgCur \in [frame: Nat, idx: Nat, bufs: SUBSET Streams]
    BY DEF NoImage
  <2>4. held \in [Streams -> Int]
    OBVIOUS
  <2>5. nextFrame \in 1..(MaxFrame + 1) /\ workFrame \in 0..MaxFrame /\ workIdx \in 1..MaxBatch
    OBVIOUS
  <2>6. workPc \in WorkPcs /\ imgPc \in ImgPcs
    BY DEF WorkPcs, ImgPcs
  <2> QED
    BY <2>1, <2>2, <2>3, <2>4, <2>5, <2>6 DEF TypeOK
<1>2. Counting /\ Life /\ Live /\ ImageCount
  BY DEF Counting, Life, Live, ImageCount, Handling, Started, Uncounted
<1>3. InRange
  BY DEF InRange, Handling, ImgBusy, Frames
<1>4. Order /\ Vectors
  BY DEF Order, Vectors, VectorAlive, Handling, ImgBusy
<1> QED
  BY <1>1, <1>2, <1>3, <1>4 DEF IInv

(* Every step of every thread keeps the inductive invariant.               *)
LEMMA IInvStep == IInv /\ [Next]_vars => IInv'
  BY TypeStep, CountingStep, LifeStep, InRangeStep, LiveStep, ImageCountStep DEF IInv

(* The counters of requests and images and the objects they protect agree  *)
(* in every reachable state.                                               *)
THEOREM Invariance == Spec => []IInv
<1>1. Init => IInv
  BY InitIInv
<1> QED
  BY <1>1, IInvStep, PTL DEF Spec

(* Every variable keeps its type; HandleRequest stays within its vector.   *)
THEOREM Typing == Spec => []TypeOK
<1>1. IInv => TypeOK
  BY DEF IInv
<1> QED
  BY <1>1, Invariance, PTL

(* DestroyPipelines leaves its first loop only when WorkThread handles     *)
(* nothing and map_frame_request is empty.                                 *)
THEOREM DestroyWaits == Spec => []DestroyFindsIdle
<1>1. IInv => DestroyFindsIdle
  BY IdleWhenDrained DEF DestroyFindsIdle
<1> QED
  BY <1>1, Invariance, PTL

(* drainImages returns only when no image can still be read from its v4l2  *)
(* buffers.                                                                *)
THEOREM DrainIsSafe == Spec => []DrainedBuffersUnused
<1>1. IInv => DrainedBuffersUnused
  BY NoImageWhenDrained DEF IInv, DrainedBuffersUnused, ImgUsesBuffers, Uncounted
<1> QED
  BY <1>1, Invariance, PTL

(* HandleImage answers the framework through a PipelineInfo that is still  *)
(* allocated.                                                              *)
THEOREM CallbacksAreLive == Spec => []PipelineInfoLive
<1>1. IInv => PipelineInfoLive
  BY DEF IInv, Live, PipelineInfoLive, Uncounted
<1> QED
  BY <1>1, Invariance, PTL

(* A request that is before another one is before that one's successor.    *)
LEMMA BeforeNext ==
  ASSUME NEW f \in Int, NEW g \in Int, NEW i \in Int, NEW k \in Int, Before(<<f, i>>, <<g, k>>)
  PROVE  Before(<<f, i>>, <<g, k + 1>>)
  BY DEF Before

(* Going on to the frame's next request keeps the order.                   *)
LEMMA OrderNext ==
  ASSUME IInv, Order, workPc \in Handling, NextRequest, UNCHANGED <<imgList, imgPc, imgCur>>
  PROVE  Order'
<1>1. workFrame \in Int /\ workIdx \in Int
  BY SessionAssumption DEF IInv, TypeOK
<1>2. workPc' \in Handling => workIdx' = workIdx + 1 /\ workFrame' = workFrame
  BY DEF NextRequest, Handling
<1>3. \A j \in 1..Len(imgList) : Before(Ref(imgList[j]), <<workFrame, workIdx + 1>>)
  <2> TAKE j \in 1..Len(imgList)
  <2>1. imgList[j] \in Image
    BY DEF IInv, TypeOK
  <2>2. imgList[j].frame \in Int /\ imgList[j].idx \in Int
    BY <2>1, SessionAssumption DEF Image, Frames
  <2> QED
    BY <1>1, <2>2, BeforeNext DEF Ref, Order
<1>4. ImgBusy => Before(Ref(imgCur), <<workFrame, workIdx + 1>>)
  <2>1. imgCur.frame \in Int /\ imgCur.idx \in Int
    BY DEF IInv, TypeOK
  <2> QED
    BY <1>1, <2>1, BeforeNext DEF Ref, Order
<1> QED
  BY <1>2, <1>3, <1>4 DEF Order, ImgBusy

(* Images are fed and processed in the order of their requests. *)
LEMMA OrderStep ==
  ASSUME IInv, Order, [Next]_vars
  PROVE  Order'
<1> USE DEF Order, Handling, ImgBusy, pipeVars, reqVars, workVars, imgVars
<1>a. /\ workFrame \in Int /\ workIdx \in Int
      /\ Len(imgList) \in Nat
  BY SessionAssumption DEF IInv, TypeOK
<1>d. workFrame' \in Int /\ workIdx' \in Int
  BY TypeStep, SessionAssumption DEF TypeOK
<1>b. \A j \in 1..Len(imgList) : /\ imgList[j].frame \in Int /\ imgList[j].idx \in Int
                                 /\ imgList[j].frame <= workFrame
  <2> TAKE j \in 1..Len(imgList)
  <2>1. imgList[j] \in Image /\ imgList[j].frame <= workFrame
    BY DEF IInv, TypeOK, InRange
  <2> QED
    BY <2>1, SessionAssumption DEF Image, Frames
<1>c. imgCur.frame \in Int /\ imgCur.idx \in Int /\ (ImgBusy => imgCur.frame <= workFrame)
  BY DEF IInv, TypeOK, InRange
<1> USE <1>a, <1>b, <1>c
<1>1. ASSUME NEW logical \in {FALSE, HasPhysical}, ConfigurePipeline(logical)
      PROVE  Order'
  BY <1>1 DEF ConfigurePipeline
<1>2. CASE BuildPipelines
  BY <1>2 DEF BuildPipelines
<1>3. ASSUME NEW n \in 1..MaxBatch,
             NEW reqs \in [1..n -> [pid: 0..MaxPipeline, outs: Outputs]],
             SubmitRequests(reqs)
      PROVE  Order'
  BY <1>3 DEF SubmitRequests
<1>4. CASE DestroyPipelines
  BY <1>4 DEF DestroyPipelines
<1>5. CASE DestroyRequestsDone
  BY <1>5 DEF DestroyRequestsDone
<1>6. CASE DestroyDrained
  BY <1>6 DEF DestroyDrained
<1>7. CASE PopRequest
  <2>1. workFrame < workFrame'
    BY <1>7 DEF PopRequest, IInv, Counting
  <2>2. \A j \in 1..Len(imgList) : Before(Ref(imgList[j]), <<workFrame', workIdx'>>)
    <3> TAKE j \in 1..Len(imgList)
    <3>1. imgList[j].frame \in Int /\ imgList[j].frame < workFrame'
      BY <1>d, <2>1
    <3> QED
      BY <3>1 DEF Ref, Before
  <2>3. ImgBusy => Before(Ref(imgCur), <<workFrame', workIdx'>>)
    <3>1. ImgBusy => imgCur.frame < workFrame'
      BY <1>d, <2>1
    <3> QED
      BY <3>1 DEF Ref, Before
  <2> QED
    BY <1>7, <2>2, <2>3 DEF PopRequest
<1>8. CASE CheckPipeline
  <2>1. CASE UNCHANGED workFrame /\ UNCHANGED workIdx
    BY <1>8, <2>1 DEF CheckPipeline
  <2>2. CASE NextRequest
    BY <1>8, <2>2, OrderNext DEF CheckPipeline
  <2> QED
    BY <1>8, <2>1, <2>2 DEF CheckPipeline, SkipRequest
<1>9. CASE StartKeep
  BY <1>9 DEF StartKeep
<1>10. CASE StartReconfigure
  BY <1>10 DEF StartReconfigure
<1>11. CASE Restarted
  BY <1>11 DEF Restarted
<1>12. CASE StartFailed
  BY <1>12 DEF StartFailed
<1>13. ASSUME NEW s \in Streams, AcquireFrame(s)
      PROVE  Order'
  BY <1>13 DEF AcquireFrame
<1>14. ASSUME NEW s \in Streams, AcquireTimeout(s)
      PROVE  Order'
  BY <1>14 DEF AcquireTimeout
<1>15. ASSUME NEW s \in Streams, AcquireNull(s)
      PROVE  Order'
  <2>1. CASE UNCHANGED workFrame /\ UNCHANGED workIdx
    BY <1>15, <2>1 DEF AcquireNull
  <2>2. CASE NextRequest
    BY <1>15, <2>2, OrderNext DEF AcquireNull
  <2> QED
    BY <1>15, <2>1, <2>2 DEF AcquireNull
<1>16. CASE FeedImage
  <2> DEFINE i == [frame |-> workFrame, idx |-> workIdx, bufs |-> workBufs]
  <2>1. i \in Image
    BY <1>16 DEF FeedImage, Image, IInv, TypeOK, Frames, InRange, Handling
  <2>2. /\ \A j \in 1..Len(imgList') : imgList'[j] = IF j = Len(imgList) + 1 THEN i ELSE imgList[j]
        /\ Len(imgList') = Len(imgList) + 1 /\ Len(imgList) \in Nat
    BY <1>16, <2>1, AppendImage DEF FeedImage, IInv, TypeOK
  <2>3. i.frame = workFrame /\ i.idx = workIdx
    OBVIOUS
  <2> HIDE DEF i
  <2>a. Ref(i) = <<workFrame, workIdx>>
    BY <2>3 DEF Ref
  <2>4. \A j \in 1..Len(imgList) : Before(Ref(imgList[j]), <<workFrame, workIdx>>)
    BY <1>16 DEF FeedImage
  <2>5. ImgBusy => Before(Ref(imgCur), <<workFrame, workIdx>>)
    BY <1>16 DEF FeedImage
  <2>6. \A j, k \in 1..Len(imgList') : j < k => Before(Ref(imgList'[j]), Ref(imgList'[k]))
    <3> TAKE j, k \in 1..Len(imgList')
    <3> HAVE j < k
    <3>1. j \in 1..Len(imgList) /\ imgList'[j] = imgList[j]
      BY <2>2
    <3>2. CASE k = Len(imgList) + 1
      BY <2>2, <2>a, <2>4, <3>1, <3>2
    <3>3. CASE k # Len(imgList) + 1
      <4>1. k \in 1..Len(imgList) /\ imgList'[k] = imgList[k]
        BY <2>2, <3>3
      <4> QED
        BY <3>1, <4>1
    <3> QED
      BY <3>2, <3>3
  <2>7. ImgBusy => \A j \in 1..Len(imgList') : Before(Ref(imgCur), Ref(imgList'[j]))
    <3> HAVE ImgBusy
    <3> TAKE j \in 1..Len(imgList')
    <3>1. CASE j = Len(imgList) + 1
      BY <2>2, <2>a, <2>5, <3>1
    <3>2. CASE j # Len(imgList) + 1
      <4>1. j \in 1..Len(imgList) /\ imgList'[j] = imgList[j]
        BY <2>2, <3>2
      <4> QED
        BY <4>1
    <3> QED
      BY <3>1, <3>2
  <2>8. workPc' \in Handling => workIdx' = workIdx + 1 /\ workFrame' = workFrame
    BY <1>16 DEF FeedImage, NextRequest, MoreRequests
  <2>9. workPc' \in Handling =>
          \A j \in 1..Len(imgList') : Before(Ref(imgList'[j]), <<workFrame', workIdx'>>)
    BY <2>2, <2>a, <2>4, <2>8 DEF Before, Ref
  <2> QED
    BY <1>16, <2>5, <2>6, <2>7, <2>8, <2>9 DEF FeedImage, Before, Ref
<1>17. CASE FinishRequest
  BY <1>17 DEF FinishRequest
<1>18. CASE PopImage
  <2>1. /\ imgCur' = imgList[1] /\ Len(imgList) >= 1
        /\ Len(imgList') = Len(imgList) - 1 /\ Len(imgList) \in Nat
        /\ \A j \in 1..Len(imgList') : imgList'[j] = imgList[j + 1]
    BY <1>18, TakeImage DEF PopImage, IInv, TypeOK
  <2>2. \A j, k \in 1..Len(imgList') : j < k => Before(Ref(imgList'[j]), Ref(imgList'[k]))
    <3> TAKE j, k \in 1..Len(imgList')
    <3> HAVE j < k
    <3>1. j + 1 \in 1..Len(imgList) /\ k + 1 \in 1..Len(imgList) /\ j + 1 < k + 1
      BY <2>1
    <3>2. imgList'[j] = imgList[j + 1] /\ imgList'[k] = imgList[k + 1]
      BY <2>1
    <3> QED
      BY <3>1, <3>2
  <2>3. \A j \in 1..Len(imgList') : Before(Ref(imgCur'), Ref(imgList'[j]))
    BY <2>1
  <2>4. workPc \in Handling =>
          /\ \A j \in 1..Len(imgList') : Before(Ref(imgList'[j]), <<workFrame, workIdx>>)
          /\ Before(Ref(imgCur'), <<workFrame, workIdx>>)
    <3>1. \A j \in 1..Len(imgList') : j + 1 \in 1..Len(imgList) /\ imgList'[j] = imgList[j + 1]
      BY <2>1
    <3>2. 1 \in 1..Len(imgList)
      BY <2>1
    <3> QED
      BY <2>1, <3>1, <3>2
  <2> QED
    BY <1>18, <2>2, <2>3, <2>4 DEF PopImage
<1>19. CASE CheckImage
  BY <1>19 DEF CheckImage, ErrorPath
<1>20. CASE ProcessImage
  BY <1>20 DEF ProcessImage
<1>21. CASE ReturnBuffers
  BY <1>21 DEF ReturnBuffers
<1>22. CASE SendResult
  BY <1>22 DEF SendResult
<1>23. CASE CountImage
  BY <1>23 DEF CountImage
<1>24. CASE NotifyError
  BY <1>24 DEF NotifyError
<1>25. CASE ReleaseImage
  BY <1>25 DEF ReleaseImage
<1>26. CASE DeleteSession
  BY <1>26 DEF DeleteSession
<1>27. CASE ImgProcExit
  BY <1>27 DEF ImgProcExit
<1>28. CASE WorkExit
  BY <1>28 DEF WorkExit
<1>29. CASE StopStreams
  BY <1>29 DEF StopStreams
<1>30. CASE UNCHANGED vars
  BY <1>30 DEF vars
<1> QED
  BY <1>1, <1>2, <1>3, <1>4, <1>5, <1>6, <1>7, <1>8, <1>9, <1>10, <1>11, <1>12, <1>13,
     <1>14, <1>15, <1>16, <1>17, <1>18, <1>19, <1>20, <1>21, <1>22, <1>23, <1>24, <1>25,
     <1>26, <1>27, <1>28, <1>29, <1>30
  DEF Next, Framework, DestroySteps, DeleteSteps, HandleRequest, HandleImage

(* A frame's vector outlives what points into it. *)
LEMMA VectorsStep ==
  ASSUME IInv, Order, Vectors, [Next]_vars
  PROVE  Vectors'
<1> USE DEF Vectors, VectorAlive, pipeVars, reqVars, workVars, imgVars
<1>a. Vectors /\ Len(imgList) \in Nat
  BY DEF IInv, TypeOK
<1> USE <1>a
<1>1. ASSUME NEW logical \in {FALSE, HasPhysical}, ConfigurePipeline(logical)
      PROVE  Vectors'
  BY <1>1 DEF ConfigurePipeline
<1>2. CASE BuildPipelines
  BY <1>2 DEF BuildPipelines
<1>3. ASSUME NEW n \in 1..MaxBatch,
             NEW reqs \in [1..n -> [pid: 0..MaxPipeline, outs: Outputs]],
             SubmitRequests(reqs)
      PROVE  Vectors'
  BY <1>3 DEF SubmitRequests
<1>4. CASE DestroyPipelines
  BY <1>4 DEF DestroyPipelines
<1>5. CASE DestroyRequestsDone
  BY <1>5 DEF DestroyRequestsDone
<1>6. CASE DestroyDrained
  BY <1>6, IdleWhenDrained, NoImageWhenDrained DEF DestroyDrained, IInv
<1>7. CASE PopRequest
  BY <1>7 DEF PopRequest
<1>8. CASE CheckPipeline
  BY <1>8 DEF CheckPipeline, SkipRequest, NextRequest, MoreRequests
<1>9. CASE StartKeep
  BY <1>9 DEF StartKeep
<1>10. CASE StartReconfigure
  BY <1>10 DEF StartReconfigure
<1>11. CASE Restarted
  BY <1>11 DEF Restarted
<1>12. CASE StartFailed
  BY <1>12 DEF StartFailed
<1>13. ASSUME NEW s \in Streams, AcquireFrame(s)
      PROVE  Vectors'
  BY <1>13 DEF AcquireFrame
<1>14. ASSUME NEW s \in Streams, AcquireTimeout(s)
      PROVE  Vectors'
  BY <1>14 DEF AcquireTimeout
<1>15. ASSUME NEW s \in Streams, AcquireNull(s)
      PROVE  Vectors'
  BY <1>15 DEF AcquireNull, NextRequest, MoreRequests
<1>16. CASE FeedImage
  <2> DEFINE i == [frame |-> workFrame, idx |-> workIdx, bufs |-> workBufs]
  <2>1. i \in Image
    BY <1>16 DEF FeedImage, Image, IInv, TypeOK, Frames, InRange, Handling
  <2>2. /\ \A j \in 1..Len(imgList') : imgList'[j] = IF j = Len(imgList) + 1 THEN i ELSE imgList[j]
        /\ Len(imgList') = Len(imgList) + 1 /\ Len(imgList) \in Nat
    BY <1>16, <2>1, AppendImage DEF FeedImage, IInv, TypeOK
  <2>3. i.frame = workFrame /\ i.idx = workIdx
    OBVIOUS
  <2> HIDE DEF i
  <2>4. \A j \in 1..Len(imgList') : imgList'[j].frame \in vecs
    BY <1>16, <2>2, <2>3 DEF FeedImage
  <2> QED
    BY <1>16, <2>4 DEF FeedImage, NextRequest
<1>17. CASE FinishRequest
  BY <1>17 DEF FinishRequest
<1>18. CASE PopImage
  <2>1. /\ imgCur' = imgList[1] /\ Len(imgList) >= 1
        /\ Len(imgList') = Len(imgList) - 1 /\ Len(imgList) \in Nat
        /\ \A j \in 1..Len(imgList') : imgList'[j] = imgList[j + 1]
    BY <1>18, TakeImage DEF PopImage, IInv, TypeOK
  <2> QED
    BY <1>18, <2>1 DEF PopImage
<1>19. CASE CheckImage
  BY <1>19 DEF CheckImage, ErrorPath
<1>20. CASE ProcessImage
  BY <1>20 DEF ProcessImage
<1>21. CASE ReturnBuffers
  BY <1>21 DEF ReturnBuffers
<1>22. CASE SendResult
  BY <1>22 DEF SendResult
<1>23. CASE CountImage
  BY <1>23 DEF CountImage
<1>24. CASE NotifyError
  BY <1>24 DEF NotifyError
<1>25. CASE ReleaseImage
  <2>1. CASE ~LastOfFrame(imgCur)
    BY <1>25, <2>1 DEF ReleaseImage
  <2>2. CASE LastOfFrame(imgCur)
    <3>1. /\ ImgBusy /\ imgCur.frame \in Int /\ imgCur.frame <= workFrame
          /\ workFrame \in Int /\ workIdx \in Int
          /\ imgCur.idx = Len(batch[imgCur.frame]) /\ imgCur.idx \in Int
      BY <1>25, <2>2 DEF ReleaseImage, LastOfFrame, ImgBusy, IInv, TypeOK, InRange
    <3>2. ASSUME NEW j \in 1..Len(imgList)
          PROVE  imgList[j].frame # imgCur.frame
      <4>1. imgList[j] \in Image /\ imgList[j].idx <= Len(batch[imgList[j].frame])
        BY DEF IInv, TypeOK, InRange
      <4>2. imgList[j].frame \in Int /\ imgList[j].idx \in Int
        BY <4>1, SessionAssumption DEF Image, Frames
      <4>3. Before(Ref(imgCur), Ref(imgList[j]))
        BY <3>1 DEF Order
      <4> QED
        BY <3>1, <4>1, <4>2, <4>3 DEF Before, Ref
    <3>3. workPc \in Handling => workFrame # imgCur.frame
      <4>1. workPc \in Handling => /\ Before(Ref(imgCur), <<workFrame, workIdx>>)
                                   /\ workIdx <= Len(batch[workFrame])
        BY <3>1 DEF Order, IInv, InRange
      <4> QED
        BY <3>1, <4>1 DEF Before, Ref
    <3>4. imgCur.frame \notin queued
      BY <3>1 DEF IInv, Counting, TypeOK
    <3> QED
      BY <1>25, <2>2, <3>2, <3>3, <3>4 DEF ReleaseImage, Handling
  <2> QED
    BY <2>1, <2>2
<1>26. CASE DeleteSession
  BY <1>26 DEF DeleteSession
<1>27. CASE ImgProcExit
  BY <1>27 DEF ImgProcExit
<1>28. CASE WorkExit
  BY <1>28 DEF WorkExit
<1>29. CASE StopStreams
  BY <1>29 DEF StopStreams
<1>30. CASE UNCHANGED vars
  BY <1>30 DEF vars
<1> QED
  BY <1>1, <1>2, <1>3, <1>4, <1>5, <1>6, <1>7, <1>8, <1>9, <1>10, <1>11, <1>12, <1>13,
     <1>14, <1>15, <1>16, <1>17, <1>18, <1>19, <1>20, <1>21, <1>22, <1>23, <1>24, <1>25,
     <1>26, <1>27, <1>28, <1>29, <1>30
  DEF Next, Framework, DestroySteps, DeleteSteps, HandleRequest, HandleImage

(* No thread follows a pointer into a vector of requests that was freed:   *)
(* releaseImgFeed frees it with the frame's last request.                  *)
THEOREM VectorsAreAlive == Spec => []VectorAlive
<1>1. Init => IInv /\ Order /\ Vectors
  BY InitIInv
<1>2. IInv /\ Order /\ Vectors /\ [Next]_vars => Order' /\ Vectors'
  BY OrderStep, VectorsStep
<1>3. Vectors => VectorAlive
  BY DEF Vectors
<1> QED
  BY <1>1, <1>2, <1>3, Invariance, PTL DEF Spec

=============================================================================
