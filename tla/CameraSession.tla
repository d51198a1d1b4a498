--------------------------- MODULE CameraSession ---------------------------
(***************************************************************************)
(* The capture session of the camera HAL, CameraDeviceSessionHwlImpl       *)
(* (src/camera/camera/CameraDeviceSessionHWLImpl.cpp).                     *)
(*                                                                         *)
(* Three kinds of thread meet in it:                                       *)
(*   - the framework's threads, which configure, build and destroy         *)
(*     pipelines, submit requests and finally delete the session;          *)
(*   - WorkThread, which runs HandleRequest: take a frame's requests from  *)
(*     map_frame_request, start the video stream, capture v4l2 buffers and *)
(*     feed one image per request to mImageList;                           *)
(*   - ImgProcThread, which runs HandleImage: take an image, process it,   *)
(*     give its v4l2 buffers back and answer the framework.                *)
(* One step of the model is one region the code runs under mLock or        *)
(* mImageListLock, or one use of an object the other threads can free.     *)
(***************************************************************************)
EXTENDS Integers, Sequences

CONSTANTS Streams,      \* the video streams (pVideoStreams), by physical id
          Main,         \* pVideoStreams[0]
          NumBuffers,   \* v4l2 buffers of a started stream (mNumBuffers)
          Outputs,      \* the sets of streams one request's output buffers may need
          HasPhysical,  \* TRUE for a logical camera (physical_meta_map_ not empty)
          Faults,       \* what the environment may do wrong, see below
          MaxFrame,     \* bound: frames submitted in a session
          MaxBatch,     \* bound: requests of one frame
          MaxPipeline   \* bound: pipelines configured in a session

(* "start": configuring or starting a stream may fail; "null":             *)
(* onFrameAcquire may return NULL; "stale": the framework may name a       *)
(* pipeline that has been destroyed.                                       *)
ASSUME SessionAssumption ==
    /\ Main \in Streams
    /\ NumBuffers \in Nat \ {0}
    /\ Outputs \subseteq (SUBSET Streams) \ {{}}
    /\ HasPhysical \in BOOLEAN
    /\ Faults \subseteq {"start", "null", "stale"}
    /\ MaxFrame \in Nat /\ MaxBatch \in Nat \ {0} /\ MaxPipeline \in Nat

Frames == 1..MaxFrame
Refs == Frames \X (1..MaxBatch)       \* one HwlPipelineRequest: frame, index
Request == [pid: Nat, outs: Outputs]
Image == [frame: Frames, idx: 1..MaxBatch, bufs: SUBSET Streams]

NoImage == [frame |-> 0, idx |-> 0, bufs |-> {}]   \* between two HandleImage

VARIABLES
  pipelines,    \* map_pipeline_info: ids of the PipelineInfo that are allocated
  nextPid,      \* pipeline_id_
  built,        \* pipelines_built_
  isLogical,    \* is_logical_request_
  batch,        \* the requests submitted for each frame
  nextFrame,    \* the framework's next frame number
  queued,       \* map_frame_request: the frames waiting in it
  inQ, deQ,     \* mInQueRequestIdx, mDeQueRequestIdx
  fences,       \* requests whose imported acquire fences are open
  vecs,         \* frames whose std::vector<FrameRequest> is allocated
  workPc,       \* where WorkThread is
  workFrame, workIdx,   \* the request HandleRequest is working on
  workTodo,     \* streams CapAndFeed still has to capture from
  workBufs,     \* streams it holds a captured buffer of
  workRestart,  \* the streams ConfigAndStart is about to restart
  recovered,    \* streams whose mRecoverCount has reached MAX_RECOVER_COUNT
  imgList,      \* mImageList
  latest, procd,        \* mLatestImageIdx, mProcdImageIdx
  imgPc, imgCur,        \* where ImgProcThread is, and its image
  held,         \* per stream, v4l2 buffers dequeued and not given back
  answer,       \* what the framework was told of each request
  destroyPc,    \* where a call of DestroyPipelines is
  sesPc         \* the session's life: open, then the steps of its destructor

pipeVars == <<pipelines, nextPid, built, isLogical>>
reqVars  == <<batch, nextFrame, queued, inQ>>
workVars == <<workPc, workFrame, workIdx, workTodo, workBufs, workRestart, recovered>>
imgVars  == <<imgPc, imgCur>>
lifeVars == <<destroyPc, sesPc>>
vars == <<pipeVars, reqVars, deQ, fences, vecs, workVars, imgList, latest,
          procd, imgVars, held, answer, lifeVars>>

(* DestroyPipelines keeps mLock while it drains the images; every other    *)
(* region under mLock is one step.                                         *)
MLockFree == destroyPc # "drain"

CurRequest == batch[workFrame][workIdx]
ImgPid == batch[imgCur.frame][imgCur.idx].pid

WorkPcs == {"idle", "check", "start", "drain", "capture", "recover", "feed",
            "finish", "dead", "exited"}
ImgPcs == {"idle", "check", "process", "return", "result", "count", "release",
           "errCount", "errNotify", "exited"}
Answers == {"none", "shutter", "result", "error", "invalid"}

-----------------------------------------------------------------------------
(* The framework's calls. *)

Init ==
    /\ pipelines = {} /\ nextPid = 0 /\ built = FALSE /\ isLogical = FALSE
    /\ batch = [f \in Frames |-> <<>>]
    /\ nextFrame = 1 /\ queued = {} /\ inQ = 0 /\ deQ = 0
    /\ fences = {} /\ vecs = {}
    /\ workPc = "idle" /\ workFrame = 0 /\ workIdx = 1
    /\ workTodo = {} /\ workBufs = {} /\ workRestart = {} /\ recovered = {}
    /\ imgList = <<>> /\ latest = 0 /\ procd = 0
    /\ imgPc = "idle" /\ imgCur = NoImage
    /\ held = [s \in Streams |-> 0]
    /\ answer = [r \in Refs |-> "none"]
    /\ destroyPc = "idle" /\ sesPc = "open"

(* A stream configuration that names physical cameras makes the requests   *)
(* logical; the configuration judged unsupported changes nothing.          *)
ConfigurePipeline(logical) ==
    /\ sesPc = "open" /\ MLockFree
    /\ ~built
    /\ nextPid < MaxPipeline
    /\ pipelines' = pipelines \cup {nextPid}
    /\ nextPid' = nextPid + 1
    /\ isLogical' = logical
    /\ UNCHANGED <<built, reqVars, deQ, fences, vecs, workVars, imgList,
                   latest, procd, imgVars, held, answer, lifeVars>>

BuildPipelines ==
    /\ sesPc = "open" /\ MLockFree
    /\ ~built /\ pipelines # {}
    /\ built' = TRUE
    /\ UNCHANGED <<pipelines, nextPid, isLogical, reqVars, deQ, fences, vecs,
                   workVars, imgList, latest, procd, imgVars, held, answer, lifeVars>>

(* The framework's side of the contract: a request names a pipeline that   *)
(* is built or, if it is late, one that is gone; it has output buffers;    *)
(* frame numbers grow.                                                     *)
Submittable(r) ==
    /\ \/ built /\ r.pid \in pipelines
       \/ "stale" \in Faults /\ r.pid < nextPid /\ r.pid \notin pipelines
    /\ ~isLogical => r.outs = {Main}

(* SubmitRequests imports the fences and allocates the vector, then queues *)
(* it under mLock. Nothing in it looks at pipelines_built_.                *)
SubmitRequests(reqs) ==
    /\ sesPc = "open" /\ MLockFree
    /\ nextFrame \in Frames
    /\ \A i \in 1..Len(reqs) : Submittable(reqs[i])
    /\ batch' = [batch EXCEPT ![nextFrame] = reqs]
    /\ fences' = fences \cup {<<nextFrame, i>> : i \in 1..Len(reqs)}
    /\ vecs' = vecs \cup {nextFrame}
    /\ queued' = queued \cup {nextFrame}
    /\ inQ' = inQ + 1
    /\ nextFrame' = nextFrame + 1
    /\ UNCHANGED <<pipeVars, deQ, workVars, imgList, latest, procd, imgVars,
                   held, answer, lifeVars>>

(* Mutant: waiting for map_frame_request to be empty is not enough, the    *)
(* frame WorkThread took from it is still being handled.                   *)
QueueEmpty == queued = {}

(* The indices agree when every request submitted was handled.             *)
RequestsHandled == deQ = inQ

(* DestroyPipelines: poll until every queued request was handled, ...      *)
DestroyPipelines ==
    /\ sesPc = "open" /\ destroyPc = "idle"
    /\ built
    /\ destroyPc' = "waitReq"
    /\ UNCHANGED <<pipeVars, reqVars, deQ, fences, vecs, workVars, imgList,
                   latest, procd, imgVars, held, answer, sesPc>>

DestroyRequestsDone ==
    /\ destroyPc = "waitReq"
    /\ RequestsHandled
    /\ destroyPc' = "drain"
    /\ UNCHANGED <<pipeVars, reqVars, deQ, fences, vecs, workVars, imgList,
                   latest, procd, imgVars, held, answer, sesPc>>

(* Mutant: an empty list, with an image still under processing.            *)
ListEmpty == imgList = <<>>

(* drainImages returns when the two image indices agree.                   *)
Drained == latest = procd

(* ... then, with mLock held, until the images are drained; then           *)
(* CleanRequestsLocked releases what is left in map_frame_request and the  *)
(* PipelineInfos are freed.                                                *)
DestroyDrained ==
    /\ destroyPc = "drain"
    /\ Drained
    /\ fences' = {r \in fences : r[1] \notin queued}
    /\ vecs' = vecs \ queued
    /\ queued' = {}
    /\ pipelines' = {} /\ built' = FALSE
    /\ destroyPc' = "idle"
    /\ UNCHANGED <<nextPid, isLogical, batch, nextFrame, inQ, deQ, workVars,
                   imgList, latest, procd, imgVars, held, answer, sesPc>>

-----------------------------------------------------------------------------
(* WorkThread: HandleRequest. *)

MoreRequests == workIdx < Len(batch[workFrame])

(* Mutant: the index moves on past the end of the vector. *)
PastTheVector ==
    /\ workIdx' = workIdx + 1
    /\ workPc' = IF MoreRequests THEN "check" ELSE "finish"
    /\ UNCHANGED workFrame

(* The next request of the vector, or the end of HandleRequest's loop.     *)
NextRequest ==
    /\ workIdx' = IF MoreRequests THEN workIdx + 1 ELSE workIdx
    /\ workPc' = IF MoreRequests THEN "check" ELSE "finish"
    /\ UNCHANGED workFrame

(* Mutant: the newest frame first.                                         *)
NewestQueued(f) == \A g \in queued : g <= f

OldestQueued(f) == \A g \in queued : f <= g

(* map_frame_request is ordered by frame number: begin() is the oldest.    *)
PopRequest ==
    /\ workPc = "idle" /\ MLockFree
    /\ \E f \in queued :
         /\ OldestQueued(f)
         /\ queued' = queued \ {f}
         /\ workFrame' = f
    /\ workIdx' = 1
    /\ workPc' = "check"
    /\ UNCHANGED <<pipeVars, batch, nextFrame, inQ, deQ, fences, vecs, workTodo,
                   workBufs, workRestart, recovered, imgList, latest, procd,
                   imgVars, held, answer, lifeVars>>

(* Mutant: leave HandleRequest instead of skipping the request.            *)
AbandonRequest ==
    /\ workPc' = "idle"
    /\ UNCHANGED <<workIdx, workFrame>>

SkipRequest == NextRequest

(* A request whose pipeline is gone is skipped: nobody answers it and its  *)
(* fences stay open.                                                       *)
CheckPipeline ==
    /\ workPc = "check"
    /\ \/ /\ CurRequest.pid \in pipelines
          /\ workPc' = "start"
          /\ UNCHANGED <<workFrame, workIdx, answer>>
       \/ /\ CurRequest.pid \notin pipelines
          /\ answer' = [answer EXCEPT ![<<workFrame, workIdx>>] = "invalid"]
          /\ SkipRequest
    /\ UNCHANGED <<pipeVars, reqVars, deQ, fences, vecs, workTodo, workBufs,
                   workRestart, recovered, imgList, latest, procd, imgVars, held, lifeVars>>

ToCapture == IF isLogical THEN CurRequest.outs ELSE {Main}

(* HandleIntent or StartStreamOnMaxConfiguredResolution: the stream runs   *)
(* with this configuration already, ...                                    *)
StartKeep ==
    /\ workPc = "start"
    /\ workPc' = "capture"
    /\ workTodo' = ToCapture
    /\ UNCHANGED <<pipeVars, reqVars, deQ, fences, vecs, workFrame, workIdx,
                   workBufs, workRestart, recovered, imgList, latest, procd,
                   imgVars, held, answer, lifeVars>>

(* ... or ConfigAndStart must (re)start it, and drains the images first.   *)
(* HandleIntent does so for every stream of a logical camera, and a stream *)
(* that runs with this configuration already is left alone.                *)
StartReconfigure ==
    /\ workPc = "start"
    /\ workPc' = "drain"
    /\ \E restart \in (SUBSET Streams) \ {{}} :
         /\ ~isLogical => restart = {Main}
         /\ workRestart' = restart
    /\ UNCHANGED <<pipeVars, reqVars, deQ, fences, vecs, workFrame, workIdx,
                   workTodo, workBufs, recovered, imgList, latest, procd,
                   imgVars, held, answer, lifeVars>>

(* onDeviceStopLocked destroys a stream's buffers. *)
Emptied == [s \in Streams |-> IF s \in workRestart THEN 0 ELSE held[s]]

(* ConfigAndStart past drainImages: the streams' buffers are destroyed and *)
(* new ones queued to the driver. For a logical camera HandleIntent        *)
(* returns what the last stream's start returned, so another one may have  *)
(* failed: the next onFrameAcquire of it returns NULL.                     *)
Restarted ==
    /\ workPc \in {"drain", "recover"}
    /\ Drained
    /\ held' = Emptied
    /\ workPc' = "capture"
    /\ workTodo' = IF workPc = "drain" THEN ToCapture ELSE workTodo
    /\ workRestart' = {}
    /\ UNCHANGED <<pipeVars, reqVars, deQ, fences, vecs, workFrame, workIdx,
                   workBufs, recovered, imgList, latest, procd,
                   imgVars, answer, lifeVars>>

(* A failed start makes HandleRequest return the error and threadLoop      *)
(* false: the thread ends and mDeQueRequestIdx keeps its value.            *)
StartFailed ==
    /\ "start" \in Faults
    /\ workPc \in {"start", "drain"}
    /\ workPc = "drain" => Drained
    /\ held' = IF workPc = "drain" THEN Emptied ELSE held
    /\ workPc' = "dead"
    /\ UNCHANGED <<pipeVars, reqVars, deQ, fences, vecs, workFrame, workIdx,
                   workTodo, workBufs, workRestart, recovered, imgList, latest,
                   procd, imgVars, answer, lifeVars>>

(* CapAndFeed, one onFrameAcquire: the driver has a filled buffer, ...     *)
AcquireFrame(s) ==
    /\ workPc = "capture" /\ s \in workTodo
    /\ held[s] < NumBuffers
    /\ held' = [held EXCEPT ![s] = @ + 1]
    /\ workBufs' = workBufs \cup {s}
    /\ workTodo' = workTodo \ {s}
    /\ recovered' = recovered \ {s}
    /\ workPc' = IF workTodo = {s} THEN "feed" ELSE "capture"
    /\ UNCHANGED <<pipeVars, reqVars, deQ, fences, vecs, workFrame, workIdx,
                   workRestart, imgList, latest, procd, imgVars, answer, lifeVars>>

(* ... or select times out: ConfigAndStart with recover, once until a      *)
(* frame arrives again, ...                                                *)
AcquireTimeout(s) ==
    /\ workPc = "capture" /\ s \in workTodo
    /\ s \notin recovered
    /\ recovered' = recovered \cup {s}
    /\ workRestart' = {s}
    /\ workPc' = "recover"
    /\ UNCHANGED <<pipeVars, reqVars, deQ, fences, vecs, workFrame, workIdx,
                   workTodo, workBufs, imgList, latest, procd, imgVars, held,
                   answer, lifeVars>>

(* ... or it returns NULL. A plain request is fed with no buffer; a        *)
(* logical one is given up: its fences are closed, the buffers captured    *)
(* for it so far are not given back, and the framework hears nothing.      *)
AcquireNull(s) ==
    /\ "null" \in Faults
    /\ workPc = "capture" /\ s \in workTodo
    /\ workTodo' = {}
    /\ workBufs' = {}
    /\ \/ /\ ~isLogical
          /\ workPc' = "feed"
          /\ UNCHANGED <<workFrame, workIdx, fences>>
       \/ /\ isLogical
          /\ fences' = fences \ {<<workFrame, workIdx>>}
          /\ NextRequest
    /\ UNCHANGED <<pipeVars, reqVars, deQ, vecs, workRestart, recovered, imgList,
                   latest, procd, imgVars, held, answer, lifeVars>>

(* ImgProcThread::feed. *)
FeedImage ==
    /\ workPc = "feed"
    /\ imgList' = Append(imgList, [frame |-> workFrame, idx |-> workIdx, bufs |-> workBufs])
    /\ latest' = latest + 1
    /\ workBufs' = {}
    /\ NextRequest
    /\ UNCHANGED <<pipeVars, reqVars, deQ, fences, vecs, workTodo, workRestart,
                   recovered, procd, imgVars, held, answer, lifeVars>>

FinishRequest ==
    /\ workPc = "finish" /\ MLockFree
    /\ deQ' = deQ + 1
    /\ workPc' = "idle"
    /\ workIdx' = 1
    /\ UNCHANGED <<pipeVars, reqVars, fences, vecs, workFrame, workTodo,
                   workBufs, workRestart, recovered, imgList, latest, procd,
                   imgVars, held, answer, lifeVars>>

HandleRequest ==
    \/ PopRequest \/ CheckPipeline \/ StartKeep \/ StartReconfigure \/ Restarted
    \/ StartFailed \/ FeedImage \/ FinishRequest
    \/ \E s \in Streams : AcquireFrame(s) \/ AcquireTimeout(s) \/ AcquireNull(s)

-----------------------------------------------------------------------------
(* ImgProcThread: HandleImage. *)

PopImage ==
    /\ imgPc = "idle" /\ imgList # <<>>
    /\ imgCur' = Head(imgList)
    /\ imgList' = Tail(imgList)
    /\ imgPc' = "check"
    /\ UNCHANGED <<pipeVars, reqVars, deQ, fences, vecs, workVars, latest, procd,
                   held, answer, lifeVars>>

(* Mutant: an image without a buffer is released and nobody is told.       *)
ReleaseUntold == "release"

ErrorPath == "errCount"

(* An image whose pipeline is gone is dropped and not counted; one that    *)
(* has no buffer takes the error path.                                     *)
CheckImage ==
    /\ imgPc = "check"
    /\ imgPc' = IF ImgPid \notin pipelines THEN "idle"
                ELSE IF imgCur.bufs = {} /\ ~isLogical THEN ErrorPath ELSE "process"
    /\ UNCHANGED <<pipeVars, reqVars, deQ, fences, vecs, workVars, imgList,
                   latest, procd, imgCur, held, answer, lifeVars>>

Answered(a) == answer' = [answer EXCEPT ![<<imgCur.frame, imgCur.idx>>] = a]

(* Notify the shutter through pInfo, then convert the captured buffer into *)
(* the output buffers.                                                     *)
ProcessImage ==
    /\ imgPc = "process"
    /\ Answered("shutter")
    /\ imgPc' = "return"
    /\ UNCHANGED <<pipeVars, reqVars, deQ, fences, vecs, workVars, imgList,
                   latest, procd, imgCur, held, lifeVars>>

(* onFrameReturn of every buffer of the image. *)
ReturnBuffers ==
    /\ imgPc = "return"
    /\ held' = [s \in Streams |-> IF s \in imgCur.bufs THEN held[s] - 1 ELSE held[s]]
    /\ imgPc' = "result"
    /\ UNCHANGED <<pipeVars, reqVars, deQ, fences, vecs, workVars, imgList,
                   latest, procd, imgCur, answer, lifeVars>>

(* process_pipeline_result, through pInfo. *)
SendResult ==
    /\ imgPc = "result"
    /\ Answered("result")
    /\ imgPc' = "count"
    /\ UNCHANGED <<pipeVars, reqVars, deQ, fences, vecs, workVars, imgList,
                   latest, procd, imgCur, held, lifeVars>>

CountImage ==
    /\ imgPc \in {"count", "errCount"}
    /\ procd' = procd + 1
    /\ imgPc' = IF imgPc = "count" THEN "release" ELSE "errNotify"
    /\ UNCHANGED <<pipeVars, reqVars, deQ, fences, vecs, workVars, imgList,
                   latest, imgCur, held, answer, lifeVars>>

(* The error notification, through pInfo, comes after the count. *)
NotifyError ==
    /\ imgPc = "errNotify"
    /\ Answered("error")
    /\ imgPc' = "release"
    /\ UNCHANGED <<pipeVars, reqVars, deQ, fences, vecs, workVars, imgList,
                   latest, procd, imgCur, held, lifeVars>>

(* Mutants: the index compared with the wrong end of the vector.           *)
FirstOfFrame(i) == i.idx = 1
PastTheLast(i) == i.idx = Len(batch[i.frame]) + 1

LastOfFrame(i) == i.idx = Len(batch[i.frame])

(* releaseImgFeed: close the request's fences; the last request of a frame *)
(* frees the frame's vector.                                               *)
ReleaseImage ==
    /\ imgPc = "release"
    /\ fences' = fences \ {<<imgCur.frame, imgCur.idx>>}
    /\ vecs' = IF LastOfFrame(imgCur) THEN vecs \ {imgCur.frame} ELSE vecs
    /\ imgPc' = "idle"
    /\ imgCur' = NoImage
    /\ UNCHANGED <<pipeVars, reqVars, deQ, workVars, imgList, latest, procd,
                   held, answer, lifeVars>>

HandleImage ==
    \/ PopImage \/ CheckImage \/ ProcessImage \/ ReturnBuffers \/ SendResult
    \/ CountImage \/ NotifyError \/ ReleaseImage

-----------------------------------------------------------------------------
(* ~CameraDeviceSessionHwlImpl: end ImgProcThread, then WorkThread, then   *)
(* stop and close the streams. The framework destroys the pipelines first. *)

DeleteSession ==
    /\ sesPc = "open" /\ destroyPc = "idle"
    /\ ~built
    /\ sesPc' = "exitImg"
    /\ UNCHANGED <<pipeVars, reqVars, deQ, fences, vecs, workVars, imgList,
                   latest, procd, imgVars, held, answer, destroyPc>>

ImgProcExit ==
    /\ sesPc = "exitImg" /\ imgPc = "idle"
    /\ imgPc' = "exited"
    /\ sesPc' = "exitWork"
    /\ UNCHANGED <<pipeVars, reqVars, deQ, fences, vecs, workVars, imgList,
                   latest, procd, imgCur, held, answer, destroyPc>>

WorkExit ==
    /\ sesPc = "exitWork" /\ workPc \in {"idle", "dead"}
    /\ workPc' = "exited"
    /\ sesPc' = "stop"
    /\ UNCHANGED <<pipeVars, reqVars, deQ, fences, vecs, workFrame, workIdx,
                   workTodo, workBufs, workRestart, recovered, imgList, latest,
                   procd, imgVars, held, answer, destroyPc>>

StopStreams ==
    /\ sesPc = "stop"
    /\ held' = [s \in Streams |-> 0]
    /\ sesPc' = "gone"
    /\ UNCHANGED <<pipeVars, reqVars, deQ, fences, vecs, workVars, imgList,
                   latest, procd, imgVars, answer, destroyPc>>

Framework ==
    \/ \E logical \in {FALSE, HasPhysical} : ConfigurePipeline(logical)
    \/ BuildPipelines
    \/ \E n \in 1..MaxBatch : \E reqs \in [1..n -> [pid: 0..MaxPipeline, outs: Outputs]] :
         SubmitRequests(reqs)
    \/ DestroyPipelines
    \/ DeleteSession

DestroySteps == DestroyRequestsDone \/ DestroyDrained
DeleteSteps == ImgProcExit \/ WorkExit \/ StopStreams

Next == Framework \/ DestroySteps \/ DeleteSteps \/ HandleRequest \/ HandleImage

Spec == Init /\ [][Next]_vars

(* The two threads and a call that was made keep running; nothing obliges  *)
(* the framework to make one.                                              *)
FairSpec ==
    /\ Spec
    /\ WF_vars(HandleRequest)
    /\ WF_vars(HandleImage)
    /\ WF_vars(DestroySteps)
    /\ WF_vars(DeleteSteps)

-----------------------------------------------------------------------------
(* Properties. *)

(* Every variable has its type; HandleRequest stays within its vector.     *)
TypeOK ==
    /\ pipelines \subseteq Nat /\ nextPid \in Nat
    /\ built \in BOOLEAN /\ isLogical \in BOOLEAN
    /\ batch \in [Frames -> Seq(Request)]
    /\ nextFrame \in 1..(MaxFrame + 1) /\ queued \subseteq Frames
    /\ inQ \in Nat /\ deQ \in Nat
    /\ fences \subseteq Refs /\ vecs \subseteq Frames
    /\ workPc \in WorkPcs /\ workFrame \in 0..MaxFrame /\ workIdx \in 1..MaxBatch
    /\ workTodo \subseteq Streams /\ workBufs \subseteq Streams
    /\ workRestart \subseteq Streams /\ recovered \subseteq Streams
    /\ imgList \in Seq(Image) /\ latest \in Nat /\ procd \in Nat
    /\ imgPc \in ImgPcs /\ imgCur \in [frame: Nat, idx: Nat, bufs: SUBSET Streams]
    /\ held \in [Streams -> Int]
    /\ answer \in [Refs -> Answers]
    /\ destroyPc \in {"idle", "waitReq", "drain"}
    /\ sesPc \in {"open", "exitImg", "exitWork", "stop", "gone"}

(* "If still has on-fly requests from map_frame_request, wait to finish":  *)
(* once DestroyPipelines has left its first loop nothing is queued and     *)
(* WorkThread handles nothing, so CleanRequestsLocked has nothing to drop. *)
DestroyFindsIdle ==
    destroyPc = "drain" => queued = {} /\ workPc = "idle"

(* ImgProcThread may still touch the v4l2 buffers of its image.            *)
ImgUsesBuffers == imgPc \in {"check", "process", "return"}

(* "Must wait all the images are processed, or v4l2 buffer maybe read      *)
(* after destroied": when drainImages lets its caller go on, no image that *)
(* refers to a v4l2 buffer is in the list or under processing.             *)
DrainedBuffersUnused ==
    Drained => /\ imgList = <<>>
               /\ ImgUsesBuffers => imgCur.bufs = {}

(* No buffer is given back to the driver twice, or after the stream was    *)
(* restarted, and no stream has more buffers out than it owns.             *)
BuffersBounded == \A s \in Streams : held[s] \in 0..NumBuffers

(* HandleImage calls the framework back, for an image it captured, through *)
(* a PipelineInfo that DestroyPipelines has not freed.                     *)
PipelineInfoLive ==
    imgPc \in {"process", "return", "result", "count"} => ImgPid \in pipelines

(* The same for the error notification of an image without a buffer.       *)
ErrorPathPipelineLive ==
    imgPc = "errNotify" => ImgPid \in pipelines

(* The vector of a frame's requests, which ImgProcThread frees, outlives   *)
(* every pointer into it: the request WorkThread works on, the images in   *)
(* the list and the one under processing.                                  *)
VectorAlive ==
    /\ workPc \in {"check", "start", "drain", "capture", "recover", "feed"} => workFrame \in vecs
    /\ \A j \in 1..Len(imgList) : imgList[j].frame \in vecs
    /\ imgPc \notin {"idle", "exited"} => imgCur.frame \in vecs

Final == {"result", "error"}
Before(r, q) == r[1] < q[1] \/ (r[1] = q[1] /\ r[2] < q[2])

(* The framework gets one final answer to a request, never taken back, and *)
(* gets them in the order the requests were submitted.                     *)
AnswersInOrder ==
    [][\A r \in Refs : answer'[r] # answer[r] =>
         /\ answer[r] \notin Final
         /\ answer'[r] \in Final => \A q \in Refs : Before(r, q) => answer[q] \notin Final]_vars

(* The requests the framework has handed over, by frame and index.         *)
Submitted == {r \in Refs : r[1] < nextFrame /\ r[2] <= Len(batch[r[1]])}

Contract == INSTANCE CaptureContract WITH
              Requests <- Refs,
              Earlier <- {p \in Refs \X Refs : Before(p[1], p[2])},
              submitted <- Submitted

(* The callbacks HandleImage makes, and the requests HandleRequest skips,  *)
(* are those of the contract: only of requests submitted, a shutter before *)
(* its result, an error alone, never of two requests mixed, in order.      *)
ContractSpec == Contract!Spec

(* A deleted session leaves open only the fences, and allocated only the   *)
(* vectors, of requests that named a destroyed pipeline or that a logical  *)
(* camera gave up.                                                         *)
NothingLeaks ==
    sesPc = "gone" =>
      /\ imgList = <<>>
      /\ \A r \in fences : r[1] \notin queued => answer[r] = "invalid"
      /\ \A f \in vecs \ queued : answer[<<f, Len(batch[f])>>] \notin Final

(* A call of DestroyPipelines returns.                                     *)
DestroyReturns == destroyPc # "idle" ~> destroyPc = "idle"

(* Every request a plain camera takes for a pipeline it has is answered,   *)
(* with a result or an error.                                              *)
RequestsAnswered ==
    \A r \in Refs :
      /\ r[1] < nextFrame /\ r[2] <= Len(batch[r[1]])
      /\ batch[r[1]][r[2]].pid \in pipelines
      ~> answer[r] \in Final
=============================================================================
