------------------------ MODULE CameraAnswersProofs ------------------------
(***************************************************************************)
(* What the framework hears of its requests from the capture session, and  *)
(* what the session leaves behind: proofs about CameraSession that rest on *)
(* the invariants of CameraSessionProofs.                                  *)
(*                                                                         *)
(* The argument. Order says that the image under processing, the images    *)
(* listed and the request worked on are in the order of submission. Told   *)
(* says what the framework knows at each of these places: nothing of what  *)
(* WorkThread has not passed or of an image listed, and of the image under *)
(* processing what its step says; of a later one nothing, unless it was    *)
(* refused. So every callback is a step of CaptureContract.                *)
(***************************************************************************)
EXTENDS CameraSessionProofs

(* WorkThread stays at its request or leaves HandleRequest's loop.         *)
WorkStays ==
    /\ workFrame' = workFrame
    /\ workPc' \in Handling => workPc \in Handling /\ workIdx' = workIdx

(* A step that moves no request on and tells the framework nothing.        *)
Aside == WorkStays /\ UNCHANGED <<imgList, imgPc, imgCur, answer>>

Untold == {"none", "invalid"}

(* Nothing is known of what WorkThread has not passed.                     *)
WorkAhead ==
    \A r \in Refs :
      (\/ r[1] > workFrame
       \/ workPc \in Handling /\ r[1] = workFrame /\ r[2] >= workIdx) => answer[r] = "none"

(* Nor of an image in the list, and of a later one at most a refusal.      *)
ListAhead ==
    \A j \in 1..Len(imgList) :
      /\ answer[Ref(imgList[j])] = "none"
      /\ \A q \in Refs : Before(Ref(imgList[j]), q) => answer[q] \in Untold

(* What is known of the image under processing depends on the step only.   *)
ImageAt ==
    /\ ImgBusy => \A q \in Refs : Before(Ref(imgCur), q) => answer[q] \in Untold
    /\ imgPc \in {"check", "process", "errCount", "errNotify"} => answer[Ref(imgCur)] = "none"
    /\ imgPc \in {"return", "result"} => answer[Ref(imgCur)] = "shutter"
    /\ imgPc \in {"count", "release"} => answer[Ref(imgCur)] \in Final

(* A shutter without its result is that of the image under processing.     *)
OneOpen ==
    \A r \in Refs : answer[r] = "shutter" => imgPc \in {"return", "result"} /\ r = Ref(imgCur)

Told == WorkAhead /\ ListAhead /\ ImageAt /\ OneOpen

-----------------------------------------------------------------------------
(* Every step that is not one of these only stands aside.                  *)
LEMMA Steps ==
  ASSUME [Next]_vars
  PROVE  \/ Aside \/ PopRequest \/ CheckPipeline \/ FeedImage
         \/ \E s \in Streams : AcquireNull(s)
         \/ HandleImage \/ ImgProcExit
<1> USE DEF Aside, WorkStays, Handling, pipeVars, reqVars, workVars, imgVars, lifeVars
<1>1. ASSUME NEW logical \in {FALSE, HasPhysical}, ConfigurePipeline(logical)
      PROVE  Aside
  BY <1>1 DEF ConfigurePipeline
<1>2. ASSUME NEW n \in 1..MaxBatch,
             NEW reqs \in [1..n -> [pid: 0..MaxPipeline, outs: Outputs]],
             SubmitRequests(reqs)
      PROVE  Aside
  BY <1>2 DEF SubmitRequests
<1>3. CASE BuildPipelines \/ DestroyPipelines \/ DeleteSession
  BY <1>3 DEF BuildPipelines, DestroyPipelines, DeleteSession
<1>4. CASE DestroySteps
  BY <1>4 DEF DestroySteps, DestroyRequestsDone, DestroyDrained
<1>5. CASE WorkExit \/ StopStreams
  BY <1>5 DEF WorkExit, StopStreams
<1>6. CASE StartKeep \/ StartReconfigure \/ Restarted \/ StartFailed \/ FinishRequest
  BY <1>6 DEF StartKeep, StartReconfigure, Restarted, StartFailed, FinishRequest
<1>7. ASSUME NEW s \in Streams, AcquireFrame(s) \/ AcquireTimeout(s)
      PROVE  Aside
  BY <1>7 DEF AcquireFrame, AcquireTimeout
<1>8. CASE UNCHANGED vars
  BY <1>8 DEF vars
<1> QED
  BY <1>1, <1>2, <1>3, <1>4, <1>5, <1>6, <1>7, <1>8
  DEF Next, Framework, DeleteSteps, HandleRequest

(* The requests at hand are requests.                                      *)
LEMMA RefsAtHand ==
  ASSUME IInv
  PROVE  /\ workPc \in Handling => <<workFrame, workIdx>> \in Refs
         /\ \A j \in 1..Len(imgList) : Ref(imgList[j]) \in Refs
         /\ ImgBusy => Ref(imgCur) \in Refs
<1>1. workPc \in Handling => workFrame \in Frames /\ workIdx \in 1..MaxBatch
  BY SessionAssumption DEF IInv, TypeOK, InRange, Frames
<1>2. \A j \in 1..Len(imgList) : imgList[j] \in Image
  BY DEF IInv, TypeOK
<1>3. ImgBusy => imgCur \in Image
  BY DEF IInv, InRange
<1>4. \A i \in Image : Ref(i) \in Refs
  BY DEF Image, Ref, Refs
<1> QED
  BY <1>1, <1>2, <1>3, <1>4 DEF Refs

(* A request is a pair of numbers, and the order is strict.                *)
LEMMA RefOrder ==
  ASSUME NEW r \in Refs
  PROVE  /\ r[1] \in Int /\ r[2] \in Int /\ r = <<r[1], r[2]>>
         /\ ~Before(r, r)
         /\ \A q \in Refs : Before(r, q) => ~Before(q, r)
<1>1. \A q \in Refs : q[1] \in Int /\ q[2] \in Int /\ q = <<q[1], q[2]>>
  BY SessionAssumption DEF Refs, Frames
<1> QED
  BY <1>1 DEF Before

(* Standing aside keeps what is told. *)
LEMMA ToldAside ==
  ASSUME Told, Aside
  PROVE  Told'
  BY DEF Told, WorkAhead, ListAhead, ImageAt, OneOpen, Aside, WorkStays, ImgBusy

(* Going on to the frame's next request passes one more.                   *)
LEMMA PassOne ==
  ASSUME IInv, workPc \in Handling, NextRequest
  PROVE  /\ workFrame' = workFrame
         /\ workPc' \in Handling => workIdx' = workIdx + 1
         /\ workFrame \in Int /\ workIdx \in Int
  BY SessionAssumption DEF NextRequest, Handling, IInv, TypeOK

(* The step of another thread tells the framework of a request:            *)
(* everything about the others stays as it was.                            *)
LEMMA TellOne ==
  ASSUME IInv, NEW r \in Refs, NEW a, answer' = [answer EXCEPT ![r] = a]
  PROVE  /\ answer'[r] = a
         /\ \A q \in Refs : q # r => answer'[q] = answer[q]
  BY DEF IInv, TypeOK

(* Taking the oldest frame passes nothing.                                 *)
LEMMA ToldPopRequest ==
  ASSUME IInv, Told, PopRequest
  PROVE  Told'
<1>1. workFrame < workFrame' /\ workFrame \in Int /\ workFrame' \in Int
  BY SessionAssumption DEF PopRequest, IInv, Counting, TypeOK, Frames
<1>2. UNCHANGED <<imgList, imgPc, imgCur, answer>>
  BY DEF PopRequest, imgVars
<1>3. WorkAhead'
  <2> SUFFICES ASSUME NEW r \in Refs, r[1] >= workFrame'
               PROVE  answer[r] = "none"
    BY <1>1, <1>2, RefOrder DEF WorkAhead
  <2> QED
    BY <1>1, RefOrder DEF Told, WorkAhead
<1> QED
  BY <1>2, <1>3 DEF Told, ListAhead, ImageAt, OneOpen, ImgBusy

(* A request is refused, or started.                                       *)
LEMMA ToldCheckPipeline ==
  ASSUME IInv, Order, Told, CheckPipeline
  PROVE  Told'
<1> DEFINE w == <<workFrame, workIdx>>
<1>1. workPc \in Handling /\ UNCHANGED <<imgList, imgPc, imgCur>>
  BY DEF CheckPipeline, Handling, imgVars
<1>2. CASE answer' = answer /\ UNCHANGED <<workFrame, workIdx>>
  BY <1>1, <1>2 DEF Told, WorkAhead, ListAhead, ImageAt, OneOpen, ImgBusy
<1>3. CASE NextRequest /\ answer' = [answer EXCEPT ![w] = "invalid"]
  <2>1. /\ workFrame' = workFrame /\ workFrame \in Int /\ workIdx \in Int
        /\ workPc' \in Handling => workIdx' = workIdx + 1
    BY <1>1, <1>3, PassOne
  <2>2. w \in Refs
    BY <1>1, RefsAtHand
  <2>3. w[1] = workFrame /\ w[2] = workIdx
    OBVIOUS
  <2> HIDE DEF w
  <2>4. answer'[w] = "invalid" /\ \A q \in Refs : q # w => answer'[q] = answer[q]
    BY <1>3, <2>2, TellOne
  <2>5. WorkAhead'
    <3> SUFFICES ASSUME NEW r \in Refs,
                        \/ r[1] > workFrame
                        \/ workPc' \in Handling /\ r[1] = workFrame /\ r[2] >= workIdx + 1
                 PROVE  answer'[r] = "none"
      BY <2>1 DEF WorkAhead
    <3>1. r # w
      BY <2>1, <2>3, RefOrder
    <3>2. answer[r] = "none"
      BY <1>1, <2>1, RefOrder DEF Told, WorkAhead
    <3> QED
      BY <2>4, <3>1, <3>2
  <2>6. \A q \in Refs : answer[q] \in Untold => answer'[q] \in Untold
    BY <2>4 DEF Untold
  <2>7. \A j \in 1..Len(imgList) : Ref(imgList[j]) \in Refs /\ Ref(imgList[j]) # w
    BY <1>1, <2>2, RefsAtHand, RefOrder DEF Order, w
  <2>8. ImgBusy => Ref(imgCur) \in Refs /\ Ref(imgCur) # w
    BY <1>1, <2>2, RefsAtHand, RefOrder DEF Order, w
  <2>9. ListAhead'
    BY <1>1, <2>4, <2>6, <2>7 DEF Told, ListAhead
  <2>10. ImageAt'
    BY <1>1, <2>4, <2>6, <2>8 DEF Told, ImageAt, ImgBusy
  <2>11. OneOpen'
    BY <1>1, <2>4 DEF Told, OneOpen
  <2> QED
    BY <2>5, <2>9, <2>10, <2>11 DEF Told
<1> QED
  BY <1>2, <1>3 DEF CheckPipeline, SkipRequest

(* A request given up for want of a buffer is told nothing.                *)
LEMMA ToldAcquireNull ==
  ASSUME IInv, Told, NEW s \in Streams, AcquireNull(s)
  PROVE  Told'
<1>1. workPc \in Handling /\ UNCHANGED <<imgList, imgPc, imgCur, answer>>
  BY DEF AcquireNull, Handling, imgVars
<1>2. WorkAhead'
  <2>1. CASE UNCHANGED <<workFrame, workIdx>>
    BY <1>1, <2>1 DEF Told, WorkAhead
  <2>2. CASE NextRequest
    <3>1. /\ workFrame' = workFrame /\ workFrame \in Int /\ workIdx \in Int
          /\ workPc' \in Handling => workIdx' = workIdx + 1
      BY <1>1, <2>2, PassOne
    <3> QED
      BY <1>1, <3>1, RefOrder DEF Told, WorkAhead
  <2> QED
    BY <2>1, <2>2 DEF AcquireNull
<1> QED
  BY <1>1, <1>2 DEF Told, ListAhead, ImageAt, OneOpen, ImgBusy

(* The image fed is that of the request passed.                            *)
LEMMA ToldFeedImage ==
  ASSUME IInv, Told, FeedImage
  PROVE  Told'
<1> DEFINE i == [frame |-> workFrame, idx |-> workIdx, bufs |-> workBufs]
           w == <<workFrame, workIdx>>
<1>1. workPc \in Handling /\ UNCHANGED <<imgPc, imgCur, answer>> /\ w \in Refs
  BY RefsAtHand DEF FeedImage, Handling, imgVars
<1>2. /\ workFrame' = workFrame /\ workFrame \in Int /\ workIdx \in Int
      /\ workPc' \in Handling => workIdx' = workIdx + 1
  BY <1>1, PassOne DEF FeedImage
<1>3. i \in Image /\ Ref(i) = w
  BY DEF FeedImage, Image, IInv, TypeOK, Frames, InRange, Handling, Ref
<1> HIDE DEF i
<1>4. /\ \A j \in 1..Len(imgList') : imgList'[j] = IF j = Len(imgList) + 1 THEN i ELSE imgList[j]
      /\ Len(imgList') = Len(imgList) + 1 /\ Len(imgList) \in Nat
  BY <1>3, AppendImage DEF FeedImage, IInv, TypeOK, i
<1>5. WorkAhead'
  BY <1>1, <1>2, RefOrder DEF Told, WorkAhead
<1>6. answer[w] = "none" /\ \A q \in Refs : Before(w, q) => answer[q] = "none"
  <2>1. answer[w] = "none"
    BY <1>1, <1>2 DEF Told, WorkAhead
  <2>2. ASSUME NEW q \in Refs, Before(w, q)
        PROVE  answer[q] = "none"
    <3>1. q[1] > workFrame \/ (q[1] = workFrame /\ q[2] >= workIdx)
      BY <1>2, <2>2, RefOrder DEF Before
    <3> QED
      BY <1>1, <3>1 DEF Told, WorkAhead
  <2> QED
    BY <2>1, <2>2
<1> HIDE DEF w
<1>7. ASSUME NEW j \in 1..Len(imgList')
      PROVE  /\ answer[Ref(imgList'[j])] = "none"
             /\ \A q \in Refs : Before(Ref(imgList'[j]), q) => answer[q] \in Untold
  <2>1. CASE j = Len(imgList) + 1
    <3>1. Ref(imgList'[j]) = w
      BY <1>3, <1>4, <2>1
    <3> QED
      BY <1>6, <3>1 DEF Untold
  <2>2. CASE j # Len(imgList) + 1
    <3>1. j \in 1..Len(imgList) /\ imgList'[j] = imgList[j]
      BY <1>4, <2>2
    <3> QED
      BY <3>1 DEF Told, ListAhead
  <2> QED
    BY <2>1, <2>2
<1>8. ListAhead'
  BY <1>1, <1>7 DEF ListAhead
<1> QED
  BY <1>1, <1>5, <1>8 DEF Told, ImageAt, OneOpen, ImgBusy

(* HandleImage takes the oldest image, of which nothing is known.          *)
LEMMA ToldPopImage ==
  ASSUME IInv, Told, PopImage
  PROVE  Told'
<1>1. /\ imgCur' = imgList[1] /\ Len(imgList) >= 1
      /\ Len(imgList') = Len(imgList) - 1 /\ Len(imgList) \in Nat
      /\ \A j \in 1..Len(imgList') : imgList'[j] = imgList[j + 1]
  BY TakeImage DEF PopImage, IInv, TypeOK
<1>2. imgPc = "idle" /\ imgPc' = "check" /\ answer' = answer /\ UNCHANGED workVars
  BY DEF PopImage
<1>3. WorkAhead'
  BY <1>2 DEF Told, WorkAhead, workVars
<1>4. \A j \in 1..Len(imgList') : j + 1 \in 1..Len(imgList) /\ imgList'[j] = imgList[j + 1]
  BY <1>1
<1>5. ListAhead'
  BY <1>2, <1>4 DEF Told, ListAhead
<1>6. 1 \in 1..Len(imgList)
  BY <1>1
<1>7. ImageAt'
  BY <1>1, <1>2, <1>6 DEF Told, ListAhead, ImageAt
<1>8. OneOpen'
  BY <1>2 DEF Told, OneOpen
<1> QED
  BY <1>3, <1>5, <1>7, <1>8 DEF Told

(* A callback of HandleImage about its image. *)
LEMMA ToldCallback ==
  ASSUME IInv, Order, Told, ImgBusy,
         NEW a \in {"shutter", "result", "error"}, Answered(a),
         a = "shutter" => imgPc = "process" /\ imgPc' = "return",
         a = "result" => imgPc = "result" /\ imgPc' = "count",
         a = "error" => imgPc = "errNotify" /\ imgPc' = "release",
         UNCHANGED <<workVars, imgList, imgCur>>
  PROVE  Told'
<1> DEFINE r == Ref(imgCur)
<1>1. r \in Refs
  BY RefsAtHand
<1>2. answer'[r] = a /\ \A q \in Refs : q # r => answer'[q] = answer[q]
  BY <1>1, TellOne DEF Answered, Ref
<1>3. ~Before(r, r)
  BY <1>1, RefOrder
<1>4. ASSUME NEW q \in Refs, \/ q[1] > workFrame
                             \/ workPc \in Handling /\ q[1] = workFrame /\ q[2] >= workIdx
      PROVE  q # r
  <2>1. /\ imgCur.frame \in Int /\ imgCur.idx \in Int /\ imgCur.frame <= workFrame
        /\ workFrame \in Int /\ workIdx \in Int
    BY SessionAssumption DEF IInv, TypeOK, InRange
  <2>2. workPc \in Handling => Before(r, <<workFrame, workIdx>>)
    BY DEF Order
  <2>3. r = <<imgCur.frame, imgCur.idx>>
    BY DEF Ref
  <2>4. workPc \in Handling => \/ imgCur.frame < workFrame
                               \/ imgCur.frame = workFrame /\ imgCur.idx < workIdx
    BY <2>2, <2>3 DEF Before
  <2> QED
    BY <1>4, <2>1, <2>3, <2>4, RefOrder
<1>5. WorkAhead'
  BY <1>2, <1>4 DEF Told, WorkAhead, workVars
<1>6. \A j \in 1..Len(imgList) : Ref(imgList[j]) \in Refs /\ Ref(imgList[j]) # r
  BY <1>1, <1>3, RefsAtHand DEF Order
<1>7. \A j \in 1..Len(imgList) : ~Before(Ref(imgList[j]), r)
  BY <1>1, <1>6, RefOrder DEF Order
<1>8. ListAhead'
  BY <1>2, <1>6, <1>7 DEF Told, ListAhead
<1>9. ImageAt'
  <2>1. imgCur' = imgCur
    OBVIOUS
  <2>2. \A q \in Refs : Before(r, q) => answer'[q] \in Untold
    BY <1>2, <1>3 DEF Told, ImageAt
  <2> QED
    BY <1>2, <2>1, <2>2 DEF ImageAt, Final
<1>10. OneOpen'
  <2>1. ASSUME NEW q \in Refs, answer'[q] = "shutter"
        PROVE  imgPc' \in {"return", "result"} /\ q = r
    <3>1. CASE q = r
      BY <1>2, <2>1, <3>1
    <3>2. CASE q # r
      BY <1>2, <2>1, <3>2 DEF Told, OneOpen
    <3> QED
      BY <3>1, <3>2
  <2> QED
    BY <2>1 DEF OneOpen
<1> QED
  BY <1>5, <1>8, <1>9, <1>10 DEF Told

(* The steps of HandleImage that tell the framework nothing.               *)
LEMMA ToldQuietImage ==
  ASSUME IInv, Told,
         CheckImage \/ ReturnBuffers \/ CountImage \/ ReleaseImage \/ ImgProcExit
  PROVE  Told'
<1> USE DEF CheckImage, ReturnBuffers, CountImage, ReleaseImage, ImgProcExit
<1>1. UNCHANGED <<workVars, imgList, answer>>
  OBVIOUS
<1>2. WorkAhead' /\ ListAhead'
  BY <1>1 DEF Told, WorkAhead, ListAhead, workVars
<1>3. CASE CheckImage \/ ReturnBuffers \/ CountImage
  BY <1>1, <1>2, <1>3 DEF Told, ImageAt, OneOpen, ImgBusy, ErrorPath
<1>4. CASE ReleaseImage \/ ImgProcExit
  BY <1>1, <1>2, <1>4 DEF Told, ImageAt, OneOpen, ImgBusy
<1> QED
  BY <1>3, <1>4

(* Every step keeps what the framework knows in step with the threads.     *)
LEMMA ToldStep ==
  ASSUME IInv, Order, Told, [Next]_vars
  PROVE  Told'
<1>1. CASE ProcessImage
  BY <1>1, ToldCallback DEF ProcessImage, ImgBusy
<1>2. CASE SendResult
  BY <1>2, ToldCallback DEF SendResult, ImgBusy
<1>3. CASE NotifyError
  BY <1>3, ToldCallback DEF NotifyError, ImgBusy
<1> QED
  BY <1>1, <1>2, <1>3, Steps, ToldAside, ToldPopRequest, ToldCheckPipeline, ToldFeedImage,
     ToldAcquireNull, ToldPopImage, ToldQuietImage DEF HandleImage

-----------------------------------------------------------------------------
(* The session implements CaptureContract. *)

(* The order the contract is given is the order of submission.             *)
LEMMA EarlierIsBefore ==
  ASSUME NEW r \in Refs, NEW q \in Refs
  PROVE  <<r, q>> \in {p \in Refs \X Refs : Before(p[1], p[2])} <=> Before(r, q)
  OBVIOUS

(* The requests at hand were submitted.                                    *)
LEMMA SubmittedAtHand ==
  ASSUME IInv
  PROVE  /\ workPc \in Handling => <<workFrame, workIdx>> \in Submitted
         /\ \A j \in 1..Len(imgList) : Ref(imgList[j]) \in Submitted
         /\ ImgBusy => Ref(imgCur) \in Submitted
<1> USE RefsAtHand DEF Submitted
<1>a. workFrame < nextFrame /\ workFrame \in Int /\ nextFrame \in Int
  BY SessionAssumption DEF IInv, TypeOK, Counting
<1>1. workPc \in Handling => <<workFrame, workIdx>> \in Submitted
  BY <1>a DEF IInv, InRange
<1>2. ASSUME NEW j \in 1..Len(imgList)
      PROVE  Ref(imgList[j]) \in Submitted
  <2>1. /\ imgList[j].frame <= workFrame
        /\ imgList[j].idx <= Len(batch[imgList[j].frame])
        /\ imgList[j] \in Image
    BY DEF IInv, TypeOK, InRange
  <2>2. imgList[j].frame \in Int
    BY <2>1, SessionAssumption DEF Image, Frames
  <2> QED
    BY <1>a, <2>1, <2>2 DEF Ref
<1>3. ASSUME ImgBusy
      PROVE  Ref(imgCur) \in Submitted
  <2>1. /\ imgCur.frame <= workFrame /\ imgCur.frame \in Int
        /\ imgCur.idx <= Len(batch[imgCur.frame])
    BY <1>3 DEF IInv, TypeOK, InRange
  <2> QED
    BY <1>a, <1>3, <2>1 DEF Ref
<1> QED
  BY <1>1, <1>2, <1>3

(* Only these steps show at the framework's side. *)
LEMMA VisibleSteps ==
  ASSUME [Next]_vars
  PROVE  \/ UNCHANGED <<batch, nextFrame, answer>>
         \/ \E n \in 1..MaxBatch : \E reqs \in [1..n -> [pid: 0..MaxPipeline, outs: Outputs]] :
              SubmitRequests(reqs)
         \/ CheckPipeline \/ ProcessImage \/ SendResult \/ NotifyError
<1> USE DEF pipeVars, reqVars, workVars, imgVars, lifeVars
<1>1. ASSUME NEW logical \in {FALSE, HasPhysical}, ConfigurePipeline(logical)
      PROVE  UNCHANGED <<batch, nextFrame, answer>>
  BY <1>1 DEF ConfigurePipeline
<1>2. CASE BuildPipelines \/ DestroyPipelines \/ DeleteSession
  BY <1>2 DEF BuildPipelines, DestroyPipelines, DeleteSession
<1>3. CASE DestroySteps \/ DeleteSteps
  BY <1>3 DEF DestroySteps, DestroyRequestsDone, DestroyDrained, DeleteSteps, ImgProcExit,
     WorkExit, StopStreams
<1>4. CASE \/ PopRequest \/ StartKeep \/ StartReconfigure \/ Restarted \/ StartFailed
           \/ FeedImage \/ FinishRequest
  BY <1>4 DEF PopRequest, StartKeep, StartReconfigure, Restarted, StartFailed, FeedImage,
     FinishRequest
<1>5. ASSUME NEW s \in Streams, AcquireFrame(s) \/ AcquireTimeout(s) \/ AcquireNull(s)
      PROVE  UNCHANGED <<batch, nextFrame, answer>>
  BY <1>5 DEF AcquireFrame, AcquireTimeout, AcquireNull
<1>6. CASE PopImage \/ CheckImage \/ ReturnBuffers \/ CountImage \/ ReleaseImage
  BY <1>6 DEF PopImage, CheckImage, ReturnBuffers, CountImage, ReleaseImage
<1>7. CASE UNCHANGED vars
  BY <1>7 DEF vars
<1> QED
  BY <1>1, <1>2, <1>3, <1>4, <1>5, <1>6, <1>7
  DEF Next, Framework, HandleRequest, HandleImage

(* SubmitRequests adds the requests of one frame, after all others.        *)
LEMMA SubmitIsSubmit ==
  ASSUME IInv, NEW n \in 1..MaxBatch,
         NEW reqs \in [1..n -> [pid: 0..MaxPipeline, outs: Outputs]], SubmitRequests(reqs)
  PROVE  Contract!Next
<1> DEFINE R == {<<nextFrame, i>> : i \in 1..n}
<1>1. /\ n \in Nat /\ nextFrame \in Frames /\ nextFrame' = nextFrame + 1
      /\ batch' = [batch EXCEPT ![nextFrame] = reqs] /\ Len(reqs) = n /\ answer' = answer
  BY RequestsSeq, SessionAssumption DEF SubmitRequests
<1>2. nextFrame \in Int /\ Frames \subseteq Int
  BY <1>1 DEF Frames
<1>3. batch \in [Frames -> Seq(Request)]
  BY DEF IInv, TypeOK
<1>4. R \subseteq Refs
  <2> SUFFICES ASSUME NEW i \in 1..n PROVE <<nextFrame, i>> \in Refs
    OBVIOUS
  <2>1. i \in 1..MaxBatch
    BY <1>1, SessionAssumption
  <2> QED
    BY <1>1, <2>1 DEF Refs
<1>5. \A q \in Submitted, r \in R : q[1] < nextFrame /\ r[1] = nextFrame
  BY DEF Submitted
<1>6. R \cap Submitted = {}
  BY <1>2, <1>5, RefOrder DEF Submitted
<1>7. Submitted' = Submitted \cup R
  <2>1. ASSUME NEW r \in Refs
        PROVE  r \in Submitted' <=> r \in Submitted \/ r \in R
    <3>1. /\ r[1] \in Frames /\ r[1] \in Int /\ r[2] \in Int /\ r[2] >= 1 /\ r = <<r[1], r[2]>>
      BY SessionAssumption DEF Refs, Frames
    <3>2. CASE r[1] = nextFrame
      <4>1. batch'[r[1]] = reqs
        BY <1>1, <1>3, <3>2
      <4>2. r \in R <=> r[2] <= n
        BY <1>1, <3>1, <3>2
      <4> QED
        BY <1>1, <1>2, <3>1, <3>2, <4>1, <4>2 DEF Submitted
    <3>3. CASE r[1] # nextFrame
      <4>1. batch'[r[1]] = batch[r[1]]
        BY <1>1, <1>3, <3>1, <3>3
      <4>2. r \notin R
        BY <3>3
      <4>3. r[1] < nextFrame' <=> r[1] < nextFrame
        BY <1>1, <1>2, <3>1, <3>3
      <4> QED
        BY <4>1, <4>2, <4>3 DEF Submitted
    <3> QED
      BY <3>2, <3>3
  <2>2. Submitted' \subseteq Refs /\ Submitted \subseteq Refs
    BY DEF Submitted
  <2> QED
    BY <1>4, <2>1, <2>2
<1>8. \A q \in Submitted, r \in R : <<q, r>> \in {p \in Refs \X Refs : Before(p[1], p[2])}
  <2> TAKE q \in Submitted, r \in R
  <2>1. q \in Refs /\ r \in Refs
    BY <1>4 DEF Submitted
  <2>2. Before(q, r)
    BY <1>5 DEF Before
  <2> QED
    BY <2>1, <2>2, EarlierIsBefore
<1> HIDE DEF R
<1>9. Submitted' \subseteq Refs /\ Submitted' \ Submitted = R
  BY <1>4, <1>6, <1>7 DEF Submitted
<1>10. Contract!Submit
  BY <1>1, <1>7, <1>8, <1>9 DEF Contract!Submit
<1> QED
  BY <1>10 DEF Contract!Next

(* Nothing is owed and nothing told of a later request when the framework  *)
(* is called back about an image.                                          *)
LEMMA ImageInTurn ==
  ASSUME IInv, Told, ImgBusy
  PROVE  /\ Ref(imgCur) \in Submitted /\ Ref(imgCur) \in Refs
         /\ Contract!InTurn(Ref(imgCur))
         /\ imgPc \notin {"return", "result"} => Contract!NoneOpen
<1>1. Ref(imgCur) \in Submitted /\ Ref(imgCur) \in Refs
  BY SubmittedAtHand, RefsAtHand
<1>2. Contract!InTurn(Ref(imgCur))
  BY <1>1, EarlierIsBefore DEF Told, ImageAt, Untold, Contract!InTurn, Contract!Untold
<1>3. imgPc \notin {"return", "result"} => Contract!NoneOpen
  BY DEF Told, OneOpen, Contract!NoneOpen
<1> QED
  BY <1>1, <1>2, <1>3

(* Every step of the session is a step of the contract or does not show.   *)
LEMMA ContractStep ==
  ASSUME IInv, Told, [Next]_vars
  PROVE  [Contract!Next]_Contract!vars
<1> USE DEF Contract!Next, Contract!vars
<1>1. CASE UNCHANGED <<batch, nextFrame, answer>>
  BY <1>1 DEF Submitted
<1>2. ASSUME NEW n \in 1..MaxBatch,
             NEW reqs \in [1..n -> [pid: 0..MaxPipeline, outs: Outputs]],
             SubmitRequests(reqs)
      PROVE  Contract!Next
  BY <1>2, SubmitIsSubmit
<1>3. CASE CheckPipeline
  <2> DEFINE w == <<workFrame, workIdx>>
  <2>1. UNCHANGED Submitted
    BY <1>3 DEF CheckPipeline, reqVars, Submitted
  <2>2. CASE answer' = answer
    BY <2>1, <2>2
  <2>3. CASE answer' = [answer EXCEPT ![w] = "invalid"]
    <3>1. workPc \in Handling
      BY <1>3 DEF CheckPipeline, Handling
    <3>2. w \in Refs /\ w \in Submitted
      BY <3>1, RefsAtHand, SubmittedAtHand
    <3>3. w[1] = workFrame /\ w[2] = workIdx /\ workFrame \in Int /\ workIdx \in Int
      BY SessionAssumption DEF IInv, TypeOK
    <3> HIDE DEF w
    <3>4. answer[w] = "none"
      BY <3>1, <3>2, <3>3 DEF Told, WorkAhead
    <3>5. \A q \in Refs : Before(w, q) => answer[q] = "none"
      BY <3>1, <3>3, RefOrder DEF Told, WorkAhead, Before
    <3>6. Contract!Refuse(w)
      BY <2>1, <2>3, <3>2, <3>4, <3>5, EarlierIsBefore DEF Contract!Refuse, Contract!Tell
    <3> QED
      BY <3>2, <3>6
  <2> QED
    BY <1>3, <2>2, <2>3 DEF CheckPipeline
<1>4. CASE ProcessImage
  <2>1. ImgBusy /\ imgPc = "process" /\ UNCHANGED Submitted
    BY <1>4 DEF ProcessImage, ImgBusy, reqVars, Submitted
  <2>2. answer[Ref(imgCur)] = "none" /\ answer' = [answer EXCEPT ![Ref(imgCur)] = "shutter"]
    BY <1>4, <2>1 DEF Told, ImageAt, ProcessImage, Answered, Ref
  <2>3. Contract!Shutter(Ref(imgCur))
    BY <2>1, <2>2, ImageInTurn DEF Contract!Shutter, Contract!Tell
  <2> QED
    BY <2>1, <2>3, ImageInTurn
<1>5. CASE SendResult
  <2>1. ImgBusy /\ imgPc = "result" /\ UNCHANGED Submitted
    BY <1>5 DEF SendResult, ImgBusy, reqVars, Submitted
  <2>2. answer[Ref(imgCur)] = "shutter" /\ answer' = [answer EXCEPT ![Ref(imgCur)] = "result"]
    BY <1>5, <2>1 DEF Told, ImageAt, SendResult, Answered, Ref
  <2>3. Contract!Result(Ref(imgCur))
    BY <2>1, <2>2, ImageInTurn DEF Contract!Result, Contract!Tell
  <2> QED
    BY <2>1, <2>3, ImageInTurn
<1>6. CASE NotifyError
  <2>1. ImgBusy /\ imgPc = "errNotify" /\ UNCHANGED Submitted
    BY <1>6 DEF NotifyError, ImgBusy, reqVars, Submitted
  <2>2. answer[Ref(imgCur)] = "none" /\ answer' = [answer EXCEPT ![Ref(imgCur)] = "error"]
    BY <1>6, <2>1 DEF Told, ImageAt, NotifyError, Answered, Ref
  <2>3. Contract!Error(Ref(imgCur))
    BY <2>1, <2>2, ImageInTurn DEF Contract!Error, Contract!Tell
  <2> QED
    BY <2>1, <2>3, ImageInTurn
<1> QED
  BY <1>1, <1>2, <1>3, <1>4, <1>5, <1>6, VisibleSteps

(* What the contract promises about one step: no answer is taken back, and *)
(* a final one finds no later request with one.                            *)
LEMMA ContractOrder ==
  ASSUME IInv, [Contract!Next]_Contract!vars,
         NEW r \in Refs, answer'[r] # answer[r]
  PROVE  /\ answer[r] \notin Final
         /\ answer'[r] \in Final => \A q \in Refs : Before(r, q) => answer[q] \notin Final
<1> USE DEF Contract!Tell, Contract!InTurn, Contract!Untold, Final
<1>0. answer \in [Refs -> Answers]
  BY DEF IInv, TypeOK
<1>1. \E p \in Refs : \/ Contract!Shutter(p) \/ Contract!Result(p)
                      \/ Contract!Error(p) \/ Contract!Refuse(p)
  <2>1. Submitted \subseteq Refs
    BY DEF Submitted
  <2>2. ~ Contract!Submit /\ ~ UNCHANGED answer
    BY DEF Contract!Submit
  <2> QED
    BY <2>1, <2>2 DEF Contract!Next, Contract!vars
<1>2. PICK p \in Refs : \/ Contract!Shutter(p) \/ Contract!Result(p)
                        \/ Contract!Error(p) \/ Contract!Refuse(p)
  BY <1>1
<1>3. p = r
  BY <1>0, <1>2 DEF Contract!Shutter, Contract!Result, Contract!Error, Contract!Refuse
<1>4. CASE Contract!Shutter(r) \/ Contract!Refuse(r)
  BY <1>0, <1>4 DEF Contract!Shutter, Contract!Refuse
<1>5. CASE Contract!Result(r) \/ Contract!Error(r)
  <2>1. answer[r] \notin Final
    BY <1>5 DEF Contract!Result, Contract!Error
  <2>2. \A q \in Refs : Before(r, q) => answer[q] \notin Final
    BY <1>5, EarlierIsBefore DEF Contract!Result, Contract!Error
  <2> QED
    BY <2>1, <2>2
<1> QED
  BY <1>2, <1>3, <1>4, <1>5

(* Where the requests are and what the framework knows of them.            *)
LEMMA ToldInvariance == Spec => [](IInv /\ Order /\ Told)
<1>1. Init => Order /\ Told
  <2> SUFFICES ASSUME Init PROVE Told
    BY InitIInv
  <2>1. WorkAhead /\ OneOpen
    BY DEF Init, WorkAhead, OneOpen
  <2>2. ListAhead /\ ImageAt
    BY DEF Init, ListAhead, ImageAt, ImgBusy
  <2> QED
    BY <2>1, <2>2 DEF Told
<1>2. IInv /\ Order /\ Told /\ [Next]_vars => Order' /\ Told'
  BY OrderStep, ToldStep
<1> QED
  BY <1>1, <1>2, Invariance, PTL DEF Spec

(* The session keeps CaptureContract: HandleImage calls back only for      *)
(* requests that were submitted, a shutter before the result and nothing   *)
(* of another request between them, and in the order of submission.        *)
THEOREM KeepsContract == Spec => ContractSpec
<1>1. Init => Contract!Init
  <2> SUFFICES ASSUME Init PROVE Contract!Init
    OBVIOUS
  <2>1. Submitted = {}
    <3>1. \A r \in Refs : ~(r[1] < nextFrame)
      BY SessionAssumption DEF Init, Refs, Frames
    <3> QED
      BY <3>1 DEF Submitted
  <2> QED
    BY <2>1 DEF Init, Contract!Init
<1>2. IInv /\ Told /\ [Next]_vars => [Contract!Next]_Contract!vars
  BY ContractStep
<1> QED
  BY <1>1, <1>2, ToldInvariance, PTL DEF Spec, ContractSpec, Contract!Spec

(* The framework gets one final answer to a request, never taken back, in  *)
(* the order of submission, although two threads and a list are between    *)
(* the request and its answer.                                             *)
THEOREM Ordered == Spec => AnswersInOrder
<1> DEFINE A == \A r \in Refs : answer'[r] # answer[r] =>
                  /\ answer[r] \notin Final
                  /\ answer'[r] \in Final => \A q \in Refs : Before(r, q) => answer[q] \notin Final
<1>1. IInv /\ Told /\ [Next]_vars => [A]_vars
  BY ContractStep, ContractOrder
<1> QED
  BY <1>1, ToldInvariance, PTL DEF Spec, AnswersInOrder

-----------------------------------------------------------------------------
(* What a deleted session leaves behind. *)

Pid(r) == batch[r[1]][r[2]].pid

(* Pipeline ids are not used again, and while no pipelines are built no    *)
(* request names one that is configured.                                   *)
Named ==
    /\ \A p \in pipelines : p < nextPid
    /\ \A r \in Submitted : Pid(r) < nextPid
    /\ ~built => \A r \in Submitted : Pid(r) \notin pipelines

(* The session is deleted with no pipelines built, and its threads end in  *)
(* turn; the thread of a failed start keeps DestroyPipelines from ending.  *)
Exits ==
    /\ sesPc # "open" => built = FALSE
    /\ workPc = "dead" => built = TRUE
    /\ sesPc \in {"exitWork", "stop", "gone"} => imgPc = "exited"
    /\ sesPc \in {"stop", "gone"} => workPc = "exited"

(* The fences of a request are open until it is released, unless it was    *)
(* refused.                                                                *)
Holder(r) ==
    \/ r[1] \in queued
    \/ answer[r] = "invalid"
    \/ \E j \in 1..Len(imgList) : r = Ref(imgList[j])
    \/ ImgBusy /\ r = Ref(imgCur)
    \/ workPc \in Handling \cup {"dead"} /\ r[1] = workFrame /\ r[2] >= workIdx

Fences == \A r \in fences : r \in Submitted /\ Holder(r)

(* The vector of a frame whose last request was answered is about to go.   *)
LastFreed ==
    \A f \in vecs :
      /\ f < nextFrame
      /\ answer[<<f, Len(batch[f])>>] \in Final =>
           imgPc \in {"count", "release"} /\ Ref(imgCur) = <<f, Len(batch[f])>>

(* Only these steps change the pipelines or what was submitted.            *)
LEMMA PipelineSteps ==
  ASSUME [Next]_vars
  PROVE  \/ UNCHANGED <<pipelines, nextPid, built, batch, nextFrame>>
         \/ \E logical \in {FALSE, HasPhysical} : ConfigurePipeline(logical)
         \/ \E n \in 1..MaxBatch : \E reqs \in [1..n -> [pid: 0..MaxPipeline, outs: Outputs]] :
              SubmitRequests(reqs)
         \/ BuildPipelines \/ DestroyDrained
<1> USE DEF pipeVars, reqVars
<1>1. CASE DestroyPipelines \/ DeleteSession \/ DestroyRequestsDone \/ DeleteSteps
  BY <1>1 DEF DestroyPipelines, DeleteSession, DestroyRequestsDone, DeleteSteps, ImgProcExit,
     WorkExit, StopStreams
<1>2. CASE \/ PopRequest \/ CheckPipeline \/ StartKeep \/ StartReconfigure \/ Restarted
           \/ StartFailed \/ FeedImage \/ FinishRequest
  BY <1>2 DEF PopRequest, CheckPipeline, StartKeep, StartReconfigure, Restarted, StartFailed,
     FeedImage, FinishRequest
<1>3. ASSUME NEW s \in Streams, AcquireFrame(s) \/ AcquireTimeout(s) \/ AcquireNull(s)
      PROVE  UNCHANGED <<pipelines, nextPid, built, batch, nextFrame>>
  BY <1>3 DEF AcquireFrame, AcquireTimeout, AcquireNull
<1>4. CASE HandleImage
  BY <1>4 DEF HandleImage, PopImage, CheckImage, ProcessImage, ReturnBuffers, SendResult,
     CountImage, NotifyError, ReleaseImage
<1>5. CASE UNCHANGED vars
  BY <1>5 DEF vars
<1> QED
  BY <1>1, <1>2, <1>3, <1>4, <1>5 DEF Next, Framework, DestroySteps, HandleRequest

(* What SubmitRequests adds to the requests submitted, and what it leaves. *)
LEMMA SubmitAdds ==
  ASSUME IInv, NEW n \in 1..MaxBatch,
         NEW reqs \in [1..n -> [pid: 0..MaxPipeline, outs: Outputs]], SubmitRequests(reqs)
  PROVE  /\ nextFrame \in Frames /\ nextFrame' = nextFrame + 1 /\ Len(reqs) = n
         /\ batch'[nextFrame] = reqs
         /\ \A f \in Frames : f # nextFrame => batch'[f] = batch[f]
         /\ \A r \in Submitted : r \in Submitted' /\ r[1] # nextFrame /\ Pid(r)' = Pid(r)
         /\ \A r \in Submitted' : r[1] = nextFrame \/ r \in Submitted
<1>1. /\ nextFrame \in Frames /\ nextFrame' = nextFrame + 1 /\ Len(reqs) = n
      /\ batch' = [batch EXCEPT ![nextFrame] = reqs]
  BY RequestsSeq DEF SubmitRequests
<1>2. batch \in [Frames -> Seq(Request)] /\ nextFrame \in Int
  BY <1>1 DEF IInv, TypeOK, Frames
<1>3. /\ batch'[nextFrame] = reqs
      /\ \A f \in Frames : f # nextFrame => batch'[f] = batch[f]
  BY <1>1, <1>2
<1>4. \A r \in Refs : r[1] \in Frames /\ r[1] \in Int
  BY RefOrder DEF Refs
<1>5. \A r \in Submitted : r \in Submitted' /\ r[1] # nextFrame /\ Pid(r)' = Pid(r)
  BY <1>1, <1>2, <1>3, <1>4 DEF Submitted, Pid
<1>6. \A r \in Submitted' : r[1] = nextFrame \/ r \in Submitted
  BY <1>1, <1>2, <1>3, <1>4 DEF Submitted
<1> QED
  BY <1>1, <1>3, <1>5, <1>6

(* Requests name pipelines that are built, or ones that are gone.          *)
LEMMA NamedStep ==
  ASSUME IInv, Named, [Next]_vars
  PROVE  Named'
<1>a. nextPid \in Int /\ pipelines \subseteq Int
  BY DEF IInv, TypeOK
<1>1. CASE UNCHANGED <<pipelines, nextPid, built, batch, nextFrame>>
  BY <1>1 DEF Named, Submitted, Pid
<1>2. ASSUME NEW logical \in {FALSE, HasPhysical}, ConfigurePipeline(logical)
      PROVE  Named'
  <2>1. /\ pipelines' = pipelines \cup {nextPid} /\ nextPid' = nextPid + 1
        /\ built' = built
    BY <1>2 DEF ConfigurePipeline
  <2>2. Submitted' = Submitted /\ \A r \in Submitted : Pid(r)' = Pid(r)
    BY <1>2 DEF ConfigurePipeline, reqVars, Submitted, Pid
  <2>3. \A r \in Submitted : Pid(r) \in Int
    <3> TAKE r \in Submitted
    <3>1. r[1] \in Frames /\ r[2] \in 1..Len(batch[r[1]])
      BY RefOrder, SessionAssumption DEF Submitted, Refs
    <3>2. batch[r[1]][r[2]] \in Request
      BY <3>1 DEF IInv, TypeOK
    <3> QED
      BY <3>2 DEF Request, Pid
  <2> QED
    BY <1>a, <2>1, <2>2, <2>3 DEF Named
<1>3. ASSUME NEW n \in 1..MaxBatch,
             NEW reqs \in [1..n -> [pid: 0..MaxPipeline, outs: Outputs]],
             SubmitRequests(reqs)
      PROVE  Named'
  <2>1. UNCHANGED <<pipelines, nextPid, built>>
    BY <1>3 DEF SubmitRequests, pipeVars
  <2>2. \A i \in 1..n : reqs[i].pid < nextPid /\ (~built => reqs[i].pid \notin pipelines)
    BY <1>3, SubmitAdds DEF SubmitRequests, Submittable, Named
  <2>3. ASSUME NEW r \in Submitted', r[1] = nextFrame
        PROVE  \E i \in 1..n : Pid(r)' = reqs[i].pid
    <3>1. r[2] \in 1..n
      <4>1. r \in Refs /\ r[2] <= Len(batch'[r[1]])
        BY DEF Submitted
      <4>2. r[2] \in Int /\ r[2] >= 1 /\ n \in Nat
        BY <4>1, SessionAssumption DEF Refs
      <4> QED
        BY <1>3, <2>3, <4>1, <4>2, SubmitAdds
    <3>2. Pid(r)' = reqs[r[2]].pid
      BY <1>3, <2>3, SubmitAdds DEF Pid
    <3> QED
      BY <3>1, <3>2
  <2>4. ASSUME NEW r \in Submitted'
        PROVE  Pid(r)' < nextPid /\ (~built => Pid(r)' \notin pipelines)
    <3>1. CASE r[1] = nextFrame
      BY <2>2, <2>3, <3>1
    <3>2. CASE r[1] # nextFrame
      BY <1>3, <3>2, SubmitAdds DEF Named
    <3> QED
      BY <3>1, <3>2
  <2> QED
    BY <2>1, <2>4 DEF Named
<1>4. CASE BuildPipelines
  BY <1>4 DEF BuildPipelines, reqVars, Named, Submitted, Pid
<1>5. CASE DestroyDrained
  BY <1>5 DEF DestroyDrained, Named, Submitted, Pid
<1> QED
  BY <1>1, <1>2, <1>3, <1>4, <1>5, PipelineSteps

(* Whatever has its PipelineInfo belongs to pipelines that are built.      *)
LEMMA BuiltAtHand ==
  ASSUME IInv, Named
  PROVE  /\ workPc \in Started => built = TRUE
         /\ imgList # <<>> => built = TRUE
<1>a. built \in BOOLEAN /\ imgList \in Seq(Image)
  BY DEF IInv, TypeOK
<1>1. workPc \in Started => <<workFrame, workIdx>> \in Submitted /\ CurRequest.pid \in pipelines
  BY SubmittedAtHand DEF IInv, Live, Started, Handling
<1>2. CurRequest.pid = Pid(<<workFrame, workIdx>>)
  BY DEF CurRequest, Pid
<1>3. imgList # <<>> => 1 \in 1..Len(imgList)
  BY <1>a, TakeImage
<1>4. imgList # <<>> => Ref(imgList[1]) \in Submitted /\ Pid(Ref(imgList[1])) \in pipelines
  BY <1>3, SubmittedAtHand DEF IInv, Live, Pid, Ref
<1> QED
  BY <1>a, <1>1, <1>2, <1>4 DEF Named

(* The order in which the session ends. *)
LEMMA ExitsStep ==
  ASSUME IInv, Named, Exits, [Next]_vars
  PROVE  Exits'
<1> USE DEF Exits, pipeVars, workVars, imgVars, lifeVars
<1>1. ASSUME NEW logical \in {FALSE, HasPhysical}, ConfigurePipeline(logical)
      PROVE  Exits'
  BY <1>1 DEF ConfigurePipeline
<1>2. ASSUME NEW n \in 1..MaxBatch,
             NEW reqs \in [1..n -> [pid: 0..MaxPipeline, outs: Outputs]],
             SubmitRequests(reqs)
      PROVE  Exits'
  BY <1>2 DEF SubmitRequests
<1>3. CASE BuildPipelines \/ DestroyPipelines \/ DestroyRequestsDone
  BY <1>3 DEF BuildPipelines, DestroyPipelines, DestroyRequestsDone
<1>4. CASE DeleteSession
  BY <1>4 DEF DeleteSession, IInv, TypeOK
<1>5. CASE DestroyDrained
  BY <1>5, IdleWhenDrained DEF DestroyDrained
<1>6. CASE ImgProcExit \/ WorkExit \/ StopStreams
  BY <1>6 DEF ImgProcExit, WorkExit, StopStreams
<1>7. CASE PopRequest \/ CheckPipeline \/ StartKeep \/ StartReconfigure \/ Restarted
  BY <1>7 DEF PopRequest, CheckPipeline, SkipRequest, NextRequest, StartKeep, StartReconfigure,
     Restarted
<1>8. CASE StartFailed
  <2>1. built = TRUE
    BY <1>8, BuiltAtHand DEF StartFailed, Started
  <2> QED
    BY <1>8, <2>1 DEF StartFailed
<1>9. CASE FeedImage \/ FinishRequest
  BY <1>9 DEF FeedImage, NextRequest, FinishRequest
<1>10. ASSUME NEW s \in Streams, AcquireFrame(s) \/ AcquireTimeout(s) \/ AcquireNull(s)
       PROVE  Exits'
  BY <1>10 DEF AcquireFrame, AcquireTimeout, AcquireNull, NextRequest
<1>11. CASE HandleImage
  BY <1>11 DEF HandleImage, PopImage, CheckImage, ProcessImage, ReturnBuffers, SendResult,
     CountImage, NotifyError, ReleaseImage
<1>12. CASE UNCHANGED vars
  BY <1>12 DEF vars
<1> QED
  BY <1>1, <1>2, <1>3, <1>4, <1>5, <1>6, <1>7, <1>8, <1>9, <1>10, <1>11, <1>12
  DEF Next, Framework, DestroySteps, DeleteSteps, HandleRequest

(* Steps that touch no fence and move no request. *)
FencesAside ==
    /\ UNCHANGED <<fences, batch, nextFrame, queued, answer, imgList, imgPc, imgCur, workFrame>>
    /\ workPc \in Handling \cup {"dead"} => workPc' \in Handling \cup {"dead"} /\ workIdx' = workIdx

(* Every other step does, among them the end of a thread that died.        *)
LEMMA FencesSteps ==
  ASSUME [Next]_vars, Exits
  PROVE  \/ FencesAside \/ DestroyDrained
         \/ \E n \in 1..MaxBatch : \E reqs \in [1..n -> [pid: 0..MaxPipeline, outs: Outputs]] :
              SubmitRequests(reqs)
         \/ PopRequest \/ CheckPipeline \/ FeedImage \/ \E s \in Streams : AcquireNull(s)
         \/ HandleImage \/ ImgProcExit
<1> USE DEF FencesAside, Handling, pipeVars, reqVars, workVars, imgVars, lifeVars
<1>1. ASSUME NEW logical \in {FALSE, HasPhysical}, ConfigurePipeline(logical)
      PROVE  FencesAside
  BY <1>1 DEF ConfigurePipeline
<1>2. CASE BuildPipelines \/ DestroyPipelines \/ DeleteSession \/ DestroyRequestsDone
  BY <1>2 DEF BuildPipelines, DestroyPipelines, DeleteSession, DestroyRequestsDone
<1>3. CASE WorkExit \/ StopStreams
  BY <1>3 DEF WorkExit, StopStreams, Exits
<1>4. CASE StartKeep \/ StartReconfigure \/ Restarted \/ StartFailed \/ FinishRequest
  BY <1>4 DEF StartKeep, StartReconfigure, Restarted, StartFailed, FinishRequest
<1>5. ASSUME NEW s \in Streams, AcquireFrame(s) \/ AcquireTimeout(s)
      PROVE  FencesAside
  BY <1>5 DEF AcquireFrame, AcquireTimeout
<1>6. CASE UNCHANGED vars
  BY <1>6 DEF vars
<1> QED
  BY <1>1, <1>2, <1>3, <1>4, <1>5, <1>6
  DEF Next, Framework, DestroySteps, DeleteSteps, HandleRequest

(* Going on to the next request leaves only later ones to WorkThread.      *)
LEMMA HolderNext ==
  ASSUME IInv, workPc \in Handling, NextRequest, UNCHANGED <<batch, nextFrame, queued>>,
         NEW r \in Submitted, r # <<workFrame, workIdx>>,
         r[1] = workFrame, r[2] >= workIdx
  PROVE  Holder(r)'
<1>1. /\ r \in Refs /\ r[2] <= Len(batch[workFrame])
  BY DEF Submitted
<1>2. r[1] \in Int /\ r[2] \in Int /\ r = <<r[1], r[2]>> /\ workIdx \in Int
  BY <1>1, RefOrder DEF IInv, TypeOK
<1>3. r[2] > workIdx
  BY <1>2
<1>4. Len(batch[workFrame]) \in Int
  <2>1. workFrame \in Frames
    BY SessionAssumption DEF IInv, TypeOK, InRange, Frames
  <2> QED
    BY <2>1 DEF IInv, TypeOK
<1>5. MoreRequests
  BY <1>1, <1>2, <1>3, <1>4 DEF MoreRequests
<1>6. workPc' \in Handling /\ workFrame' = workFrame /\ workIdx' = workIdx + 1
  BY <1>5 DEF NextRequest, Handling
<1> QED
  BY <1>2, <1>3, <1>6 DEF Holder

(* An open fence has a holder after every step. *)
LEMMA FencesStep ==
  ASSUME IInv, Order, Told, Exits, Fences, [Next]_vars
  PROVE  Fences'
<1>a. \A r \in fences : r \in Refs /\ r[1] \in Int /\ r[2] \in Int /\ r = <<r[1], r[2]>>
  BY RefOrder DEF Fences, Submitted
<1>1. CASE FencesAside
  BY <1>1 DEF FencesAside, Fences, Holder, Submitted, ImgBusy
<1>2. CASE DestroyDrained
  BY <1>2, IdleWhenDrained
  DEF DestroyDrained, workVars, imgVars, Fences, Holder, Submitted, ImgBusy, Handling
<1>3. ASSUME NEW n \in 1..MaxBatch,
             NEW reqs \in [1..n -> [pid: 0..MaxPipeline, outs: Outputs]],
             SubmitRequests(reqs)
      PROVE  Fences'
  <2>1. /\ fences' = fences \cup {<<nextFrame, i>> : i \in 1..n}
        /\ queued' = queued \cup {nextFrame}
        /\ UNCHANGED <<workVars, imgList, imgPc, imgCur, answer>>
    BY <1>3, SubmitAdds DEF SubmitRequests, imgVars
  <2>2. ASSUME NEW r \in fences
        PROVE  r \in Submitted' /\ Holder(r)'
    BY <1>3, <2>1, SubmitAdds DEF Fences, Holder, ImgBusy, workVars
  <2>3. ASSUME NEW r \in {<<nextFrame, i>> : i \in 1..n}
        PROVE  r \in Submitted' /\ Holder(r)'
    <3>1. PICK i \in 1..n : r = <<nextFrame, i>>
      BY <2>3
    <3>2. r[1] = nextFrame /\ r[2] = i /\ i \in 1..MaxBatch /\ i <= n
      BY <3>1, SessionAssumption
    <3>3. r \in Refs /\ nextFrame < nextFrame' /\ i <= Len(batch'[nextFrame])
      <4>1. /\ nextFrame \in Frames /\ nextFrame' = nextFrame + 1 /\ Len(reqs) = n
            /\ batch'[nextFrame] = reqs
        BY <1>3, SubmitAdds
      <4> QED
        BY <3>1, <3>2, <4>1 DEF Refs, Frames
    <3>4. r \in Submitted'
      BY <3>2, <3>3 DEF Submitted
    <3>5. r[1] \in queued'
      BY <2>1, <3>2
    <3> QED
      BY <3>4, <3>5 DEF Holder
  <2> QED
    BY <2>1, <2>2, <2>3 DEF Fences
<1>4. CASE PopRequest
  <2>1. /\ UNCHANGED <<fences, batch, nextFrame, imgList, imgPc, imgCur, answer>>
        /\ queued' = queued \ {workFrame'} /\ workPc = "idle" /\ workPc' = "check" /\ workIdx' = 1
    BY <1>4 DEF PopRequest, imgVars
  <2>2. ASSUME NEW r \in fences
        PROVE  Holder(r)'
    <3>1. CASE r[1] = workFrame'
      <4>1. r[2] >= 1
        BY <1>a, SessionAssumption DEF Refs
      <4> QED
        BY <2>1, <3>1, <4>1 DEF Holder, Handling
    <3>2. CASE r[1] # workFrame'
      BY <2>1, <3>2 DEF Fences, Holder, ImgBusy, Handling
    <3> QED
      BY <3>1, <3>2
  <2> QED
    BY <2>1, <2>2 DEF Fences, Submitted
<1>5. CASE CheckPipeline
  <2> DEFINE w == <<workFrame, workIdx>>
  <2>1. /\ UNCHANGED <<fences, batch, nextFrame, queued, imgList, imgPc, imgCur>>
        /\ workPc \in Handling
    BY <1>5 DEF CheckPipeline, reqVars, imgVars, Handling
  <2>2. CASE workPc' = "start" /\ UNCHANGED <<workFrame, workIdx, answer>>
    BY <2>1, <2>2 DEF Fences, Holder, Submitted, ImgBusy, Handling
  <2>3. CASE NextRequest /\ answer' = [answer EXCEPT ![w] = "invalid"]
    <3>1. w \in Refs
      BY <2>1, RefsAtHand
    <3>2. answer'[w] = "invalid" /\ \A q \in Refs : q # w => answer'[q] = answer[q]
      BY <2>3, <3>1, TellOne
    <3>3. ASSUME NEW r \in fences
          PROVE  Holder(r)'
      <4>1. CASE r = w
        BY <3>2, <4>1 DEF Holder
      <4>2. CASE r # w /\ r[1] = workFrame /\ r[2] >= workIdx
        BY <2>1, <2>3, <4>2, HolderNext DEF Fences
      <4>3. CASE r # w /\ ~(r[1] = workFrame /\ r[2] >= workIdx)
        BY <1>a, <2>1, <3>2, <4>3 DEF Fences, Holder, ImgBusy
      <4> QED
        BY <4>1, <4>2, <4>3
    <3> QED
      BY <2>1, <3>3 DEF Fences, Submitted
  <2> QED
    BY <1>5, <2>2, <2>3 DEF CheckPipeline, SkipRequest
<1>6. CASE FeedImage
  <2> DEFINE i == [frame |-> workFrame, idx |-> workIdx, bufs |-> workBufs]
             w == <<workFrame, workIdx>>
  <2>1. /\ UNCHANGED <<fences, batch, nextFrame, queued, imgPc, imgCur, answer>>
        /\ workPc \in Handling /\ NextRequest
    BY <1>6 DEF FeedImage, reqVars, imgVars, Handling
  <2>2. i \in Image /\ Ref(i) = w
    BY <1>6 DEF FeedImage, Image, IInv, TypeOK, Frames, InRange, Handling, Ref
  <2> HIDE DEF i
  <2>3. /\ \A j \in 1..Len(imgList) : imgList'[j] = imgList[j]
        /\ imgList'[Len(imgList) + 1] = i
        /\ Len(imgList') = Len(imgList) + 1 /\ Len(imgList) \in Nat
    BY <1>6, <2>2, AppendImage DEF FeedImage, IInv, TypeOK, i
  <2>4. ASSUME NEW r \in fences
        PROVE  Holder(r)'
    <3>1. CASE r = w
      <4>1. Len(imgList) + 1 \in 1..Len(imgList') /\ r = Ref(imgList'[Len(imgList) + 1])
        BY <2>2, <2>3, <3>1
      <4> QED
        BY <4>1 DEF Holder
    <3>2. CASE r # w /\ r[1] = workFrame /\ r[2] >= workIdx
      BY <2>1, <3>2, HolderNext DEF Fences
    <3>3. CASE \E j \in 1..Len(imgList) : r = Ref(imgList[j])
      <4>1. PICK j \in 1..Len(imgList) : r = Ref(imgList[j])
        BY <3>3
      <4>2. j \in 1..Len(imgList') /\ r = Ref(imgList'[j])
        BY <2>3, <4>1
      <4> QED
        BY <4>2 DEF Holder
    <3>4. CASE r[1] \in queued \/ answer[r] = "invalid" \/ (ImgBusy /\ r = Ref(imgCur))
      BY <2>1, <3>4 DEF Holder, ImgBusy
    <3> QED
      BY <3>1, <3>2, <3>3, <3>4 DEF Fences, Holder
  <2> QED
    BY <2>1, <2>4 DEF Fences, Submitted
<1>7. ASSUME NEW s \in Streams, AcquireNull(s)
      PROVE  Fences'
  <2> DEFINE w == <<workFrame, workIdx>>
  <2>1. /\ UNCHANGED <<batch, nextFrame, queued, imgList, imgPc, imgCur, answer>>
        /\ workPc \in Handling
    BY <1>7 DEF AcquireNull, reqVars, imgVars, Handling
  <2>2. CASE workPc' = "feed" /\ UNCHANGED <<workFrame, workIdx, fences>>
    BY <2>1, <2>2 DEF Fences, Holder, Submitted, ImgBusy, Handling
  <2>3. CASE NextRequest /\ fences' = fences \ {w}
    <3>1. ASSUME NEW r \in fences, r # w
          PROVE  Holder(r)'
      <4>1. CASE r[1] = workFrame /\ r[2] >= workIdx
        BY <2>1, <2>3, <3>1, <4>1, HolderNext DEF Fences
      <4>2. CASE ~(r[1] = workFrame /\ r[2] >= workIdx)
        BY <2>1, <4>2 DEF Fences, Holder, ImgBusy
      <4> QED
        BY <4>1, <4>2
    <3> QED
      BY <2>1, <2>3, <3>1 DEF Fences, Submitted
  <2> QED
    BY <1>7, <2>2, <2>3 DEF AcquireNull
<1>8. CASE PopImage
  <2>1. /\ UNCHANGED <<fences, batch, nextFrame, queued, workPc, workFrame, workIdx, answer>>
        /\ imgPc = "idle" /\ imgPc' = "check"
    BY <1>8 DEF PopImage, reqVars, workVars
  <2>2. /\ imgCur' = imgList[1] /\ Len(imgList) >= 1
        /\ Len(imgList') = Len(imgList) - 1 /\ Len(imgList) \in Nat
        /\ \A j \in 1..Len(imgList') : imgList'[j] = imgList[j + 1]
    BY <1>8, TakeImage DEF PopImage, IInv, TypeOK
  <2>3. ASSUME NEW r \in fences
        PROVE  Holder(r)'
    <3>1. CASE \E j \in 1..Len(imgList) : r = Ref(imgList[j])
      <4>1. PICK j \in 1..Len(imgList) : r = Ref(imgList[j])
        BY <3>1
      <4>2. CASE j = 1
        BY <2>1, <2>2, <4>1, <4>2 DEF Holder, ImgBusy
      <4>3. CASE j # 1
        <5>1. j - 1 \in 1..Len(imgList') /\ imgList'[j - 1] = imgList[j]
          BY <2>2, <4>3
        <5> QED
          BY <4>1, <5>1 DEF Holder
      <4> QED
        BY <4>2, <4>3
    <3>2. CASE ~\E j \in 1..Len(imgList) : r = Ref(imgList[j])
      BY <2>1, <3>2 DEF Fences, Holder, ImgBusy
    <3> QED
      BY <3>1, <3>2
  <2> QED
    BY <2>1, <2>3 DEF Fences, Submitted
<1>9. CASE CheckImage \/ ReturnBuffers \/ CountImage \/ ImgProcExit
  <2>1. UNCHANGED <<fences, batch, nextFrame, queued, workPc, workFrame, workIdx, answer,
                    imgList, imgCur>>
    BY <1>9 DEF CheckImage, ReturnBuffers, CountImage, ImgProcExit, reqVars, workVars
  <2>2. ImgBusy => ImgBusy'
    BY <1>9 DEF CheckImage, ReturnBuffers, CountImage, ImgProcExit, ImgBusy, ErrorPath, IInv, Live,
       Uncounted
  <2> QED
    BY <2>1, <2>2 DEF Fences, Holder, Submitted
<1>10. CASE ProcessImage \/ SendResult \/ NotifyError
  <2>1. UNCHANGED <<fences, batch, nextFrame, queued, workPc, workFrame, workIdx, imgList, imgCur>>
    BY <1>10 DEF ProcessImage, SendResult, NotifyError, reqVars, workVars
  <2>2. ImgBusy /\ ImgBusy' /\ answer[Ref(imgCur)] # "invalid"
    BY <1>10 DEF ProcessImage, SendResult, NotifyError, ImgBusy, Told, ImageAt
  <2>3. \E a : answer' = [answer EXCEPT ![Ref(imgCur)] = a]
    BY <1>10 DEF ProcessImage, SendResult, NotifyError, Answered, Ref
  <2>4. \A q \in Refs : q # Ref(imgCur) => answer'[q] = answer[q]
    BY <2>2, <2>3, RefsAtHand, TellOne
  <2>5. \A q \in Refs : answer[q] = "invalid" => answer'[q] = "invalid"
    BY <2>2, <2>4
  <2> QED
    BY <1>a, <2>1, <2>2, <2>5 DEF Fences, Holder, Submitted
<1>11. CASE ReleaseImage
  <2>1. /\ UNCHANGED <<batch, nextFrame, queued, workPc, workFrame, workIdx, answer, imgList>>
        /\ fences' = fences \ {Ref(imgCur)}
    BY <1>11 DEF ReleaseImage, reqVars, workVars, Ref
  <2> QED
    BY <2>1 DEF Fences, Holder, Submitted
<1> QED
  BY <1>1, <1>2, <1>3, <1>4, <1>5, <1>6, <1>7, <1>8, <1>9, <1>10, <1>11, FencesSteps
  DEF HandleImage

(* Only these steps tell of a request, take an image or free a vector.     *)
LEMMA LastFreedSteps ==
  ASSUME [Next]_vars
  PROVE  \/ /\ vecs' \subseteq vecs
            /\ UNCHANGED <<batch, nextFrame, answer, imgCur>>
            /\ imgPc \in {"count", "release"} => imgPc' \in {"count", "release"}
         \/ \E n \in 1..MaxBatch : \E reqs \in [1..n -> [pid: 0..MaxPipeline, outs: Outputs]] :
              SubmitRequests(reqs)
         \/ CheckPipeline \/ ProcessImage \/ SendResult \/ NotifyError
         \/ PopImage \/ ReleaseImage
<1> USE DEF pipeVars, reqVars, imgVars
<1> DEFINE Keeps == /\ vecs' \subseteq vecs
                    /\ UNCHANGED <<batch, nextFrame, answer, imgCur>>
                    /\ imgPc \in {"count", "release"} => imgPc' \in {"count", "release"}
<1>1. ASSUME NEW logical \in {FALSE, HasPhysical}, ConfigurePipeline(logical)
      PROVE  Keeps
  BY <1>1 DEF ConfigurePipeline
<1>2. CASE BuildPipelines \/ DestroyPipelines \/ DeleteSession \/ DestroySteps
  BY <1>2 DEF BuildPipelines, DestroyPipelines, DeleteSession, DestroySteps, DestroyRequestsDone,
     DestroyDrained
<1>3. CASE DeleteSteps
  BY <1>3 DEF DeleteSteps, ImgProcExit, WorkExit, StopStreams
<1>4. CASE \/ PopRequest \/ StartKeep \/ StartReconfigure \/ Restarted \/ StartFailed
           \/ FeedImage \/ FinishRequest
  BY <1>4 DEF PopRequest, StartKeep, StartReconfigure, Restarted, StartFailed, FeedImage,
     FinishRequest
<1>5. ASSUME NEW s \in Streams, AcquireFrame(s) \/ AcquireTimeout(s) \/ AcquireNull(s)
      PROVE  Keeps
  BY <1>5 DEF AcquireFrame, AcquireTimeout, AcquireNull
<1>6. CASE CheckImage \/ ReturnBuffers \/ CountImage
  BY <1>6 DEF CheckImage, ReturnBuffers, CountImage
<1>7. CASE UNCHANGED vars
  BY <1>7 DEF vars
<1> QED
  BY <1>1, <1>2, <1>3, <1>4, <1>5, <1>6, <1>7
  DEF Next, Framework, HandleRequest, HandleImage

(* The vector of a frame goes with the answer to its last request.         *)
LEMMA LastFreedStep ==
  ASSUME IInv, Order, Told, LastFreed, [Next]_vars
  PROVE  LastFreed'
<1> DEFINE last(f) == <<f, Len(batch[f])>>
<1>a. \A f \in vecs : f \in Frames /\ f \in Int /\ f < nextFrame /\ last(f) \in Refs
  <2> TAKE f \in vecs
  <2>1. f \in Frames /\ f < nextFrame /\ batch \in [Frames -> Seq(Request)]
    BY DEF IInv, TypeOK, LastFreed
  <2>2. Len(batch[f]) \in 1..MaxBatch
    BY <2>1, SessionAssumption DEF IInv, InRange
  <2> QED
    BY <2>1, <2>2 DEF Refs, Frames
<1>1. CASE /\ vecs' \subseteq vecs
           /\ UNCHANGED <<batch, nextFrame, answer, imgCur>>
           /\ imgPc \in {"count", "release"} => imgPc' \in {"count", "release"}
  BY <1>1 DEF LastFreed, Ref
<1>2. ASSUME NEW n \in 1..MaxBatch,
             NEW reqs \in [1..n -> [pid: 0..MaxPipeline, outs: Outputs]],
             SubmitRequests(reqs)
      PROVE  LastFreed'
  <2>0. /\ nextFrame \in Frames /\ nextFrame' = nextFrame + 1 /\ Len(reqs) = n
        /\ batch'[nextFrame] = reqs
        /\ \A f \in Frames : f # nextFrame => batch'[f] = batch[f]
    BY <1>2, SubmitAdds
  <2>1. /\ vecs' = vecs \cup {nextFrame} /\ UNCHANGED <<answer, imgPc, imgCur>>
        /\ nextFrame \in Int
    BY <1>2, <2>0 DEF SubmitRequests, imgVars, Frames
  <2>2. ASSUME NEW f \in vecs
        PROVE  batch'[f] = batch[f] /\ f < nextFrame'
    <3>1. f \in Frames /\ f \in Int /\ f < nextFrame
      BY <1>a
    <3>2. f # nextFrame /\ f < nextFrame + 1
      BY <2>1, <3>1
    <3> QED
      BY <2>0, <3>1, <3>2
  <2>3. answer[<<nextFrame, n>>] = "none"
    <3>1. <<nextFrame, n>> \in Refs /\ <<nextFrame, n>>[1] > workFrame
      BY <2>0, <2>1, SessionAssumption DEF Refs, IInv, TypeOK, Counting
    <3> QED
      BY <3>1 DEF Told, WorkAhead
  <2>4. ASSUME NEW f \in vecs'
        PROVE  /\ f < nextFrame'
               /\ answer[<<f, Len(batch'[f])>>] \in Final =>
                    imgPc \in {"count", "release"} /\ Ref(imgCur) = <<f, Len(batch'[f])>>
    <3>1. CASE f \in vecs
      BY <2>2, <3>1 DEF LastFreed
    <3>2. CASE f = nextFrame
      <4>1. f < nextFrame'
        BY <2>0, <2>1, <3>2
      <4>2. <<f, Len(batch'[f])>> = <<nextFrame, n>>
        BY <2>0, <3>2
      <4> QED
        BY <2>3, <4>1, <4>2 DEF Final
    <3> QED
      BY <2>1, <3>1, <3>2
  <2> QED
    BY <2>1, <2>4 DEF LastFreed, Ref
<1>3. CASE CheckPipeline
  <2>1. UNCHANGED <<vecs, batch, nextFrame, imgPc, imgCur>>
    BY <1>3 DEF CheckPipeline, reqVars, imgVars
  <2>2. \A q \in Refs : answer'[q] \in Final => answer[q] \in Final
    <3>1. CASE answer' = answer
      BY <3>1
    <3>2. CASE answer' = [answer EXCEPT ![<<workFrame, workIdx>>] = "invalid"]
      <4>1. workPc \in Handling
        BY <1>3 DEF CheckPipeline, Handling
      <4> QED
        BY <3>2, <4>1, RefsAtHand, TellOne DEF Final
    <3> QED
      BY <1>3, <3>1, <3>2 DEF CheckPipeline
  <2> QED
    BY <1>a, <2>1, <2>2 DEF LastFreed, Ref
<1>4. CASE ProcessImage \/ SendResult \/ NotifyError
  <2>1. UNCHANGED <<vecs, batch, nextFrame, imgCur>>
    BY <1>4 DEF ProcessImage, SendResult, NotifyError, reqVars
  <2>2. ImgBusy /\ imgPc \notin {"count", "release"}
    BY <1>4 DEF ProcessImage, SendResult, NotifyError, ImgBusy
  <2>3. PICK a \in {"shutter", "result", "error"} : answer' = [answer EXCEPT ![Ref(imgCur)] = a]
    BY <1>4 DEF ProcessImage, SendResult, NotifyError, Answered, Ref
  <2>4. answer'[Ref(imgCur)] = a /\ \A q \in Refs : q # Ref(imgCur) => answer'[q] = answer[q]
    BY <2>2, <2>3, RefsAtHand, TellOne
  <2>5. answer'[Ref(imgCur)] \in Final => imgPc' \in {"count", "release"}
    <3>1. CASE ProcessImage
      <4>1. answer' = [answer EXCEPT ![Ref(imgCur)] = "shutter"]
        BY <3>1 DEF ProcessImage, Answered, Ref
      <4> QED
        BY <2>2, <4>1, RefsAtHand, TellOne DEF Final
    <3>2. CASE SendResult \/ NotifyError
      BY <3>2 DEF SendResult, NotifyError
    <3> QED
      BY <1>4, <3>1, <3>2
  <2>6. ASSUME NEW f \in vecs, answer'[last(f)] \in Final
        PROVE  imgPc' \in {"count", "release"} /\ Ref(imgCur) = last(f)
    <3>1. CASE last(f) = Ref(imgCur)
      BY <2>5, <2>6, <3>1
    <3>2. CASE last(f) # Ref(imgCur)
      BY <1>a, <2>2, <2>4, <2>6, <3>2 DEF LastFreed
    <3> QED
      BY <3>1, <3>2
  <2> QED
    BY <1>a, <2>1, <2>6 DEF LastFreed, Ref
<1>5. CASE PopImage
  BY <1>5 DEF PopImage, reqVars, LastFreed
<1>6. CASE ReleaseImage
  <2>1. /\ UNCHANGED <<batch, nextFrame, answer>>
        /\ vecs' = IF LastOfFrame(imgCur) THEN vecs \ {imgCur.frame} ELSE vecs
    BY <1>6 DEF ReleaseImage, reqVars
  <2>2. ASSUME NEW f \in vecs', answer[last(f)] \in Final
        PROVE  FALSE
    <3>1. f \in vecs
      BY <2>1
    <3>2. imgCur.frame = f /\ imgCur.idx = Len(batch[f])
      BY <2>2, <3>1 DEF LastFreed, Ref
    <3> QED
      BY <2>1, <3>2 DEF LastOfFrame
  <2> QED
    BY <2>1, <2>2 DEF LastFreed
<1> QED
  BY <1>1, <1>2, <1>3, <1>4, <1>5, <1>6, LastFreedSteps

(* What the threads still refer to, against what is still allocated.       *)
Leftovers == Named /\ Exits /\ Fences /\ LastFreed

(* It holds in every reachable state, beside the invariants it rests on.   *)
LEMMA LeftoversInvariance == Spec => [](IInv /\ Leftovers)
<1>1. Init => Leftovers
  <2> SUFFICES ASSUME Init PROVE Leftovers
    OBVIOUS
  <2>1. Submitted = {}
    <3>1. \A r \in Refs : ~(r[1] < nextFrame)
      BY SessionAssumption DEF Init, Refs, Frames
    <3> QED
      BY <3>1 DEF Submitted
  <2> QED
    BY <2>1 DEF Init, Leftovers, Named, Exits, Fences, LastFreed
<1>2. IInv /\ Order /\ Told /\ Leftovers /\ [Next]_vars => Leftovers'
  BY NamedStep, ExitsStep, FencesStep, LastFreedStep DEF Leftovers
<1> QED
  BY <1>1, <1>2, ToldInvariance, PTL DEF Spec

(* A deleted session leaves no image, only the fences of requests that     *)
(* were refused or never taken from map_frame_request, and only vectors    *)
(* whose last request got no answer: releaseImgFeed frees all the others.  *)
THEOREM LeavesNothing == Spec => []NothingLeaks
<1>1. IInv /\ Leftovers => NothingLeaks
  <2> SUFFICES ASSUME IInv, Leftovers, sesPc = "gone"
               PROVE  /\ imgList = <<>>
                      /\ \A r \in fences : r[1] \notin queued => answer[r] = "invalid"
                      /\ \A f \in vecs \ queued : answer[<<f, Len(batch[f])>>] \notin Final
    BY DEF NothingLeaks
  <2>1. imgPc = "exited" /\ workPc = "exited" /\ built = FALSE
    BY DEF Leftovers, Exits
  <2>2. imgList = <<>>
    BY <2>1, BuiltAtHand DEF Leftovers
  <2>3. \A r \in fences : r[1] \notin queued => answer[r] = "invalid"
    BY <2>1, <2>2 DEF Leftovers, Fences, Holder, ImgBusy, Handling
  <2>4. \A f \in vecs : answer[<<f, Len(batch[f])>>] \notin Final
    BY <2>1 DEF Leftovers, LastFreed
  <2> QED
    BY <2>2, <2>3, <2>4
<1> QED
  BY <1>1, LeftoversInvariance, PTL

=============================================================================
