------------------------ MODULE CameraBuffersProofs ------------------------
(* The v4l2 buffers a camera session has taken from its streams: whoever   *)
(* has a captured buffer in hand, WorkThread, an image in mImageList or    *)
(* ImageProcessThread, is counted against the driver's queue, so that a    *)
(* stream is never asked for more buffers than it has and never given back *)
(* one it did not lend.                                                    *)
EXTENDS CameraAnswersProofs, FiniteSetTheorems

(* The images of a list that were captured from a stream. *)
Captures(list, s) == {j \in 1..Len(list) : s \in list[j].bufs}

One(b) == IF b THEN 1 ELSE 0

(* Whoever has captured a buffer and not given it back is counted in held, *)
(* which a driver with NumBuffers buffers limits. A logical request that   *)
(* was given up keeps its buffers out, so held may count more.             *)
Lent ==
    \A s \in Streams :
      /\ Cardinality(Captures(imgList, s)) + One(ImgUsesBuffers /\ s \in imgCur.bufs)
           + One(s \in workBufs) <= held[s]
      /\ held[s] <= NumBuffers

(* WorkThread holds buffers only inside CapAndFeed, and a recovery         *)
(* restarts only a stream it has no buffer of.                             *)
Capturing ==
    /\ workPc \notin {"capture", "recover", "feed"} => workBufs = {}
    /\ workBufs \cap workTodo = {}
    /\ workPc = "recover" => workRestart \subseteq workTodo

(* Counting the images captured from a stream is well defined.             *)
LEMMA CapturesFinite ==
  ASSUME NEW list \in Seq(Image), NEW s
  PROVE  IsFiniteSet(Captures(list, s)) /\ Cardinality(Captures(list, s)) \in Nat
<1>1. IsFiniteSet(1..Len(list))
  BY FS_Interval
<1>2. Captures(list, s) \in SUBSET (1..Len(list))
  BY DEF Captures
<1> QED
  BY <1>1, <1>2, FS_Subset, FS_CardinalityType

(* feed adds its image to the count of the streams it was captured from.   *)
LEMMA CapturesAppend ==
  ASSUME NEW list \in Seq(Image), NEW i \in Image, NEW s
  PROVE  Cardinality(Captures(Append(list, i), s))
           = Cardinality(Captures(list, s)) + One(s \in i.bufs)
<1> DEFINE n == Len(list) + 1
<1>0. Len(list) \in Nat /\ n \notin 1..Len(list)
  OBVIOUS
<1>1. /\ Len(Append(list, i)) = n /\ Append(list, i)[n] = i
      /\ \A j \in 1..Len(list) : Append(list, i)[j] = list[j]
  BY AppendImage
<1>2. /\ n \notin Captures(list, s)
      /\ IsFiniteSet(Captures(list, s)) /\ Cardinality(Captures(list, s)) \in Nat
  BY <1>0, CapturesFinite DEF Captures
<1>3. CASE s \in i.bufs
  <2>1. Captures(Append(list, i), s) = Captures(list, s) \cup {n}
    BY <1>0, <1>1, <1>3 DEF Captures
  <2> QED
    BY <1>2, <1>3, <2>1, FS_AddElement DEF One
<1>4. CASE s \notin i.bufs
  <2>1. Captures(Append(list, i), s) = Captures(list, s)
    BY <1>0, <1>1, <1>4 DEF Captures
  <2> QED
    BY <1>2, <1>4, <2>1 DEF One
<1> QED
  BY <1>3, <1>4

(* Taking the first image takes it out of the count.                       *)
LEMMA CapturesTail ==
  ASSUME NEW list \in Seq(Image), list # <<>>, NEW s
  PROVE  Cardinality(Captures(list, s))
           = Cardinality(Captures(Tail(list), s)) + One(s \in Head(list).bufs)
<1> DEFINE T == Captures(Tail(list), s)
           R == Captures(list, s) \ {1}
           f == [j \in T |-> j + 1]
<1>1. /\ Head(list) = list[1] /\ Tail(list) \in Seq(Image)
      /\ Len(list) \in Nat /\ Len(list) >= 1 /\ Len(Tail(list)) = Len(list) - 1
      /\ \A j \in 1..(Len(list) - 1) : Tail(list)[j] = list[j + 1]
  BY TakeImage
<1>2. IsFiniteSet(T) /\ Cardinality(T) \in Nat
  BY <1>1, CapturesFinite
<1>3. f \in Bijection(T, R)
  <2>1. f \in [T -> R]
    BY <1>1 DEF Captures
  <2>2. \A j, k \in T : f[j] = f[k] => j = k
    BY DEF Captures
  <2>3. ASSUME NEW k \in R
        PROVE  \E j \in T : f[j] = k
    <3>1. k - 1 \in T /\ k \in Int
      BY <1>1 DEF Captures
    <3>2. f[k - 1] = k
      BY <3>1
    <3> QED
      BY <3>1, <3>2
  <2> QED
    BY <2>1, <2>2, <2>3 DEF Bijection, Injection, Surjection, IsInjective
<1>4. Cardinality(R) = Cardinality(T)
  BY <1>2, <1>3, FS_Bijection DEF ExistsBijection
<1> HIDE DEF T, R, f
<1>5. /\ IsFiniteSet(Captures(list, s)) /\ Cardinality(Captures(list, s)) \in Nat
      /\ (1 \in Captures(list, s)) <=> (s \in Head(list).bufs)
  <2>1. (1 \in Captures(list, s)) <=> (s \in Head(list).bufs)
    BY <1>1 DEF Captures
  <2> QED
    BY <2>1, CapturesFinite
<1>6. Cardinality(R) = IF 1 \in Captures(list, s) THEN Cardinality(Captures(list, s)) - 1
                       ELSE Cardinality(Captures(list, s))
  BY <1>5, FS_RemoveElement DEF R
<1> QED
  BY <1>2, <1>4, <1>5, <1>6 DEF One, T

(* No buffer is taken, moved or given back.                                *)
BuffersAside ==
    /\ UNCHANGED <<imgList, imgCur, held, workBufs>>
    /\ ImgUsesBuffers' => ImgUsesBuffers

(* Only the steps listed take, move or give back a buffer.                 *)
LEMMA BufferSteps ==
  ASSUME [Next]_vars
  PROVE  \/ BuffersAside \/ Restarted \/ StartFailed \/ FeedImage
         \/ \E s \in Streams : AcquireFrame(s) \/ AcquireNull(s)
         \/ PopImage \/ ReturnBuffers \/ ReleaseImage \/ StopStreams
<1> USE DEF BuffersAside, ImgUsesBuffers, workVars, imgVars
<1>1. ASSUME NEW logical \in {FALSE, HasPhysical}, ConfigurePipeline(logical)
      PROVE  BuffersAside
  BY <1>1 DEF ConfigurePipeline
<1>2. ASSUME NEW n \in 1..MaxBatch,
             NEW reqs \in [1..n -> [pid: 0..MaxPipeline, outs: Outputs]],
             SubmitRequests(reqs)
      PROVE  BuffersAside
  BY <1>2 DEF SubmitRequests
<1>3. CASE BuildPipelines \/ DestroyPipelines \/ DeleteSession \/ DestroySteps
  BY <1>3 DEF BuildPipelines, DestroyPipelines, DeleteSession, DestroySteps,
     DestroyRequestsDone, DestroyDrained
<1>4. CASE ImgProcExit \/ WorkExit
  BY <1>4 DEF ImgProcExit, WorkExit
<1>5. CASE PopRequest \/ CheckPipeline \/ StartKeep \/ StartReconfigure \/ FinishRequest
  BY <1>5 DEF PopRequest, CheckPipeline, StartKeep, StartReconfigure, FinishRequest
<1>6. ASSUME NEW s \in Streams, AcquireTimeout(s)
      PROVE  BuffersAside
  BY <1>6 DEF AcquireTimeout
<1>7. CASE CheckImage \/ ProcessImage \/ SendResult \/ CountImage \/ NotifyError
  BY <1>7 DEF CheckImage, ProcessImage, SendResult, CountImage, NotifyError
<1>8. CASE UNCHANGED vars
  BY <1>8 DEF vars
<1> QED
  BY <1>1, <1>2, <1>3, <1>4, <1>5, <1>6, <1>7, <1>8
  DEF Next, Framework, DeleteSteps, HandleRequest, HandleImage

(* WorkThread holds buffers of the streams it has done with, and no other. *)
LEMMA CapturingStep ==
  ASSUME IInv, Capturing, [Next]_vars
  PROVE  Capturing'
<1> USE DEF Capturing, workVars
<1>1. ASSUME NEW logical \in {FALSE, HasPhysical}, ConfigurePipeline(logical)
      PROVE  Capturing'
  BY <1>1 DEF ConfigurePipeline
<1>2. ASSUME NEW n \in 1..MaxBatch,
             NEW reqs \in [1..n -> [pid: 0..MaxPipeline, outs: Outputs]],
             SubmitRequests(reqs)
      PROVE  Capturing'
  BY <1>2 DEF SubmitRequests
<1>3. CASE BuildPipelines \/ DestroyPipelines \/ DeleteSession \/ DestroySteps \/ DeleteSteps
  BY <1>3 DEF BuildPipelines, DestroyPipelines, DeleteSession, DestroySteps,
     DestroyRequestsDone, DestroyDrained, DeleteSteps, ImgProcExit, WorkExit, StopStreams
<1>4. CASE PopRequest \/ CheckPipeline \/ StartKeep \/ StartReconfigure \/ FinishRequest
  BY <1>4 DEF PopRequest, CheckPipeline, SkipRequest, NextRequest, StartKeep, StartReconfigure,
     FinishRequest
<1>5. CASE Restarted \/ StartFailed
  BY <1>5 DEF Restarted, StartFailed
<1>6. ASSUME NEW s \in Streams, AcquireFrame(s)
      PROVE  Capturing'
  BY <1>6 DEF AcquireFrame
<1>7. ASSUME NEW s \in Streams, AcquireTimeout(s) \/ AcquireNull(s)
      PROVE  Capturing'
  BY <1>7 DEF AcquireTimeout, AcquireNull, NextRequest
<1>8. CASE FeedImage
  BY <1>8 DEF FeedImage, NextRequest
<1>9. CASE HandleImage
  BY <1>9 DEF HandleImage, PopImage, CheckImage, ProcessImage, ReturnBuffers, SendResult,
     CountImage, NotifyError, ReleaseImage
<1>10. CASE UNCHANGED vars
  BY <1>10 DEF vars
<1> QED
  BY <1>1, <1>2, <1>3, <1>4, <1>5, <1>6, <1>7, <1>8, <1>9, <1>10
  DEF Next, Framework, HandleRequest

(* A stream none of whose buffers anybody uses may lose them all.          *)
LEMMA LentEmptied ==
  ASSUME IInv, Lent, Drained, NEW S \in SUBSET Streams, S \cap workBufs = {},
         held' = [s \in Streams |-> IF s \in S THEN 0 ELSE held[s]],
         UNCHANGED <<imgList, imgPc, imgCur, workBufs>>
  PROVE  Lent'
<1>1. imgList = <<>> /\ ~ImgUsesBuffers
  BY NoImageWhenDrained DEF IInv, ImgUsesBuffers, Uncounted
<1>2. \A s \in Streams : Captures(imgList, s) = {}
  BY <1>1 DEF Captures
<1>3. Cardinality({}) = 0 /\ NumBuffers \in Nat
  BY FS_EmptySet, SessionAssumption
<1>4. ASSUME NEW s \in Streams
      PROVE  /\ Cardinality(Captures(imgList, s)) + One(FALSE) + One(s \in workBufs) <= held'[s]
             /\ held'[s] <= NumBuffers
  <2>1. CASE s \in S
    BY <1>2, <1>3, <2>1 DEF One
  <2>2. CASE s \notin S
    BY <1>1, <2>2 DEF Lent
  <2> QED
    BY <2>1, <2>2
<1> QED
  BY <1>1, <1>4 DEF Lent, ImgUsesBuffers

(* Every buffer in use stays counted. *)
LEMMA LentStep ==
  ASSUME IInv, Named, Exits, Capturing, Lent, [Next]_vars
  PROVE  Lent'
<1>a. imgList \in Seq(Image) /\ held \in [Streams -> Int] /\ NumBuffers \in Nat
  BY SessionAssumption DEF IInv, TypeOK
<1>b. \A s \in Streams : Cardinality(Captures(imgList, s)) \in Nat
  BY <1>a, CapturesFinite
<1>1. CASE BuffersAside
  <2>1. /\ UNCHANGED <<imgList, imgCur, held, workBufs>>
        /\ ImgUsesBuffers' => ImgUsesBuffers
    BY <1>1 DEF BuffersAside
  <2>2. ASSUME NEW t \in Streams
        PROVE  /\ Cardinality(Captures(imgList, t)) + One(ImgUsesBuffers' /\ t \in imgCur.bufs)
                    + One(t \in workBufs) <= held[t]
               /\ held[t] <= NumBuffers
    <3>1. /\ One(ImgUsesBuffers' /\ t \in imgCur.bufs) \in Nat
          /\ One(ImgUsesBuffers /\ t \in imgCur.bufs) \in Nat
          /\ One(t \in workBufs) \in Nat
      BY DEF One
    <3>2. One(ImgUsesBuffers' /\ t \in imgCur.bufs) <= One(ImgUsesBuffers /\ t \in imgCur.bufs)
      BY <2>1 DEF One
    <3> QED
      BY <1>a, <1>b, <3>1, <3>2 DEF Lent
  <2> QED
    BY <2>1, <2>2 DEF Lent
<1>2. CASE Restarted \/ (StartFailed /\ workPc = "drain")
  <2>1. /\ Drained /\ workRestart \in SUBSET Streams /\ workRestart \cap workBufs = {}
        /\ held' = [s \in Streams |-> IF s \in workRestart THEN 0 ELSE held[s]]
        /\ UNCHANGED <<imgList, imgPc, imgCur, workBufs>>
    BY <1>2 DEF Restarted, StartFailed, Emptied, Capturing, imgVars, IInv, TypeOK
  <2> QED
    BY <2>1, LentEmptied
<1>3. CASE StartFailed /\ workPc # "drain"
  BY <1>3 DEF StartFailed, imgVars, Lent, ImgUsesBuffers
<1>4. ASSUME NEW s \in Streams, AcquireFrame(s)
      PROVE  Lent'
  <2>1. /\ held[s] < NumBuffers /\ held' = [held EXCEPT ![s] = @ + 1]
        /\ workBufs' = workBufs \cup {s} /\ s \notin workBufs
        /\ UNCHANGED <<imgList, imgPc, imgCur>>
    BY <1>4 DEF AcquireFrame, Capturing, imgVars
  <2>2. ASSUME NEW t \in Streams
        PROVE  /\ Cardinality(Captures(imgList, t)) + One(ImgUsesBuffers /\ t \in imgCur.bufs)
                    + One(t \in workBufs') <= held'[t]
               /\ held'[t] <= NumBuffers
    <3>1. /\ One(ImgUsesBuffers /\ t \in imgCur.bufs) \in Nat
          /\ One(t \in workBufs) \in Nat
          /\ One(t \in workBufs') = IF t = s THEN One(t \in workBufs) + 1 ELSE One(t \in workBufs)
      BY <2>1 DEF One
    <3>2. held'[t] = IF t = s THEN held[t] + 1 ELSE held[t]
      BY <1>a, <2>1
    <3> QED
      BY <1>a, <1>b, <2>1, <3>1, <3>2 DEF Lent
  <2> QED
    BY <2>1, <2>2 DEF Lent, ImgUsesBuffers
<1>5. ASSUME NEW s \in Streams, AcquireNull(s)
      PROVE  Lent'
  <2>1. workBufs' = {} /\ UNCHANGED <<imgList, imgPc, imgCur, held>>
    BY <1>5 DEF AcquireNull, imgVars
  <2>2. ASSUME NEW t \in Streams
        PROVE  /\ Cardinality(Captures(imgList, t)) + One(ImgUsesBuffers /\ t \in imgCur.bufs)
                    + One(t \in workBufs') <= held[t]
               /\ held[t] <= NumBuffers
    <3>1. /\ One(ImgUsesBuffers /\ t \in imgCur.bufs) \in Nat
          /\ One(t \in workBufs) \in Nat /\ One(t \in workBufs') = 0
      BY <2>1 DEF One
    <3> QED
      BY <1>a, <1>b, <3>1 DEF Lent
  <2> QED
    BY <2>1, <2>2 DEF Lent, ImgUsesBuffers
<1>6. CASE FeedImage
  <2> DEFINE i == [frame |-> workFrame, idx |-> workIdx, bufs |-> workBufs]
  <2>1. i \in Image /\ i.bufs = workBufs
    BY <1>6 DEF FeedImage, Image, IInv, TypeOK, Frames, InRange, Handling
  <2> HIDE DEF i
  <2>2. /\ imgList' = Append(imgList, i) /\ workBufs' = {}
        /\ UNCHANGED <<imgPc, imgCur, held>>
    BY <1>6 DEF FeedImage, imgVars, i
  <2>3. ASSUME NEW t \in Streams
        PROVE  /\ Cardinality(Captures(imgList', t)) + One(ImgUsesBuffers /\ t \in imgCur.bufs)
                    + One(t \in workBufs') <= held[t]
               /\ held[t] <= NumBuffers
    <3>1. Cardinality(Captures(imgList', t)) = Cardinality(Captures(imgList, t)) + One(t \in workBufs)
      BY <1>a, <2>1, <2>2, CapturesAppend
    <3>2. /\ One(ImgUsesBuffers /\ t \in imgCur.bufs) \in Nat
          /\ One(t \in workBufs) \in Nat /\ One(t \in workBufs') = 0
      BY <2>2 DEF One
    <3> QED
      BY <1>a, <1>b, <3>1, <3>2 DEF Lent
  <2> QED
    BY <2>2, <2>3 DEF Lent, ImgUsesBuffers
<1>7. CASE PopImage
  <2>1. /\ imgList # <<>> /\ imgCur' = Head(imgList) /\ imgList' = Tail(imgList)
        /\ imgPc = "idle" /\ imgPc' = "check" /\ UNCHANGED <<held, workBufs>>
    BY <1>7 DEF PopImage, workVars
  <2>2. imgList' \in Seq(Image)
    BY <1>a, <2>1, TakeImage
  <2>3. ASSUME NEW t \in Streams
        PROVE  /\ Cardinality(Captures(imgList', t)) + One(t \in imgCur'.bufs)
                    + One(t \in workBufs) <= held[t]
               /\ held[t] <= NumBuffers
    <3>1. Cardinality(Captures(imgList, t))
            = Cardinality(Captures(imgList', t)) + One(t \in imgCur'.bufs)
      BY <1>a, <2>1, CapturesTail
    <3>2. /\ One(ImgUsesBuffers /\ t \in imgCur.bufs) = 0
          /\ One(t \in workBufs) \in Nat /\ One(t \in imgCur'.bufs) \in Nat
      BY <2>1 DEF One, ImgUsesBuffers
    <3>3. Cardinality(Captures(imgList', t)) \in Nat
      BY <2>2, CapturesFinite
    <3> QED
      BY <1>a, <3>1, <3>2, <3>3 DEF Lent
  <2>4. ImgUsesBuffers'
    BY <2>1 DEF ImgUsesBuffers
  <2>5. ASSUME NEW t \in Streams
        PROVE  One(ImgUsesBuffers' /\ t \in imgCur'.bufs) = One(t \in imgCur'.bufs)
    BY <2>4 DEF One
  <2> QED
    BY <2>1, <2>3, <2>5 DEF Lent
<1>8. CASE ReturnBuffers
  <2>1. /\ imgPc = "return" /\ imgPc' = "result" /\ UNCHANGED <<imgList, imgCur, workBufs>>
        /\ held' = [s \in Streams |-> IF s \in imgCur.bufs THEN held[s] - 1 ELSE held[s]]
    BY <1>8 DEF ReturnBuffers, workVars
  <2>2. ImgUsesBuffers /\ ~ImgUsesBuffers'
    BY <2>1 DEF ImgUsesBuffers
  <2>3. ASSUME NEW t \in Streams
        PROVE  /\ Cardinality(Captures(imgList, t)) + One(ImgUsesBuffers' /\ t \in imgCur'.bufs)
                    + One(t \in workBufs) <= held'[t]
               /\ held'[t] <= NumBuffers
    <3>1. /\ One(ImgUsesBuffers' /\ t \in imgCur'.bufs) = 0
          /\ One(ImgUsesBuffers /\ t \in imgCur.bufs) = IF t \in imgCur.bufs THEN 1 ELSE 0
          /\ One(t \in workBufs) \in Nat
      BY <2>2 DEF One
    <3>2. held'[t] = IF t \in imgCur.bufs THEN held[t] - 1 ELSE held[t]
      BY <2>1
    <3> QED
      BY <1>a, <1>b, <3>1, <3>2 DEF Lent
  <2> QED
    BY <2>1, <2>3 DEF Lent
<1>9. CASE ReleaseImage
  <2>1. /\ imgPc = "release" /\ imgPc' = "idle" /\ UNCHANGED <<imgList, held, workBufs>>
    BY <1>9 DEF ReleaseImage, workVars
  <2>2. ASSUME NEW t \in Streams
        PROVE  One(ImgUsesBuffers' /\ t \in imgCur'.bufs) = One(ImgUsesBuffers /\ t \in imgCur.bufs)
    BY <2>1 DEF One, ImgUsesBuffers
  <2> QED
    BY <2>1, <2>2 DEF Lent
<1>10. CASE StopStreams
  <2>1. /\ sesPc = "stop" /\ held' = [s \in Streams |-> 0]
        /\ UNCHANGED <<imgList, imgPc, imgCur, workBufs>>
    BY <1>10 DEF StopStreams, imgVars, workVars
  <2>2. imgPc = "exited" /\ workPc = "exited" /\ built = FALSE
    BY <2>1 DEF Exits
  <2>3. imgList = <<>> /\ workBufs = {} /\ ~ImgUsesBuffers
    BY <2>2, BuiltAtHand DEF Capturing, ImgUsesBuffers
  <2>4. Cardinality({}) = 0
    BY FS_EmptySet
  <2>5. ASSUME NEW t \in Streams
        PROVE  /\ Cardinality(Captures(imgList, t)) + One(ImgUsesBuffers /\ t \in imgCur.bufs)
                    + One(t \in workBufs) <= held'[t]
               /\ held'[t] <= NumBuffers
    <3>1. Captures(imgList, t) = {}
      BY <2>3 DEF Captures
    <3>2. One(ImgUsesBuffers /\ t \in imgCur.bufs) = 0 /\ One(t \in workBufs) = 0
      BY <2>3 DEF One
    <3> QED
      BY <1>a, <2>1, <2>4, <3>1, <3>2
  <2> QED
    BY <2>1, <2>5 DEF Lent, ImgUsesBuffers
<1> QED
  BY <1>1, <1>2, <1>3, <1>4, <1>5, <1>6, <1>7, <1>8, <1>9, <1>10, BufferSteps

(* A stream never has more buffers out than the driver gave it, and no     *)
(* buffer is given back that is not out: what WorkThread, the images and   *)
(* ImgProcThread have in hand is counted, whatever is restarted meanwhile. *)
THEOREM BuffersCounted == Spec => []BuffersBounded
<1>1. Init => Capturing /\ Lent
  <2> SUFFICES ASSUME Init PROVE Capturing /\ Lent
    OBVIOUS
  <2>1. Cardinality({}) = 0 /\ NumBuffers \in Nat
    BY FS_EmptySet, SessionAssumption
  <2>2. /\ imgList = <<>> /\ workBufs = {} /\ ~ImgUsesBuffers
        /\ held = [s \in Streams |-> 0] /\ workPc = "idle" /\ workTodo = {}
    BY DEF Init, ImgUsesBuffers
  <2>3. ASSUME NEW t \in Streams
        PROVE  /\ Cardinality(Captures(imgList, t)) + One(ImgUsesBuffers /\ t \in imgCur.bufs)
                    + One(t \in workBufs) <= held[t]
               /\ held[t] <= NumBuffers
    <3>1. Captures(imgList, t) = {}
      BY <2>2 DEF Captures
    <3>2. One(ImgUsesBuffers /\ t \in imgCur.bufs) = 0 /\ One(t \in workBufs) = 0
      BY <2>2 DEF One
    <3> QED
      BY <2>1, <2>2, <3>1, <3>2
  <2> QED
    BY <2>2, <2>3 DEF Capturing, Lent
<1>2. IInv /\ Leftovers /\ Capturing /\ Lent /\ [Next]_vars => Capturing' /\ Lent'
  BY CapturingStep, LentStep DEF Leftovers
<1>3. IInv /\ Lent => BuffersBounded
  <2> SUFFICES ASSUME IInv, Lent, NEW t \in Streams
               PROVE  held[t] \in 0..NumBuffers
    BY DEF BuffersBounded
  <2>1. /\ imgList \in Seq(Image) /\ held[t] \in Int /\ NumBuffers \in Nat
    BY SessionAssumption DEF IInv, TypeOK
  <2>2. /\ Cardinality(Captures(imgList, t)) \in Nat
        /\ One(ImgUsesBuffers /\ t \in imgCur.bufs) \in Nat /\ One(t \in workBufs) \in Nat
    BY <2>1, CapturesFinite DEF One
  <2> QED
    BY <2>1, <2>2 DEF Lent
<1> QED
  BY <1>1, <1>2, <1>3, LeftoversInvariance, PTL DEF Spec

=============================================================================
