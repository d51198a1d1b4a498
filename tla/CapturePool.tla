---------------------------- MODULE CapturePool ----------------------------
(***************************************************************************)
(* What a video stream promises the capture session: a v4l2 buffer that    *)
(* onFrameAcquire hands out is nobody else's until onFrameReturn, and the  *)
(* buffers are renewed only while no image refers to one of them.          *)
(***************************************************************************)
CONSTANT Buffers        \* the indices of mBuffers

VARIABLES open,         \* the stream has not been closed
          taken,        \* buffers the driver does not have
          inUse         \* those an image, or WorkThread, refers to

vars == <<open, taken, inUse>>

Init == open = TRUE /\ taken = {} /\ inUse = {}

Take(b) ==
    /\ open /\ b \notin taken
    /\ taken' = taken \cup {b}
    /\ inUse' = inUse \cup {b}
    /\ UNCHANGED open

Give(b) ==
    /\ open /\ b \in inUse
    /\ taken' = taken \ {b}
    /\ inUse' = inUse \ {b}
    /\ UNCHANGED open

(* The buffer is out of the driver's reach and nobody will return it.      *)
Lose(b) ==
    /\ open
    /\ taken' = taken \cup {b}
    /\ inUse' = inUse \ {b}
    /\ UNCHANGED open

Renew ==
    /\ open /\ inUse = {}
    /\ taken' = {}
    /\ UNCHANGED <<open, inUse>>

Close == open /\ open' = FALSE /\ taken' = {} /\ inUse' = {}

Next == Renew \/ Close \/ \E b \in Buffers : Take(b) \/ Give(b) \/ Lose(b)

Spec == Init /\ [][Next]_vars
=============================================================================
