--------------------------- MODULE MCVideoStream ---------------------------
(* Instances of VideoStream for TLC. *)
EXTENDS VideoStream

CONSTANTS c1, c2

(* Frames are omitted after a change to the second configuration only, and *)
(* more of them than the one that makes mRecoverCount 0.                   *)
OmitTwo == [c \in {c1, c2} |-> IF c = c2 THEN 2 ELSE 0]

Stream(k, f, l) == [kind |-> k, faults |-> f, logical |-> l]

(* Every kind, with every fault it copes with. A failed VIDIOC_STREAMOFF   *)
(* of an MMAPStream and a failed start of a DMAStream are left to the runs *)
(* that show what they do.                                                 *)
AllKinds ==
    {Stream(k, {"open", "configure", "start", "dqbuf", "qbuf", "stall"}, l) :
        k \in {"mmap", "isp"}, l \in BOOLEAN}
    \cup {Stream(k, {"open", "configure", "stop", "dqbuf", "qbuf", "stall"}, l) :
        k \in {"dma", "uvc"}, l \in BOOLEAN}

PlainMmapStart == {Stream("mmap", {"start"}, FALSE)}
PlainDmaStart == {Stream("dma", {"start"}, FALSE)}
=============================================================================
