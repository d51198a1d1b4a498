----------------------------- MODULE EventQueue -----------------------------
(***************************************************************************)
(* The vehicle HAL's event queue and the thread that empties it            *)
(* (vehicle/common/include/vhal_v2_0/ConcurrentQueue.h: ConcurrentQueue    *)
(* and BatchingConsumer).  A step is a region of the queue's lock, a       *)
(* notification of mCond, which is sent after the lock was released, or a  *)
(* test of mState.  A notification wakes a consumer that waits on mCond;   *)
(* one that is sent to nobody is lost.  What the items are, and how many,  *)
(* does not matter: flush takes them all.                                  *)
(***************************************************************************)
EXTENDS Integers

VARIABLES mQueue,      \* ConcurrentQueue: "empty", or it holds "items"
          mIsActive,   \* ConcurrentQueue
          notifying,   \* threads in push, between the unlock and notify_one
          mState,      \* BatchingConsumer
          consumerPc   \* where runInternal is

queueVars == <<mQueue, mIsActive, notifying, mState, consumerPc>>

QueueInit ==
    /\ mQueue = "empty"
    /\ mIsActive = TRUE
    /\ notifying = {}
    /\ mState = "INIT"
    /\ consumerPc = "start"

-----------------------------------------------------------------------------
(* ConcurrentQueue, for its producers and the destructor.                  *)

\* The lock region of push, by thread w.  A deactivated queue drops what is
\* pushed.
push(w) ==
    /\ w \notin notifying
    /\ mQueue' = IF mIsActive THEN "items" ELSE mQueue
    /\ notifying' = IF mIsActive THEN notifying \cup {w} ELSE notifying
    /\ UNCHANGED <<mIsActive, mState, consumerPc>>

\* A consumer that waits on mCond is woken and will test again.
Woken == IF consumerPc = "blocked" THEN "wait" ELSE consumerPc

\* mCond.notify_one, at the end of push.
notify_one(w) ==
    /\ w \in notifying
    /\ notifying' = notifying \ {w}
    /\ consumerPc' = Woken
    /\ UNCHANGED <<mQueue, mIsActive, mState>>

requestStop ==
    /\ mState' = "STOP_REQUESTED"
    /\ UNCHANGED <<mQueue, mIsActive, notifying, consumerPc>>

\* The lock region of deactivate.
deactivate ==
    /\ mIsActive' = FALSE
    /\ UNCHANGED <<mQueue, notifying, mState, consumerPc>>

\* Mutant: nobody is told that the queue was deactivated.
notifyNobody == UNCHANGED queueVars

\* mCond.notify_all, at the end of deactivate.
notify_all ==
    /\ consumerPc' = Woken
    /\ UNCHANGED <<mQueue, mIsActive, notifying, mState>>

-----------------------------------------------------------------------------
(* BatchingConsumer.                                                       *)

\* The end of runInternal.
Finish ==
    /\ mState' = "STOPPED"
    /\ consumerPc' = "done"
    /\ UNCHANGED <<mQueue, mIsActive, notifying>>

\* mState.exchange(RUNNING): a stop that was requested first is overwritten,
\* but the thread sees it in the value the exchange returns.
ConsumerStarts ==
    /\ consumerPc = "start"
    /\ mState = "INIT"
    /\ mState' = "RUNNING"
    /\ consumerPc' = "loop"
    /\ UNCHANGED <<mQueue, mIsActive, notifying>>

ConsumerStartsStopped ==
    /\ consumerPc = "start"
    /\ mState # "INIT"
    /\ Finish

\* while (State::RUNNING == mState)
ConsumerLoops ==
    /\ consumerPc = "loop"
    /\ mState = "RUNNING"
    /\ consumerPc' = "wait"
    /\ UNCHANGED <<mQueue, mIsActive, notifying, mState>>

\* Mutant: waitForItems waits before it looks at the queue.
BlockUntested ==
    /\ consumerPc = "wait"
    /\ mIsActive
    /\ consumerPc' = "blocked"
    /\ UNCHANGED <<mQueue, mIsActive, notifying, mState>>

\* waitForItems finds nothing under the lock and waits on mCond, which
\* releases the lock.
ConsumerBlocks ==
    /\ consumerPc = "wait"
    /\ mQueue = "empty" /\ mIsActive
    /\ consumerPc' = "blocked"
    /\ UNCHANGED <<mQueue, mIsActive, notifying, mState>>

\* mCond.wait may return for no reason; waitForItems tests again.
ConsumerSpurious ==
    /\ consumerPc = "blocked"
    /\ consumerPc' = "wait"
    /\ UNCHANGED <<mQueue, mIsActive, notifying, mState>>

\* waitForItems returns, no stop was requested, and the sleep of the
\* batching interval begins.
ConsumerWakes ==
    /\ consumerPc = "wait"
    /\ mQueue # "empty" \/ ~mIsActive
    /\ mState # "STOP_REQUESTED"
    /\ consumerPc' = "sleep"
    /\ UNCHANGED <<mQueue, mIsActive, notifying, mState>>

\* The sleep ends and flush takes the items; a deactivated queue gives none.
ConsumerFlushes ==
    /\ consumerPc = "sleep"
    /\ mState # "STOP_REQUESTED"
    /\ mQueue' = IF mIsActive THEN "empty" ELSE mQueue
    /\ consumerPc' = IF mQueue' = mQueue THEN "loop" ELSE "batch"
    /\ UNCHANGED <<mIsActive, notifying, mState>>

\* The loop's condition or one of the two tests inside it ends the thread.
ConsumerBreaks ==
    /\ \/ consumerPc \in {"loop", "sleep"}
       \/ consumerPc = "wait" /\ (mQueue # "empty" \/ ~mIsActive)
    /\ mState = "STOP_REQUESTED"
    /\ Finish
=============================================================================
