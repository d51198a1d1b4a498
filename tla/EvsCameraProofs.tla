-------------------------- MODULE EvsCameraProofs --------------------------
(* Invariants of EvsCamera, for any number of buffers.                     *)
EXTENDS EvsCamera, SequenceTheorems, TLAPS

(* What the counters and the frames in hand satisfy: buffers are added and *)
(* dropped only as many as asked for, and a thread has a frame exactly     *)
(* while it deals with one.                                                *)
Counted ==
    /\ svc \in {"grow", "store"} => need > 0 /\ allowed + need <= NumBuffers
    /\ dec <= allowed
    /\ dec > 0 => svc \in {"shrink", "wait"}
    /\ svc = "done" => svcBuf \in Index
    /\ capPc \in {"forward", "deliver", "giveback"} <=> capBuf \in Index

(* startVideoStream is under way: it has set RUN and the stream, and the   *)
(* thread comes last.                                                      *)
Starting == svc = "streamon" \/ (svc \in {"grow", "store"} /\ after = "streamon")

(* How mRunMode, the thread and the place of the service thread agree.     *)
Phases ==
    /\ svc \in Stopping => after \in {"idle", "close"}
    /\ svc \in {"grow", "store"} => after \in {"idle", "streamon"}
    /\ Starting => run = "run" /\ capPc = "none" /\ stream /\ open
    /\ run = "stopping" <=> svc = "clear"
    /\ svc \in {"streamoff", "join", "notify", "close"} => run = "stopped"
    /\ svc \in {"notify", "close"} => capPc = "none"
    /\ capPc # "none" => run = "run" \/ svc \in {"clear", "streamoff", "join"}
    /\ ThreadWatched

(* The end of the stream is announced once and for all: a stream that is   *)
(* set stays set, unless the camera is being closed.                       *)
Announced ==
    /\ ended => capPc = "none" /\ ~Starting
    /\ ended => stream \/ ~open \/ svc = "close"
    /\ stream11 /\ ~stream => ~open \/ (svc \in Stopping /\ after = "close")

(* The Boolean variables are assigned truth values only.                   *)
LEMMA FlagStep ==
    ASSUME Flags, [Next]_vars
    PROVE  Flags'
<1> USE EvsAssumption
       DEF modeVars, poolVars, drvVars, capVars, svcVars, clientVars,
           Flags
<1>1. CASE StartAgain
  BY <1>1 DEF StartAgain
<1>2. CASE StartVideoStream
  BY <1>2 DEF StartVideoStream
<1>3. CASE StopVideoStream
  BY <1>3 DEF StopVideoStream
<1>4. CASE Shutdown
  BY <1>4 DEF Shutdown
<1>5. ASSUME NEW b \in Index, DoneWithFrame(b) PROVE Flags'
  BY <1>5 DEF DoneWithFrame
<1>6. ASSUME NEW n \in 1..NumBuffers, SetMaxGrow(n) PROVE Flags'
  BY <1>6 DEF SetMaxGrow
<1>7. ASSUME NEW n \in 1..NumBuffers, SetMaxShrink(n) PROVE Flags'
  BY <1>7 DEF SetMaxShrink
<1>8. CASE ServiceDied
  BY <1>8 DEF ServiceDied
<1>9. CASE StreamOn
  BY <1>9 DEF StreamOn
<1>10. CASE StreamOnFails
  BY <1>10 DEF StreamOnFails
<1>11. CASE SignalStop
  BY <1>11 DEF SignalStop
<1>12. CASE ClearRunMode
  BY <1>12 DEF ClearRunMode
<1>13. CASE OnStop
  BY <1>13 DEF OnStop
<1>14. CASE Join
  BY <1>14 DEF Join
<1>15. CASE NotifyEnd
  BY <1>15 DEF NotifyEnd
<1>16. CASE Close
  BY <1>16 DEF Close
<1>17. CASE ReturnFrame
  BY <1>17 DEF ReturnFrame
<1>18. CASE GrowQueue
  BY <1>18 DEF GrowQueue
<1>19. CASE GrowStore
  BY <1>19 DEF GrowStore
<1>20. CASE WaitShrunk
  BY <1>20 DEF WaitShrunk
<1>21. CASE CheckRunMode
  BY <1>21 DEF CheckRunMode
<1>22. CASE DequeueFails
  BY <1>22 DEF DequeueFails
<1>23. ASSUME NEW b \in Index, Dequeue(b) PROVE Flags'
  BY <1>23 DEF Dequeue
<1>24. CASE SkipFrame
  BY <1>24 DEF SkipFrame
<1>25. CASE ForwardFrame
  BY <1>25 DEF ForwardFrame
<1>26. CASE DeliverFrame
  BY <1>26 DEF DeliverFrame
<1>27. CASE DeliverFails
  BY <1>27 DEF DeliverFails
<1>28. CASE GiveBack
  BY <1>28 DEF GiveBack
<1>29. CASE ClientDies
  BY <1>29 DEF ClientDies
<1>30. CASE UNCHANGED vars
  BY <1>30 DEF vars
<1> QED
  BY <1>1, <1>2, <1>3, <1>4, <1>5, <1>6, <1>7, <1>8, <1>9, <1>10, <1>11, <1>12,
     <1>13, <1>14, <1>15, <1>16, <1>17, <1>18, <1>19, <1>20, <1>21, <1>22,
     <1>23, <1>24, <1>25, <1>26, <1>27, <1>28, <1>29, <1>30
  DEF Next, Calls, ServiceThread, CaptureThread

(* Types and counters are preserved by every step.                         *)
LEMMA TypeStep ==
    ASSUME TypeOK, Counted, Phases, [Next]_vars
    PROVE  (TypeOK /\ Counted)'
<1> USE EvsAssumption
       DEF modeVars, poolVars, drvVars, capVars, svcVars, clientVars,
           TypeOK, Counted, Stopping, Index, None
<1>f. Flags'
  BY FlagStep
<1>1. CASE StartAgain
  BY <1>1, <1>f DEF StartAgain, Startable, SvcAt
<1>2. CASE StartVideoStream
  BY <1>2, <1>f DEF StartVideoStream, Startable, SvcAt
<1>3. CASE StopVideoStream
  BY <1>3, <1>f DEF StopVideoStream, SvcAt
<1>4. CASE Shutdown
  BY <1>4, <1>f DEF Shutdown, SvcAt
<1>5. ASSUME NEW b \in Index, DoneWithFrame(b) PROVE (TypeOK /\ Counted)'
  BY <1>5, <1>f DEF DoneWithFrame, SvcAt
<1>6. ASSUME NEW n \in 1..NumBuffers, SetMaxGrow(n) PROVE (TypeOK /\ Counted)'
  BY <1>6, <1>f DEF SetMaxGrow, SvcAt
<1>7. ASSUME NEW n \in 1..NumBuffers, SetMaxShrink(n) PROVE (TypeOK /\ Counted)'
  BY <1>7, <1>f DEF SetMaxShrink, SvcAt
<1>8. CASE ServiceDied
  BY <1>8, <1>f DEF ServiceDied, SvcAt
<1>9. CASE StreamOn
  <2>1. svc = "streamon" /\ svc' = "idle" /\ capPc = "none" /\ capPc' = "check"
    BY <1>9 DEF StreamOn, SvcAt, Phases, Starting
  <2> QED
    BY <1>9, <1>f, <2>1 DEF StreamOn
<1>10. CASE StreamOnFails
  BY <1>10, <1>f DEF StreamOnFails, SvcAt
<1>11. CASE SignalStop
  BY <1>11, <1>f DEF SignalStop, SvcAt
<1>12. CASE ClearRunMode
  BY <1>12, <1>f DEF ClearRunMode, SvcAt
<1>13. CASE OnStop
  BY <1>13, <1>f DEF OnStop, SvcAt
<1>14. CASE Join
  BY <1>14, <1>f DEF Join, SvcAt, Joined
<1>15. CASE NotifyEnd
  BY <1>15, <1>f DEF NotifyEnd, SvcAt
<1>16. CASE Close
  BY <1>16, <1>f DEF Close, SvcAt
<1>17. CASE ReturnFrame
  <2>1. queue' \subseteq Index /\ crash' \in {"no", "slot", "lost", "null"} /\ UNCHANGED poolVars
    BY <1>17 DEF ReturnFrame, SvcAt, AtThrows, Thrown, Requeue, AfterQbuf
  <2>2. inUse' \in 0..(Word - 1)
    BY <1>17 DEF ReturnFrame, Decremented
  <2>3. svc = "done" /\ svc' = "idle" /\ svcBuf' = None
    BY <1>17 DEF ReturnFrame, SvcAt
  <2> QED
    BY <1>17, <1>f, <2>1, <2>2, <2>3 DEF ReturnFrame
<1>18. CASE GrowQueue
  BY <1>18, <1>f DEF GrowQueue, SvcAt, FirstUnmapped, AfterQbuf
<1>19. CASE GrowStore
  BY <1>19, <1>f DEF GrowStore, SvcAt, HasNull
<1>20. CASE WaitShrunk
  BY <1>20, <1>f DEF WaitShrunk, SvcAt
<1>21. CASE CheckRunMode
  BY <1>21, <1>f DEF CheckRunMode, CapAt
<1>22. CASE DequeueFails
  BY <1>22, <1>f DEF DequeueFails, CapAt
<1>23. ASSUME NEW b \in Index, Dequeue(b) PROVE (TypeOK /\ Counted)'
  BY <1>23, <1>f DEF Dequeue, CapAt, NoSlot
<1>24. CASE SkipFrame
  BY <1>24, <1>f DEF SkipFrame, CapAt
<1>25. CASE ForwardFrame
  BY <1>25, <1>f DEF ForwardFrame, CapAt, NullSlot
<1>26. CASE DeliverFrame
  BY <1>26, <1>f DEF DeliverFrame, CapAt, Incremented
<1>27. CASE DeliverFails
  BY <1>27, <1>f DEF DeliverFails, CapAt, Incremented
<1>28. CASE GiveBack
  <2>1. capBuf \in Index /\ capBuf' = None /\ capPc' = "check"
    BY <1>28 DEF GiveBack, CapAt
  <2>2. CASE dec > 0 /\ Drop(capBuf)
    <3>1. vec' \in Seq({"live", "null"})
      <4>1. CASE capBuf + 1 \in 1..Len(vec)
        BY <2>2, <4>1, ExceptSeq DEF Drop
      <4>2. CASE capBuf + 1 \notin 1..Len(vec)
        <5>1. vec' = vec
          BY <2>2, <4>2 DEF Drop
        <5> QED
          BY <5>1
      <4> QED
        BY <4>1, <4>2
    <3> QED
      BY <1>28, <1>f, <2>1, <2>2, <3>1 DEF GiveBack, Drop
  <2>3. CASE dec = 0 /\ Requeue(capBuf) /\ UNCHANGED svc
    <3>1. queue' \subseteq Index
      BY <2>1, <2>3 DEF Requeue, AfterQbuf
    <3>2. UNCHANGED <<allowed, dec, mapped, vec, svc, crash>>
      BY <2>3 DEF Requeue, AfterQbuf
    <3> QED
      BY <1>28, <1>f, <2>1, <3>1, <3>2 DEF GiveBack
  <2> QED
    BY <1>28, <2>2, <2>3 DEF GiveBack
<1>29. CASE ClientDies
  BY <1>29, <1>f DEF ClientDies
<1>30. CASE UNCHANGED vars
  BY <1>30, <1>f DEF vars
<1> QED
  BY <1>1, <1>2, <1>3, <1>4, <1>5, <1>6, <1>7, <1>8, <1>9, <1>10, <1>11, <1>12,
     <1>13, <1>14, <1>15, <1>16, <1>17, <1>18, <1>19, <1>20, <1>21, <1>22,
     <1>23, <1>24, <1>25, <1>26, <1>27, <1>28, <1>29, <1>30
  DEF Next, Calls, ServiceThread, CaptureThread

(* The phases of a stream are preserved by every step.                     *)
LEMMA PhaseStep ==
    ASSUME TypeOK, Counted, Phases, [Next]_vars
    PROVE  Phases'
<1> USE EvsAssumption
       DEF modeVars, poolVars, drvVars, capVars, svcVars, clientVars,
           TypeOK, Flags, Counted, Phases, Starting, ThreadWatched, Stopping
<1>1. CASE StartAgain
  BY <1>1 DEF StartAgain, Startable, SvcAt
<1>2. CASE StartVideoStream
  BY <1>2 DEF StartVideoStream, Startable, SvcAt
<1>3. CASE StopVideoStream
  BY <1>3 DEF StopVideoStream, SvcAt
<1>4. CASE Shutdown
  BY <1>4 DEF Shutdown, SvcAt
<1>5. ASSUME NEW b \in Index, DoneWithFrame(b) PROVE Phases'
  BY <1>5 DEF DoneWithFrame, SvcAt
<1>6. ASSUME NEW n \in 1..NumBuffers, SetMaxGrow(n) PROVE Phases'
  BY <1>6 DEF SetMaxGrow, SvcAt
<1>7. ASSUME NEW n \in 1..NumBuffers, SetMaxShrink(n) PROVE Phases'
  BY <1>7 DEF SetMaxShrink, SvcAt
<1>8. CASE ServiceDied
  BY <1>8 DEF ServiceDied, SvcAt
<1>9. CASE StreamOn
  BY <1>9 DEF StreamOn, SvcAt
<1>10. CASE StreamOnFails
  BY <1>10 DEF StreamOnFails, SvcAt
<1>11. CASE SignalStop
  BY <1>11 DEF SignalStop, SvcAt
<1>12. CASE ClearRunMode
  BY <1>12 DEF ClearRunMode, SvcAt
<1>13. CASE OnStop
  BY <1>13 DEF OnStop, SvcAt
<1>14. CASE Join
  BY <1>14 DEF Join, SvcAt, Joined
<1>15. CASE NotifyEnd
  BY <1>15 DEF NotifyEnd, SvcAt
<1>16. CASE Close
  BY <1>16 DEF Close, SvcAt
<1>17. CASE ReturnFrame
  BY <1>17 DEF ReturnFrame, SvcAt, Decremented, AtThrows, Thrown, Requeue, AfterQbuf
<1>18. CASE GrowQueue
  BY <1>18 DEF GrowQueue, SvcAt, FirstUnmapped, AfterQbuf
<1>19. CASE GrowStore
  BY <1>19 DEF GrowStore, SvcAt, HasNull
<1>20. CASE WaitShrunk
  BY <1>20 DEF WaitShrunk, SvcAt
<1>21. CASE CheckRunMode
  BY <1>21 DEF CheckRunMode, CapAt
<1>22. CASE DequeueFails
  BY <1>22 DEF DequeueFails, CapAt
<1>23. ASSUME NEW b \in Index, Dequeue(b) PROVE Phases'
  BY <1>23 DEF Dequeue, CapAt, NoSlot
<1>24. CASE SkipFrame
  BY <1>24 DEF SkipFrame, CapAt
<1>25. CASE ForwardFrame
  BY <1>25 DEF ForwardFrame, CapAt, NullSlot
<1>26. CASE DeliverFrame
  BY <1>26 DEF DeliverFrame, CapAt, Incremented
<1>27. CASE DeliverFails
  BY <1>27 DEF DeliverFails, CapAt, Incremented
<1>28. CASE GiveBack
  BY <1>28 DEF GiveBack, CapAt, Drop, Requeue, AfterQbuf
<1>29. CASE ClientDies
  BY <1>29 DEF ClientDies
<1>30. CASE UNCHANGED vars
  BY <1>30 DEF vars
<1> QED
  BY <1>1, <1>2, <1>3, <1>4, <1>5, <1>6, <1>7, <1>8, <1>9, <1>10, <1>11, <1>12,
     <1>13, <1>14, <1>15, <1>16, <1>17, <1>18, <1>19, <1>20, <1>21, <1>22,
     <1>23, <1>24, <1>25, <1>26, <1>27, <1>28, <1>29, <1>30
  DEF Next, Calls, ServiceThread, CaptureThread

(* What is known once the end was announced is preserved.                  *)
LEMMA AnnounceStep ==
    ASSUME TypeOK, Phases, Announced, [Next]_vars
    PROVE  Announced'
<1> USE EvsAssumption
       DEF modeVars, poolVars, drvVars, capVars, svcVars, clientVars,
           TypeOK, Flags, Phases, Starting, Announced, Stopping
<1>1. CASE StartAgain
  BY <1>1 DEF StartAgain, Startable, SvcAt
<1>2. CASE StartVideoStream
  BY <1>2 DEF StartVideoStream, Startable, SvcAt
<1>3. CASE StopVideoStream
  BY <1>3 DEF StopVideoStream, SvcAt
<1>4. CASE Shutdown
  BY <1>4 DEF Shutdown, SvcAt
<1>5. ASSUME NEW b \in Index, DoneWithFrame(b) PROVE Announced'
  BY <1>5 DEF DoneWithFrame, SvcAt
<1>6. ASSUME NEW n \in 1..NumBuffers, SetMaxGrow(n) PROVE Announced'
  BY <1>6 DEF SetMaxGrow, SvcAt
<1>7. ASSUME NEW n \in 1..NumBuffers, SetMaxShrink(n) PROVE Announced'
  BY <1>7 DEF SetMaxShrink, SvcAt
<1>8. CASE ServiceDied
  BY <1>8 DEF ServiceDied, SvcAt
<1>9. CASE StreamOn
  BY <1>9 DEF StreamOn, SvcAt
<1>10. CASE StreamOnFails
  BY <1>10 DEF StreamOnFails, SvcAt
<1>11. CASE SignalStop
  BY <1>11 DEF SignalStop, SvcAt
<1>12. CASE ClearRunMode
  BY <1>12 DEF ClearRunMode, SvcAt
<1>13. CASE OnStop
  BY <1>13 DEF OnStop, SvcAt
<1>14. CASE Join
  BY <1>14 DEF Join, SvcAt, Joined
<1>15. CASE NotifyEnd
  BY <1>15 DEF NotifyEnd, SvcAt
<1>16. CASE Close
  BY <1>16 DEF Close, SvcAt
<1>17. CASE ReturnFrame
  BY <1>17 DEF ReturnFrame, SvcAt, Decremented, AtThrows, Thrown, Requeue, AfterQbuf
<1>18. CASE GrowQueue
  BY <1>18 DEF GrowQueue, SvcAt, FirstUnmapped, AfterQbuf
<1>19. CASE GrowStore
  BY <1>19 DEF GrowStore, SvcAt, HasNull
<1>20. CASE WaitShrunk
  BY <1>20 DEF WaitShrunk, SvcAt
<1>21. CASE CheckRunMode
  BY <1>21 DEF CheckRunMode, CapAt
<1>22. CASE DequeueFails
  BY <1>22 DEF DequeueFails, CapAt
<1>23. ASSUME NEW b \in Index, Dequeue(b) PROVE Announced'
  BY <1>23 DEF Dequeue, CapAt, NoSlot
<1>24. CASE SkipFrame
  BY <1>24 DEF SkipFrame, CapAt
<1>25. CASE ForwardFrame
  BY <1>25 DEF ForwardFrame, CapAt, NullSlot
<1>26. CASE DeliverFrame
  BY <1>26 DEF DeliverFrame, CapAt, Incremented
<1>27. CASE DeliverFails
  BY <1>27 DEF DeliverFails, CapAt, Incremented
<1>28. CASE GiveBack
  BY <1>28 DEF GiveBack, CapAt, Drop, Requeue, AfterQbuf
<1>29. CASE ClientDies
  BY <1>29 DEF ClientDies
<1>30. CASE UNCHANGED vars
  BY <1>30 DEF vars
<1> QED
  BY <1>1, <1>2, <1>3, <1>4, <1>5, <1>6, <1>7, <1>8, <1>9, <1>10, <1>11, <1>12,
     <1>13, <1>14, <1>15, <1>16, <1>17, <1>18, <1>19, <1>20, <1>21, <1>22,
     <1>23, <1>24, <1>25, <1>26, <1>27, <1>28, <1>29, <1>30
  DEF Next, Calls, ServiceThread, CaptureThread

(* No step gives a buffer to two holders.                                  *)
LEMMA ApartStep ==
    ASSUME TypeOK, Counted, BuffersApart, [Next]_vars
    PROVE  BuffersApart'
<1> USE EvsAssumption
       DEF modeVars, poolVars, drvVars, capVars, svcVars, clientVars,
           TypeOK, Counted, BuffersApart, Captured, Returned, Index, None
<1>1. CASE StartAgain
  BY <1>1 DEF StartAgain, Startable, SvcAt
<1>2. CASE StartVideoStream
  BY <1>2 DEF StartVideoStream, Startable, SvcAt
<1>3. CASE StopVideoStream
  BY <1>3 DEF StopVideoStream, SvcAt
<1>4. CASE Shutdown
  BY <1>4 DEF Shutdown, SvcAt
<1>5. ASSUME NEW b \in Index, DoneWithFrame(b) PROVE BuffersApart'
  BY <1>5 DEF DoneWithFrame, SvcAt
<1>6. ASSUME NEW n \in 1..NumBuffers, SetMaxGrow(n) PROVE BuffersApart'
  BY <1>6 DEF SetMaxGrow, SvcAt
<1>7. ASSUME NEW n \in 1..NumBuffers, SetMaxShrink(n) PROVE BuffersApart'
  BY <1>7 DEF SetMaxShrink, SvcAt
<1>8. CASE ServiceDied
  BY <1>8 DEF ServiceDied, SvcAt
<1>9. CASE StreamOn
  BY <1>9 DEF StreamOn, SvcAt
<1>10. CASE StreamOnFails
  BY <1>10 DEF StreamOnFails, SvcAt
<1>11. CASE SignalStop
  BY <1>11 DEF SignalStop, SvcAt
<1>12. CASE ClearRunMode
  BY <1>12 DEF ClearRunMode, SvcAt
<1>13. CASE OnStop
  BY <1>13 DEF OnStop, SvcAt
<1>14. CASE Join
  BY <1>14 DEF Join, SvcAt, Joined
<1>15. CASE NotifyEnd
  BY <1>15 DEF NotifyEnd, SvcAt
<1>16. CASE Close
  BY <1>16 DEF Close, SvcAt
<1>17. CASE ReturnFrame
  <2>1. svc = "done" /\ svc' = "idle"
    BY <1>17 DEF ReturnFrame, SvcAt
  <2>2. queue' \subseteq queue \cup {svcBuf} /\ mapped' = mapped
    BY <1>17 DEF ReturnFrame, AtThrows, Requeue, AfterQbuf
  <2>3. frames' = frames /\ capBuf' = capBuf
    BY <1>17 DEF ReturnFrame
  <2> QED
    BY <2>1, <2>2, <2>3
<1>18. CASE GrowQueue
  <2>1. PICK i \in Index : /\ i \notin mapped /\ mapped' = mapped \cup {i}
                           /\ queue' \subseteq queue \cup {i}
    BY <1>18 DEF GrowQueue, FirstUnmapped, AfterQbuf
  <2>2. frames' = frames /\ capBuf' = capBuf /\ svc = "grow" /\ svc' = "store"
    BY <1>18 DEF GrowQueue, SvcAt
  <2> QED
    BY <2>1, <2>2
<1>19. CASE GrowStore
  BY <1>19 DEF GrowStore, SvcAt, HasNull
<1>20. CASE WaitShrunk
  BY <1>20 DEF WaitShrunk, SvcAt
<1>21. CASE CheckRunMode
  BY <1>21 DEF CheckRunMode, CapAt
<1>22. CASE DequeueFails
  BY <1>22 DEF DequeueFails, CapAt
<1>23. ASSUME NEW b \in Index, Dequeue(b) PROVE BuffersApart'
  BY <1>23 DEF Dequeue, CapAt, NoSlot
<1>24. CASE SkipFrame
  BY <1>24 DEF SkipFrame, CapAt
<1>25. CASE ForwardFrame
  BY <1>25 DEF ForwardFrame, CapAt, NullSlot
<1>26. CASE DeliverFrame
  BY <1>26 DEF DeliverFrame, CapAt, Incremented
<1>27. CASE DeliverFails
  BY <1>27 DEF DeliverFails, CapAt, Incremented
<1>28. CASE GiveBack
  <2>1. capBuf \in Index /\ capBuf' = None /\ frames' = frames /\ svcBuf' = svcBuf
    BY <1>28 DEF GiveBack, CapAt
  <2>2. CASE dec > 0 /\ Drop(capBuf)
    <3>1. queue' = queue /\ mapped' = mapped \ {capBuf}
      BY <2>2 DEF Drop
    <3>2. svc # "done" /\ svc' # "done"
      BY <2>2 DEF Drop
    <3> QED
      BY <2>1, <3>1, <3>2
  <2>3. CASE dec = 0 /\ Requeue(capBuf) /\ UNCHANGED svc
    <3>1. queue' \subseteq queue \cup {capBuf} /\ mapped' = mapped /\ svc' = svc
      BY <2>3 DEF Requeue, AfterQbuf
    <3> QED
      BY <2>1, <3>1
  <2> QED
    BY <1>28, <2>2, <2>3 DEF GiveBack
<1>29. CASE ClientDies
  BY <1>29 DEF ClientDies
<1>30. CASE UNCHANGED vars
  BY <1>30 DEF vars
<1> QED
  BY <1>1, <1>2, <1>3, <1>4, <1>5, <1>6, <1>7, <1>8, <1>9, <1>10, <1>11, <1>12,
     <1>13, <1>14, <1>15, <1>16, <1>17, <1>18, <1>19, <1>20, <1>21, <1>22,
     <1>23, <1>24, <1>25, <1>26, <1>27, <1>28, <1>29, <1>30
  DEF Next, Calls, ServiceThread, CaptureThread

(* The inductive invariant.                                                *)
EvsInv == TypeOK /\ Counted /\ Phases /\ Announced /\ BuffersApart

(* The inductive invariant holds in every state.                           *)
THEOREM Invariance == Spec => []EvsInv
<1>1. Init => EvsInv
  <2> SUFFICES ASSUME Init
               PROVE  EvsInv
    OBVIOUS
  <2>1. Flags
    BY DEF Init, Flags
  <2>2. TypeOK
    BY <2>1, EvsAssumption DEF Init, TypeOK, Index, None, Stopping
  <2>3. Counted
    BY EvsAssumption DEF Init, Counted, Index, None
  <2>4. Phases
    BY DEF Init, Phases, Starting, ThreadWatched, Stopping
  <2>5. Announced
    BY DEF Init, Announced
  <2>6. BuffersApart
    BY DEF Init, BuffersApart, Captured, Returned
  <2> QED
    BY <2>2, <2>3, <2>4, <2>5, <2>6 DEF EvsInv
<1>2. EvsInv /\ [Next]_vars => EvsInv'
  BY TypeStep, PhaseStep, AnnounceStep, ApartStep DEF EvsInv
<1> QED
  BY <1>1, <1>2, PTL DEF Spec

(* Types are kept; in particular mFramesAllowed stays within the driver's  *)
(* buffers, however setMaxFramesInFlight and failing deliveries interleave.*)
THEOREM Types == Spec => []TypeOK
<1>1. EvsInv => TypeOK
  BY DEF EvsInv
<1> QED
  BY <1>1, Invariance, PTL

(* No v4l2 buffer is with two of the driver, the capture thread, the       *)
(* service thread and the client.                                          *)
THEOREM Apart == Spec => []BuffersApart
<1>1. EvsInv => BuffersApart
  BY DEF EvsInv
<1> QED
  BY <1>1, Invariance, PTL

(* onClose finds the stream stopped and the capture thread gone.           *)
THEOREM CloseIsLast == Spec => []CloseFindsStopped
<1>1. EvsInv => CloseFindsStopped
  BY DEF EvsInv, Phases, CloseFindsStopped
<1> QED
  BY <1>1, Invariance, PTL

(* A running capture thread is watched or being stopped.                   *)
THEOREM Watched == Spec => []ThreadWatched
<1>1. EvsInv => ThreadWatched
  BY DEF EvsInv, Phases
<1> QED
  BY <1>1, Invariance, PTL

(* No frame follows the announcement of the end of the stream: only        *)
(* DeliverFrame adds to the client's frames, on a thread that is gone.     *)
THEOREM EndAnnounced == Spec => EndIsLast
<1>1. EvsInv /\ [Next]_vars => [ended => frames' \subseteq frames]_vars
  <2> SUFFICES ASSUME EvsInv, Next, ended
               PROVE  frames' \subseteq frames
    BY DEF vars, clientVars
  <2>1. capPc = "none"
    BY DEF EvsInv, Announced
  <2>2. ~DeliverFrame
    BY <2>1 DEF DeliverFrame, CapAt
  <2> QED
    BY <2>2
    DEF Next, Calls, ServiceThread, CaptureThread, clientVars, StartAgain,
           StartVideoStream, StopVideoStream, Shutdown, DoneWithFrame, SetMaxGrow,
           SetMaxShrink, ServiceDied, StreamOn, StreamOnFails, SignalStop,
           ClearRunMode, OnStop, Join, NotifyEnd, Close, ReturnFrame, GrowQueue,
           GrowStore, WaitShrunk, CheckRunMode, DequeueFails, Dequeue, SkipFrame,
           ForwardFrame, DeliverFails, GiveBack, ClientDies
<1> QED
  BY <1>1, Invariance, PTL DEF Spec, EndIsLast
=============================================================================
