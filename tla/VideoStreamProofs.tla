------------------------- MODULE VideoStreamProofs -------------------------
(***************************************************************************)
(* Proofs about VideoStream, for every set of buffers, configurations,     *)
(* scenes and cameras.                                                     *)
(*                                                                         *)
(* Accounting is inductive: a buffer is with the driver or dequeued, and   *)
(* the one WorkThread holds is in no image. With it every step is a step   *)
(* of CapturePool. That the buffers fit the configuration (Fitting) needs  *)
(* more: ConfigAndStart must be able to stop an MMAPStream and to start a  *)
(* DMAStream, which Copes states.                                          *)
(***************************************************************************)
EXTENDS VideoStream, TLAPS

Accounting ==
    /\ BuffersAccounted
    /\ pc = "got" => cur \notin fed
    /\ pc = "closed" => fed = {}

(* What ConfigAndStart is asked for, and what streams, is a configuration. *)
Wanted ==
    /\ pc = "drain" => want.config \in Configs
    /\ streaming => config \in Configs

Inv == TypeOK /\ Accounting /\ Wanted

-----------------------------------------------------------------------------
(* What ConfigAndStart is asked for. *)
LEMMA WantType ==
  ASSUME NEW c \in Configs \cup {None}, NEW s \in Scenes, NEW r \in BOOLEAN
  PROVE  [config |-> c, scene |-> s, recover |-> r]
           \in [config: Configs \cup {None}, scene: Scenes, recover: BOOLEAN]
  OBVIOUS

(* The stream's initial state.                                             *)
LEMMA InitInv == Init => Inv
<1> SUFFICES ASSUME Init PROVE Inv
  OBVIOUS
<1>1. want \in [config: Configs \cup {None}, scene: Scenes, recover: BOOLEAN]
  BY WantType DEF Init
<1>a. /\ dev \in BOOLEAN /\ started \in BOOLEAN /\ streaming \in BOOLEAN
      /\ stalled \in BOOLEAN /\ first \in BOOLEAN
  BY Zenon DEF Init
<1>b. recovers \in 0..(MAX_RECOVER_COUNT + 1) /\ omit \in Nat
  BY DEF Init, MAX_RECOVER_COUNT
<1>2. TypeOK
  BY <1>1, <1>a, <1>b, Zenon DEF Init, TypeOK
<1>3. Accounting /\ Wanted
  BY DEF Init, Accounting, Wanted, BuffersAccounted, Referenced
<1> QED
  BY <1>2, <1>3 DEF Inv

(* Every step keeps the types.                                             *)
LEMMA TypeStep ==
  ASSUME Inv, [Next]_vars
  PROVE  TypeOK'
<1> USE StreamAssumption DEF Inv, TypeOK, devVars, confVars, countVars, poolVars, MAX_RECOVER_COUNT
<1>1. ASSUME NEW c \in Configs, NEW s \in Scenes, ConfigSame(c, s) \/ ConfigAndStart(c, s)
      PROVE  TypeOK'
  <2>1. want' \in [config: Configs \cup {None}, scene: Scenes, recover: BOOLEAN]
    BY <1>1, WantType DEF ConfigSame, ConfigAndStart
  <2> QED
    BY <1>1, <2>1 DEF ConfigSame, ConfigAndStart
<1>2. CASE AcquireClosed \/ AcquireOpen
  BY <1>2 DEF AcquireClosed, AcquireOpen, ReturnNull
<1>3. CASE Close
  BY <1>3 DEF Close
<1>4. CASE Stall
  BY <1>4 DEF Stall
<1>5. ASSUME NEW b \in Buffers, ReturnFrame(b)
      PROVE  TypeOK'
  BY <1>5 DEF ReturnFrame, Unfed
<1>6. CASE StopFails
  BY <1>6 DEF StopFails, ReturnError
<1>7. CASE ReopenFails
  BY <1>7 DEF ReopenFails, Stopped, Off, ReturnError, MadeNow
<1>8. CASE ConfigureFails
  BY <1>8 DEF ConfigureFails, Stopped, Off, ReturnError, MadeNow
<1>9. CASE StartFails
  BY <1>9 DEF StartFails, Configured, Stopped, Off, ReturnError, MadeNow, Allocated
<1>10. CASE Starts
  <2>1. Omit[want.config] \in Nat /\ want.scene \in Scenes
    BY <1>10 DEF Starts, Configured, Stopped, Wanted
  <2> QED
    BY <1>10, <2>1 DEF Starts, Configured, Stopped, ReturnOk, MadeNow, Allocated
<1>11. CASE SelectTimeout
  <2>1. want' \in [config: Configs \cup {None}, scene: Scenes, recover: BOOLEAN]
    BY <1>11, WantType DEF SelectTimeout
  <2>2. recovers' \in 0..2
    BY <1>11 DEF SelectTimeout
  <2> QED
    BY <1>11, <2>1, <2>2 DEF SelectTimeout, ReturnNull
<1>12. CASE DequeueFails
  BY <1>12 DEF DequeueFails, ReturnNull
<1>13. CASE Feed \/ Forget
  BY <1>13 DEF Feed, Forget, Accounting, BuffersAccounted, Referenced
<1>14. ASSUME NEW b \in Buffers, SkipFrame(b)
       PROVE  TypeOK'
  <2>1. omit' \in Nat
    BY <1>14 DEF SkipFrame, OmitLeft
  <2>a. first' \in BOOLEAN /\ recovers' \in {0, recovers}
    BY <1>14, Zenon DEF SkipFrame, Dequeue
  <2>2. first' \in BOOLEAN /\ recovers' \in 0..2
    BY <2>a
  <2> QED
    BY <1>14, <2>1, <2>2 DEF SkipFrame, Dequeue, ReturnNull
<1>15. ASSUME NEW b \in Buffers, TakeFrame(b)
       PROVE  TypeOK'
  <2>a. first' \in BOOLEAN /\ recovers' \in {0, recovers}
    BY <1>15, Zenon DEF TakeFrame, Dequeue
  <2>1. first' \in BOOLEAN /\ recovers' \in 0..2
    BY <2>a
  <2> QED
    BY <1>15, <2>1 DEF TakeFrame, Dequeue
<1>16. CASE UNCHANGED vars
  BY <1>16 DEF vars
<1> QED
  BY <1>1, <1>2, <1>3, <1>4, <1>5, <1>6, <1>7, <1>8, <1>9, <1>10, <1>11, <1>12, <1>13,
     <1>14, <1>15, <1>16 DEF Next, WorkThread, Session, ConfigLocked

(* Every step keeps the buffers accounted for.                             *)
LEMMA AccountingStep ==
  ASSUME Inv, [Next]_vars
  PROVE  Accounting'
<1> USE DEF Inv, Accounting, BuffersAccounted, Referenced, devVars, confVars, countVars, poolVars
<1>1. ASSUME NEW c \in Configs, NEW s \in Scenes, ConfigSame(c, s) \/ ConfigAndStart(c, s)
      PROVE  Accounting'
  BY <1>1 DEF ConfigSame, ConfigAndStart
<1>2. CASE AcquireClosed \/ AcquireOpen
  BY <1>2 DEF AcquireClosed, AcquireOpen, ReturnNull
<1>3. CASE Close
  BY <1>3 DEF Close
<1>4. CASE Stall
  BY <1>4 DEF Stall
<1>5. ASSUME NEW b \in Buffers, ReturnFrame(b)
      PROVE  Accounting'
  BY <1>5 DEF ReturnFrame, Unfed
<1>6. CASE StopFails
  BY <1>6 DEF StopFails, ReturnError
<1>7. CASE ReopenFails
  BY <1>7 DEF ReopenFails, Stopped, Drained, Off, ReturnError
<1>8. CASE ConfigureFails
  BY <1>8 DEF ConfigureFails, Stopped, Drained, Off, ReturnError
<1>9. CASE StartFails
  BY <1>9 DEF StartFails, Configured, Stopped, Drained, Off, ReturnError
<1>10. CASE Starts
  BY <1>10 DEF Starts, Configured, Stopped, Drained, ReturnOk
<1>11. CASE SelectTimeout
  BY <1>11 DEF SelectTimeout, ReturnNull
<1>12. CASE DequeueFails
  BY <1>12 DEF DequeueFails, ReturnNull
<1>13. CASE Feed \/ Forget
  BY <1>13 DEF Feed, Forget
<1>14. ASSUME NEW b \in Buffers, SkipFrame(b)
       PROVE  Accounting'
  BY <1>14 DEF SkipFrame, Dequeue, ReturnNull
<1>15. ASSUME NEW b \in Buffers, TakeFrame(b)
       PROVE  Accounting'
  <2>1. b \notin fed /\ b \notin out
    BY <1>15 DEF TakeFrame, Dequeue
  <2> QED
    BY <1>15, <2>1 DEF TakeFrame, Dequeue
<1>16. CASE UNCHANGED vars
  BY <1>16 DEF vars
<1> QED
  BY <1>1, <1>2, <1>3, <1>4, <1>5, <1>6, <1>7, <1>8, <1>9, <1>10, <1>11, <1>12, <1>13,
     <1>14, <1>15, <1>16 DEF Next, WorkThread, Session, ConfigLocked

(* Every step keeps what is asked for a configuration.                     *)
LEMMA WantedStep ==
  ASSUME Inv, [Next]_vars
  PROVE  Wanted'
<1> USE DEF Inv, Wanted, devVars, confVars, countVars, poolVars
<1>1. ASSUME NEW c \in Configs, NEW s \in Scenes, ConfigSame(c, s) \/ ConfigAndStart(c, s)
      PROVE  Wanted'
  BY <1>1 DEF ConfigSame, ConfigAndStart
<1>2. CASE AcquireClosed \/ AcquireOpen
  BY <1>2 DEF AcquireClosed, AcquireOpen, ReturnNull
<1>3. CASE Close
  BY <1>3 DEF Close
<1>4. CASE Stall
  BY <1>4 DEF Stall
<1>5. ASSUME NEW b \in Buffers, ReturnFrame(b)
      PROVE  Wanted'
  BY <1>5 DEF ReturnFrame, Unfed
<1>6. CASE StopFails
  BY <1>6 DEF StopFails, ReturnError
<1>7. CASE ReopenFails
  BY <1>7 DEF ReopenFails, Stopped, Drained, Off, ReturnError
<1>8. CASE ConfigureFails
  BY <1>8 DEF ConfigureFails, Stopped, Drained, Off, ReturnError
<1>9. CASE StartFails
  BY <1>9 DEF StartFails, Configured, Stopped, Drained, Off, ReturnError
<1>10. CASE Starts
  BY <1>10 DEF Starts, Configured, Stopped, Drained, ReturnOk
<1>11. CASE SelectTimeout
  BY <1>11 DEF SelectTimeout, ReturnNull
<1>12. CASE DequeueFails
  BY <1>12 DEF DequeueFails, ReturnNull
<1>13. CASE Feed \/ Forget
  BY <1>13 DEF Feed, Forget
<1>14. ASSUME NEW b \in Buffers, SkipFrame(b)
       PROVE  Wanted'
  BY <1>14 DEF SkipFrame, Dequeue, ReturnNull
<1>15. ASSUME NEW b \in Buffers, TakeFrame(b)
       PROVE  Wanted'
  BY <1>15 DEF TakeFrame, Dequeue
<1>16. CASE UNCHANGED vars
  BY <1>16 DEF vars
<1> QED
  BY <1>1, <1>2, <1>3, <1>4, <1>5, <1>6, <1>7, <1>8, <1>9, <1>10, <1>11, <1>12, <1>13,
     <1>14, <1>15, <1>16 DEF Next, WorkThread, Session, ConfigLocked

(* The stream keeps its types and accounts for its buffers, whatever fails. *)
THEOREM Invariance == Spec => []Inv
<1>1. Inv /\ [Next]_vars => Inv'
  BY TypeStep, AccountingStep, WantedStep DEF Inv
<1> QED
  BY InitInv, <1>1, PTL DEF Spec

(* Every variable keeps its type. *)
THEOREM Typing == Spec => []TypeOK
<1>1. Inv => TypeOK
  BY DEF Inv
<1> QED
  BY <1>1, Invariance, PTL

(* A buffer is with the driver or dequeued, never both: VIDIOC_QBUF is     *)
(* called once for each VIDIOC_DQBUF, on every error path too.             *)
THEOREM Accounted == Spec => []BuffersAccounted
<1>1. Inv => BuffersAccounted
  BY DEF Inv, Accounting
<1> QED
  BY <1>1, Invariance, PTL

(* Every step is a step of CapturePool, or changes nothing of it.          *)
LEMMA PoolStep ==
  ASSUME Inv, [Next]_vars
  PROVE  [Pool!Next]_Pool!vars
<1> USE DEF Inv, Accounting, BuffersAccounted, Referenced, devVars, confVars, countVars, poolVars,
        Pool!vars
<1>1. ASSUME NEW c \in Configs, NEW s \in Scenes, ConfigSame(c, s) \/ ConfigAndStart(c, s)
      PROVE  [Pool!Next]_Pool!vars
  BY <1>1 DEF ConfigSame, ConfigAndStart
<1>2. CASE AcquireClosed \/ AcquireOpen
  BY <1>2 DEF AcquireClosed, AcquireOpen, ReturnNull
<1>3. CASE Close
  BY <1>3 DEF Close, Pool!Next, Pool!Close
<1>4. CASE Stall
  BY <1>4 DEF Stall
<1>5. ASSUME NEW b \in Buffers, ReturnFrame(b)
      PROVE  [Pool!Next]_Pool!vars
  <2>1. CASE out' = out \ {b}
    <3>1. Pool!Give(b)
      BY <1>5, <2>1 DEF ReturnFrame, Unfed, Pool!Give
    <3> QED
      BY <3>1 DEF Pool!Next
  <2>2. CASE out' = out
    <3>1. Pool!Lose(b)
      BY <1>5, <2>2 DEF ReturnFrame, Unfed, Pool!Lose
    <3> QED
      BY <3>1 DEF Pool!Next
  <2> QED
    BY <1>5, <2>1, <2>2 DEF ReturnFrame
<1>6. CASE StopFails
  BY <1>6 DEF StopFails, ReturnError
<1>7. CASE ReopenFails
  BY <1>7 DEF ReopenFails, Stopped, Drained, Off, ReturnError, Pool!Next, Pool!Renew
<1>8. CASE ConfigureFails
  BY <1>8 DEF ConfigureFails, Stopped, Drained, Off, ReturnError, Pool!Next, Pool!Renew
<1>9. CASE StartFails
  BY <1>9 DEF StartFails, Configured, Stopped, Drained, Off, ReturnError, Pool!Next, Pool!Renew
<1>10. CASE Starts
  BY <1>10 DEF Starts, Configured, Stopped, Drained, ReturnOk, Pool!Next, Pool!Renew
<1>11. CASE SelectTimeout
  BY <1>11 DEF SelectTimeout, ReturnNull
<1>12. CASE DequeueFails
  BY <1>12 DEF DequeueFails, ReturnNull
<1>13. CASE Feed \/ Forget
  <2>1. CASE Feed
    BY <2>1 DEF Feed
  <2>2. CASE Forget
    <3>1. cur \in Buffers /\ Pool!Lose(cur)
      BY <2>2 DEF Forget, Pool!Lose, TypeOK
    <3> QED
      BY <3>1 DEF Pool!Next
  <2> QED
    BY <1>13, <2>1, <2>2
<1>14. ASSUME NEW b \in Buffers, SkipFrame(b)
       PROVE  [Pool!Next]_Pool!vars
  <2>1. CASE out' = out
    BY <1>14, <2>1 DEF SkipFrame, Dequeue, ReturnNull
  <2>2. CASE out' = out \cup {b} /\ ReturnNull
    <3>1. Pool!Lose(b)
      BY <1>14, <2>2 DEF SkipFrame, Dequeue, ReturnNull, Pool!Lose
    <3> QED
      BY <3>1 DEF Pool!Next
  <2> QED
    BY <1>14, <2>1, <2>2 DEF SkipFrame
<1>15. ASSUME NEW b \in Buffers, TakeFrame(b)
       PROVE  [Pool!Next]_Pool!vars
  <2>1. Pool!Take(b)
    BY <1>15 DEF TakeFrame, Dequeue, Pool!Take
  <2> QED
    BY <2>1 DEF Pool!Next
<1>16. CASE UNCHANGED vars
  BY <1>16 DEF vars
<1> QED
  BY <1>1, <1>2, <1>3, <1>4, <1>5, <1>6, <1>7, <1>8, <1>9, <1>10, <1>11, <1>12, <1>13,
     <1>14, <1>15, <1>16 DEF Next, WorkThread, Session, ConfigLocked

(* The stream implements CapturePool, whatever fails: no buffer is handed  *)
(* out twice, given back twice, or renewed while an image refers to it.    *)
THEOREM Implements == Spec => PoolSpec
<1>1. Init => Pool!Init
  BY DEF Init, Pool!Init, Referenced
<1>2. Inv /\ [Next]_vars => [Pool!Next]_Pool!vars
  BY PoolStep
<1> QED
  BY <1>1, <1>2, Invariance, PTL DEF Spec, PoolSpec, Pool!Spec

(* The failures each kind of stream copes with.                            *)
Copes ==
    \A c \in Cameras :
      IF c.kind \in {"mmap", "isp"} THEN "stop" \notin c.faults ELSE "start" \notin c.faults

(* A stream that is not started has no buffers, and one that is has those  *)
(* of its configuration.                                                   *)
Fitting ==
    /\ IF started THEN made = config ELSE made = None
    /\ streaming => started
    /\ Referenced # {} => made = config /\ made # None

(* With failures it copes with, every step keeps the buffers fitting.      *)
LEMMA FittingStep ==
  ASSUME Copes, Inv, Fitting, [Next]_vars
  PROVE  Fitting'
<1> USE DEF Inv, Accounting, BuffersAccounted, Fitting, Referenced, devVars, confVars, countVars,
        poolVars, MmapBuffers, May
<1>a. IF cam.kind \in {"mmap", "isp"} THEN "stop" \notin cam.faults ELSE "start" \notin cam.faults
  BY DEF Copes, TypeOK
<1>b. started \in BOOLEAN /\ dev \in BOOLEAN /\ streaming \in BOOLEAN /\ None \notin Configs
  BY StreamAssumption DEF TypeOK
<1> USE <1>a, <1>b
<1>1. ASSUME NEW c \in Configs, NEW s \in Scenes, ConfigSame(c, s) \/ ConfigAndStart(c, s)
      PROVE  Fitting'
  BY <1>1 DEF ConfigSame, ConfigAndStart
<1>2. CASE AcquireClosed \/ AcquireOpen
  BY <1>2 DEF AcquireClosed, AcquireOpen, ReturnNull
<1>3. CASE Close
  BY <1>3 DEF Close
<1>4. CASE Stall
  BY <1>4 DEF Stall
<1>5. ASSUME NEW b \in Buffers, ReturnFrame(b)
      PROVE  Fitting'
  BY <1>5 DEF ReturnFrame, Unfed
<1>6. CASE StopFails
  BY <1>6 DEF StopFails, Drained, ReturnError
<1>7. CASE ReopenFails
  BY <1>7 DEF ReopenFails, Stopped, Drained, Off, ReturnError, MadeNow
<1>8. CASE ConfigureFails
  BY <1>8 DEF ConfigureFails, Stopped, Drained, Off, ReturnError, MadeNow
<1>9. CASE StartFails
  BY <1>9 DEF StartFails, Configured, Stopped, Drained, Off, ReturnError, MadeNow, Allocated
<1>10. CASE Starts
  BY <1>10 DEF Starts, Configured, Stopped, Drained, ReturnOk, MadeNow, Allocated
<1>11. CASE SelectTimeout
  BY <1>11 DEF SelectTimeout, ReturnNull
<1>12. CASE DequeueFails
  BY <1>12 DEF DequeueFails, ReturnNull
<1>13. CASE Feed \/ Forget
  BY <1>13 DEF Feed, Forget
<1>14. ASSUME NEW b \in Buffers, SkipFrame(b)
       PROVE  Fitting'
  BY <1>14 DEF SkipFrame, Dequeue, ReturnNull
<1>15. ASSUME NEW b \in Buffers, TakeFrame(b)
       PROVE  Fitting'
  BY <1>15 DEF TakeFrame, Dequeue, Wanted
<1>16. CASE UNCHANGED vars
  BY <1>16 DEF vars
<1> QED
  BY <1>1, <1>2, <1>3, <1>4, <1>5, <1>6, <1>7, <1>8, <1>9, <1>10, <1>11, <1>12, <1>13,
     <1>14, <1>15, <1>16 DEF Next, WorkThread, Session, ConfigLocked

(* With failures it copes with, the buffers images refer to, and those the *)
(* driver fills, were made for the stream's present configuration.         *)
THEOREM Fit == ASSUME Copes PROVE Spec => []BuffersFit
<1>1. Init => Fitting
  BY DEF Init, Fitting, Referenced
<1>2. Inv /\ Fitting /\ [Next]_vars => Fitting'
  BY FittingStep
<1>3. Fitting => BuffersFit
  BY DEF Fitting, BuffersFit
<1> QED
  BY <1>1, <1>2, <1>3, Invariance, PTL DEF Spec

=============================================================================
