---------------------------- MODULE MCVehicleHal ----------------------------
(***************************************************************************)
(* The instance of VehicleHal that TLC checks: property 1 is continuous    *)
(* and may have the rate 0, property 2 is continuous with a positive least *)
(* rate, property 3 changes on change.                                     *)
(***************************************************************************)
EXTENDS VehicleHal

MCMinSampleRate == [p \in Continuous |-> IF p = 1 THEN 0 ELSE 1]
MCMaxSampleRate == [p \in Continuous |-> 2]

\* An infinite quotient is cast to the greatest or the least int64_t.
MCZeroRateIntervals == {-9, 9}

Ask(p, rate, flag) ==
    [q \in Props |-> IF q = p THEN [sampleRate |-> rate, flags |-> {flag}]
                               ELSE NoOpts]

\* Lists that name property 1 at rate 0 or above its limit, property 2 at
\* either rate, or all three, property 2 below its limit.
MCRequests ==
    {Ask(1, 0, CAR), Ask(1, 3, CAR), Ask(2, 1, CAR), Ask(2, 2, CAR)}
    \cup {[p \in Props |-> [sampleRate |-> IF p = 2 THEN 0 ELSE 1,
                            flags |-> {IF p = 1 THEN ANDROID ELSE CAR}]]}
=============================================================================
