-------------------------- MODULE CaptureContract --------------------------
(***************************************************************************)
(* What a capture session promises the framework about the requests it     *)
(* takes: the callbacks each of them gets and their order.  A request is   *)
(* heard of only once it was submitted.  It gets a shutter and then its    *)
(* result, or an error alone, or it is refused without a callback          *)
(* ("invalid"), or it hears nothing.  Nothing is told of another request   *)
(* between a shutter and its result, and a request in whose turn the       *)
(* session is has no later one that was told anything.                     *)
(***************************************************************************)
EXTENDS Naturals

CONSTANTS Requests,   \* all the requests there can be
          Earlier     \* pairs of requests, the first of which goes first

VARIABLES submitted,  \* the requests the session has taken
          answer      \* what the framework was told of each

vars == <<submitted, answer>>

Untold == {"none", "invalid"}

Init ==
    /\ submitted = {}
    /\ answer = [r \in Requests |-> "none"]

(* A batch of requests, later than all before. *)
Submit ==
    /\ UNCHANGED answer
    /\ submitted \subseteq submitted' /\ submitted' \subseteq Requests
    /\ \A q \in submitted, r \in submitted' \ submitted : <<q, r>> \in Earlier

Tell(r, old, new) ==
    /\ answer[r] = old
    /\ answer' = [answer EXCEPT ![r] = new]
    /\ UNCHANGED submitted

(* The session has not told anything of a later request, ...               *)
InTurn(r) == \A q \in Requests : <<r, q>> \in Earlier => answer[q] \in Untold

(* ... and owes no earlier one its result.                                 *)
NoneOpen == \A q \in Requests : answer[q] # "shutter"

Shutter(r) == Tell(r, "none", "shutter") /\ InTurn(r) /\ NoneOpen
Result(r) == Tell(r, "shutter", "result") /\ InTurn(r)
Error(r) == Tell(r, "none", "error") /\ InTurn(r) /\ NoneOpen

(* Requests are looked at in order: no later one was even refused.         *)
Refuse(r) ==
    /\ Tell(r, "none", "invalid")
    /\ \A q \in Requests : <<r, q>> \in Earlier => answer[q] = "none"

Next ==
    \/ Submit
    \/ \E r \in submitted : Shutter(r) \/ Result(r) \/ Error(r) \/ Refuse(r)

Spec == Init /\ [][Next]_vars
=============================================================================
