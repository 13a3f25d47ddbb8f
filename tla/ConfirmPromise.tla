---------------------------- MODULE ConfirmPromise ----------------------------
(***************************************************************************)
(* What a client may rely on about a confirm, with no object, document or   *)
(* await in sight.  A request is refused before it has left a trace, or not *)
(* at all; its files go to the queue together or not at all; it is accepted *)
(* only once they have.  After a failure the client does not know: it may   *)
(* have come at any point, and an answer may never come.                    *)
(***************************************************************************)
CONSTANT Requests

VARIABLES
  answer,   \* [Requests -> "none", "accepted", "refused" or "failed"]
  touched,  \* the requests that have left a trace in a store
  handed    \* [Requests -> "none", "some" or "all" of its files are queued]

vars == <<answer, touched, handed>>

Init ==
  /\ answer = [r \in Requests |-> "none"]
  /\ touched = {}
  /\ handed = [r \in Requests |-> "none"]

Tell(r, what) == answer[r] = "none" /\ answer' = [answer EXCEPT ![r] = what]

(* A call that has taken effect may still be reported as failed.           *)
Unclear(r) == answer[r] = "none" /\ (UNCHANGED answer \/ Tell(r, "failed"))

Touch(r) ==
  /\ Unclear(r)
  /\ r \notin touched
  /\ touched' = touched \cup {r}
  /\ UNCHANGED handed

HandOver(r) ==
  /\ Unclear(r)
  /\ r \in touched
  /\ handed[r] = "none"
  /\ handed' = [handed EXCEPT ![r] = "all"]
  /\ UNCHANGED touched

Accept(r) == handed[r] = "all" /\ Tell(r, "accepted") /\ UNCHANGED <<touched, handed>>

Refuse(r) == r \notin touched /\ Tell(r, "refused") /\ UNCHANGED <<touched, handed>>

Fail(r) == Tell(r, "failed") /\ UNCHANGED <<touched, handed>>

Next == \E r \in Requests : Touch(r) \/ HandOver(r) \/ Accept(r) \/ Refuse(r) \/ Fail(r)

Spec == Init /\ [][Next]_vars
=============================================================================
