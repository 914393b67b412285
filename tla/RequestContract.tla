-------------------------- MODULE RequestContract --------------------------
(***************************************************************************)
(* What operation.status promises the owner of a connect request           *)
(* (contracts/wifi-connect-recovery.md): an abstract specification of the  *)
(* replies, with nothing of the runtime that produces them.                *)
(*                                                                         *)
(* obs[r] is the reply for request r.  "fresh" and "gone" are both         *)
(* reported as unknown: the id is not accepted yet, or is forgotten.       *)
(***************************************************************************)
EXTENDS Integers

CONSTANT Request

VARIABLE obs

Fresh == [status |-> "fresh", rev |-> 0, event |-> "none", intent |-> FALSE]
Gone == [status |-> "gone", rev |-> 0, event |-> "none", intent |-> FALSE]
Running(n, i) == [status |-> "running", rev |-> n, event |-> "none", intent |-> i]
Finished(n, e) == [status |-> "finished", rev |-> n, event |-> e, intent |-> FALSE]

\* One reply after another for the same request.  A registration starts at
\* revision 1; progress and completion advance the revision by one; the
\* cancellation intent is never revoked and rules success out; a finished
\* reply never changes; nothing follows a forgotten request.
Evolves(old, new) ==
    \/ old = Fresh /\ new = Running(1, FALSE)
    \/ /\ old.status = "running"
       /\ \/ new = Running(old.rev + 1, old.intent)
          \/ new = Running(old.rev, TRUE)
          \/ \E e \in {"succeeded", "failed", "cancelled"} :
                /\ new = Finished(old.rev + 1, e)
                /\ old.intent => e # "succeeded"
          \/ new = Gone
    \/ old.status = "finished" /\ new = Gone

Init == obs = [r \in Request |-> Fresh]

Next ==
    /\ DOMAIN obs' = Request
    /\ \A r \in Request : obs'[r] = obs[r] \/ Evolves(obs[r], obs'[r])

Spec == Init /\ [][Next]_obs
=============================================================================
