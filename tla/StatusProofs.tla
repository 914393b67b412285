---------------------------- MODULE StatusProofs ----------------------------
(***************************************************************************)
(* What the daemon reports, for every set of observers and subscriptions,  *)
(* every script of signals, every connect request and every value of the   *)
(* bounds: what is published is fresh and a subscriber never sees the      *)
(* status go back (SubscriptionActor), a notification is due (Health), and *)
(* a connect request that failed has cleaned up and says what it tried     *)
(* (WifiConnect).                                                          *)
(***************************************************************************)
EXTENDS SubscriptionActor, Health, WifiConnect, TLAPS

\* Most steps are first-order; the ones that need arithmetic name SMT;
\* the limits leave room for a loaded machine.
USE ZenonT(60)

-----------------------------------------------------------------------------
\* A connect request.

Entry == [reason : FailureReasons, credential : BOOLEAN]
Waits == [sampled : BOOLEAN, matches : BOOLEAN, stopped : BOOLEAN,
          pending : NmReasons \cup {Nil}, grace : BOOLEAN, last : NmReasons \cup {Nil}]
Steps == {"start", "try", "active", "saved", "create", "rescan", "verify", "cleanup",
          "succeed", "judge", "done"}

RequestType ==
    /\ pc \in Steps /\ attempt \in {1, 2} /\ attempt <= Total
    /\ created \in {Nil, attempt} /\ profiles \subseteq 0..2
    /\ scope \in {Nil, "live"} \cup Stops
    /\ error \in Entry \cup {Nil} /\ wait \in Waits
    /\ device \in [act : 0..4, state : {"disconnected", "preparing", "activated"},
                   reason : NmReasons]
    /\ cancelled \in BOOLEAN

\* A profile of this request is owned by the machine or was given up.
OwnershipInv ==
    /\ created # Nil => pc \in {"verify", "cleanup"}
    /\ profiles \cap Own \subseteq kept \cup {created}

\* The summary lists the attempts before this one, all of them retryable.
SummaryInv ==
    /\ attempts \in Seq([reason : FailureReasons \cup {"connected"}, credential : BOOLEAN])
    /\ pc # "done" => Len(attempts) = attempt - 1 /\ outcome = Nil
    /\ attempt = 2 => Len(attempts) >= 1 /\ attempts[1].reason \in Retryable /\ ~attempts[1].credential
    /\ pc = "cleanup" => error # Nil
    /\ pc = "judge" /\ error = Nil => status = "connected"
    /\ pc = "judge" /\ error # Nil /\ ~request.alternative => error.reason = "cancelled" \/ status = "error"
    /\ FallbackDiscipline

RequestInv == RequestType /\ OwnershipInv /\ SummaryInv

LEMMA RequestInitial == RequestInit => RequestInv
<1> SUFFICES ASSUME RequestInit PROVE RequestInv
  OBVIOUS
<1>1. RequestType
  <2>1. wait \in Waits
    BY DEF RequestInit, Waits, NoWait
  <2>2. device \in [act : 0..4, state : {"disconnected", "preparing", "activated"}, reason : NmReasons]
    BY SMTT(40) DEF RequestInit, Down, NmReasons
  <2>3. profiles \subseteq 0..2
    BY SMTT(40) DEF RequestInit, KeptProfile
  <2>4. attempt \in {1, 2} /\ attempt <= Total
    BY SMTT(40) DEF RequestInit, Total
  <2>5. pc \in Steps /\ created = Nil /\ scope = Nil /\ error = Nil /\ cancelled = FALSE
    BY DEF RequestInit, Steps
  <2>6. QED
    BY <2>1, <2>2, <2>3, <2>4, <2>5 DEF RequestType
<1>2. OwnershipInv
  BY SMTT(40) DEF RequestInit, OwnershipInv, Own, KeptProfile
<1>3. SummaryInv
  BY ConnectBounds, SMTT(40) DEF RequestInit, SummaryInv, FallbackDiscipline, Total
<1>4. QED
  BY <1>1, <1>2, <1>3 DEF RequestInv

LEMMA Reasons ==
  /\ \A r \in NmReasons : FailureReason(r) \in FailureReasons \ {"cancelled"}
  /\ \A r \in NmReasons \cup {Nil} : TimeoutReason(r) \in FailureReasons \ {"cancelled"}
  /\ \A s \in Stops : StopReason(s) \in FailureReasons
  /\ \A v : UnavailableReason(v) \in FailureReasons
  /\ DbusReasons \subseteq FailureReasons
<1>1. \A r \in NmReasons : FailureReason(r) \in FailureReasons \ {"cancelled"}
  BY DEF NmReasons, FailureReason, FailureReasons
<1>2. \A r \in NmReasons \cup {Nil} : TimeoutReason(r) \in FailureReasons \ {"cancelled"}
  BY <1>1 DEF TimeoutReason, FailureReasons
<1>3. QED
  BY <1>1, <1>2 DEF Stops, StopReason, UnavailableReason, DbusReasons, FailureReasons

LEMMA RequestTypeStep ==
  ASSUME RequestType, OwnershipInv, [RequestNext]_requestVars PROVE RequestType'
<1>k. /\ pc \in Steps /\ attempt \in {1, 2} /\ attempt <= Total
      /\ created \in {Nil, attempt} /\ profiles \subseteq 0..2
      /\ scope \in {Nil, "live"} \cup Stops
      /\ error \in Entry \cup {Nil} /\ wait \in Waits
      /\ device \in [act : 0..4, state : {"disconnected", "preparing", "activated"},
                     reason : NmReasons]
      /\ cancelled \in BOOLEAN
  BY DEF RequestType
<1>d. Down \in [act : 0..4, state : {"disconnected", "preparing", "activated"}, reason : NmReasons]
  BY SMTT(40) DEF Down, NmReasons
<1>n. NoWait \in Waits
  BY DEF NoWait, Waits
<1>f. ASSUME NEW r \in FailureReasons, NEW b \in BOOLEAN, Fail(r, b)
      PROVE  error' \in Entry \cup {Nil} /\ pc' \in Steps
  BY <1>f DEF Fail, Failure, Entry, Steps
<1>1. CASE UNCHANGED requestVars
  BY <1>1, <1>k DEF requestVars, machine, nm, result, RequestType, Total
<1>2. CASE Start
  BY <1>2, <1>k DEF Start, nm, RequestType, Total, Steps
<1>3. CASE Try
  <2>1. error' \in Entry \cup {Nil} /\ pc' \in Steps
    <3>1. Failure("cancelled", FALSE) \in Entry
      BY DEF Failure, Entry, FailureReasons
    <3>2. QED
      BY <1>3, <3>1 DEF Try, Steps
  <2>2. QED
    BY <1>3, <1>k, <2>1 DEF Try, nm, RequestType, Total
<1>4. CASE StopCancelled
  <2>1. error' \in Entry \cup {Nil} /\ pc' \in Steps
    BY <1>4, <1>f DEF StopCancelled, FailureReasons
  <2>2. QED
    BY <1>4, <1>k, <2>1 DEF StopCancelled, nm, RequestType, Total
<1>5. CASE CheckAlreadyActive
  BY <1>5, <1>k DEF CheckAlreadyActive, nm, RequestType, Total, Steps
<1>6. CASE SavedProfile
  <2>1. ASSUME Activate(KeptProfile), UNCHANGED <<created, error>> PROVE RequestType'
    <3>1. /\ device' \in [act : 0..4, state : {"disconnected", "preparing", "activated"},
                          reason : NmReasons]
          /\ profiles' \subseteq 0..2 /\ pc' \in Steps /\ scope' = "live"
      BY <1>k, <2>1, SMTT(40) DEF Activate, KeptProfile, NmReasons, Steps
    <3>2. QED
      BY <1>6, <1>k, <2>1, <3>1 DEF SavedProfile, RequestType, Total
  <2>2. ASSUME pc' \in Steps, error' \in Entry \cup {Nil},
               UNCHANGED <<created, path, scope, profiles, device>>
        PROVE  RequestType'
    BY <1>6, <1>k, <2>2 DEF SavedProfile, RequestType, Total
  <2>3. ASSUME NEW r \in DbusReasons, Fail(r, FALSE) PROVE error' \in Entry \cup {Nil} /\ pc' \in Steps
    BY <1>f, <2>3, Reasons
  <2>4. pc' = "create" => pc' \in Steps
    BY DEF Steps
  <2>5. QED
    BY <1>6, <1>k, <2>1, <2>2, <2>3, <2>4 DEF SavedProfile
<1>7. CASE CreateProfile
  <2>1. ASSUME Activate(attempt), created' = attempt, UNCHANGED error PROVE RequestType'
    <3>1. /\ device' \in [act : 0..4, state : {"disconnected", "preparing", "activated"},
                          reason : NmReasons]
          /\ profiles' \subseteq 0..2 /\ pc' \in Steps /\ scope' = "live"
      BY <1>k, <2>1, SMTT(40) DEF Activate, NmReasons, Steps
    <3>2. QED
      BY <1>7, <1>k, <2>1, <3>1 DEF CreateProfile, RequestType, Total
  <2>2. ASSUME pc' \in Steps, error' \in Entry \cup {Nil},
               UNCHANGED <<created, path, scope, profiles, device>>
        PROVE  RequestType'
    BY <1>7, <1>k, <2>2 DEF CreateProfile, RequestType, Total
  <2>3. ASSUME NEW r \in DbusReasons, Fail(r, FALSE) PROVE error' \in Entry \cup {Nil} /\ pc' \in Steps
    BY <1>f, <2>3, Reasons
  <2>4. ASSUME NEW v, Fail(UnavailableReason(v), FALSE)
        PROVE  error' \in Entry \cup {Nil} /\ pc' \in Steps
    BY <1>f, <2>4, Reasons
  <2>5. pc' = "rescan" => pc' \in Steps
    BY DEF Steps
  <2>6. QED
    BY <1>7, <1>k, <2>1, <2>2, <2>3, <2>4, <2>5 DEF CreateProfile
<1>8. CASE Rescan
  <2>1. error' \in Entry \cup {Nil} /\ pc' \in Steps
    BY <1>8, <1>k, <1>f DEF Rescan, FailureReasons, Steps
  <2>2. QED
    BY <1>8, <1>k, <2>1 DEF Rescan, nm, RequestType, Total
<1>9. CASE VerifyStop
  <2>1. \E r \in FailureReasons, b \in BOOLEAN : Fail(r, b)
    BY <1>9, <1>k, Reasons DEF VerifyStop, Waits, FailureReasons
  <2>2. device' \in {Down, device}
    BY <1>9 DEF VerifyStop, AbortSsid, AbortRequested
  <2>3. QED
    BY <1>9, <1>k, <1>d, <1>f, <2>1, <2>2 DEF VerifyStop, RequestType, Total
<1>10. CASE Sample
  <2>1. wait' \in Waits
    <3>1. OnTarget \in BOOLEAN /\ (device.act # path) \in BOOLEAN
      BY SMTT(40) DEF OnTarget
    <3>2. wait' = [wait EXCEPT !.sampled = TRUE, !.matches = OnTarget, !.stopped = (device.act # path)]
      BY <1>10 DEF Sample
    <3>3. QED
      BY <1>k, <3>1, <3>2 DEF Waits
  <2>2. QED
    BY <1>10, <1>k, <2>1 DEF Sample, machine, nm, RequestType, Total
<1>11. CASE Observe
  <2>1. Latched \in NmReasons
    BY <1>k DEF Latched, Waits
  <2>2. wait' \in Waits
    <3>1. \/ wait' = [wait EXCEPT !.sampled = FALSE]
          \/ wait' = [wait EXCEPT !.sampled = FALSE, !.pending = Nil, !.grace = FALSE,
                                  !.last = device.reason]
          \/ wait' = [wait EXCEPT !.sampled = FALSE, !.pending = Latched, !.last = device.reason]
          \/ wait' = [wait EXCEPT !.sampled = FALSE, !.pending = Latched]
      BY <1>11 DEF Observe
    <3>2. QED
      BY <1>k, <2>1, <3>1 DEF Waits
  <2>3. /\ created' \in {created, Nil} /\ device' \in {Down, device}
        /\ UNCHANGED <<attempt, request, cancelled, profiles>>
    BY <1>11 DEF Observe, Verified, AbortRequested
  <2>4. scope' \in {Nil, "live"} \cup Stops
    BY <1>11, <1>k DEF Observe, Verified, Stops
  <2>5. \/ \E r \in FailureReasons, b \in BOOLEAN : Fail(r, b)
        \/ pc' \in {"succeed", pc} /\ error' = error
    <3>1. "unknown" \in FailureReasons /\ "agent-unavailable" \in Stops
      BY DEF FailureReasons, Stops
    <3>2. FailureReason(Latched) \in FailureReasons
      BY <2>1, Reasons
    <3>3. QED
      BY <1>11, <3>1, <3>2, Reasons DEF Observe, Verified
  <2>6. error' \in Entry \cup {Nil} /\ pc' \in Steps
    BY <1>k, <1>f, <2>5 DEF Steps
  <2>7. QED
    BY <1>k, <1>d, <2>2, <2>3, <2>4, <2>6 DEF RequestType, Total
<1>12. CASE Cleanup
  <2>1. /\ pc' \in Steps /\ scope' = Nil /\ created' = Nil /\ profiles' \subseteq profiles
        /\ device' \in {Down, device} /\ wait' = NoWait
    BY <1>12 DEF Cleanup, Steps
  <2>2. QED
    BY <1>12, <1>k, <1>d, <1>n, <2>1 DEF Cleanup, RequestType, Total
<1>13. CASE FinishSuccess
  <2>1. error' \in Entry \cup {Nil} /\ pc' \in Steps
    BY <1>13 DEF FinishSuccess, Failure, Entry, FailureReasons, Steps
  <2>2. QED
    BY <1>13, <1>k, <1>n, <2>1 DEF FinishSuccess, nm, RequestType, Total
<1>14. CASE Judge
  <2>1. /\ UNCHANGED <<request, created, scope, error, wait, cancelled, profiles, device>>
        /\ pc' \in {"done", "try"}
        /\ attempt' = attempt \/ (attempt' = attempt + 1 /\ attempt < Total /\ pc' = "try")
    BY <1>14 DEF Judge, nm, FallsBack
  <2>2. pc' \in Steps /\ attempt' \in {1, 2} /\ attempt' <= Total'
    BY <1>k, <2>1, SMTT(40) DEF Steps, Total
  <2>3. created' \in {Nil, attempt'}
    BY <1>14, <1>k, <2>1 DEF Judge, OwnershipInv
  <2>4. QED
    BY <1>k, <2>1, <2>2, <2>3 DEF RequestType
<1>15. CASE Cancel
  BY <1>15, <1>k DEF Cancel, machine, nm, RequestType, Total
<1>16. CASE NetworkManager
  <2>1. device' \in [act : 0..4, state : {"disconnected", "preparing", "activated"},
                     reason : NmReasons]
    BY <1>16, <1>k, ConnectBounds, SMTT(40) DEF NetworkManager, DeviceMoves, NmReasons
  <2>2. QED
    BY <1>16, <1>k, <2>1 DEF NetworkManager, machine, RequestType, Total
<1>17. CASE CredentialStop
  BY <1>17, <1>k DEF CredentialStop, nm, RequestType, Total, Stops
<1>18. CASE Time
  <2>1. wait' \in Waits
    BY <1>18, <1>k DEF Time, Waits
  <2>2. QED
    BY <1>18, <1>k, <2>1 DEF Time, machine, nm, RequestType, Total
<1>19. QED
  BY <1>1, <1>2, <1>3, <1>4, <1>5, <1>6, <1>7, <1>8, <1>9, <1>10, <1>11, <1>12, <1>13, <1>14, <1>15,
     <1>16, <1>17, <1>18 DEF RequestNext, Worker, Finished

LEMMA OwnershipStep ==
  ASSUME RequestType, OwnershipInv, [RequestNext]_requestVars PROVE OwnershipInv'
<1>k. /\ attempt \in {1, 2} /\ created \in {Nil, attempt} /\ Nil \notin Own
      /\ created # Nil => pc \in {"verify", "cleanup"}
      /\ profiles \cap Own \subseteq kept \cup {created}
  BY ConnectBounds, SMTT(40) DEF RequestType, OwnershipInv, Own
<1>1. CASE UNCHANGED <<created, profiles, kept>> /\ (pc' = pc \/ created = Nil \/ pc' = "cleanup")
  BY <1>k, <1>1 DEF OwnershipInv
<1>2. CASE SavedProfile
  <2>1. pc = "saved" /\ UNCHANGED <<created, kept>>
        /\ (profiles' = profiles \/ profiles' = profiles \cup {KeptProfile})
    BY <1>2 DEF SavedProfile, Activate, result
  <2>2. created = Nil /\ KeptProfile \notin Own
    BY <1>k, <2>1, SMTT(40) DEF KeptProfile, Own
  <2>3. QED
    BY <1>k, <2>1, <2>2 DEF OwnershipInv
<1>3. CASE CreateProfile
  <2>1. pc = "create" /\ UNCHANGED kept /\ created = Nil
    BY <1>3, <1>k DEF CreateProfile, result
  <2>2. \/ created' = attempt /\ profiles' = profiles \cup {attempt} /\ pc' = "verify"
        \/ UNCHANGED <<created, profiles>>
    BY <1>3 DEF CreateProfile, Activate
  <2>3. QED
    BY <1>k, <2>1, <2>2 DEF OwnershipInv
<1>4. CASE Observe
  <2>1. /\ pc = "verify" /\ profiles' = profiles
        /\ \/ created' = Nil /\ kept' = kept \cup ({created} \ {Nil})
           \/ UNCHANGED <<created, kept>> /\ pc' \in {"verify", "cleanup"}
    BY <1>4 DEF Observe, Verified, Fail
  <2>2. QED
    BY <1>k, <2>1 DEF OwnershipInv
<1>5. CASE Cleanup
  <2>1. /\ created' = Nil
        /\ \/ profiles' = profiles \ {created} /\ kept' = kept
           \/ profiles' = profiles /\ kept' = kept \cup {created}
    BY <1>5 DEF Cleanup
  <2>2. QED
    BY <1>k, <2>1 DEF OwnershipInv
<1>6. CASE Start \/ Try \/ StopCancelled \/ CheckAlreadyActive \/ Rescan \/ VerifyStop
           \/ FinishSuccess \/ Judge
  <2>1. UNCHANGED <<created, profiles, kept>>
    BY <1>6 DEF Start, Try, StopCancelled, CheckAlreadyActive, Rescan, VerifyStop,
                       FinishSuccess, Judge, nm, result
  <2>2. pc \notin {"verify", "cleanup"} \/ pc' = "cleanup"
    BY <1>6 DEF Start, Try, StopCancelled, CheckAlreadyActive, Rescan, VerifyStop, FinishSuccess,
                Judge, Fail
  <2>3. QED
    BY <1>1, <1>k, <2>1, <2>2
<1>7. CASE Sample \/ Cancel \/ NetworkManager \/ CredentialStop \/ Time \/ UNCHANGED requestVars
  BY <1>1, <1>7 DEF Sample, Cancel, NetworkManager, CredentialStop, Time, requestVars, machine,
                           nm, result
<1>8. QED
  BY <1>2, <1>3, <1>4, <1>5, <1>6, <1>7 DEF RequestNext, Worker, Finished

LEMMA SummaryStep ==
  ASSUME RequestType, RequestType', SummaryInv, [RequestNext]_requestVars PROVE SummaryInv'
<1> DEFINE R == [reason : FailureReasons \cup {"connected"}, credential : BOOLEAN]
<1>k. /\ attempts \in Seq(R) /\ Len(attempts) \in Nat
      /\ pc # "done" => Len(attempts) = attempt - 1 /\ outcome = Nil
      /\ attempt = 2 => Len(attempts) >= 1 /\ attempts[1].reason \in Retryable
                        /\ ~attempts[1].credential
      /\ pc = "cleanup" => error # Nil
      /\ pc = "judge" /\ error = Nil => status = "connected"
      /\ pc = "judge" /\ error # Nil /\ ~request.alternative =>
            error.reason = "cancelled" \/ status = "error"
      /\ FallbackDiscipline
  BY SMTT(40) DEF SummaryInv
<1>t. attempt \in {1, 2} /\ attempt <= Total /\ error \in Entry \cup {Nil} /\ Nil \notin Entry
  BY ConnectBounds DEF RequestType, Entry
<1>o. Nil # "succeeded" /\ Nil # "failed"
  BY ConnectBounds
\* Steps that leave the summary alone and do not end the request.
<1>f. ASSUME UNCHANGED <<request, attempt, attempts, outcome>>, pc # "done", pc' # "done",
             pc' = "cleanup" => error' # Nil,
             pc' = "judge" /\ error' = Nil => status' = "connected",
             pc' = "judge" /\ error' # Nil /\ ~request.alternative =>
                error'.reason = "cancelled" \/ status' = "error"
      PROVE  SummaryInv'
  <2>1. outcome = Nil /\ Len(attempts) = attempt - 1 /\ Len(attempts) <= Total
    BY <1>f, <1>k, <1>t, SMTT(40) DEF Total
  <2>2. FallbackDiscipline'
    BY <1>f, <1>k, <1>o, <1>t, <2>1 DEF FallbackDiscipline, Total
  <2>3. QED
    BY <1>f, <1>k, <2>1, <2>2 DEF SummaryInv
<1> HIDE DEF R
<1>g. ASSUME NEW r \in FailureReasons, NEW b \in BOOLEAN, Fail(r, b)
      PROVE  pc' = "cleanup" /\ error' # Nil
  <2>1. error' \in Entry
    BY <1>g DEF Fail, Failure, Entry
  <2>2. QED
    BY <1>g, <1>t, <2>1 DEF Fail
<1>h. ASSUME NEW r, NEW b, Fail(r, b) PROVE pc' = "cleanup"
  BY <1>h DEF Fail
<1>1. CASE UNCHANGED requestVars
  BY <1>1, <1>k
     DEF requestVars, machine, result, SummaryInv, FallbackDiscipline, Total
<1>2. CASE Start
  <2>1. CASE ~cancelled
    BY <1>2, <1>f, <2>1 DEF Start
  <2>2. CASE cancelled
    <3>1. outcome' = "cancelled" /\ pc' = "done" /\ UNCHANGED <<request, attempt, attempts>> /\ pc = "start"
      BY <1>2, <2>2 DEF Start
    <3>2. QED
      BY <1>k, <1>t, <3>1 DEF SummaryInv, FallbackDiscipline, Total
  <2>3. QED
    BY <2>1, <2>2
<1>3. CASE Try
  <2>1. Failure("cancelled", FALSE).reason = "cancelled" /\ Failure("cancelled", FALSE) # Nil
    <3>1. Failure("cancelled", FALSE) \in Entry
      BY DEF Failure, Entry, FailureReasons
    <3>2. QED
      BY <1>t, <3>1 DEF Failure
  <2>2. QED
    BY <1>3, <1>f, <2>1 DEF Try
<1>4. CASE StopCancelled \/ CheckAlreadyActive \/ SavedProfile \/ CreateProfile \/ Rescan
           \/ VerifyStop \/ Observe
  <2>1. UNCHANGED <<request, attempt, attempts, outcome>> /\ pc # "done"
    BY <1>4 DEF StopCancelled, CheckAlreadyActive, SavedProfile, CreateProfile, Rescan, VerifyStop,
                Observe, result
  <2>2. pc' \in {"active", "saved", "create", "rescan", "verify", "succeed"}
        \/ \E r \in FailureReasons, b \in BOOLEAN : Fail(r, b)
    <3>1. CASE StopCancelled \/ CheckAlreadyActive
      BY <3>1 DEF StopCancelled, CheckAlreadyActive, FailureReasons
    <3>2. CASE SavedProfile
      BY <3>2, Reasons DEF SavedProfile, Activate
    <3>3. CASE CreateProfile
      BY <3>3, Reasons DEF CreateProfile, Activate
    <3>4. CASE Rescan
      BY <3>4 DEF Rescan, FailureReasons
    <3>5. CASE VerifyStop
      <4>1. wait.last \in NmReasons \cup {Nil} /\ "cancelled" \in FailureReasons
        BY DEF RequestType, Waits, FailureReasons
      <4>2. TimeoutReason(wait.last) \in FailureReasons /\ \A s \in Stops : StopReason(s) \in FailureReasons
        BY <4>1, Reasons
      <4>3. QED
        BY <3>5, <4>1, <4>2 DEF VerifyStop
    <3>6. CASE Observe
      <4>1. Latched \in NmReasons
        BY DEF Latched, RequestType, Waits
      <4>2. "unknown" \in FailureReasons /\ "agent-unavailable" \in Stops
        BY DEF FailureReasons, Stops
      <4>3. FailureReason(Latched) \in FailureReasons
        BY <4>1, Reasons
      <4>4. QED
        BY <3>6, <4>2, <4>3, Reasons DEF Observe, Verified
    <3>7. QED
      BY <1>4, <3>1, <3>2, <3>3, <3>4, <3>5, <3>6
  <2>3. QED
    BY <1>f, <1>g, <2>1, <2>2
<1>5. CASE Sample \/ NetworkManager \/ CredentialStop \/ Time
  BY <1>5, <1>f DEF Sample, NetworkManager, CredentialStop, Time, machine, nm, result
<1>6. CASE Cancel
  <2>1. UNCHANGED <<request, pc, attempt, error, attempts, outcome, status>> /\ pc # "done"
    BY <1>6 DEF Cancel, machine, result
  <2>2. QED
    BY <1>f, <1>k, <2>1
<1>7. CASE Cleanup
  <2>1. /\ pc = "cleanup" /\ pc' = "judge" /\ UNCHANGED <<request, attempt, attempts, outcome, error>>
        /\ ~request.alternative => status' = "error"
    BY <1>7 DEF Cleanup
  <2>2. QED
    BY <1>f, <1>k, <2>1
<1>8. CASE FinishSuccess
  <2>1. /\ pc = "succeed" /\ pc' = "judge" /\ UNCHANGED <<request, attempt, attempts, outcome>>
        /\ status' = "connected"
        /\ error' = Nil \/ error' = Failure("cancelled", FALSE)
    BY <1>8 DEF FinishSuccess
  <2>2. Failure("cancelled", FALSE).reason = "cancelled"
    BY DEF Failure
  <2>3. QED
    BY <1>f, <2>1, <2>2
<1>9. CASE Judge
  <2>0. pc = "judge" /\ Len(attempts) = attempt - 1 /\ UNCHANGED <<request, error>>
    BY <1>9, <1>k DEF Judge
  <2>1. CASE outcome' = "cancelled" /\ pc' = "done" /\ UNCHANGED <<attempt, attempts, status>>
    BY <1>k, <1>t, <2>0, <2>1 DEF SummaryInv, FallbackDiscipline, Total
  <2>2. CASE /\ ~cancelled /\ error = Nil /\ Tried(Failure("connected", FALSE))
             /\ outcome' = "succeeded" /\ pc' = "done"
             /\ status' = (IF attempt > 1 THEN "connected" ELSE status) /\ UNCHANGED attempt
    <3> DEFINE e == Failure("connected", FALSE)
    <3>1. e \in R /\ e.reason = "connected"
      BY DEF Failure, R
    <3>a. attempts' = Append(attempts, e)
      BY <2>2 DEF Tried
    <3> HIDE DEF e
    <3>2. /\ attempts' \in Seq(R) /\ Len(attempts') = attempt /\ attempts'[attempt] = e
          /\ attempt = 2 => attempts'[1] = attempts[1]
      BY <1>k, <1>t, <2>0, <3>1, <3>a, SMTT(40)
    <3>3. status' = "connected"
      BY <1>k, <2>0, <2>2
    <3>4. FallbackDiscipline'
      BY <1>k, <1>t, <2>0, <2>2, <3>1, <3>2, <3>3 DEF FallbackDiscipline, Total
    <3>5. QED
      BY <1>k, <1>t, <2>0, <2>2, <3>2, <3>4, SMTT(40) DEF SummaryInv, R
  <2>3. CASE ~cancelled /\ error # Nil /\ error.reason # "cancelled" /\ Tried(error)
    <3>1. error \in R /\ error.reason # "connected"
      BY <1>t, <2>3 DEF Entry, R, FailureReasons
    <3>2. /\ attempts' \in Seq(R) /\ Len(attempts') = attempt /\ attempts'[attempt] = error
          /\ attempt = 2 => attempts'[1] = attempts[1]
      BY <1>k, <1>t, <2>0, <2>3, <3>1, SMTT(40) DEF Tried
    <3>3. \A i \in DOMAIN attempts' : attempts'[i].reason # "connected"
      <4>1. "connected" \notin Retryable
        BY DEF Retryable
      <4>2. QED
        BY <1>k, <1>t, <2>0, <3>1, <3>2, <4>1, SMTT(40)
    <3>4. CASE FallsBack /\ attempt' = attempt + 1 /\ pc' = "try" /\ UNCHANGED <<outcome, status>>
      <4>1. attempt = 1 /\ attempt' = 2 /\ Total = 2 /\ error.reason \in Retryable /\ ~error.credential
        BY <1>t, <3>4, SMTT(40) DEF FallsBack, Total
      <4>2. FallbackDiscipline'
        BY <1>k, <1>o, <2>0, <3>2, <3>4, <4>1, SMTT(40) DEF FallbackDiscipline, Total
      <4>3. QED
        BY <1>k, <2>0, <3>2, <3>4, <4>1, <4>2, SMTT(40) DEF SummaryInv, R
    <3>5. CASE /\ outcome' = "failed" /\ pc' = "done"
               /\ status' = (IF Total > 1 THEN "error" ELSE status) /\ UNCHANGED attempt
      <4>1. status' = "error"
        BY <1>k, <2>0, <2>3, <3>5, SMTT(40) DEF Total
      <4>2. FallbackDiscipline'
        BY <1>k, <1>t, <2>0, <3>2, <3>3, <3>5, <4>1 DEF FallbackDiscipline, Total
      <4>3. QED
        BY <1>k, <1>t, <2>0, <3>2, <3>5, <4>2, SMTT(40) DEF SummaryInv, R
    <3>6. QED
      BY <1>9, <2>3, <3>4, <3>5 DEF Judge
  <2>4. QED
    BY <1>9, <2>1, <2>2, <2>3 DEF Judge
<1>10. QED
  BY <1>1, <1>2, <1>3, <1>4, <1>5, <1>6, <1>7, <1>8, <1>9 DEF RequestNext, Worker, Finished

\* The ownership of created profiles and the summary of attempts stay
\* consistent under every step of the worker and its environment.
THEOREM RequestInductive == RequestSpec => []RequestInv
<1>1. RequestInv /\ [RequestNext]_requestVars => RequestInv'
  BY RequestTypeStep, OwnershipStep, SummaryStep DEF RequestInv
<1>2. QED
  BY <1>1, RequestInitial, PTL DEF RequestSpec

\* A request that did not succeed leaves none of its profiles behind that it
\* was able to delete and had not verified (cleanup_created_connection and
\* verify of connect.rs).
THEOREM ProfilesAreCleaned == RequestSpec => []CreatedProfilesCleaned
<1>1. RequestInv => CreatedProfilesCleaned
  BY ConnectBounds, SMTT(40) DEF RequestInv, OwnershipInv, CreatedProfilesCleaned, Own
<1>2. QED
  BY <1>1, RequestInductive, PTL

\* A second candidate only follows a retryable failure that no credential
\* decision caused, and summary and cached status agree with the outcome
\* (connect_inner, finish_success, cleanup).
THEOREM FallbackIsDisciplined == RequestSpec => []FallbackDiscipline
<1>1. RequestInv => FallbackDiscipline
  BY DEF RequestInv, SummaryInv
<1>2. QED
  BY <1>1, RequestInductive, PTL

-----------------------------------------------------------------------------
\* Observations and subscriptions.

Payload == Publication \union {NoStatus}
Kind == {"subscribe", "cancel", "drop", "external", "changed", "refreshed"}
Letter == [kind : Kind, sub : Sub \union {None}, payload : Payload]
Taken == [at : {"idle", "scoped", "read", "checked"}, gen : Nat,
          owner : 0..MaxChange + 1, seen : Status \union {None},
          change : 0..MaxChange]

\* The types of the observations and of the actor, with the contents of the
\* captures and of the queue; no signal is due that no change sent, and only a
\* subscription's own controls name it.
ObservationInv ==
    /\ ObservationTypeOK
    /\ capture \in [Observer -> Taken]
    /\ due <= change

ActorInv ==
    /\ deadline \in BOOLEAN /\ inFlight \in BOOLEAN /\ dirty \in BOOLEAN
    /\ job \in {"none", "queued", "capturing", "sending"}
    /\ payload \in Payload
    /\ subs \subseteq Sub
    /\ client \in [Sub -> {"new", "asked", "open", "leaving", "closed", "gone"}]
    /\ seen \in [Sub -> Payload]
    /\ external \in 0..MaxExternal /\ refused \in 0..MaxRefused
    /\ panics \in 0..MaxPanic

QueueInv ==
    /\ queue \in Seq(Letter) /\ Len(queue) <= Capacity
    /\ \A i \in DOMAIN queue :
          queue[i].kind \in {"subscribe", "cancel", "drop"} => queue[i].sub \in Sub

\* A capture belongs to the holder of the mutex, and as long as its generation
\* is the present one it was read after the last invalidation.
FreshInv ==
    /\ invalidAt <= change
    /\ \A o \in Observer : capture[o].at # "idle" =>
          /\ holder = o
          /\ capture[o].gen <= generation
          /\ capture[o].gen = generation => capture[o].change >= invalidAt

\* A capture whose read is over has a status.
SeenInv ==
    \A o \in Observer : capture[o].at \in {"read", "checked"} => capture[o].seen \in Status

\* Revisions are counted from the first status on.
NumberInv == revision = 0 => value = None

\* The refresh job holds the mutex while it captures.
HeldInv == job = "capturing" => holder = Job

\* At most one refresh is in flight, in the lane or on its way back, and the
\* gate knows of it.
NoneBack(q) == \A i \in DOMAIN q : q[i].kind # "refreshed"
OneBack(q) ==
    \A i, j \in DOMAIN q : q[i].kind = "refreshed" /\ q[j].kind = "refreshed" => i = j

GateInv ==
    /\ job # "none" => inFlight /\ NoneBack(queue)
    /\ OneBack(queue)
    /\ inFlight \/ NoneBack(queue)

\* What would be published now, and the order of publications: the epoch, then
\* the revision, and one status for each of them.
Now == [epoch |-> epoch, rev |-> revision, status |-> value]
NotAfter(p, q) ==
    \/ p.epoch < q.epoch
    \/ p.epoch = q.epoch /\ p.rev < q.rev
    \/ p.epoch = q.epoch /\ p.rev = q.rev /\ p.status = q.status

\* A payload on its way is not older than what any subscription has seen.
Newest(p) ==
    /\ NotAfter(p, Now)
    /\ p # NoStatus => \A s \in Sub : NotAfter(seen[s], p)

ShownInv ==
    /\ \A s \in Sub : NotAfter(seen[s], Now)
    /\ job # "sending" => payload = NoStatus
    /\ Newest(payload)
    /\ \A i \in DOMAIN queue : queue[i].kind = "refreshed" => Newest(queue[i].payload)

-----------------------------------------------------------------------------
\* What a step may do to the observations.

\* The callback has sent its control.
Called ==
    /\ calling /\ calling' = FALSE
    /\ UNCHANGED <<worldVars, due, stateVars, captureVars, invalidAt>>

\* The refresh job dies and gives the mutex back.
Dropped ==
    /\ job = "capturing"
    /\ holder' = None
    /\ capture' = [capture EXCEPT ![Job] = NoCapture]
    /\ UNCHANGED <<worldVars, signalVars, stateVars, invalidAt>>

Capturing(o) ==
    BeginCapture(o) \/ ReadStatus(o) \/ CheckCaptureOwner(o) \/ Publish(o) \/ Conflict(o)

ObservationStep ==
    \/ UNCHANGED observationVars
    \/ Invalidate \/ ChangeOwner \/ Called \/ Dropped
    \/ \E v \in Value : ChangeStatus(v)
    \/ \E o \in Observer : Capturing(o)

LEMMA ObservationMoves == [Next]_vars => ObservationStep
<1> SUFFICES ASSUME [Next]_vars PROVE ObservationStep
  OBVIOUS
<1> USE DEF ObservationStep
<1>1. CASE \E s \in Sub : Client(s)
  BY <1>1 DEF Client, Subscribe, Unsubscribe, Disconnect, DropOwner
<1>2. CASE SendExternal
  BY <1>2 DEF SendExternal
<1>3. CASE Signal
  BY <1>3 DEF Signal
<1>4. CASE NotifyChanged
  BY <1>4 DEF NotifyChanged, Called
<1>5. CASE ChangeWorld
  BY <1>5 DEF ChangeWorld
<1>6. CASE Actor
  BY <1>6 DEF Actor, AddSubscription, RemoveSubscription, HandleExternal,
                     HandleChanged, CompleteRefresh
<1>7. CASE Debounced
  BY <1>7 DEF Debounced
<1>8. CASE BeginJob \/ FinishJob
  BY <1>8, ActorAssumption DEF BeginJob, FinishJob, Capturing
<1>9. CASE SendRefreshed
  BY <1>9 DEF SendRefreshed
<1>10. CASE PanicJob
  BY <1>10 DEF PanicJob, Dropped
<1>11. CASE \E o \in Observer : Read(o) \/ Capture(o)
  BY <1>11 DEF Read, Capture, Capturing
<1>12. CASE UNCHANGED vars
  BY <1>12 DEF vars, observationVars
<1>13. QED
  BY <1>1, <1>2, <1>3, <1>4, <1>5, <1>6, <1>7, <1>8, <1>9, <1>10, <1>11, <1>12
     DEF Next

LEMMA ObservationStarts == ObservationInit => ObservationInv /\ FreshInv /\ SeenInv
<1> SUFFICES ASSUME ObservationInit PROVE ObservationInv /\ FreshInv /\ SeenInv
  OBVIOUS
<1> USE ObservationAssumption DEF ObservationInit
<1>0. NoCapture \in Taken
  BY SMTT(40) DEF NoCapture, Taken
<1>1. capture \in [Observer -> Taken]
  BY <1>0
<1>2. \A o \in Observer : capture[o].at = "idle" /\ capture[o].seen = None
  BY DEF NoCapture
<1>a. DOMAIN capture = Observer
  OBVIOUS
<1>b. /\ nmOwner \in 0..MaxChange + 1 /\ change \in 0..MaxChange /\ due \in 0..MaxChange
      /\ generation \in Nat /\ epoch \in 1..MaxEpoch /\ previous \in 0..MaxEpoch
      /\ revision \in 0..MaxRevision /\ invalidAt \in 0..MaxChange
  BY SMTT(40)
<1>3. ObservationTypeOK
  BY <1>2, <1>a, <1>b DEF ObservationTypeOK
<1>4. QED
  BY <1>1, <1>2, <1>3, SMTT(40) DEF ObservationInv, FreshInv, SeenInv

\* What the captures become, whoever moves.
LEMMA CaptureMoves ==
  ASSUME ObservationInv, ObservationStep
  PROVE  capture' \in [Observer -> Taken] /\ holder' \in Observer \union {None}
<1> USE ObservationAssumption DEF ObservationInv
<1>t. /\ capture \in [Observer -> Taken] /\ holder \in Observer \union {None}
      /\ nmOwner \in 0..MaxChange + 1 /\ change \in 0..MaxChange /\ generation \in Nat
      /\ world \in Value
  BY DEF ObservationTypeOK
<1>n. NoCapture \in Taken
  BY SMTT(40) DEF NoCapture, Taken
<1> HIDE DEF ObservationInv
<1>1. CASE UNCHANGED observationVars \/ Invalidate \/ ChangeOwner \/ Called
           \/ \E v \in Value : ChangeStatus(v)
  BY <1>1, <1>t DEF observationVars, Invalidate, ChangeOwner, Called, ChangeStatus, captureVars
<1>2. CASE Dropped
  BY <1>2, <1>t, <1>n DEF Dropped
<1>3. ASSUME NEW o \in Observer, BeginCapture(o)
      PROVE  capture' \in [Observer -> Taken] /\ holder' \in Observer \union {None}
  <2> DEFINE c == [NoCapture EXCEPT !.at = IF nmOwner = 0 THEN "checked" ELSE "scoped",
                                    !.gen = generation, !.owner = nmOwner,
                                    !.seen = IF nmOwner = 0 THEN Unavailable ELSE None,
                                    !.change = change]
  <2>1. c \in Taken
    BY <1>t DEF NoCapture, Taken, Status
  <2> HIDE DEF c
  <2>2. capture' = [capture EXCEPT ![o] = c] /\ holder' = o
    BY <1>3 DEF BeginCapture, c
  <2>3. QED
    BY <2>1, <2>2, <1>t
<1>4. ASSUME NEW o \in Observer, ReadStatus(o)
      PROVE  capture' \in [Observer -> Taken] /\ holder' \in Observer \union {None}
  <2> DEFINE c == [capture[o] EXCEPT !.at = "read", !.seen = world, !.change = change]
  <2>1. c \in Taken
    BY <1>t DEF Taken, Status
  <2>2. capture' = [capture EXCEPT ![o] = c] /\ holder' = holder
    BY <1>4, <1>t DEF ReadStatus
  <2> HIDE DEF c
  <2>3. QED
    BY <2>1, <2>2, <1>t
<1>5. ASSUME NEW o \in Observer, CheckCaptureOwner(o)
      PROVE  capture' \in [Observer -> Taken] /\ holder' \in Observer \union {None}
  <2> DEFINE v == IF nmOwner = capture[o].owner THEN capture[o].seen ELSE Unavailable
             c == [capture[o] EXCEPT !.at = "checked", !.seen = v]
  <2>1. c \in Taken
    BY <1>t DEF Taken, Status
  <2>2. capture' = [capture EXCEPT ![o] = c] /\ holder' = holder
    BY <1>5, <1>t DEF CheckCaptureOwner
  <2> HIDE DEF c
  <2>3. QED
    BY <2>1, <2>2, <1>t
<1>6. ASSUME NEW o \in Observer, Publish(o) \/ Conflict(o)
      PROVE  capture' \in [Observer -> Taken] /\ holder' \in Observer \union {None}
  BY <1>6, <1>t, <1>n DEF Publish, Conflict
<1>7. QED
  BY <1>1, <1>2, <1>3, <1>4, <1>5, <1>6 DEF ObservationStep, Capturing

\* Commit keeps to the epochs and the revisions there are.
LEMMA CommitTyped ==
  ASSUME NEW v \in Status, Commit(v),
         epoch \in 1..MaxEpoch, previous \in 0..MaxEpoch, revision \in 0..MaxRevision,
         value \in Status \union {None},
         value # v /\ revision = MaxRevision => epoch < MaxEpoch
  PROVE  /\ epoch' \in 1..MaxEpoch /\ previous' \in 0..MaxEpoch
         /\ revision' \in 0..MaxRevision /\ value' \in Status \union {None}
<1> USE ObservationAssumption
<1>1. CASE value = v
  BY <1>1 DEF Commit
<1>2. CASE value # v /\ revision = MaxRevision
  BY <1>2, SMTT(40) DEF Commit
<1>3. CASE value # v /\ revision # MaxRevision
  BY <1>3, SMTT(40) DEF Commit
<1>4. QED
  BY <1>1, <1>2, <1>3

LEMMA ObservationTyped ==
  ASSUME ObservationInv, SeenInv, ObservationStep PROVE ObservationInv'
<1>c. capture' \in [Observer -> Taken] /\ holder' \in Observer \union {None}
  BY CaptureMoves
<1>d. /\ DOMAIN capture' = Observer
      /\ \A o \in Observer : /\ capture'[o].at \in {"idle", "scoped", "read", "checked"}
                             /\ capture'[o].seen \in Status \union {None}
  BY <1>c DEF Taken
<1>t. /\ world \in Value /\ nmOwner \in 0..MaxChange + 1 /\ change \in 0..MaxChange
      /\ due \in 0..MaxChange /\ calling \in BOOLEAN /\ generation \in Nat
      /\ epoch \in 1..MaxEpoch /\ previous \in 0..MaxEpoch
      /\ revision \in 0..MaxRevision /\ value \in Status \union {None}
      /\ invalidAt \in 0..MaxChange /\ due <= change
  BY DEF ObservationInv, ObservationTypeOK
<1> DEFINE W == world' \in Value /\ nmOwner' \in 0..MaxChange + 1 /\ change' \in 0..MaxChange
           D == /\ due' \in 0..MaxChange /\ calling' \in BOOLEAN /\ due' <= change'
                /\ generation' \in Nat /\ invalidAt' \in 0..MaxChange
           V == /\ epoch' \in 1..MaxEpoch /\ previous' \in 0..MaxEpoch
                /\ revision' \in 0..MaxRevision /\ value' \in Status \union {None}
<1>s. SUFFICES W /\ D /\ V
  BY <1>c, <1>d DEF ObservationInv, ObservationTypeOK
<1> USE <1>t, ObservationAssumption
<1>1. CASE UNCHANGED observationVars
  BY <1>1 DEF observationVars
<1>2. CASE Invalidate
  BY <1>2, SMTT(40) DEF Invalidate, worldVars
<1>3. CASE ChangeOwner \/ \E v \in Value : ChangeStatus(v)
  BY <1>3, SMTT(40) DEF ChangeOwner, ChangeStatus, stateVars
<1>4. CASE Called \/ Dropped
  BY <1>4 DEF Called, Dropped, worldVars, signalVars, stateVars
<1>5. ASSUME NEW o \in Observer, BeginCapture(o) \/ ReadStatus(o) \/ CheckCaptureOwner(o)
                                 \/ Conflict(o)
      PROVE  W /\ D /\ V
  BY <1>5 DEF BeginCapture, ReadStatus, CheckCaptureOwner, Conflict, worldVars, signalVars,
              stateVars
<1>6. ASSUME NEW o \in Observer, Publish(o) PROVE W /\ D /\ V
  <2>1. capture[o].seen \in Status /\ Commit(capture[o].seen)
        /\ (value # capture[o].seen /\ revision = MaxRevision => epoch < MaxEpoch)
    BY <1>6 DEF Publish, SeenInv
  <2>2. V
    BY <2>1, CommitTyped
  <2>3. W /\ D
    BY <1>6 DEF Publish, worldVars, signalVars
  <2>4. QED
    BY <2>2, <2>3
<1>7. QED
  BY <1>1, <1>2, <1>3, <1>4, <1>5, <1>6 DEF ObservationStep, Capturing

LEMMA SeenStep ==
  ASSUME ObservationInv, SeenInv, ObservationStep PROVE SeenInv'
<1>t. /\ capture \in [Observer -> Taken] /\ world \in Value
      /\ \A o \in Observer : capture[o].at \in {"read", "checked"} => capture[o].seen \in Status
  BY DEF ObservationInv, ObservationTypeOK, SeenInv
<1>n. NoCapture.at = "idle" /\ Value \subseteq Status /\ Unavailable \in Status
  BY DEF NoCapture, Status
<1>1. CASE UNCHANGED capture
  BY <1>1, <1>t DEF SeenInv
<1>2. ASSUME NEW o \in Observer, capture' = [capture EXCEPT ![o] = NoCapture] PROVE SeenInv'
  BY <1>2, <1>t, <1>n DEF SeenInv
<1>3. ASSUME NEW o \in Observer, BeginCapture(o) PROVE SeenInv'
  <2>1. /\ capture'[o].at \in {"scoped", "checked"}
        /\ capture'[o].at = "checked" => capture'[o].seen = Unavailable
    BY <1>3, <1>t DEF BeginCapture, NoCapture
  <2>2. \A q \in Observer \ {o} : capture'[q] = capture[q]
    BY <1>3, <1>t DEF BeginCapture
  <2>3. QED
    BY <2>1, <2>2, <1>t, <1>n DEF SeenInv
<1>4. ASSUME NEW o \in Observer, ReadStatus(o) \/ CheckCaptureOwner(o) PROVE SeenInv'
  <2>1. capture'[o].seen \in Status
    <3>1. CASE ReadStatus(o)
      BY <3>1, <1>t, <1>n DEF ReadStatus, Taken
    <3>2. CASE CheckCaptureOwner(o)
      BY <3>2, <1>t, <1>n DEF CheckCaptureOwner, Taken
    <3>3. QED
      BY <1>4, <3>1, <3>2
  <2>2. \A q \in Observer \ {o} : capture'[q] = capture[q]
    BY <1>4, <1>t DEF ReadStatus, CheckCaptureOwner
  <2>3. QED
    BY <2>1, <2>2, <1>t DEF SeenInv
<1>5. QED
  BY <1>1, <1>2, <1>3, <1>4, ActorAssumption
     DEF ObservationStep, Capturing, observationVars, Invalidate, ChangeOwner, ChangeStatus,
         Called, Dropped, Publish, Conflict, captureVars

LEMMA FreshStep ==
  ASSUME ObservationInv, FreshInv, HeldInv, ObservationStep PROVE FreshInv'
<1>t. /\ capture \in [Observer -> Taken] /\ holder \in Observer \union {None}
      /\ generation \in Nat /\ change \in Nat /\ invalidAt \in Nat
  BY ObservationAssumption, SMTT(40) DEF ObservationInv, ObservationTypeOK
<1>r. \A o \in Observer : capture[o].gen \in Nat /\ capture[o].change \in Nat
  BY <1>t, ObservationAssumption, SMTT(40) DEF Taken
<1>n. NoCapture.at = "idle"
  BY DEF NoCapture
<1> USE <1>t, <1>r
<1>1. CASE UNCHANGED <<generation, invalidAt, holder, capture>> /\ change' \in Nat /\ change' >= change
  BY <1>1, SMTT(40) DEF FreshInv
<1>2. CASE Invalidate
  BY <1>2, SMTT(40) DEF FreshInv, Invalidate, captureVars, worldVars
<1>3. ASSUME NEW o \in Observer, capture' = [capture EXCEPT ![o] = NoCapture],
             holder = o \/ capture[o].at # "idle",
             UNCHANGED <<generation, invalidAt, change>>
      PROVE  FreshInv'
  <2>1. \A q \in Observer : q # o => capture[q].at = "idle" /\ capture'[q] = capture[q]
    BY <1>3, SMTT(40) DEF FreshInv
  <2>2. capture'[o].at = "idle"
    BY <1>3, <1>n
  <2>3. QED
    BY <1>3, <2>1, <2>2 DEF FreshInv
<1>4. ASSUME NEW o \in Observer, BeginCapture(o) PROVE FreshInv'
  <2>1. \A q \in Observer : capture[q].at = "idle"
    BY <1>4, ObservationAssumption DEF FreshInv, BeginCapture
  <2>2. capture'[o].gen = generation /\ capture'[o].change = change /\ holder' = o
    BY <1>4 DEF BeginCapture, NoCapture
  <2>3. \A q \in Observer \ {o} : capture'[q] = capture[q]
    BY <1>4 DEF BeginCapture
  <2>4. UNCHANGED <<generation, invalidAt, change>>
    BY <1>4 DEF BeginCapture, worldVars, stateVars
  <2>5. QED
    BY <2>1, <2>2, <2>3, <2>4, SMTT(40) DEF FreshInv
<1>5. ASSUME NEW o \in Observer, ReadStatus(o) \/ CheckCaptureOwner(o) PROVE FreshInv'
  <2>1. /\ capture[o].at # "idle" /\ capture'[o].gen = capture[o].gen
        /\ capture'[o].change \in {capture[o].change, change}
    BY <1>5, SMTT(40) DEF ReadStatus, CheckCaptureOwner, Taken
  <2>2. \A q \in Observer \ {o} : capture'[q] = capture[q]
    BY <1>5 DEF ReadStatus, CheckCaptureOwner
  <2>3. UNCHANGED <<generation, invalidAt, change, holder>>
    BY <1>5 DEF ReadStatus, CheckCaptureOwner, worldVars, stateVars
  <2>4. QED
    BY <2>1, <2>2, <2>3 DEF FreshInv
<1>6. CASE UNCHANGED observationVars \/ Called
  BY <1>6, <1>1, SMTT(40) DEF observationVars, Called, worldVars, stateVars, captureVars
<1>7. CASE ChangeOwner \/ \E v \in Value : ChangeStatus(v)
  BY <1>7, <1>1, SMTT(40) DEF ChangeOwner, ChangeStatus, stateVars, captureVars
<1>8. CASE Dropped
  BY <1>8, <1>3, ActorAssumption DEF Dropped, HeldInv, worldVars, stateVars
<1>9. ASSUME NEW o \in Observer, Publish(o) \/ Conflict(o) PROVE FreshInv'
  BY <1>9, <1>3 DEF Publish, Conflict, worldVars, stateVars
<1>10. QED
  BY <1>2, <1>4, <1>5, <1>6, <1>7, <1>8, <1>9 DEF ObservationStep, Capturing

LEMMA HeldStep == ASSUME FreshInv, HeldInv, [Next]_vars PROVE HeldInv'
<1>1. CASE UNCHANGED <<job, holder>>
  BY <1>1 DEF HeldInv
<1>2. CASE job' \in {"none", "queued", "sending"}
  BY <1>2 DEF HeldInv
<1>3. CASE BeginJob
  BY <1>3 DEF HeldInv, BeginJob, BeginCapture
<1>4. ASSUME NEW o \in Observer, Read(o) PROVE HeldInv'
  <2>1. CASE BeginCapture(o)
    BY <1>4, <2>1, ObservationAssumption, ActorAssumption
       DEF Read, Others, HeldInv, BeginCapture
  <2>2. CASE Publish(o) \/ Conflict(o)
    BY <1>4, <2>2 DEF Read, Others, HeldInv, FreshInv, Publish, Conflict
  <2>3. QED
    BY <1>4, <2>1, <2>2 DEF Read
<1>5. ASSUME NEW s \in Sub, Client(s) PROVE HeldInv'
  BY <1>1, <1>5 DEF Client, Subscribe, Unsubscribe, Disconnect, DropOwner, jobVars,
                           observationVars
<1>6. CASE SendExternal \/ Signal \/ NotifyChanged \/ ChangeWorld
  BY <1>1, <1>6 DEF SendExternal, Signal, NotifyChanged, ChangeWorld, Others, jobVars,
                    observationVars, Invalidate, ChangeOwner, ChangeStatus, captureVars
<1>7. ASSUME NEW S, NEW busy, RequestRefresh(S, busy), UNCHANGED observationVars PROVE HeldInv'
  BY <1>1, <1>2, <1>7 DEF RequestRefresh, observationVars
<1>8. CASE Actor \/ Debounced
  BY <1>1, <1>7, <1>8
     DEF Actor, Debounced, AddSubscription, RemoveSubscription, HandleExternal, HandleChanged,
         CompleteRefresh, jobVars, observationVars
<1>9. CASE FinishJob \/ SendRefreshed \/ PanicJob
  BY <1>2, <1>9 DEF FinishJob, SendRefreshed, PanicJob
<1>10. ASSUME NEW o \in Observer, Capture(o) PROVE HeldInv'
  BY <1>1, <1>10 DEF Capture, ReadStatus, CheckCaptureOwner, Others
<1>11. CASE UNCHANGED vars
  BY <1>1, <1>11 DEF vars
<1>12. QED
  BY <1>3, <1>4, <1>5, <1>6, <1>8, <1>9, <1>10, <1>11 DEF Next

-----------------------------------------------------------------------------
\* What a step may do to the queue: nothing, a control more, or one less.

Sent(c) == c \in Letter /\ (c.kind \in {"subscribe", "cancel", "drop"} => c.sub \in Sub)

QueueStep ==
    \/ UNCHANGED queue
    \/ Room /\ \E c \in Letter :
                 Sent(c) /\ queue' = Append(queue, c) /\ (c.kind = "refreshed" => SendRefreshed)
    \/ queue # <<>> /\ queue' = Tail(queue)

LEMMA Controls ==
  /\ NoStatus \in Payload
  /\ \A k \in Kind, s \in Sub \union {None}, p \in Payload :
        /\ Control(k, s, p) \in Letter
        /\ Control(k, s, p).kind = k /\ Control(k, s, p).sub = s /\ Control(k, s, p).payload = p
BY DEF Payload, Control, Letter

LEMMA SentControls ==
  ASSUME NEW k \in Kind, NEW s \in Sub \union {None}, NEW p \in Payload,
         k \in {"subscribe", "cancel", "drop"} => s \in Sub
  PROVE  Sent(Control(k, s, p)) /\ Control(k, s, p).kind = k
BY Controls, SMTT(40) DEF Sent

LEMMA QueueMoves == ASSUME ActorInv, [Next]_vars PROVE QueueStep
<1> DEFINE Plain(c) == Sent(c) /\ c.kind # "refreshed"
<1>n. NoStatus \in Payload /\ payload \in Payload
  BY Controls DEF ActorInv
<1>k. /\ Plain(Changed) /\ Plain(Control("external", None, NoStatus))
      /\ Sent(Control("refreshed", None, payload))
  BY <1>n, SentControls, SMTT(40) DEF Kind, Changed
<1>s. \A s \in Sub : /\ Plain(Control("subscribe", s, NoStatus))
                     /\ Plain(Control("cancel", s, NoStatus))
                     /\ Plain(Control("drop", s, NoStatus))
  BY <1>n, SentControls DEF Kind
<1>c. ASSUME NEW c, Sent(c), Room, queue' = Append(queue, c), c.kind # "refreshed" \/ SendRefreshed
      PROVE  QueueStep
  BY <1>c DEF QueueStep, Sent
<1>1. ASSUME NEW s \in Sub, Client(s) PROVE QueueStep
  <2>1. CASE Disconnect(s)
    BY <2>1 DEF Disconnect, QueueStep
  <2>2. CASE Subscribe(s)
    BY <2>2, <1>s, <1>c DEF Subscribe, Send
  <2>3. CASE Unsubscribe(s)
    BY <2>3, <1>s, <1>c DEF Unsubscribe, Send
  <2>4. CASE DropOwner(s)
    BY <2>4, <1>s, <1>c DEF DropOwner, Send
  <2>5. QED
    BY <1>1, <2>1, <2>2, <2>3, <2>4 DEF Client
<1>2. CASE SendExternal
  BY <1>2, <1>k, <1>c DEF SendExternal, Send
<1>3. CASE NotifyChanged
  BY <1>3, <1>k, <1>c DEF NotifyChanged, QueueStep
<1>4. CASE Signal \/ ChangeWorld \/ Debounced \/ BeginJob \/ FinishJob \/ PanicJob
           \/ \E o \in Observer : Read(o) \/ Capture(o)
  BY <1>4 DEF Signal, ChangeWorld, Debounced, BeginJob, FinishJob, PanicJob, Read,
                     Capture, Others, QueueStep
<1>5. CASE Actor
  BY <1>5 DEF Actor, AddSubscription, RemoveSubscription, HandleExternal, HandleChanged,
                     CompleteRefresh, Received, QueueStep
<1>6. CASE SendRefreshed
  BY <1>6, <1>k, <1>c DEF SendRefreshed, Send
<1>7. CASE UNCHANGED vars
  BY <1>7 DEF vars, QueueStep
<1>8. QED
  BY <1>1, <1>2, <1>3, <1>4, <1>5, <1>6, <1>7 DEF Next

LEMMA QueueTyped == ASSUME QueueInv, QueueStep PROVE QueueInv'
<1>t. queue \in Seq(Letter) /\ Len(queue) <= Capacity /\ Capacity \in Nat
  BY ActorAssumption DEF QueueInv
<1>1. CASE UNCHANGED queue
  BY <1>1 DEF QueueInv
<1>2. ASSUME NEW c \in Letter, Sent(c), Room, queue' = Append(queue, c) PROVE QueueInv'
  <2>1. queue' \in Seq(Letter) /\ Len(queue') = Len(queue) + 1 /\ DOMAIN queue' = 1..Len(queue) + 1
    BY <1>2, <1>t, SMTT(40)
  <2>2. \A i \in DOMAIN queue' : queue'[i] = c \/ (i \in DOMAIN queue /\ queue'[i] = queue[i])
    BY <1>2, <1>t, SMTT(40)
  <2>3. QED
    BY <1>2, <1>t, <2>1, <2>2, SMTT(40) DEF QueueInv, Room, Sent
<1>3. CASE queue # <<>> /\ queue' = Tail(queue)
  <2>1. queue' \in Seq(Letter) /\ Len(queue') = Len(queue) - 1
    BY <1>3, <1>t, SMTT(40)
  <2>2. \A i \in DOMAIN queue' : i + 1 \in DOMAIN queue /\ queue'[i] = queue[i + 1]
    BY <1>3, <1>t, SMTT(40)
  <2>3. QED
    BY <1>t, <2>1, <2>2, SMTT(40) DEF QueueInv
<1>4. CASE Room /\ \E c \in Letter : Sent(c) /\ queue' = Append(queue, c)
  <2>1. PICK c \in Letter : Sent(c) /\ queue' = Append(queue, c)
    BY <1>4
  <2>2. QED
    BY <1>2, <1>4, <2>1
<1>5. QED
  BY <1>1, <1>3, <1>4 DEF QueueStep

-----------------------------------------------------------------------------
\* Publications are numbered in order.
LEMMA Published ==
  ASSUME ObservationInv, SeenInv, NumberInv, NEW o \in Observer, Publish(o)
  PROVE  /\ Now' \in Publication /\ value' = capture[o].seen
         /\ NotAfter(Now, Now')
<1>1. /\ capture[o].seen \in Status /\ Commit(capture[o].seen)
      /\ value # capture[o].seen /\ revision = MaxRevision => epoch < MaxEpoch
  BY DEF Publish, SeenInv
<1>t. /\ epoch \in 1..MaxEpoch /\ previous \in 0..MaxEpoch
      /\ revision \in 0..MaxRevision /\ value \in Status \union {None}
  BY DEF ObservationInv, ObservationTypeOK
<1>2. epoch' \in 1..MaxEpoch /\ revision' \in 0..MaxRevision
  BY <1>1, <1>t, CommitTyped
<1>n. None \notin Status
  BY ObservationAssumption DEF Status, None, Unavailable
<1>3. CASE value = capture[o].seen
  <2>1. UNCHANGED <<epoch, revision, value>> /\ revision # 0
    BY <1>1, <1>3, <1>n DEF Commit, NumberInv
  <2>2. Now' = Now /\ NotAfter(Now, Now')
    BY <2>1 DEF Now, NotAfter
  <2>3. revision \in 1..MaxRevision
    BY <1>t, <2>1, ObservationAssumption, SMTT(40)
  <2>4. Now \in Publication
    BY <1>1, <1>3, <1>t, <2>3 DEF Now, Publication
  <2>5. QED
    BY <1>3, <2>1, <2>2, <2>4
<1>4. CASE value # capture[o].seen
  <2>1. /\ value' = capture[o].seen /\ revision' # 0
        /\ \/ epoch' = epoch + 1
           \/ epoch' = epoch /\ revision' = revision + 1
    BY <1>1, <1>4, <1>t, ObservationAssumption, SMTT(40) DEF Commit
  <2>2. QED
    BY <1>1, <1>2, <1>t, <2>1, ObservationAssumption, SMTT(40) DEF Now, NotAfter, Publication
<1>5. QED
  BY <1>3, <1>4

\* Nothing but a publication changes what would be published.
LEMMA NowMoves ==
  ASSUME ObservationStep
  PROVE  UNCHANGED <<epoch, revision, value>> \/ \E o \in Observer : Publish(o)
BY DEF ObservationStep, Capturing, observationVars, Invalidate, ChangeOwner, ChangeStatus,
       Called, Dropped, BeginCapture, ReadStatus, CheckCaptureOwner, Conflict, stateVars

LEMMA NumberStep ==
  ASSUME ObservationInv, SeenInv, NumberInv, ObservationStep PROVE NumberInv'
<1>1. CASE UNCHANGED <<epoch, revision, value>>
  BY <1>1 DEF NumberInv
<1>2. ASSUME NEW o \in Observer, Publish(o) PROVE NumberInv'
  <2>1. Now' \in Publication
    BY <1>2, Published
  <2>2. QED
    BY <2>1, ObservationAssumption, SMTT(40) DEF Now, Publication, NumberInv
<1>3. QED
  BY <1>1, <1>2, NowMoves

\* The order of publications is transitive, and nothing comes before no status.
LEMMA OrderedTransitive ==
  ASSUME NEW p, NEW q, NEW r, NotAfter(p, q), NotAfter(q, r),
         p.epoch \in Nat, p.rev \in Nat, q.epoch \in Nat, q.rev \in Nat,
         r.epoch \in Nat, r.rev \in Nat
  PROVE  NotAfter(p, r)
BY SMTT(40) DEF NotAfter

LEMMA NumbersTyped ==
  /\ \A p \in Payload : p.epoch \in Nat /\ p.rev \in Nat
  /\ ObservationInv => Now.epoch \in Nat /\ Now.rev \in Nat
  /\ ObservationInv => NotAfter(NoStatus, Now)
<1> USE ObservationAssumption
<1>1. ASSUME NEW p \in Payload PROVE p.epoch \in Nat /\ p.rev \in Nat
  BY SMTT(40) DEF Payload, Publication, NoStatus
<1>2. ASSUME ObservationInv PROVE Now.epoch \in Nat /\ Now.rev \in Nat /\ Now.epoch > 0
  BY <1>2, SMTT(40) DEF ObservationInv, ObservationTypeOK, Now
<1>3. ASSUME ObservationInv PROVE NotAfter(NoStatus, Now)
  BY <1>2, <1>3 DEF NotAfter, NoStatus
<1>4. QED
  BY <1>1, <1>2, <1>3

LEMMA NowStaysTyped == ObservationInv' => Now'.epoch \in Nat /\ Now'.rev \in Nat
<1>1. ObservationInv' => epoch' \in 1..MaxEpoch /\ revision' \in 0..MaxRevision
  BY DEF ObservationInv, ObservationTypeOK
<1>2. Now'.epoch = epoch' /\ Now'.rev = revision'
  BY DEF Now
<1>3. QED
  BY <1>1, <1>2, ObservationAssumption, SMTT(40)

LEMMA PublicationsDiffer ==
  ASSUME NEW p \in Publication, NEW q \in Payload, p # q
  PROVE  ~(p.epoch = q.epoch /\ p.rev = q.rev /\ p.status = q.status)
BY ObservationAssumption, SMTT(40) DEF Payload, Publication, NoStatus

LEMMA NothingIsPast == ObservationInv' => NotAfter(NoStatus, Now')
BY ObservationAssumption, SMTT(40) DEF ObservationInv, ObservationTypeOK, Now, NotAfter, NoStatus

\* What has been published stays in the past.
LEMMA PastStays ==
  ASSUME ObservationInv, ObservationInv', SeenInv, NumberInv, ObservationStep,
         NEW p \in Payload, NotAfter(p, Now)
  PROVE  NotAfter(p, Now')
<1>t. /\ p.epoch \in Nat /\ p.rev \in Nat
      /\ Now.epoch \in Nat /\ Now.rev \in Nat /\ Now'.epoch \in Nat /\ Now'.rev \in Nat
  BY NowStaysTyped, NumbersTyped
<1>1. NotAfter(Now, Now')
  <2>1. CASE UNCHANGED <<epoch, revision, value>>
    BY <2>1 DEF NotAfter, Now
  <2>2. CASE \E o \in Observer : Publish(o)
    BY <2>2, Published
  <2>3. QED
    BY <2>1, <2>2, NowMoves
<1> DEFINE n == Now
           m == Now'
<1>2. NotAfter(p, n) /\ NotAfter(n, m)
  BY <1>1
<1>3. n.epoch \in Nat /\ n.rev \in Nat /\ m.epoch \in Nat /\ m.rev \in Nat
  BY <1>t
<1> HIDE DEF n, m
<1>4. NotAfter(p, m)
  BY <1>t, <1>2, <1>3, OrderedTransitive
<1>5. QED
  BY <1>4 DEF m

-----------------------------------------------------------------------------
\* What a step may do to the gate, the job and the subscriptions.

LEMMA RequestTyped ==
  ASSUME ActorInv, NEW S, NEW busy, RequestRefresh(S, busy)
  PROVE  /\ inFlight' \in BOOLEAN /\ dirty' \in BOOLEAN
         /\ job' \in {"none", "queued", "capturing", "sending"}
         /\ refused' \in 0..MaxRefused
<1>1. refused \in 0..MaxRefused /\ MaxRefused \in Nat
      /\ job \in {"none", "queued", "capturing", "sending"}
  BY ActorAssumption DEF ActorInv
<1>2. inFlight' \in BOOLEAN /\ dirty' \in BOOLEAN
  BY DEF RequestRefresh
<1>3. job' \in {job, "queued"} /\ (refused' = refused \/ (refused < MaxRefused /\ refused' = refused + 1))
  BY DEF RequestRefresh
<1>4. refused' \in 0..MaxRefused
  BY <1>1, <1>3, SMTT(40)
<1>5. QED
  BY <1>1, <1>2, <1>3, <1>4

LEMMA ActorTyped ==
  ASSUME ObservationInv, SeenInv, NumberInv, ActorInv, QueueInv, [Next]_vars
  PROVE  ActorInv'
<1>t. /\ deadline \in BOOLEAN /\ inFlight \in BOOLEAN /\ dirty \in BOOLEAN
      /\ job \in {"none", "queued", "capturing", "sending"}
      /\ payload \in Payload /\ subs \subseteq Sub
      /\ client \in [Sub -> {"new", "asked", "open", "leaving", "closed", "gone"}]
      /\ seen \in [Sub -> Payload]
      /\ external \in 0..MaxExternal /\ refused \in 0..MaxRefused /\ panics \in 0..MaxPanic
      /\ MaxExternal \in Nat /\ MaxPanic \in Nat
  BY ActorAssumption DEF ActorInv
<1>q. ASSUME queue # <<>>
      PROVE  /\ Head(queue) \in Letter
             /\ Head(queue).kind = "subscribe" => Head(queue).sub \in Sub
  BY <1>q, SMTT(40) DEF QueueInv
<1>n. NoStatus \in Payload
  BY Controls
<1>1. ASSUME NEW s \in Sub, Client(s) PROVE ActorInv'
  BY <1>1, <1>t DEF Client, Subscribe, Unsubscribe, Disconnect, DropOwner, ActorInv, actorVars,
                    jobVars, boundVars
<1>2. CASE SendExternal
  BY <1>2, <1>t, SMTT(40) DEF SendExternal, ActorInv, actorVars, clientVars, jobVars
<1>3. CASE Signal \/ ChangeWorld \/ \E o \in Observer : Read(o) \/ Capture(o)
  BY <1>3, <1>t DEF Signal, ChangeWorld, Read, Capture, Others, ActorInv
<1>4. CASE NotifyChanged \/ HandleExternal \/ HandleChanged
  BY <1>4, <1>t DEF NotifyChanged, HandleExternal, HandleChanged, ActorInv, actorVars, clientVars,
                    jobVars, boundVars
<1>5. CASE AddSubscription
  <2>1. Head(queue).sub \in Sub
    BY <1>5, <1>q DEF AddSubscription, Received
  <2>2. /\ RequestRefresh(subs \union {Head(queue).sub}, inFlight)
        /\ subs' = subs \union {Head(queue).sub}
        /\ client' = [client EXCEPT ![Head(queue).sub] = "open"]
        /\ UNCHANGED <<deadline, seen, payload, external, panics>>
    BY <1>5 DEF AddSubscription
  <2>3. QED
    BY <1>t, <2>1, <2>2, RequestTyped DEF ActorInv
<1>6. CASE RemoveSubscription
  BY <1>6, <1>t DEF RemoveSubscription, ActorInv, jobVars, boundVars
<1>7. CASE Debounced
  <2>1. /\ RequestRefresh(subs, inFlight)
        /\ deadline' = FALSE /\ UNCHANGED <<subs, seen, client, payload, external, panics>>
    BY <1>7 DEF Debounced, clientVars
  <2>2. QED
    BY <1>t, <2>1, RequestTyped DEF ActorInv
<1>8. CASE CompleteRefresh
  <2>1. Head(queue).payload \in Payload
    BY <1>8, <1>q DEF CompleteRefresh, Received, Letter
  <2>2. seen' \in [Sub -> Payload]
    BY <1>8, <1>t, <2>1 DEF CompleteRefresh, Emitted
  <2>3. UNCHANGED <<deadline, subs, client, payload, external, panics>>
    BY <1>8 DEF CompleteRefresh, clientVars
  <2>4. CASE RequestRefresh(subs, FALSE)
    BY <1>t, <2>2, <2>3, <2>4, RequestTyped DEF ActorInv
  <2>5. CASE inFlight' = FALSE /\ UNCHANGED <<dirty, job, refused>>
    BY <1>t, <2>2, <2>3, <2>5 DEF ActorInv
  <2>6. QED
    BY <1>8, <2>4, <2>5 DEF CompleteRefresh
<1>9. CASE BeginJob
  BY <1>9, <1>t DEF BeginJob, ActorInv, actorVars, clientVars, boundVars
<1>10. CASE FinishJob
  <2>1. payload' \in Payload
    <3>1. CASE Publish(Job) /\ payload' = PublishedByJob
      <4>1. Now' \in Publication /\ value' = capture[Job].seen
        BY <3>1, Published, ActorAssumption
      <4>2. payload' = Now'
        BY <3>1, <4>1 DEF PublishedByJob, Now
      <4>3. QED
        BY <4>1, <4>2 DEF Payload
    <3>2. CASE payload' = NoStatus
      BY <3>2, <1>n
    <3>3. QED
      BY <1>10, <3>1, <3>2 DEF FinishJob
  <2>2. QED
    BY <1>10, <2>1, <1>t DEF FinishJob, ActorInv, actorVars, clientVars, boundVars
<1>11. CASE SendRefreshed
  BY <1>11, <1>t, <1>n DEF SendRefreshed, ActorInv, actorVars, clientVars, boundVars
<1>12. CASE PanicJob
  BY <1>12, <1>t, SMTT(40) DEF PanicJob, ActorInv, actorVars, clientVars
<1>13. CASE UNCHANGED vars
  BY <1>13, <1>t DEF vars, ActorInv
<1>14. QED
  BY <1>1, <1>2, <1>3, <1>4, <1>5, <1>6, <1>7, <1>8, <1>9, <1>10, <1>11, <1>12, <1>13
     DEF Next, Actor

LEMMA BackAppend ==
  ASSUME NEW q \in Seq(Letter), NEW c \in Letter
  PROVE  /\ c.kind # "refreshed" =>
              /\ NoneBack(q) => NoneBack(Append(q, c))
              /\ OneBack(q) => OneBack(Append(q, c))
         /\ NoneBack(q) => OneBack(Append(q, c))
<1>1. \A i \in DOMAIN Append(q, c) :
         \/ i \in DOMAIN q /\ Append(q, c)[i] = q[i]
         \/ i = Len(q) + 1 /\ Append(q, c)[i] = c
  BY SMTT(40)
<1>2. QED
  BY <1>1 DEF NoneBack, OneBack

LEMMA LetterAdded ==
  ASSUME NEW q \in Seq(Letter), NEW l, NEW i \in DOMAIN Append(q, l)
  PROVE  (i \in DOMAIN q /\ Append(q, l)[i] = q[i]) \/ Append(q, l)[i] = l
BY SMTT(40)

LEMMA FirstIsHead ==
  ASSUME NEW q \in Seq(Letter), q # <<>>
  PROVE  1 \in DOMAIN q /\ Head(q) = q[1] /\ Head(q) \in Letter
BY SMTT(40)

LEMMA BackTail ==
  ASSUME NEW q \in Seq(Letter), q # <<>>
  PROVE  /\ NoneBack(q) => NoneBack(Tail(q))
         /\ OneBack(q) => OneBack(Tail(q))
         /\ OneBack(q) /\ Head(q).kind = "refreshed" => NoneBack(Tail(q))
<1>1. /\ \A i \in DOMAIN Tail(q) : i \in Nat \ {0} /\ i + 1 \in DOMAIN q /\ Tail(q)[i] = q[i + 1]
      /\ 1 \in DOMAIN q /\ Head(q) = q[1]
  BY SMTT(40)
<1>2. NoneBack(q) => NoneBack(Tail(q))
  BY <1>1 DEF NoneBack
<1>3. OneBack(q) => OneBack(Tail(q))
  BY <1>1, SMTT(40) DEF OneBack
<1>4. OneBack(q) /\ Head(q).kind = "refreshed" => NoneBack(Tail(q))
  BY <1>1, SMTT(40) DEF NoneBack, OneBack
<1>5. QED
  BY <1>2, <1>3, <1>4

LEMMA GateStep == ASSUME ActorInv, QueueInv, GateInv, [Next]_vars PROVE GateInv'
<1>q. queue \in Seq(Letter)
  BY DEF QueueInv
<1>k. /\ Changed \in Letter /\ Changed.kind # "refreshed"
      /\ \A s \in Sub \union {None} : \A k \in Kind : k # "refreshed" =>
            Control(k, s, NoStatus) \in Letter /\ Control(k, s, NoStatus).kind # "refreshed"
  BY Controls, SMTT(40) DEF Changed, Kind
<1>a. ASSUME NEW c \in Letter, c.kind # "refreshed", queue' = Append(queue, c),
             UNCHANGED <<job, inFlight>>
      PROVE  GateInv'
  BY <1>a, <1>q, BackAppend DEF GateInv
<1>b. ASSUME queue # <<>>, queue' = Tail(queue), UNCHANGED <<job, inFlight>>
      PROVE  GateInv'
  BY <1>b, <1>q, BackTail DEF GateInv
<1>c. ASSUME UNCHANGED queue, inFlight' = inFlight, job' = "none" \/ (job # "none")
      PROVE  GateInv'
  BY <1>c DEF GateInv
<1>d. ASSUME queue' = queue \/ (queue # <<>> /\ queue' = Tail(queue)),
             NEW S, RequestRefresh(S, inFlight)
      PROVE  GateInv'
  <2>1. (NoneBack(queue) => NoneBack(queue')) /\ (OneBack(queue) => OneBack(queue'))
    BY <1>d, <1>q, BackTail
  <2>2. /\ inFlight => inFlight' /\ job' = job
        /\ ~inFlight => job' = job \/ (inFlight' /\ job' = "queued")
    BY <1>d DEF RequestRefresh
  <2>3. QED
    BY <2>1, <2>2 DEF GateInv
<1>1. ASSUME NEW s \in Sub, Client(s) PROVE GateInv'
  <2>1. CASE Disconnect(s)
    BY <2>1, <1>c DEF Disconnect, jobVars, actorVars, GateInv
  <2>2. CASE Subscribe(s) \/ Unsubscribe(s) \/ DropOwner(s)
    <3>1. PICK k \in {"subscribe", "cancel", "drop"} : queue' = Append(queue, Control(k, s, NoStatus))
      BY <2>2 DEF Subscribe, Unsubscribe, DropOwner, Send
    <3>2. UNCHANGED <<job, inFlight>>
      BY <2>2 DEF Subscribe, Unsubscribe, DropOwner, jobVars, actorVars
    <3>3. Control(k, s, NoStatus) \in Letter /\ Control(k, s, NoStatus).kind # "refreshed"
      BY <1>k DEF Kind
    <3>4. QED
      BY <3>1, <3>2, <3>3, <1>a
  <2>3. QED
    BY <1>1, <2>1, <2>2 DEF Client
<1>2. CASE SendExternal
  <2>1. Control("external", None, NoStatus) \in Letter
        /\ Control("external", None, NoStatus).kind # "refreshed"
    BY <1>k DEF Kind
  <2>2. queue' = Append(queue, Control("external", None, NoStatus)) /\ UNCHANGED <<job, inFlight>>
    BY <1>2 DEF SendExternal, Send, actorVars, jobVars
  <2>3. QED
    BY <2>1, <2>2, <1>a
<1>3. CASE NotifyChanged
  <2>1. queue' = queue \/ queue' = Append(queue, Changed)
    BY <1>3 DEF NotifyChanged
  <2>2. UNCHANGED <<job, inFlight>>
    BY <1>3 DEF NotifyChanged, actorVars, jobVars
  <2>3. QED
    BY <2>1, <2>2, <1>a, <1>k DEF GateInv
<1>4. CASE Signal \/ ChangeWorld \/ \E o \in Observer : Read(o) \/ Capture(o)
  <2>1. UNCHANGED <<queue, job, inFlight>>
    BY <1>4 DEF Signal, ChangeWorld, Read, Capture, Others
  <2>2. QED
    BY <2>1 DEF GateInv
<1>5. CASE AddSubscription
  BY <1>5, <1>d DEF AddSubscription, Received
<1>6. CASE Debounced
  BY <1>6, <1>d DEF Debounced
<1>7. CASE RemoveSubscription \/ HandleExternal \/ HandleChanged
  BY <1>7, <1>b DEF RemoveSubscription, HandleExternal, HandleChanged, Received, actorVars,
                     jobVars
<1>8. CASE CompleteRefresh
  <2>1. queue # <<>> /\ Head(queue).kind = "refreshed" /\ queue' = Tail(queue)
    BY <1>8 DEF CompleteRefresh, Received
  <2>2. NoneBack(queue') /\ OneBack(queue') /\ job = "none"
    BY <2>1, <1>q, BackTail, SMTT(40) DEF GateInv, NoneBack
  <2>3. job' = "none" \/ (job' = "queued" /\ inFlight')
    BY <1>8, <2>2 DEF CompleteRefresh, RequestRefresh
  <2>4. QED
    BY <2>2, <2>3 DEF GateInv
<1>9. CASE BeginJob \/ FinishJob \/ PanicJob
  BY <1>9, <1>c DEF BeginJob, FinishJob, PanicJob, actorVars
<1>10. CASE SendRefreshed
  <2>1. Control("refreshed", None, payload) \in Letter
    BY Controls DEF Kind, ActorInv
  <2>2. /\ queue' = Append(queue, Control("refreshed", None, payload))
        /\ job = "sending" /\ job' = "none" /\ inFlight' = inFlight
    BY <1>10 DEF SendRefreshed, Send, actorVars
  <2>3. OneBack(queue') /\ inFlight'
    BY <2>1, <2>2, <1>q, BackAppend DEF GateInv
  <2>4. QED
    BY <2>2, <2>3 DEF GateInv
<1>11. CASE UNCHANGED vars
  BY <1>11 DEF vars, GateInv
<1>12. QED
  BY <1>1, <1>2, <1>3, <1>4, <1>5, <1>6, <1>7, <1>8, <1>9, <1>10, <1>11
     DEF Next, Actor

-----------------------------------------------------------------------------
\* What the subscriptions are shown.

\* Whatever is back in the queue was there before, but for the job's own send.
LEMMA LettersKept ==
  ASSUME QueueInv, QueueStep, ~SendRefreshed, NEW i \in DOMAIN queue', queue'[i].kind = "refreshed"
  PROVE  \E j \in DOMAIN queue : queue'[i] = queue[j]
<1>q. queue \in Seq(Letter)
  BY DEF QueueInv
<1>1. CASE UNCHANGED queue
  BY <1>1
<1>2. ASSUME NEW c \in Letter, queue' = Append(queue, c), c.kind = "refreshed" => SendRefreshed
      PROVE  \E j \in DOMAIN queue : queue'[i] = queue[j]
  <2>1. (i \in DOMAIN queue /\ queue'[i] = queue[i]) \/ queue'[i] = c
    BY <1>2, <1>q, SMTT(40)
  <2>2. QED
    BY <1>2, <2>1
<1>3. CASE queue # <<>> /\ queue' = Tail(queue)
  <2>1. i + 1 \in DOMAIN queue /\ queue'[i] = queue[i + 1]
    BY <1>3, <1>q, SMTT(40)
  <2>2. QED
    BY <2>1
<1>4. CASE \E c \in Letter : queue' = Append(queue, c) /\ (c.kind = "refreshed" => SendRefreshed)
  <2>1. PICK c \in Letter : queue' = Append(queue, c) /\ (c.kind = "refreshed" => SendRefreshed)
    BY <1>4
  <2>2. QED
    BY <1>2, <2>1
<1>5. QED
  BY <1>1, <1>3, <1>4 DEF QueueStep

\* A step that shows nothing new.
LEMMA ShownKept ==
  ASSUME ObservationInv, ObservationInv', SeenInv, NumberInv, ObservationStep,
         ActorInv, QueueInv, QueueStep, ShownInv, ~SendRefreshed,
         UNCHANGED <<seen, payload>>, job' # "sending" => payload = NoStatus
  PROVE  ShownInv'
<1>q. \A j \in DOMAIN queue : queue[j] \in Letter
  BY SMTT(40) DEF QueueInv
<1>t. payload \in Payload /\ seen \in [Sub -> Payload]
      /\ \A j \in DOMAIN queue : queue[j].payload \in Payload
  BY <1>q DEF ActorInv, Letter
<1>1. ASSUME NEW p \in Payload, Newest(p)
      PROVE  NotAfter(p, Now') /\ (p # NoStatus => \A s \in Sub : NotAfter(seen'[s], p))
  BY <1>1, PastStays DEF Newest
<1>2. \A s \in Sub : NotAfter(seen'[s], Now')
  BY <1>t, PastStays DEF ShownInv
<1>3. Newest(payload)'
  BY <1>1, <1>t DEF ShownInv, Newest
<1>4. ASSUME NEW i \in DOMAIN queue', queue'[i].kind = "refreshed"
      PROVE  Newest(queue[i].payload)'
  <2>1. PICK j \in DOMAIN queue : queue'[i] = queue[j]
    BY <1>4, LettersKept
  <2>2. Newest(queue[j].payload) /\ queue[j].payload \in Payload
    BY <1>4, <2>1, <1>t DEF ShownInv
  <2>3. QED
    BY <1>1, <2>1, <2>2 DEF Newest
<1>5. QED
  BY <1>2, <1>3, <1>4 DEF ShownInv

LEMMA ShownStep ==
  ASSUME ObservationInv, ObservationInv', SeenInv, NumberInv, ActorInv, QueueInv, GateInv,
         ShownInv, [Next]_vars
  PROVE  ShownInv'
<1>m. ObservationStep /\ QueueStep
  BY ObservationMoves, QueueMoves
<1>q. queue \in Seq(Letter) /\ \A j \in DOMAIN queue : queue[j] \in Letter
  BY SMTT(40) DEF QueueInv
<1>t. /\ payload \in Payload /\ seen \in [Sub -> Payload] /\ queue \in Seq(Letter)
      /\ \A j \in DOMAIN queue : queue[j].payload \in Payload
  BY <1>q DEF ActorInv, Letter
<1>a. \A s \in Sub : NotAfter(seen[s], Now')
  BY <1>m, <1>t, PastStays DEF ShownInv
<1>1. CASE CompleteRefresh
  <2> DEFINE p == Head(queue).payload
  <2>1. /\ queue # <<>> /\ Head(queue).kind = "refreshed" /\ queue' = Tail(queue)
        /\ seen' = Emitted(p) /\ payload' = payload
    BY <1>1 DEF CompleteRefresh, Received
  <2>2. job = "none" /\ NoneBack(queue')
    BY <2>1, <1>t, FirstIsHead, BackTail DEF GateInv, NoneBack
  <2>3. job' # "sending" /\ payload' = NoStatus
    BY <1>1, <2>1, <2>2 DEF CompleteRefresh, RequestRefresh, ShownInv
  <2>h. 1 \in DOMAIN queue /\ Head(queue) = queue[1] /\ Head(queue) \in Letter
    BY <2>1, <1>t, FirstIsHead
  <2>4. p \in Payload /\ NotAfter(p, Now)
    BY <2>1, <2>h DEF ShownInv, Newest, Letter
  <2>5. NotAfter(p, Now')
    BY <2>4, <1>m, PastStays
  <2>6. \A s \in Sub : NotAfter(seen'[s], Now')
    BY <2>1, <2>5, <1>a DEF Emitted
  <2>7. Newest(payload)'
    <3>1. ObservationInv' => NotAfter(NoStatus, Now')
      BY NothingIsPast
    <3>2. QED
      BY <2>3, <3>1 DEF Newest
  <2>8. QED
    BY <2>2, <2>3, <2>6, <2>7 DEF ShownInv, NoneBack
<1>2. CASE FinishJob
  <2>1. UNCHANGED <<queue, seen>> /\ job' = "sending" /\ NoneBack(queue)
    BY <1>2 DEF FinishJob, actorVars, GateInv
  <2>2. \A s \in Sub : NotAfter(seen'[s], Now')
    BY <2>1, <1>a
  <2>3. Newest(payload)'
    <3>1. CASE Publish(Job) /\ payload' = PublishedByJob
      <4>1. payload' = Now'
        BY <3>1, Published, ActorAssumption DEF PublishedByJob, Now
      <4>2. QED
        BY <4>1, <2>2 DEF Newest, NotAfter
    <3>2. CASE payload' = NoStatus
      <4>1. ObservationInv' => NotAfter(NoStatus, Now')
        BY NothingIsPast
      <4>2. QED
        BY <3>2, <4>1 DEF Newest
    <3>3. QED
      BY <1>2, <3>1, <3>2 DEF FinishJob
  <2>4. QED
    BY <2>1, <2>2, <2>3 DEF ShownInv, NoneBack
<1>3. CASE SendRefreshed
  <2>1. /\ queue' = Append(queue, Control("refreshed", None, payload))
        /\ job = "sending" /\ job' = "none" /\ payload' = NoStatus
        /\ UNCHANGED <<seen, epoch, revision, value>>
    BY <1>3 DEF SendRefreshed, Send, actorVars, observationVars
  <2>2. NotAfter(payload, Now') /\ (payload # NoStatus => \A s \in Sub : NotAfter(seen'[s], payload))
    BY <2>1, <1>t, <1>m, PastStays DEF ShownInv, Newest
  <2>3. ASSUME NEW i \in DOMAIN queue', queue'[i].kind = "refreshed"
        PROVE  queue'[i].payload = payload
    <3>1. NoneBack(queue)
      BY <2>1 DEF GateInv
    <3>2. (i \in DOMAIN queue /\ queue'[i] = queue[i]) \/ queue'[i] = Control("refreshed", None, payload)
      BY <2>1, <1>t, LetterAdded
    <3>3. Control("refreshed", None, payload).payload = payload
      BY DEF Control
    <3>4. QED
      BY <2>3, <3>1, <3>2, <3>3 DEF NoneBack
  <2>4. Newest(payload)'
    <3>1. ObservationInv' => NotAfter(NoStatus, Now')
      BY NothingIsPast
    <3>2. QED
      BY <2>1, <3>1 DEF Newest
  <2>5. QED
    BY <2>1, <2>2, <2>3, <2>4, <1>a DEF ShownInv, Newest
<1>4. CASE ~CompleteRefresh /\ ~FinishJob /\ ~SendRefreshed
  <2>1. UNCHANGED <<seen, payload>>
    BY <1>4 DEF Next, Client, Subscribe, Unsubscribe, Disconnect, DropOwner, SendExternal,
       Signal, NotifyChanged, ChangeWorld, Actor, AddSubscription, RemoveSubscription,
       HandleExternal, HandleChanged, Debounced, BeginJob, PanicJob, Read, Capture, Others,
       actorVars, jobVars, vars
  <2>2. ASSUME job' # "sending" PROVE payload = NoStatus
    <3>1. CASE job # "sending"
      BY <3>1 DEF ShownInv
    <3>2. CASE job = "sending"
      <4>1. inFlight
        BY <3>2 DEF GateInv
      <4>2. ASSUME NEW S, RequestRefresh(S, inFlight) PROVE UNCHANGED job
        BY <4>1, <4>2 DEF RequestRefresh
      <4>3. UNCHANGED job
        BY <1>4, <3>2, <4>2 DEF Next, Client, Subscribe, Unsubscribe, Disconnect, DropOwner,
           SendExternal, Signal, NotifyChanged, ChangeWorld, Actor, AddSubscription,
           RemoveSubscription, HandleExternal, HandleChanged, Debounced, BeginJob, PanicJob, Read,
           Capture, Others, jobVars, vars
      <4>4. QED
        BY <2>2, <3>2, <4>3
    <3>3. QED
      BY <3>1, <3>2
  <2>3. QED
    BY <1>4, <1>m, <2>1, <2>2, ShownKept
<1>5. QED
  BY <1>1, <1>2, <1>3, <1>4

-----------------------------------------------------------------------------
StatusInv ==
    /\ ObservationInv /\ FreshInv /\ SeenInv /\ NumberInv
    /\ ActorInv /\ QueueInv /\ HeldInv /\ GateInv /\ ShownInv

LEMMA StatusStarts == Init => StatusInv
<1> SUFFICES ASSUME Init PROVE StatusInv
  OBVIOUS
<1>1. ObservationInv /\ FreshInv /\ SeenInv
  BY ObservationStarts DEF Init
<1>2. NumberInv
  BY DEF Init, ObservationInit, NumberInv
<1>3. ActorInv
  <2>1. NoStatus \in Payload
    BY Controls
  <2>2. client \in [Sub -> {"new", "asked", "open", "leaving", "closed", "gone"}]
    BY DEF Init
  <2>3. seen \in [Sub -> Payload]
    BY <2>1 DEF Init
  <2>4. external \in 0..MaxExternal /\ refused \in 0..MaxRefused /\ panics \in 0..MaxPanic
    BY ActorAssumption, SMTT(40) DEF Init
  <2>5. QED
    BY <2>1, <2>2, <2>3, <2>4 DEF Init, ActorInv
<1>h. HeldInv
  BY DEF Init, HeldInv
<1>4. queue \in Seq(Letter) /\ Len(queue) = 0 /\ DOMAIN queue = {}
  BY SMTT(40) DEF Init
<1>5. QueueInv /\ GateInv
  BY <1>4, ActorAssumption, SMTT(40) DEF QueueInv, GateInv, NoneBack, OneBack, Init
<1>6. ShownInv
  <2>1. NotAfter(NoStatus, Now)
    BY <1>1, NumbersTyped
  <2>2. QED
    BY <1>4, <2>1 DEF ShownInv, Newest, Init
<1>7. QED
  BY <1>1, <1>2, <1>3, <1>5, <1>6, <1>h DEF StatusInv

LEMMA StatusStep == StatusInv /\ [Next]_vars => StatusInv'
<1> SUFFICES ASSUME StatusInv, [Next]_vars PROVE StatusInv'
  OBVIOUS
<1>1. ObservationInv /\ FreshInv /\ SeenInv /\ NumberInv
      /\ ActorInv /\ QueueInv /\ HeldInv /\ GateInv /\ ShownInv
  BY DEF StatusInv
<1>2. ObservationStep /\ QueueStep
  BY <1>1, ObservationMoves, QueueMoves
<1>3. ObservationInv' /\ SeenInv' /\ FreshInv' /\ NumberInv'
  BY <1>1, <1>2, ObservationTyped, SeenStep, FreshStep, NumberStep
<1>4. ActorInv' /\ QueueInv' /\ HeldInv' /\ GateInv'
  BY <1>1, <1>2, ActorTyped, QueueTyped, HeldStep, GateStep
<1>5. ShownInv'
  BY <1>1, <1>3, ShownStep
<1>6. QED
  BY <1>3, <1>4, <1>5 DEF StatusInv

LEMMA StatusInductive == Spec => []StatusInv
BY StatusStarts, StatusStep, PTL DEF Spec

\* The observations and the actor keep their types, and the control queue its
\* capacity (State, RefreshGate and the bounded channel of ControlActor).
THEOREM StatusTypeCorrect == Spec => []TypeOK
<1>1. StatusInv => TypeOK
  <2> SUFFICES ASSUME StatusInv PROVE TypeOK
    OBVIOUS
  <2>1. \A i \in DOMAIN queue : queue[i] \in Letter
    BY SMTT(40) DEF StatusInv, QueueInv
  <2>2. \A i \in DOMAIN queue : queue[i].kind \in
          {"subscribe", "cancel", "drop", "external", "changed", "refreshed"}
    BY <2>1 DEF Letter, Kind
  <2>3. QED
    BY <2>2 DEF StatusInv, ObservationInv, ActorInv, QueueInv, TypeOK, Payload
<1>2. QED
  BY <1>1, StatusInductive, PTL

\* Nothing that was read before the last invalidation is published, whatever
\* signals, readers and refreshes do between a read and its commit
\* (StatusObservations::observe against invalidate).
THEOREM PublicationIsFresh == Spec => PublicationFresh
<1>1. StatusInv /\ [Next]_vars
      => [\A o \in Observer : value' # value /\ holder = o
              => capture[o].change >= invalidAt]_observationVars
  <2> SUFFICES ASSUME StatusInv, [Next]_vars, NEW o \in Observer, value' # value, holder = o
               PROVE  capture[o].change >= invalidAt
    OBVIOUS
  <2>1. PICK q \in Observer : Publish(q)
    BY ObservationMoves, NowMoves
  <2>2. QED
    BY <2>1 DEF StatusInv, FreshInv, Publish
<1>2. QED
  BY <1>1, StatusInductive, PTL DEF Spec, PublicationFresh

\* No subscription is shown an older publication after a newer one, whatever
\* readers publish between a refresh and its delivery (complete_shared_refresh
\* and emit_changes, with one refresh in flight).
THEOREM EmissionsAreOrdered == Spec => EmissionsOrdered
<1>1. StatusInv /\ [Next]_vars
      => [\A s \in Sub : seen'[s] # seen[s] =>
             \/ seen'[s].epoch > seen[s].epoch
             \/ seen'[s].epoch = seen[s].epoch /\ seen'[s].rev > seen[s].rev]_vars
  <2> SUFFICES ASSUME StatusInv, [Next]_vars, NEW s \in Sub, seen'[s] # seen[s]
               PROVE  \/ seen'[s].epoch > seen[s].epoch
                      \/ seen'[s].epoch = seen[s].epoch /\ seen'[s].rev > seen[s].rev
    OBVIOUS
  <2>1. CompleteRefresh
    BY DEF Next, Client, Subscribe, Unsubscribe, Disconnect, DropOwner, SendExternal,
       Signal, NotifyChanged, ChangeWorld, Actor, AddSubscription, RemoveSubscription,
       HandleExternal, HandleChanged, Debounced, BeginJob, FinishJob, SendRefreshed, PanicJob,
       Read, Capture, Others, actorVars, vars
  <2> DEFINE p == Head(queue).payload
  <2>2. queue \in Seq(Letter) /\ queue # <<>> /\ Head(queue).kind = "refreshed"
        /\ seen' = Emitted(p) /\ seen \in [Sub -> Payload]
    BY <2>1 DEF StatusInv, QueueInv, ActorInv, CompleteRefresh, Received
  <2>3. Head(queue) \in Letter /\ 1 \in DOMAIN queue /\ Head(queue) = queue[1]
    BY <2>2, SMTT(40)
  <2>4. p \in Payload /\ Newest(p)
    BY <2>2, <2>3 DEF StatusInv, ShownInv, Letter
  <2>5. seen'[s] = p /\ p # NoStatus
    BY <2>2 DEF Emitted
  <2>6. NotAfter(seen[s], p)
    BY <2>4, <2>5 DEF Newest
  <2> HIDE DEF p
  <2>7. p \in Publication /\ seen[s] \in Payload
    BY <2>2, <2>4, <2>5 DEF Payload
  <2>8. ~(p.epoch = seen[s].epoch /\ p.rev = seen[s].rev /\ p.status = seen[s].status)
    BY <2>5, <2>7, PublicationsDiffer
  <2>9. p.epoch \in Nat /\ p.rev \in Nat /\ seen[s].epoch \in Nat /\ seen[s].rev \in Nat
    BY <2>4, <2>7, NumbersTyped
  <2>10. QED
    BY <2>5, <2>6, <2>8, <2>9 DEF NotAfter
<1>2. QED
  BY <1>1, StatusInductive, PTL DEF Spec, EmissionsOrdered

-----------------------------------------------------------------------------
\* Health events and their notifications.

\* A signal as received.
Signals == [subject : Subjects, state : STRING, reason : STRING, owner : Nat, at : Nat]

\* An event recommends a notification only for a failure that the user did not
\* ask for and that no detailed device failure outranks.
Events ==
    {e \in [s : Signals, notify : BOOLEAN, key : FeedbackKeys, outranked : BOOLEAN] :
       e.notify => Category(e.s) # "user-requested" /\ ~e.outranked}
Jobs == [s : Signals, scope : Nat]
Letters == [k : {"signal"}, s : Signals] \cup [k : {"event"}, e : Events]
Notices == [e : {e \in Events : e.notify}, at : Nat]

HealthType ==
    /\ now \in Nat /\ peer \in Nat \ {0} /\ peerScope \in Nat
    /\ script \in Seq(Transitions) /\ observed \in Seq(Signals)
    /\ detailed \in [Subjects -> Signals \cup {NoSignal}]
    /\ inbox \in Seq(Letters)
    /\ describing \in Seq(Jobs)
    /\ described \in Events \cup {NoSignal}
    /\ lastShown \in [Consumers -> [key : FeedbackKeys, at : Nat] \cup {NoSignal}]
    /\ told \in [Consumers -> Seq(Notices)]

\* The monitor's map holds the last device signal that gave a reason.
DetailedInv ==
    \A i \in 1..Len(observed) :
        /\ observed[i].subject = "device" /\ ~CodeZero(observed[i])
        /\ \A j \in i + 1 .. Len(observed) :
             observed[j].subject = "device" => CodeZero(observed[j])
        => detailed["device"] = observed[i]

\* The policy remembers the last notification of each consumer, and two in a
\* row with one key are apart.
Apart(seq) ==
    \A i \in 1..Len(seq) : i > 1 /\ seq[i - 1].e.key = seq[i].e.key
        => seq[i].at - seq[i - 1].at >= RepeatWindow
LastTold(shown, seq) ==
    Len(seq) > 0 => shown = [key |-> seq[Len(seq)].e.key, at |-> seq[Len(seq)].at]
PolicyInv == \A c \in Consumers : Apart(told[c]) /\ LastTold(lastShown[c], told[c])

HealthInv == HealthType /\ DetailedInv /\ PolicyInv

Longer(t, q, e) ==
    /\ Len(q) \in Nat /\ Len(t) = Len(q) + 1 /\ t[Len(q) + 1] = e
    /\ \A i \in 1..Len(q) : t[i] = q[i]

LEMMA Appended ==
    ASSUME NEW S, NEW q \in Seq(S), NEW e \in S
    PROVE  Append(q, e) \in Seq(S) /\ Longer(Append(q, e), q, e)
  BY SMTT(40) DEF Longer

LEMMA FirstTaken ==
    ASSUME NEW S, NEW q \in Seq(S), q # <<>>
    PROVE  Head(q) \in S /\ Tail(q) \in Seq(S)
  BY SMTT(40)

\* A failure is never what the user asked for.
LEMMA FailureUnasked ==
    ASSUME NEW s \in Signals, Classify(s) = "failure"
    PROVE  Category(s) # "user-requested"
<1> SUFFICES ASSUME Category(s) = "user-requested" PROVE FALSE
  OBVIOUS
<1>1. s.subject \in Subjects
  BY DEF Signals
<1>2. ~ExplicitFailure(s)
  BY DEF ExplicitFailure
<1>3. ASSUME NEW state PROVE /\ DeviceKind(state, TRUE) = "failure" => NoSignal = "failure"
                             /\ ConnectionKind(state, TRUE) = "failure" => NoSignal = "failure"
                             /\ VpnKind(state, TRUE) = "failure" => NoSignal = "failure"
  <2>1. DeviceKind(state, TRUE) = "failure" => NoSignal = "failure"
    BY DEF DeviceKind
  <2>2. ConnectionKind(state, TRUE) = "failure" => NoSignal = "failure"
    BY DEF ConnectionKind
  <2>3. VpnKind(state, TRUE) = "failure" => NoSignal = "failure"
    BY DEF VpnKind
  <2> QED
    BY <2>1, <2>2, <2>3
<1>4. (Category(s) = "user-requested" \/ Benign(s)) = TRUE
  OBVIOUS
<1>5. CASE s.subject = "device"
  BY <1>2, <1>3, <1>4, <1>5 DEF Classify
<1>6. CASE s.subject = "connection"
  BY <1>2, <1>3, <1>4, <1>6 DEF Classify
<1>7. CASE s.subject = "vpn"
  BY <1>2, <1>3, <1>4, <1>7 DEF Classify
<1> QED
  BY <1>1, <1>5, <1>6, <1>7 DEF Subjects

\* A signal that a detailed device failure outranks is not recommended.
LEMMA OutrankedQuiet ==
    ASSUME HealthType, DetailedInv, NEW s \in Signals, NEW owner, s.subject = "connection",
           Rivals(owner) # {}
    PROVE  ~Recommended(s, TRUE, owner)
<1>1. PICK i \in DOMAIN observed :
         /\ observed[i].subject = "device" /\ ~CodeZero(observed[i])
         /\ RecentDeviceFailure(observed[i], owner)
         /\ \A j \in i + 1 .. Len(observed) :
              observed[j].subject = "device" => CodeZero(observed[j])
  BY DEF Rivals
<1>2. i \in 1..Len(observed)
  BY SMTT(40) DEF HealthType
<1>3. detailed["device"] = observed[i]
  BY <1>1, <1>2 DEF DetailedInv
<1> QED
  BY <1>1, <1>3 DEF Recommended

LEMMA EmptyIsShort == Len(<<>>) = 0
BY SMTT(40)

\* A consumer that was told nothing was told nothing too soon.
LEMMA NothingTold ==
    ASSUME NEW seq, NEW last, Len(seq) = 0 PROVE Apart(seq) /\ LastTold(last, seq)
BY SMTT(40) DEF Apart, LastTold

LEMMA HealthInitial ==
    HealthInit => HealthInv
<1> SUFFICES ASSUME HealthInit PROVE HealthInv
  OBVIOUS
<1>1. /\ now \in Nat /\ peer \in Nat \ {0} /\ peerScope \in Nat
      /\ observed \in Seq(Signals) /\ inbox \in Seq(Letters)
      /\ describing \in Seq(Jobs)
      /\ Len(observed) = 0 /\ \A c \in Consumers : told[c] \in Seq(Notices) /\ Len(told[c]) = 0
  BY SMTT(40) DEF HealthInit
<1>2. script \in Seq(Transitions)
  BY HealthAssumption DEF HealthInit
<1>3. HealthType
  BY <1>1, <1>2 DEF HealthInit, HealthType
<1>4. DetailedInv
  BY <1>1, SMTT(40) DEF DetailedInv
<1>5. ASSUME NEW c \in Consumers PROVE Apart(told[c]) /\ LastTold(lastShown[c], told[c])
  <2>1. Len(told[c]) = 0
    BY <1>1
  <2> QED
    BY <2>1, NothingTold
<1>6. PolicyInv
  BY <1>5 DEF PolicyInv
<1> QED
  BY <1>3, <1>4, <1>6 DEF HealthInv

\* notify_health keeps the map in step with what was observed.
LEMMA SignalObserved ==
    ASSUME HealthInv, NotifyHealth
    PROVE  HealthInv'
<1>t. HealthType /\ DetailedInv /\ PolicyInv
  BY DEF HealthInv
<1> DEFINE s == HealthSignal(Head(script))
           letter == [k |-> "signal", s |-> s]
           n == Len(observed)
<1>1. /\ observed' = Append(observed, s) /\ script # <<>> /\ script' = Tail(script)
      /\ detailed' = IF Remembers(s) THEN [detailed EXCEPT ![s.subject] = s] ELSE detailed
      /\ inbox' = Append(inbox, letter) \/ inbox' = inbox
      /\ UNCHANGED <<now, peer, peerScope, describing, described, lastShown, told>>
  BY DEF NotifyHealth, ownerVars, policyVars
<1>2. Head(script) \in Transitions /\ script' \in Seq(Transitions)
  BY <1>t, <1>1, FirstTaken DEF HealthType
<1>3. s \in Signals
  BY <1>t, <1>2 DEF HealthSignal, Transitions, Signals, HealthType
<1> HIDE DEF s
<1>4. letter \in Letters
  <2>1. letter \in [k : {"signal"}, s : Signals]
    BY <1>3
  <2> QED
    BY <2>1 DEF Letters
<1> HIDE DEF letter
<1>5. /\ observed' \in Seq(Signals) /\ inbox' \in Seq(Letters)
      /\ Len(observed') = n + 1 /\ n \in Nat /\ observed'[n + 1] = s
      /\ \A i \in 1..n : observed'[i] = observed[i]
  <2>1. observed' \in Seq(Signals) /\ Longer(observed', observed, s)
    BY <1>t, <1>1, <1>3, Appended DEF HealthType
  <2>2. inbox' \in Seq(Letters)
    <3>1. inbox \in Seq(Letters)
      BY <1>t DEF HealthType
    <3>2. Append(inbox, letter) \in Seq(Letters)
      BY <1>4, <3>1, Appended
    <3> QED BY <1>1, <3>1, <3>2
  <2> QED
    BY <2>1, <2>2 DEF Longer
<1>6. /\ detailed' \in [Subjects -> Signals \cup {NoSignal}]
      /\ s.subject = "device" /\ ~CodeZero(s) => detailed'["device"] = s
      /\ ~(s.subject = "device" /\ ~CodeZero(s)) => detailed'["device"] = detailed["device"]
  <2>1. /\ detailed \in [Subjects -> Signals \cup {NoSignal}]
        /\ s.subject \in Subjects /\ "device" \in Subjects
    BY <1>t, <1>3 DEF HealthType, Signals, Subjects
  <2>2. CASE Remembers(s)
    <3>1. detailed' = [detailed EXCEPT ![s.subject] = s]
      BY <1>1, <2>2
    <3> QED
      BY <1>3, <2>1, <2>2, <3>1 DEF Remembers
  <2>3. CASE ~Remembers(s)
    BY <1>1, <2>1, <2>3 DEF Remembers
  <2> QED
    BY <2>2, <2>3
<1>7. HealthType'
  BY <1>t, <1>1, <1>2, <1>5, <1>6 DEF HealthType
<1>8. DetailedInv'
  <2> SUFFICES ASSUME NEW i \in 1..Len(observed'), observed'[i].subject = "device",
                      ~CodeZero(observed'[i]),
                      \A j \in i + 1 .. Len(observed') :
                        observed'[j].subject = "device" => CodeZero(observed'[j])
               PROVE  detailed'["device"] = observed'[i]
    BY DEF DetailedInv, CodeZero
  <2>1. CASE i = n + 1
    BY <1>5, <1>6, <2>1
  <2>2. CASE i # n + 1
    <3>1. /\ i \in 1..n /\ n + 1 \in i + 1 .. Len(observed')
          /\ \A j \in i + 1 .. n : j \in i + 1 .. Len(observed') /\ j \in 1..n
      BY <1>5, <2>2, SMTT(40)
    <3>2. ~(s.subject = "device" /\ ~CodeZero(s))
      BY <1>5, <3>1
    <3>3. \A j \in i + 1 .. n : observed[j].subject = "device" => CodeZero(observed[j])
      BY <1>5, <3>1
    <3>4. detailed["device"] = observed[i]
      BY <1>t, <1>5, <3>1, <3>3 DEF DetailedInv
    <3> QED
      BY <1>5, <1>6, <3>1, <3>2, <3>4
  <2> QED
    BY <2>1, <2>2
<1>9. PolicyInv'
  BY <1>t, <1>1 DEF PolicyInv
<1> QED
  BY <1>7, <1>8, <1>9 DEF HealthInv

\* network_health_event recommends what it may.
LEMMA EventDescribed ==
    ASSUME HealthInv, DescribeHealth
    PROVE  HealthInv'
<1>t. HealthType /\ DetailedInv /\ PolicyInv
  BY DEF HealthInv
<1> DEFINE s == Head(describing).s
           owner == Head(describing).scope
<1>1. /\ describing # <<>> /\ describing' = Tail(describing)
      /\ UNCHANGED <<now, peer, peerScope, script, observed, detailed, inbox, lastShown, told>>
  BY DEF DescribeHealth, ownerVars, policyVars, inputVars
<1>2. Head(describing) \in Jobs /\ describing' \in Seq(Jobs)
  BY <1>t, <1>1, FirstTaken DEF HealthType
<1>3. s \in Signals
  BY <1>2 DEF Jobs
<1> HIDE DEF s, owner
<1>4. ASSUME NEW named \in BOOLEAN
      PROVE  [s |-> s, notify |-> Recommended(s, named, owner), key |-> FeedbackKey(s, named),
              outranked |-> named /\ s.subject = "connection" /\ Rivals(owner) # {}] \in Events
  <2> DEFINE out == named /\ s.subject = "connection" /\ Rivals(owner) # {}
             e == [s |-> s, notify |-> Recommended(s, named, owner),
                   key |-> FeedbackKey(s, named), outranked |-> out]
  <2>1. FeedbackKey(s, named) \in FeedbackKeys
    BY <1>3 DEF FeedbackKey, FeedbackKeys, Signals, Subjects
  <2>2. Recommended(s, named, owner) \in BOOLEAN /\ out \in BOOLEAN
    BY DEF Recommended
  <2>3. Recommended(s, named, owner) => Category(s) # "user-requested"
    BY <1>3, FailureUnasked DEF Recommended
  <2>4. out => ~Recommended(s, named, owner)
    <3> SUFFICES ASSUME out PROVE ~Recommended(s, TRUE, owner)
      BY DEF Recommended
    <3> QED
      BY <1>t, <1>3, OutrankedQuiet
  <2> HIDE DEF out
  <2>5. /\ e \in [s : Signals, notify : BOOLEAN, key : FeedbackKeys, outranked : BOOLEAN]
        /\ e.s = s /\ e.notify = Recommended(s, named, owner) /\ e.outranked = out
    BY <1>3, <2>1, <2>2
  <2> HIDE DEF e
  <2>6. e \in Events
    BY <2>3, <2>4, <2>5 DEF Events
  <2> QED
    BY <2>6 DEF e, out
<1>5. described' \in Events \cup {NoSignal}
  <2>1. described = NoSignal /\ (described' = described
          \/ \E named \in DeviceNamed(s) :
               described' = [s |-> s, notify |-> Recommended(s, named, owner),
                             key |-> FeedbackKey(s, named),
                             outranked |-> /\ named /\ s.subject = "connection"
                                           /\ Rivals(owner) # {}])
    BY DEF DescribeHealth, s, owner
  <2>2. DeviceNamed(s) \subseteq BOOLEAN
    BY DEF DeviceNamed
  <2> QED
    BY <1>4, <2>1, <2>2
<1>6. HealthType'
  BY <1>t, <1>1, <1>2, <1>5 DEF HealthType
<1>7. DetailedInv'
  BY <1>t, <1>1 DEF DetailedInv, CodeZero
<1>8. PolicyInv'
  BY <1>t, <1>1 DEF PolicyInv
<1> QED
  BY <1>6, <1>7, <1>8 DEF HealthInv

\* Of two times that are not closer than the window, the later is past it.
LEMMA WindowPassed ==
    ASSUME NEW x \in Nat, NEW y \in Nat, NEW w \in Nat, ~(x - y < w) PROVE x - y >= w
BY SMTT(40)

\* HealthFeedback::project: a repeated key within the window is not shown.
LEMMA NoticeGiven ==
    ASSUME NEW seq \in Seq(Notices), NEW shown, NEW n \in Notices, Apart(seq), LastTold(shown, seq),
           Len(seq) > 0 => ~(shown.key = n.e.key /\ n.at - shown.at < RepeatWindow)
    PROVE  Apart(Append(seq, n)) /\ LastTold([key |-> n.e.key, at |-> n.at], Append(seq, n))
<1> DEFINE t == Append(seq, n)
<1>0. Longer(t, seq, n)
  BY Appended
<1>1. /\ Len(t) = Len(seq) + 1 /\ Len(seq) \in Nat /\ t[Len(seq) + 1] = n
      /\ \A i \in 1..Len(seq) : t[i] = seq[i]
  BY <1>0 DEF Longer
<1> HIDE DEF t
<1>2. LastTold([key |-> n.e.key, at |-> n.at], t)
  BY <1>1 DEF LastTold
<1>3. Apart(t)
  <2> SUFFICES ASSUME NEW i \in 1..Len(t), i > 1, t[i - 1].e.key = t[i].e.key
               PROVE  t[i].at - t[i - 1].at >= RepeatWindow
    BY DEF Apart
  <2>1. CASE i \in 1..Len(seq)
    <3>1. i - 1 \in 1..Len(seq)
      BY <1>1, <2>1, SMTT(40)
    <3>2. t[i] = seq[i] /\ t[i - 1] = seq[i - 1]
      BY <1>1, <2>1, <3>1
    <3> QED
      BY <2>1, <3>2 DEF Apart
  <2>2. CASE i \notin 1..Len(seq)
    <3>1. i = Len(seq) + 1 /\ i - 1 = Len(seq) /\ Len(seq) \in 1..Len(seq) /\ Len(seq) > 0
      BY <1>1, <2>2, SMTT(40)
    <3>2. t[i] = n /\ t[i - 1] = seq[Len(seq)]
      BY <1>1, <3>1
    <3>a. shown = [key |-> t[i - 1].e.key, at |-> t[i - 1].at]
      BY <3>1, <3>2 DEF LastTold
    <3>3. shown.key = t[i - 1].e.key /\ shown.at = t[i - 1].at
      BY <3>a
    <3>4. n.at \in Nat /\ t[i - 1].at \in Nat /\ RepeatWindow \in Nat
      <4>1. seq[Len(seq)] \in Notices
        BY <3>1, SMTT(40)
      <4> QED
        BY <3>2, <4>1, HealthAssumption DEF Notices
    <3>5. ~(n.at - t[i - 1].at < RepeatWindow)
      BY <3>1, <3>2, <3>3
    <3>6. n.at - t[i - 1].at >= RepeatWindow
      BY <3>4, <3>5, WindowPassed
    <3> QED
      BY <3>2, <3>6
  <2> QED
    BY <2>1, <2>2
<1> QED
  BY <1>2, <1>3 DEF t

LEMMA EventEmitted ==
    ASSUME HealthInv, EmitHealth
    PROVE  HealthInv'
<1>t. HealthType /\ DetailedInv /\ PolicyInv
  BY DEF HealthInv
<1> DEFINE e == NextControl.e
           shown == {c \in Consumers : Listens(c) /\ Projects(c, e)}
<1>1. /\ inbox # <<>> /\ NextControl.k = "event" /\ inbox' = Tail(inbox)
      /\ lastShown' = [c \in Consumers |-> IF c \in shown THEN [key |-> e.key, at |-> now]
                                           ELSE lastShown[c]]
      /\ told' = [c \in Consumers |-> IF c \in shown THEN Append(told[c], [e |-> e, at |-> now])
                                      ELSE told[c]]
      /\ UNCHANGED <<now, peer, peerScope, script, observed, detailed, describing, described>>
  BY DEF EmitHealth, ownerVars, inputVars
<1>2. NextControl \in Letters /\ inbox' \in Seq(Letters)
  BY <1>t, <1>1, FirstTaken DEF HealthType, NextControl
<1>3. e \in Events
  <2>1. NextControl \notin [k : {"signal"}, s : Signals]
    BY <1>1
  <2> QED
    BY <1>2, <2>1 DEF Letters
<1> HIDE DEF e
<1>4. e.key \in FeedbackKeys
  BY <1>3 DEF Events
<1> DEFINE n == [e |-> e, at |-> now]
           mark == [key |-> e.key, at |-> now]
<1>5. mark \in [key : FeedbackKeys, at : Nat]
  BY <1>t, <1>4 DEF HealthType
<1>6. ASSUME NEW c \in shown PROVE n \in Notices
  BY <1>t, <1>3, <1>6 DEF Projects, HealthType, Notices
<1>7. n.e = e /\ n.at = now
  OBVIOUS
<1> HIDE DEF n, shown
<1>8. ASSUME NEW c \in Consumers
      PROVE  /\ lastShown'[c] \in [key : FeedbackKeys, at : Nat] \cup {NoSignal}
             /\ told'[c] \in Seq(Notices)
             /\ Apart(told'[c]) /\ LastTold(lastShown'[c], told'[c])
  <2>0. /\ lastShown[c] \in [key : FeedbackKeys, at : Nat] \cup {NoSignal}
        /\ told[c] \in Seq(Notices) /\ Apart(told[c]) /\ LastTold(lastShown[c], told[c])
    BY <1>t DEF HealthType, PolicyInv
  <2>1. CASE c \notin shown
    <3>1. lastShown'[c] = lastShown[c] /\ told'[c] = told[c]
      BY <1>1, <2>1
    <3> QED
      BY <2>0, <3>1
  <2>2. CASE c \in shown
    <3>1. lastShown'[c] = mark /\ told'[c] = Append(told[c], n)
      BY <1>1, <2>2 DEF n
    <3>2. n \in Notices
      BY <1>6, <2>2
    <3>3. ~Duplicate(c, e.key)
      BY <2>2 DEF shown, Projects
    <3>4. ASSUME Len(told[c]) > 0
          PROVE  ~(lastShown[c].key = n.e.key /\ n.at - lastShown[c].at < RepeatWindow)
      <4>l. PICK last : last = told[c][Len(told[c])]
        OBVIOUS
      <4>1. lastShown[c] = [key |-> last.e.key, at |-> last.at]
        BY <2>0, <3>4, <4>l DEF LastTold
      <4>2. last \in Notices
        BY <2>0, <3>4, <4>l, SMTT(40)
      <4>a. last.e \in Events /\ last.at \in Nat
        BY <4>2 DEF Notices
      <4>b. last.e.key \in FeedbackKeys
        BY <4>a DEF Events
      <4>3. lastShown[c] \in [key : FeedbackKeys, at : Nat]
        <5>1. [key |-> last.e.key, at |-> last.at] \in [key : FeedbackKeys, at : Nat]
          BY <4>a, <4>b
        <5> QED
          BY <4>1, <5>1
      <4>4. lastShown[c] # NoSignal
        BY <4>3, HealthAssumption
      <4> QED
        BY <1>7, <3>3, <4>4 DEF Duplicate
    <3>5. Apart(Append(told[c], n)) /\ LastTold([key |-> n.e.key, at |-> n.at], Append(told[c], n))
      BY <2>0, <3>2, <3>4, NoticeGiven
    <3>6. Append(told[c], n) \in Seq(Notices)
      BY <2>0, <3>2, Appended
    <3> QED
      BY <1>5, <1>7, <3>1, <3>5, <3>6
  <2> QED
    BY <2>1, <2>2
<1>9. HealthType'
  BY <1>t, <1>1, <1>2, <1>8 DEF HealthType
<1>10. DetailedInv'
  BY <1>t, <1>1 DEF DetailedInv, CodeZero
<1>11. PolicyInv'
  BY <1>8 DEF PolicyInv
<1> QED
  BY <1>9, <1>10, <1>11 DEF HealthInv

LEMMA HealthStep ==
    HealthInv /\ [HealthNext]_healthVars => HealthInv'
<1> SUFFICES ASSUME HealthInv, [HealthNext]_healthVars PROVE HealthInv'
  OBVIOUS
<1>t. HealthType /\ DetailedInv /\ PolicyInv
  BY DEF HealthInv
<1>d. UNCHANGED <<observed, detailed>> => DetailedInv'
  BY <1>t DEF DetailedInv, CodeZero
<1>p. UNCHANGED <<lastShown, told>> => PolicyInv'
  BY <1>t DEF PolicyInv
<1>e. <<>> \in Seq(Signals) /\ <<>> \in Seq(Notices) /\ Len(<<>>) = 0
  BY SMTT(40)
<1>1. CASE UNCHANGED healthVars
  <2>1. HealthType'
    BY <1>t, <1>1 DEF healthVars, ownerVars, policyVars, inputVars, HealthType
  <2> QED
    BY <1>1, <1>d, <1>p, <2>1 DEF healthVars, policyVars, HealthInv
<1>2. CASE HealthTick
  <2>1. now' \in Nat
    BY <1>t, <1>2, SMTT(40) DEF HealthTick, HealthType
  <2>2. HealthType'
    BY <1>t, <1>2, <2>1 DEF HealthTick, ownerVars, policyVars, inputVars, HealthType
  <2> QED
    BY <1>2, <1>d, <1>p, <2>2 DEF HealthTick, policyVars, HealthInv
<1>3. CASE PeerRestarts
  <2>1. peer' \in Nat \ {0}
    BY <1>t, <1>3, SMTT(40) DEF PeerRestarts, HealthType
  <2>2. HealthType'
    BY <1>t, <1>3, <2>1 DEF PeerRestarts, policyVars, HealthType
  <2> QED
    BY <1>3, <1>d, <1>p, <2>2 DEF PeerRestarts, policyVars, HealthInv
<1>4. CASE OwnerChanged
  <2>1. peerScope' \in Nat
    BY <1>t, <1>4, SMTT(40) DEF OwnerChanged, HealthType
  <2>2. detailed' \in [Subjects -> Signals \cup {NoSignal}]
    BY <1>4 DEF OwnerChanged
  <2>3. HealthType'
    BY <1>t, <1>4, <1>e, <2>1, <2>2 DEF OwnerChanged, policyVars, inputVars, HealthType
  <2>4. DetailedInv'
    BY <1>4, SMTT(40) DEF OwnerChanged, DetailedInv
  <2> QED
    BY <1>4, <1>p, <2>3, <2>4 DEF OwnerChanged, policyVars, HealthInv
<1>5. CASE Scoped
  <2>1. peerScope' \in Nat
    BY <1>t, <1>5, SMTT(40) DEF Scoped, HealthType
  <2>2. HealthType'
    BY <1>t, <1>5, <2>1 DEF Scoped, policyVars, inputVars, HealthType
  <2> QED
    BY <1>5, <1>d, <1>p, <2>2 DEF Scoped, policyVars, HealthInv
<1>6. CASE PublishHealth
  <2>1. /\ inbox # <<>> /\ NextControl.k = "signal" /\ inbox' = Tail(inbox)
        /\ \/ describing' = Append(describing, [s |-> NextControl.s, scope |-> peerScope])
           \/ describing' = describing
        /\ UNCHANGED <<now, peer, peerScope, script, observed, detailed, described, lastShown,
                       told>>
    BY <1>6 DEF PublishHealth, ownerVars, policyVars, inputVars
  <2>2. NextControl \in Letters /\ inbox' \in Seq(Letters)
    BY <1>t, <2>1, FirstTaken DEF HealthType, NextControl
  <2>3. NextControl.s \in Signals
    <3>1. NextControl \notin [k : {"event"}, e : Events]
      BY <2>1
    <3> QED
      BY <2>2, <3>1 DEF Letters
  <2>4. [s |-> NextControl.s, scope |-> peerScope] \in Jobs
    BY <1>t, <2>3 DEF HealthType, Jobs
  <2>5. describing' \in Seq(Jobs)
    <3>1. describing \in Seq(Jobs)
      BY <1>t DEF HealthType
    <3>2. Append(describing, [s |-> NextControl.s, scope |-> peerScope]) \in Seq(Jobs)
      BY <2>4, <3>1, Appended
    <3> QED BY <2>1, <3>1, <3>2
  <2>6. HealthType'
    BY <1>t, <2>1, <2>2, <2>5 DEF HealthType
  <2> QED
    BY <1>d, <1>p, <2>1, <2>6 DEF HealthInv
<1>7. CASE SendDescribed
  <2>1. /\ inbox' = Append(inbox, [k |-> "event", e |-> described])
        /\ described \in Events /\ described' = NoSignal
        /\ UNCHANGED <<now, peer, peerScope, script, observed, detailed, describing, lastShown,
                       told>>
    BY <1>t, <1>7 DEF SendDescribed, ownerVars, policyVars, inputVars, HealthType
  <2>2. [k |-> "event", e |-> described] \in [k : {"event"}, e : Events]
    BY <2>1
  <2>3. inbox' \in Seq(Letters)
    BY <1>t, <2>1, <2>2, Appended DEF HealthType, Letters
  <2>4. HealthType'
    BY <1>t, <2>1, <2>3 DEF HealthType
  <2> QED
    BY <1>d, <1>p, <2>1, <2>4 DEF HealthInv
<1>8. ASSUME NEW c \in Consumers, WatchHealth(c) \/ OwnConnect(c) PROVE HealthInv'
  <2>1. UNCHANGED <<now, peer, peerScope, script, observed, detailed, inbox, describing, described,
                    lastShown, told>>
    BY <1>8 DEF WatchHealth, OwnConnect, ownerVars, inputVars
  <2>2. HealthType'
    BY <1>t, <2>1 DEF HealthType
  <2> QED
    BY <1>d, <1>p, <2>1, <2>2 DEF HealthInv
<1>9. ASSUME NEW c \in Consumers, DropHealthOwner(c) PROVE HealthInv'
  <2>1. /\ lastShown' = [lastShown EXCEPT ![c] = NoSignal]
        /\ told' = [told EXCEPT ![c] = <<>>]
        /\ UNCHANGED <<now, peer, peerScope, script, observed, detailed, inbox, describing,
                       described>>
    BY <1>9 DEF DropHealthOwner, ownerVars
  <2>2. /\ told' \in [Consumers -> Seq(Notices)] /\ told'[c] = <<>>
        /\ \A d \in Consumers : d # c => told'[d] = told[d] /\ lastShown'[d] = lastShown[d]
        /\ lastShown' \in [Consumers -> [key : FeedbackKeys, at : Nat] \cup {NoSignal}]
    BY <1>t, <1>e, <2>1 DEF HealthType
  <2>3. HealthType'
    BY <1>t, <2>1, <2>2 DEF HealthType
  <2>4. Apart(<<>>) /\ LastTold(lastShown'[c], <<>>)
    BY NothingTold, EmptyIsShort
  <2>5. PolicyInv'
    BY <1>t, <2>2, <2>4 DEF PolicyInv
  <2> QED
    BY <1>d, <2>1, <2>3, <2>5 DEF HealthInv
<1> QED
  BY <1>1, <1>2, <1>3, <1>4, <1>5, <1>6, <1>7, <1>8, <1>9, SignalObserved, EventDescribed,
     EventEmitted DEF HealthNext

\* Every queued event is one that may be shown, the monitor's map holds the
\* device's last reason, and the policy remembers what it showed last.
THEOREM HealthInductive ==
    HealthSpec => []HealthInv
  BY HealthInitial, HealthStep, PTL DEF HealthSpec

\* NotifiedOnce for any signals in any order and any number of restarts and
\* consumers: the suppression in network_health_event and the repeat window of
\* HealthFeedback::project hold whatever is queued between them.
THEOREM NotificationsAreDue ==
    HealthSpec => []NotifiedOnce
<1>1. ASSUME HealthInv PROVE NotifiedOnce
  <2> SUFFICES ASSUME NEW c \in Consumers, NEW i \in DOMAIN told[c]
               PROVE  /\ Category(told[c][i].e.s) # "user-requested"
                      /\ ~told[c][i].e.outranked
                      /\ i > 1 /\ told[c][i - 1].e.key = told[c][i].e.key
                           => told[c][i].at - told[c][i - 1].at >= RepeatWindow
    BY DEF NotifiedOnce
  <2>1. told[c] \in Seq(Notices) /\ Apart(told[c])
    BY <1>1 DEF HealthInv, HealthType, PolicyInv
  <2>2. i \in 1..Len(told[c]) /\ told[c][i] \in Notices
    BY <2>1, SMTT(40)
  <2>3. told[c][i].e \in Events /\ told[c][i].e.notify
    BY <2>2 DEF Notices
  <2> QED
    BY <2>1, <2>2, <2>3 DEF Events, Apart
<1> QED
  BY <1>1, HealthInductive, PTL
=============================================================================
