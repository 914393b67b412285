---------------------------- MODULE WifiConnect ----------------------------
(* One Wi-Fi connect request as its worker runs it: the candidate loop of   *)
(* Application::connect, the ConnectionMachine of each candidate, and the   *)
(* wait for NetworkManager to finish the activation it was asked for. The   *)
(* Wi-Fi device, other clients, credential prompts and time move freely.    *)
EXTENDS Naturals, Sequences, FiniteSets

CONSTANTS
    Asked,      \* the requests made: records of the fields of Requests
    Reported,   \* the device state reasons NetworkManager reports
    MaxEvents,  \* bound on its steps during one request
    Nil


VARIABLES
    request,   \* what the caller asked for
    pc, attempt, rescanned, created, path, scope, error,   \* ConnectionMachine
    wait,      \* ActivationWait and the sample read before the device status
    cancelled, late,          \* the cancellation flag; the activation deadline
    profiles, device, events, \* NetworkManager (external)
    status,    \* cached status file: connecting, connected, error
    attempts, outcome,        \* attempt summaries and the request's outcome
    kept       \* history: profiles whose deletion failed, and the verified ones

machine == <<pc, attempt, rescanned, created, path, scope, error>>
nm == <<profiles, device, events>>
result == <<status, attempts, outcome, kept>>
requestVars == <<request, machine, wait, cancelled, late, nm, result>>

(* Device state reasons NetworkManager reports, and connect failure reasons. *)
NmReasons == {"none", "no-secrets", "dhcp", "ssid-not-found", "supplicant",
              "supplicant-timeout"}
DbusReasons == {"not_found", "unknown"}
Stops == {"cancelled", "expired", "agent-unavailable"}

(* Whose activation the device carries: this request's first or second      *)
(* one, another client's for the same SSID, or for another network.         *)
(* Profiles: the saved one, and those each attempt creates.                 *)
Own == {1, 2}
KeptProfile == 0
OnTarget == device.act \in Own \cup {3}
Activated == device.state = "activated"
Down == [act |-> 0, state |-> "disconnected", reason |-> "none"]

(* A hidden network has no visible alternatives to fall back to. *)
Requests == [alternative : BOOLEAN, credentials : BOOLEAN, temporary : BOOLEAN,
             hidden : BOOLEAN, secured : BOOLEAN]

NoWait == [sampled |-> FALSE, matches |-> FALSE, stopped |-> FALSE,
           pending |-> Nil, grace |-> FALSE, last |-> Nil]
Failure(reason, credential) == [reason |-> reason, credential |-> credential]

(* Why an attempt can fail: it was cancelled, or one of the reasons of      *)
(* ConnectFailureReason that joining a candidate can give.                  *)
FailureReasons ==
    {"cancelled", "timeout", "password_unavailable", "dhcp_failed", "not_found",
     "wrong_password", "activation_failed", "unsupported_auth", "unknown"}

ASSUME ConnectBounds ==
    /\ MaxEvents \in Nat /\ Reported \subseteq NmReasons
    /\ Nil \notin NmReasons \cup Stops \cup {"live", "succeeded", "failed"} /\ Nil \notin 0..2
    /\ Nil \notin [reason : FailureReasons, credential : BOOLEAN]

RequestInit ==
    /\ request \in Asked
    /\ pc = "start" /\ attempt = 1 /\ rescanned = FALSE /\ created = Nil
    /\ path = Nil /\ scope = Nil /\ error = Nil
    /\ wait = NoWait
    /\ cancelled = FALSE /\ late = FALSE
    /\ profiles \in {{}, {KeptProfile}}
    /\ device \in {Down} \cup [act : {3, 4}, state : {"activated"}, reason : {"none"}]
    /\ events = 0
    /\ status = "idle" /\ attempts = <<>> /\ outcome = Nil
    /\ kept = {}

-----------------------------------------------------------------------------
(* ConnectionMachine::run_states.                                           *)

\* Mutant: the failure returns without the cleanup.
FailUncleaned(reason, credential) ==
    /\ pc' = "judge"
    /\ error' = Failure(reason, credential)
Fail(reason, credential) ==
    /\ pc' = "cleanup"
    /\ error' = Failure(reason, credential)

Checked == pc \in {"active", "saved", "create", "rescan"} /\ ~cancelled

(* start_connect: Started is emitted, then the flag is looked at. *)
Start ==
    /\ pc = "start"
    /\ IF cancelled THEN outcome' = "cancelled" /\ pc' = "done"
       ELSE outcome' = outcome /\ pc' = "try"
    /\ UNCHANGED <<request, attempt, rescanned, created, path, scope, error, wait, cancelled,
                   late, nm, status, attempts, kept>>

(* run: a new machine for the candidate; its first check may already fail.  *)
Try ==
    /\ pc = "try"
    /\ rescanned' = FALSE
    /\ IF cancelled
       THEN /\ pc' = "judge" /\ error' = Failure("cancelled", FALSE)
            /\ UNCHANGED status
       ELSE /\ pc' = "active" /\ error' = Nil
            /\ status' = "connecting"
    /\ UNCHANGED <<request, attempt, created, path, scope, wait, cancelled, late, nm, attempts,
                   outcome, kept>>

StopCancelled ==
    /\ pc \in {"active", "saved", "create", "rescan"} /\ cancelled
    /\ Fail("cancelled", FALSE)
    /\ UNCHANGED <<request, attempt, rescanned, created, path, scope, wait, cancelled, late,
                   nm, result>>

(* check_already_active: credentials must still reach the profile, and a    *)
(* failed read is not a failure.                                            *)
CheckAlreadyActive ==
    /\ pc = "active" /\ Checked
    /\ \E read \in BOOLEAN :
         pc' = IF read /\ OnTarget /\ ~request.credentials THEN "succeed" ELSE "saved"
    /\ UNCHANGED <<request, attempt, rescanned, created, path, scope, error, wait, cancelled,
                   late, nm, result>>

(* NetworkManager starts an activation for this candidate. *)
Activate(profile) ==
    /\ device' = [act |-> attempt, state |-> "preparing", reason |-> "none"]
    /\ profiles' = profiles \cup {profile}
    /\ path' = attempt /\ scope' = "live"
    /\ pc' = "verify"

(* activate_saved_wifi_connection_for: never for a temporary join. *)
SavedProfile ==
    /\ pc = "saved" /\ Checked
    /\ \/ /\ ~request.temporary /\ KeptProfile \in profiles
          /\ Activate(KeptProfile)
          /\ UNCHANGED <<created, error>>
       \/ /\ request.temporary \/ KeptProfile \notin profiles
          /\ pc' = "create"
          /\ UNCHANGED <<created, path, scope, error, profiles, device>>
       \/ /\ ~request.temporary
          /\ \E reason \in DbusReasons : Fail(reason, FALSE)
          /\ UNCHANGED <<created, path, scope, profiles, device>>
    /\ UNCHANGED <<request, attempt, rescanned, wait, cancelled, late, events, result>>

(* add_and_activate_wifi_connection_for, and what follows when no access    *)
(* point or no supported security is found.                                 *)
ShouldRescan(visible) == ~rescanned /\ ~request.hidden /\ visible # "yes"
UnavailableReason(visible) ==
    IF ~request.hidden /\ visible = "yes" THEN "unsupported_auth" ELSE "not_found"

CreateProfile ==
    /\ pc = "create" /\ Checked
    /\ \/ /\ Activate(attempt)
          /\ created' = attempt
          /\ UNCHANGED error
       \/ /\ \E visible \in IF request.hidden THEN {"no"} ELSE {"yes", "no", "unknown"} :
               IF ShouldRescan(visible) THEN pc' = "rescan" /\ UNCHANGED error
               ELSE Fail(UnavailableReason(visible), FALSE)
          /\ UNCHANGED <<created, path, scope, profiles, device>>
       \/ /\ \E reason \in DbusReasons : Fail(reason, FALSE)
          /\ UNCHANGED <<created, path, scope, profiles, device>>
    /\ UNCHANGED <<request, attempt, rescanned, wait, cancelled, late, events, result>>

Rescan ==
    /\ pc = "rescan" /\ Checked
    /\ rescanned' = TRUE
    /\ \/ pc' = "saved" /\ UNCHANGED error
       \/ \E reason \in {"timeout", "unknown"} : Fail(reason, FALSE)
    /\ UNCHANGED <<request, attempt, created, path, scope, wait, cancelled, late, nm, result>>

-----------------------------------------------------------------------------
(* wait_for_active_target_path.                                             *)

(* DeactivateConnection of the requested path; and the cancellation's       *)
(* disconnect_wifi_for_ssid, which takes any connection to the SSID down.   *)
AbortRequested == IF device.act = path THEN Down ELSE device
AbortSsid == IF OnTarget THEN Down ELSE device

StopReason(stop) ==
    CASE stop = "cancelled" -> "cancelled"
      [] stop = "expired" -> "timeout"
      [] stop = "agent-unavailable" -> "password_unavailable"

(* activation_failure_reason and timeout_failure_reason. *)
FailureReason(reason) ==
    CASE reason = "no-secrets" -> "password_unavailable"
      [] reason = "dhcp" -> "dhcp_failed"
      [] reason = "ssid-not-found" -> "not_found"
      [] reason = "supplicant-timeout" -> "timeout"
      [] reason = "supplicant" ->
           IF request.secured THEN "wrong_password" ELSE "activation_failed"
      [] reason = "none" -> "activation_failed"
TimeoutReason(reason) ==
    IF reason = Nil \/ FailureReason(reason) = "activation_failed" THEN "timeout"
    ELSE FailureReason(reason)

(* The top of the loop: cancellation, then a credential stop, then the      *)
(* deadline, each aborting what it should before the error is returned.     *)
VerifyStop ==
    /\ pc = "verify" /\ ~wait.sampled
    /\ \/ /\ cancelled
          /\ device' = AbortSsid
          /\ Fail("cancelled", FALSE)
       \/ /\ ~cancelled /\ scope \in Stops
          /\ device' = AbortRequested
          /\ Fail(StopReason(scope), TRUE)
       \/ /\ ~cancelled /\ scope \notin Stops /\ late
          /\ device' = AbortRequested
          /\ Fail(TimeoutReason(wait.last), FALSE)
    /\ UNCHANGED <<request, attempt, rescanned, created, path, scope, wait, cancelled, late,
                   profiles, events, result>>

(* The requested activation's state and the active SSID are read first,     *)
(* the device status afterwards.                                            *)
Sample ==
    /\ pc = "verify" /\ ~wait.sampled
    /\ ~cancelled /\ scope \notin Stops /\ ~late
    /\ wait' = [wait EXCEPT !.sampled = TRUE, !.matches = OnTarget,
                            !.stopped = (device.act # path)]
    /\ UNCHANGED <<request, machine, cancelled, late, nm, result>>

(* verify, once the wait returned: the rollback ownership is released. *)
Verified ==
    /\ pc' = "succeed"
    /\ scope' = Nil /\ created' = Nil
    /\ kept' = kept \cup ({created} \ {Nil})

(* latch_pending_failure: the first informative reason stays. *)
Latched ==
    IF wait.pending \in {Nil, "none"} THEN device.reason ELSE wait.pending
Failing == device.state = "disconnected" \/ wait.stopped

(* observe and check_terminal_failure on the status just read; a read error *)
(* ends the wait as it is, a missing status trusts the SSID alone.          *)
Observe ==
    /\ pc = "verify" /\ wait.sampled
    /\ \/ /\ wait.matches /\ Activated
          /\ Verified
          /\ wait' = [wait EXCEPT !.sampled = FALSE]
          /\ UNCHANGED <<error, device>>
       \/ /\ wait.matches \* no device, hence no status
          /\ Verified
          /\ wait' = [wait EXCEPT !.sampled = FALSE]
          /\ UNCHANGED <<error, device>>
       \/ /\ ~(wait.matches /\ Activated) /\ ~Failing
          /\ wait' = [wait EXCEPT !.sampled = FALSE, !.pending = Nil, !.grace = FALSE,
                                  !.last = device.reason]
          /\ UNCHANGED <<pc, scope, created, kept, error, device>>
       \/ /\ ~(wait.matches /\ Activated) /\ Failing
          /\ ~(wait.pending # Nil /\ wait.grace)
          /\ wait' = [wait EXCEPT !.sampled = FALSE, !.pending = Latched,
                                  !.last = device.reason]
          /\ UNCHANGED <<pc, scope, created, kept, error, device>>
       \/ /\ ~(wait.matches /\ Activated) /\ Failing
          /\ wait.pending # Nil /\ wait.grace
          /\ wait' = [wait EXCEPT !.sampled = FALSE, !.pending = Latched]
          \* activation_scope_error: a credential stop explains the failure.
          /\ \E unavailable \in
               IF FailureReason(Latched) = "password_unavailable" THEN BOOLEAN ELSE {FALSE} :
               LET stop == IF scope \in Stops THEN scope
                           ELSE IF unavailable THEN "agent-unavailable" ELSE Nil
               IN  /\ scope' = IF stop = Nil THEN scope ELSE stop
                   /\ device' = IF stop = Nil THEN device ELSE AbortRequested
                   /\ IF stop = Nil THEN Fail(FailureReason(Latched), FALSE)
                      ELSE Fail(StopReason(stop), TRUE)
          /\ UNCHANGED <<created, kept>>
       \/ /\ Fail("unknown", FALSE)
          /\ wait' = [wait EXCEPT !.sampled = FALSE]
          /\ UNCHANGED <<scope, created, kept, device>>
    /\ UNCHANGED <<request, attempt, rescanned, path, cancelled, late, profiles, events,
                   status, attempts, outcome>>

-----------------------------------------------------------------------------
(* run, after the states: prompts are retired, then the created profile is  *)
(* deleted, then the failure is published when no alternative remains.      *)

Cleanup ==
    /\ pc = "cleanup"
    /\ scope' = Nil /\ created' = Nil /\ pc' = "judge"
    /\ \E deleted \in IF created = Nil THEN {TRUE} ELSE BOOLEAN :
         /\ profiles' = IF deleted THEN profiles \ {created} ELSE profiles
         /\ device' = IF deleted /\ created # Nil /\ device.act = created THEN Down ELSE device
         /\ kept' = IF deleted THEN kept ELSE kept \cup {created}
    /\ status' = IF request.alternative THEN status ELSE "error"
    /\ wait' = NoWait /\ late' = FALSE
    /\ UNCHANGED <<request, attempt, rescanned, path, error, cancelled, events, attempts,
                   outcome>>

(* finish_success: the cache is written before the last cancellation check. *)
FinishSuccess ==
    /\ pc = "succeed"
    /\ status' = "connected"
    /\ error' = IF cancelled THEN Failure("cancelled", FALSE) ELSE Nil
    /\ pc' = "judge"
    /\ wait' = NoWait /\ late' = FALSE
    /\ UNCHANGED <<request, attempt, rescanned, created, path, scope, cancelled, nm,
                   attempts, outcome, kept>>

(* connect_inner, after a candidate returned. *)
Retryable == {"dhcp_failed", "not_found", "timeout", "activation_failed"}
Tried(entry) == attempts' = Append(attempts, entry)
Total == IF request.alternative THEN 2 ELSE 1

\* Mutant: a credential decision does not stop the loop.
FallsBackAnyway == error.reason \in Retryable /\ attempt < Total
FallsBack == ~error.credential /\ error.reason \in Retryable /\ attempt < Total

Judge ==
    /\ pc = "judge"
    /\ \/ /\ cancelled \/ (error # Nil /\ error.reason = "cancelled")
          /\ outcome' = "cancelled" /\ pc' = "done"
          /\ UNCHANGED <<attempt, attempts, status>>
       \/ /\ ~cancelled /\ error = Nil
          /\ Tried(Failure("connected", FALSE))
          /\ outcome' = "succeeded" /\ pc' = "done"
          /\ status' = IF attempt > 1 THEN "connected" ELSE status
          /\ UNCHANGED attempt
       \/ /\ ~cancelled /\ error # Nil /\ error.reason # "cancelled"
          /\ Tried(error)
          /\ IF FallsBack
             THEN /\ attempt' = attempt + 1 /\ pc' = "try"
                  /\ UNCHANGED <<outcome, status>>
             ELSE /\ outcome' = "failed" /\ pc' = "done"
                  /\ status' = IF Total > 1 THEN "error" ELSE status
                  /\ UNCHANGED attempt
    /\ UNCHANGED <<request, rescanned, created, path, scope, error, wait, cancelled, late, nm,
                   kept>>

-----------------------------------------------------------------------------
(* The environment.                                                         *)

Cancel ==
    /\ ~cancelled /\ pc # "done"
    /\ cancelled' = TRUE
    /\ UNCHANGED <<request, machine, wait, late, nm, result>>

(* NetworkManager makes progress, fails, drops the activation, or another   *)
(* client takes the device over.                                            *)
DeviceMoves ==
    \/ /\ device.state = "preparing"
       /\ \/ device' = [device EXCEPT !.state = "activated"]
          \/ \E reason \in Reported :
               device' = [act |-> 0, state |-> "disconnected", reason |-> reason]
    \/ /\ device.state = "disconnected"
       /\ \E reason \in Reported : device' = [device EXCEPT !.reason = reason]
    \/ \E act \in {3, 4} : device' = [act |-> act, state |-> "activated", reason |-> "none"]

NetworkManager ==
    /\ pc = "verify" /\ events < MaxEvents
    /\ events' = events + 1
    /\ DeviceMoves
    /\ UNCHANGED <<request, machine, wait, cancelled, late, profiles, result>>

(* A credential prompt of this activation ends without an answer. *)
CredentialStop ==
    /\ pc = "verify" /\ scope = "live"
    /\ \E stop \in {"cancelled", "expired"} : scope' = stop
    /\ UNCHANGED <<request, pc, attempt, rescanned, created, path, error, wait, cancelled,
                   late, nm, result>>

Time ==
    /\ pc = "verify"
    /\ \/ wait.pending # Nil /\ ~wait.grace /\ wait' = [wait EXCEPT !.grace = TRUE]
          /\ UNCHANGED late
       \/ ~late /\ late' = TRUE /\ UNCHANGED wait
    /\ UNCHANGED <<request, machine, cancelled, nm, result>>

Worker ==
    \/ Start \/ Try \/ StopCancelled \/ CheckAlreadyActive \/ SavedProfile \/ CreateProfile
    \/ Rescan \/ VerifyStop \/ Sample \/ Observe \/ Cleanup \/ FinishSuccess \/ Judge

Finished == pc = "done" /\ UNCHANGED requestVars

RequestNext == Worker \/ Cancel \/ NetworkManager \/ CredentialStop \/ Time \/ Finished

RequestSpec == RequestInit /\ [][RequestNext]_requestVars

-----------------------------------------------------------------------------
(* Properties.                                                              *)

(* A request that did not succeed leaves none of the profiles its attempts  *)
(* created behind, unless NetworkManager refused the deletion or, for a     *)
(* cancelled one, the activation had been verified; whatever device moves,  *)
(* prompts, deadlines and cancellations ended the attempts (cleanup and the *)
(* rollback ownership verify releases).                                     *)
CreatedProfilesCleaned ==
    pc = "done" /\ outcome # "succeeded" => profiles \cap Own \subseteq kept

(* A second candidate is tried only after a retryable failure that no       *)
(* credential decision caused, at most once, and the summary lists every    *)
(* candidate in order with the outcome of the last one; the cached status   *)
(* settles with the outcome, whichever candidate ended it (connect_inner,   *)
(* finish_success, cleanup).                                                *)
FallbackDiscipline ==
    /\ Len(attempts) <= Total
    /\ Len(attempts) = 2 =>
          attempts[1].reason \in Retryable /\ ~attempts[1].credential
    /\ pc = "done" /\ outcome = "succeeded" =>
          attempts[Len(attempts)].reason = "connected" /\ Len(attempts) = attempt
    /\ pc = "done" /\ outcome = "failed" =>
          Len(attempts) = attempt /\ \A i \in DOMAIN attempts : attempts[i].reason # "connected"
    /\ outcome = "succeeded" => status = "connected"
    /\ outcome = "failed" => status = "error"
=============================================================================
