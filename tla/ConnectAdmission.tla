-------------------------- MODULE ConnectAdmission --------------------------
(***************************************************************************)
(* The admission policy for Wi-Fi connect attempts                         *)
(* (src/daemon_runtime/admission.rs, ConnectAttemptPolicy).                *)
(*                                                                         *)
(* An attempt names a network identity and a fingerprint of its            *)
(* credentials.  The policy lets one attempt per identity run at a time,   *)
(* asks for new credentials after the saved ones failed, and refuses a     *)
(* fingerprint NetworkManager has just rejected until a delay is over.     *)
(* Every operator below is one critical section of the policy's mutex.     *)
(***************************************************************************)
EXTENDS Integers, FiniteSets

CONSTANTS
    Identity,       \* network identities (network key, or ssid:iface:bssid)
    Credential,     \* credential fingerprints
    Supplied,       \* fingerprints of requests that carry credentials
    Reason          \* failure reasons the runs tell apart

ASSUME SuppliedAssumption == Supplied \subseteq Credential

VARIABLES
    active,         \* active_identities
    stale,          \* stale_credentials
    blocked         \* blocked_until: the <<identity, fingerprint>> pairs whose
                    \* deadline has not passed

admissionVars == <<active, stale, blocked>>

\* Reasons after which the saved credentials of an identity count as stale.
CredentialReason == {"WrongPassword", "PasswordUnavailable", "SecretRequired"}

NoReason == "none"

AdmissionTypeOK ==
    /\ active \subseteq Identity
    /\ stale \subseteq Identity
    /\ blocked \subseteq Identity \X Credential

AdmissionInit ==
    /\ active = {}
    /\ stale = {}
    /\ blocked = {}

\* Mutant: the running attempt of the identity is overlooked.
VerdictOverlapping(i, c) ==
    IF i \in stale /\ c \notin Supplied THEN "CredentialsRequired"
    ELSE IF <<i, c>> \in blocked THEN "RetryAfter"
    ELSE "Admitted"

\* What admit answers.  A refusal changes nothing: the deadlines it purges
\* have passed already and are not in blocked any more.
Verdict(i, c) ==
    IF i \in active THEN "Active"
    ELSE IF i \in stale /\ c \notin Supplied THEN "CredentialsRequired"
    ELSE IF <<i, c>> \in blocked THEN "RetryAfter"
    ELSE "Admitted"

Admit(i, c) ==
    /\ Verdict(i, c) = "Admitted"
    /\ active' = active \union {i}
    /\ UNCHANGED <<stale, blocked>>

\* ConnectAttemptGuard::drop of a guard that was never finished.
Abandon(i) ==
    /\ active' = active \ {i}
    /\ UNCHANGED <<stale, blocked>>

\* ConnectAttemptGuard::finish.
Complete(i, c, reason, succeeded) ==
    /\ active' = active \ {i}
    /\ stale' = IF succeeded THEN stale \ {i}
                ELSE IF reason \in CredentialReason THEN stale \union {i}
                ELSE stale
    /\ blocked' = IF succeeded THEN {b \in blocked : b[1] # i}
                  ELSE IF reason = "WrongPassword" THEN blocked \union {<<i, c>>}
                  ELSE blocked

\* WRONG_PASSWORD_RETRY_DELAY is over for one fingerprint.
RetryDelayOver(b) ==
    /\ b \in blocked
    /\ blocked' = blocked \ {b}
    /\ UNCHANGED <<active, stale>>
=============================================================================
