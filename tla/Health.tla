------------------------------- MODULE Health -------------------------------
(* network.health: NetworkManager's state signals, from the event monitor   *)
(* (nm/events.rs) through the control channel and the fast lane             *)
(* (daemon_runtime/subscriptions.rs) to each consumer's feedback policy     *)
(* (daemon_runtime/health_feedback.rs), beside restarts of NetworkManager   *)
(* and the cached owner scope (nm/mod.rs). One device with one active       *)
(* connection and one VPN; a reason is a member of the table's categories.  *)
EXTENDS Naturals, Sequences, FiniteSets, TLC

CONSTANTS
    NoSignal,       \* model value: nothing
    Scripts,        \* signals NetworkManager emits, in order: [subject, state, reason]
    Consumers,      \* D-Bus clients that may watch network.health
    RivalWindow,    \* HEALTH_FAILURE_CORRELATION_WINDOW, in ticks
    RepeatWindow,   \* the policy's three seconds, in ticks
    ControlRoom,    \* CONTROL_QUEUE_CAPACITY
    MaxTicks,       \* bound: the clock
    MaxStirs        \* bound: restarts, subscriptions and connects

Subjects == {"device", "connection", "vpn"}
Transitions == [subject : Subjects, state : STRING, reason : STRING]
FeedbackKeys == [id : Subjects, state : STRING, reason : STRING]

ASSUME HealthAssumption ==
    /\ RivalWindow \in Nat /\ RepeatWindow \in Nat \ {0} /\ ControlRoom \in Nat \ {0}
    /\ MaxTicks \in Nat /\ MaxStirs \in Nat
    /\ Scripts \subseteq Seq(Transitions)
    /\ NoSignal \notin [key : FeedbackKeys, at : Nat]

VARIABLES
    now,
    peer,           \* the NetworkManager process that owns the bus name
    followed,       \* the one the owner watch has told the runtime of
    peerScope,      \* the cached scope's destination; 0: none
    detailed,       \* latest_detailed_health
    inbox,          \* control channel
    describing,     \* the fast lane: signals submitted with their scope
    described,      \* the event its worker is sending; NoSignal
    consumer,       \* subscription and running connect of each consumer
    lastShown,      \* HealthFeedback.last
    observed,       \* history: what the monitor saw since it cleared its maps
    told,           \* history: notifications recommended to each consumer
    script, stirs   \* what is left of the signals, and the stirs so far

ownerVars == <<peer, followed, peerScope>>
policyVars == <<consumer, lastShown, told>>
inputVars == <<script, stirs>>
healthVars == <<now, ownerVars, detailed, inbox, describing, described, policyVars,
                observed, inputVars>>

-----------------------------------------------------------------------------
(* Classification.                                                          *)

(* A reason stands for each category of the tables, and two for the         *)
(* lifecycle reasons, of which the code calls some benign.                  *)
DeviceReasons ==
    "none" :> "none" @@ "unknown" :> "unknown" @@ "user-requested" :> "user-requested"
    @@ "now-managed" :> "lifecycle" @@ "removed" :> "lifecycle" @@ "carrier" :> "carrier"
    @@ "no-secrets" :> "authentication" @@ "dhcp-failed" :> "address-assignment"

ConnectionReasons ==
    "unknown" :> "unknown" @@ "none" :> "none" @@ "user-disconnected" :> "user-requested"
    @@ "device-disconnected" :> "dependency" @@ "login-failed" :> "authentication"
    @@ "connection-removed" :> "lifecycle"

(* typed_reason: a code the table does not name is "unknown". *)
Category(s) ==
    LET table == IF s.subject = "device" THEN DeviceReasons ELSE ConnectionReasons
    IN IF s.reason \in DOMAIN table THEN table[s.reason] ELSE "unknown"

(* Code 0 is "none" for a device and "unknown" for the other two. *)
CodeZero(s) == s.reason = IF s.subject = "device" THEN "none" ELSE "unknown"

Benign(s) == s.reason = "now-managed"

ExplicitFailure(s) ==
    Category(s) \notin {"none", "unknown", "user-requested"} /\ ~Benign(s)

DeviceKind(state, expected) ==
    CASE state \in {"prepare", "deactivating"} -> "progress"
      [] state = "activated" -> "success"
      [] state = "failed" -> IF expected THEN "expected-lifecycle" ELSE "failure"
      [] state \in {"unmanaged", "disconnected"} /\ expected -> "expected-lifecycle"
      [] OTHER -> NoSignal

ConnectionKind(state, expected) ==
    CASE state \in {"activating", "deactivating"} -> "progress"
      [] state = "activated" -> "success"
      [] state = "deactivated" /\ expected -> "expected-lifecycle"
      [] OTHER -> NoSignal

VpnKind(state, expected) ==
    CASE state = "connect" -> "progress"
      [] state = "activated" -> "success"
      [] state \in {"failed", "disconnected"} ->
           IF expected THEN "expected-lifecycle" ELSE "failure"
      [] OTHER -> NoSignal

Classify(s) ==
    LET expected == Category(s) = "user-requested" \/ Benign(s)
        known == CASE s.subject = "device" -> DeviceKind(s.state, expected)
                   [] s.subject = "connection" -> ConnectionKind(s.state, expected)
                   [] s.subject = "vpn" -> VpnKind(s.state, expected)
    IN IF known # NoSignal THEN known
       ELSE IF ExplicitFailure(s) THEN "failure" ELSE "informational"

(* recent_detailed_device_failure: the age is taken when the connection's   *)
(* signal is described, not when it was observed.                           *)
RecentDeviceFailure(s, owner) ==
    /\ s # NoSignal
    /\ s.owner = owner
    /\ now - s.at <= RivalWindow
    /\ Classify(s) = "failure"
    /\ Category(s) # "unknown"

-----------------------------------------------------------------------------
NoConsumer == [watches |-> FALSE, connecting |-> FALSE]

HealthInit ==
    /\ now = 0 /\ peer = 1 /\ followed = 1 /\ peerScope = 1
    /\ detailed = [u \in Subjects |-> NoSignal]
    /\ inbox = <<>> /\ describing = <<>> /\ described = NoSignal
    /\ consumer = [c \in Consumers |-> [NoConsumer EXCEPT !.watches = TRUE]]
    /\ lastShown = [c \in Consumers |-> NoSignal]
    /\ observed = <<>>
    /\ told = [c \in Consumers |-> <<>>]
    /\ script \in Scripts /\ stirs = 0

HealthTick ==
    /\ now < MaxTicks
    /\ now' = now + 1
    /\ UNCHANGED <<ownerVars, detailed, inbox, describing, described, observed,
                   policyVars, inputVars>>

-----------------------------------------------------------------------------
(* The event monitor.                                                       *)

(* The sender of a signal is whoever owns the name when it is sent. *)
HealthSignal(t) ==
    [subject |-> t.subject, state |-> t.state, reason |-> t.reason, owner |-> peer, at |-> now]

\* Mutant: every signal replaces the detailed one.
RemembersEvery(s) == s = s

Remembers(s) == ~CodeZero(s)

(* notify_health: the maps first, then the listener, whose try_send drops  *)
(* the signal when the control channel is full.                             *)
NotifyHealth ==
    /\ script # <<>>
    /\ script' = Tail(script)
    /\ LET s == HealthSignal(Head(script)) IN
       /\ observed' = Append(observed, s)
       /\ detailed' = IF Remembers(s) THEN [detailed EXCEPT ![s.subject] = s] ELSE detailed
       /\ inbox' = IF Len(inbox) < ControlRoom
                   THEN Append(inbox, [k |-> "signal", s |-> s]) ELSE inbox
    /\ UNCHANGED <<ownerVars, now, describing, described, stirs, policyVars>>

-----------------------------------------------------------------------------
(* NetworkManager's owner and the cached scope.                             *)

Stirs == stirs < MaxStirs /\ stirs' = stirs + 1

(* External: the process behind the bus name is replaced. *)
PeerRestarts ==
    /\ Stirs
    /\ peer' = peer + 1
    /\ UNCHANGED <<now, followed, peerScope, detailed, inbox, describing,
                   described, observed, script, policyVars>>

(* invalidate_owner_state clears the maps, signals of the new owner that    *)
(* came before it included, and drops a scope of another owner.             *)
OwnerChanged ==
    /\ followed # peer
    /\ followed' = peer
    /\ detailed' = [u \in Subjects |-> NoSignal]
    /\ peerScope' = IF peerScope = peer THEN peerScope ELSE 0
    /\ observed' = <<>>
    /\ UNCHANGED <<now, peer, inbox, describing, described, policyVars,
                   inputVars>>

(* scoped(): the owner is looked up before the scope is locked, so the      *)
(* scope a thread installs may be of an owner that has left since.          *)
Scoped ==
    /\ \E owner \in {peer - 1, peer} \ {0, peerScope} : peerScope' = owner
    /\ UNCHANGED <<now, peer, followed, detailed, inbox, describing, described, observed,
                   policyVars, inputVars>>

-----------------------------------------------------------------------------
(* The subscription actor and the fast lane.                                *)

Listens(c) == consumer[c].watches
NextControl == Head(inbox)

(* publish_health_signal: nobody watches, or no scope is cached, and the    *)
(* signal is dropped; otherwise the job takes the cached scope with it.     *)
PublishHealth ==
    /\ inbox # <<>> /\ NextControl.k = "signal"
    /\ inbox' = Tail(inbox)
    /\ describing' = IF peerScope # 0 /\ \E c \in Consumers : Listens(c)
                     THEN Append(describing, [s |-> NextControl.s, scope |-> peerScope])
                     ELSE describing
    /\ UNCHANGED <<ownerVars, now, detailed, described, observed, policyVars, inputVars>>

(* The device a connection's event names, when NetworkManager still answers. *)
DeviceNamed(s) == IF s.subject = "device" THEN {TRUE} ELSE IF s.subject = "vpn" THEN {FALSE}
                  ELSE BOOLEAN

Recommended(s, named, owner) ==
    /\ Classify(s) = "failure"
    /\ ~(/\ s.subject = "connection" /\ named
         /\ RecentDeviceFailure(detailed["device"], owner))

(* The identity the policy finds first is the device's path, if known. *)
FeedbackKey(s, named) ==
    [id |-> IF named THEN "device" ELSE s.subject, state |-> s.state, reason |-> s.reason]

(* History: the device failure that outranks a connection's signal: one     *)
(* with a reason, after which the device gave no other reason.              *)
Rivals(owner) ==
    {i \in DOMAIN observed :
       /\ observed[i].subject = "device" /\ ~CodeZero(observed[i])
       /\ RecentDeviceFailure(observed[i], owner)
       /\ \A j \in i + 1 .. Len(observed) :
            observed[j].subject = "device" => CodeZero(observed[j])}

(* network_health_event: a signal of another owner than the job's scope     *)
(* cannot be described; the event records whether to notify.                *)
DescribeHealth ==
    /\ describing # <<>> /\ described = NoSignal
    /\ describing' = Tail(describing)
    /\ LET s == Head(describing).s
           owner == Head(describing).scope
       IN IF s.owner # owner THEN UNCHANGED described
          ELSE \E named \in DeviceNamed(s) :
                 described' = [s |-> s, notify |-> Recommended(s, named, owner),
                               key |-> FeedbackKey(s, named),
                               outranked |-> /\ named /\ s.subject = "connection"
                                             /\ Rivals(owner) # {}]
    /\ UNCHANGED <<ownerVars, now, detailed, inbox, observed, policyVars, inputVars>>

(* blocking_send waits for room on the channel. *)
SendDescribed ==
    /\ described # NoSignal
    /\ Len(inbox) < ControlRoom
    /\ inbox' = Append(inbox, [k |-> "event", e |-> described])
    /\ described' = NoSignal
    /\ UNCHANGED <<ownerVars, now, detailed, describing, observed, policyVars, inputVars>>

-----------------------------------------------------------------------------
(* The consumer's feedback policy.                                          *)

Duplicate(c, key) ==
    /\ lastShown[c] # NoSignal
    /\ lastShown[c].key = key
    /\ now - lastShown[c].at < RepeatWindow

(* HealthFeedback::project. *)
Projects(c, e) == e.notify /\ ~consumer[c].connecting /\ ~Duplicate(c, e.key)

\* emit_external_to_subscribers
EmitHealth ==
    /\ inbox # <<>> /\ NextControl.k = "event"
    /\ inbox' = Tail(inbox)
    /\ LET e == NextControl.e
           shown == {c \in Consumers : Listens(c) /\ Projects(c, e)}
       IN /\ lastShown' = [c \in Consumers |-> IF c \in shown THEN [key |-> e.key, at |-> now]
                                               ELSE lastShown[c]]
          /\ told' = [c \in Consumers |-> IF c \in shown THEN Append(told[c], [e |-> e, at |-> now])
                                          ELSE told[c]]
    /\ UNCHANGED <<ownerVars, now, detailed, describing, described, consumer, observed,
                   inputVars>>

(* A consumer subscribes, drops off the bus, starts and finishes a connect. *)
WatchHealth(c) ==
    /\ ~Listens(c)
    /\ consumer' = [consumer EXCEPT ![c].watches = TRUE]
    /\ UNCHANGED <<ownerVars, now, detailed, inbox, describing, described, lastShown,
                   observed, told, inputVars>>

(* Control::DropOwner: the policy forgets the owner with its subscriptions. *)
DropHealthOwner(c) ==
    /\ Listens(c)
    /\ Stirs
    /\ consumer' = [consumer EXCEPT ![c] = NoConsumer]
    /\ lastShown' = [lastShown EXCEPT ![c] = NoSignal]
    /\ told' = [told EXCEPT ![c] = <<>>]
    /\ UNCHANGED <<ownerVars, now, detailed, inbox, describing, described, observed,
                   script>>

OwnConnect(c) ==
    /\ Stirs
    /\ consumer' = [consumer EXCEPT ![c].connecting = ~@]
    /\ UNCHANGED <<ownerVars, now, detailed, inbox, describing, described, lastShown,
                   observed, told, script>>

HealthNext ==
    \/ HealthTick \/ PeerRestarts \/ OwnerChanged \/ Scoped
    \/ PublishHealth \/ DescribeHealth \/ SendDescribed \/ EmitHealth \/ NotifyHealth
    \/ \E c \in Consumers : WatchHealth(c) \/ DropHealthOwner(c) \/ OwnConnect(c)

HealthSpec == HealthInit /\ [][HealthNext]_healthVars

-----------------------------------------------------------------------------
(* Properties.                                                              *)

(* A consumer is told to notify about failures only, never about what the   *)
(* user asked for, never twice in a row for one failure within the window,  *)
(* and never about a generic connection failure whose device reported a     *)
(* detailed failure not long before (nm/health.rs, the suppression in       *)
(* network_health_event, and HealthFeedback::project): whatever signals     *)
(* without a reason, restarts and queueing come between.                    *)
NotifiedOnce ==
    \A c \in Consumers : \A i \in DOMAIN told[c] :
        LET n == told[c][i] IN
        /\ Category(n.e.s) # "user-requested"
        /\ ~n.e.outranked
        /\ i > 1 /\ told[c][i - 1].e.key = n.e.key
             => n.at - told[c][i - 1].at >= RepeatWindow
=============================================================================
