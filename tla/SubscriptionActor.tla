-------------------------- MODULE SubscriptionActor --------------------------
(***************************************************************************)
(* The control actor, its subscriptions and the shared refresh             *)
(* (src/daemon_runtime/subscriptions.rs, src/daemon_status.rs), on top of  *)
(* the status observations.                                                *)
(*                                                                         *)
(* NetworkManager's signals reach the actor through a bounded queue; a     *)
(* burst of them starts one refresh after a debounce delay.  The refresh   *)
(* runs as a job on the fast lane, and its payload comes back through the  *)
(* same queue.  Of the shared payloads the Wi-Fi status is modelled.       *)
(***************************************************************************)
EXTENDS StatusObservation, Sequences

CONSTANTS
    Sub,            \* subscriptions, each of one client
    Watching,       \* the ones that watch the Wi-Fi status
    Job,            \* the observer that is the refresh job
    Capacity,       \* CONTROL_QUEUE_CAPACITY
    MaxExternal,    \* bound: other controls sent
    MaxRefused,     \* bound: refresh jobs the fast lane refuses
    MaxPanic        \* bound: refresh jobs that panic

ASSUME ActorAssumption ==
    /\ Watching \subseteq Sub
    /\ Job \in Observer
    /\ Capacity \in Nat \ {0}
    /\ MaxExternal \in Nat /\ MaxRefused \in Nat /\ MaxPanic \in Nat

VARIABLES
    queue,          \* the control queue
    deadline,       \* network_change_deadline is set
    inFlight,       \* RefreshGate.in_flight
    dirty,          \* RefreshGate.dirty
    job,            \* the refresh job on the fast lane
    payload,        \* the status it brings back
    subs,           \* the actor's subscriptions
    client,         \* what each subscription's client is doing
    seen,           \* the last status sent on each subscription
    external, refused, panics   \* bounds used up

actorVars == <<deadline, inFlight, dirty, subs, seen>>
clientVars == <<client>>
jobVars == <<job, payload>>
boundVars == <<external, refused, panics>>
vars == <<world, nmOwner, change, due, calling, generation, epoch, previous,
          revision, value, holder, capture, invalidAt, queue, deadline,
          inFlight, dirty, job, payload, subs, client, seen, external, refused,
          panics>>

NoStatus == [epoch |-> 0, rev |-> 0, status |-> None]
Control(kind, s, p) == [kind |-> kind, sub |-> s, payload |-> p]
Changed == Control("changed", None, NoStatus)

TypeOK ==
    /\ ObservationTypeOK
    /\ Len(queue) <= Capacity
    /\ \A i \in DOMAIN queue : queue[i].kind \in
          {"subscribe", "cancel", "drop", "external", "changed", "refreshed"}
    /\ deadline \in BOOLEAN /\ inFlight \in BOOLEAN /\ dirty \in BOOLEAN
    /\ job \in {"none", "queued", "capturing", "sending"}
    /\ payload \in Publication \union {NoStatus}
    /\ subs \subseteq Sub
    /\ client \in [Sub -> {"new", "asked", "open", "leaving", "closed", "gone"}]
    /\ seen \in [Sub -> Publication \union {NoStatus}]
    /\ external \in 0..MaxExternal /\ refused \in 0..MaxRefused
    /\ panics \in 0..MaxPanic

Init ==
    /\ ObservationInit
    /\ queue = <<>> /\ deadline = FALSE /\ inFlight = FALSE /\ dirty = FALSE
    /\ job = "none" /\ payload = NoStatus
    /\ subs = {}
    /\ client = [s \in Sub |-> "new"]
    /\ seen = [s \in Sub |-> NoStatus]
    /\ external = 0 /\ refused = 0 /\ panics = 0

Room == Len(queue) < Capacity
Send(control) == Room /\ queue' = Append(queue, control)

-----------------------------------------------------------------------------
(* The senders.                                                            *)

\* DaemonRuntime::subscribe; with a full queue it fails and nothing happens.
Subscribe(s) ==
    /\ client[s] = "new"
    /\ Send(Control("subscribe", s, NoStatus))
    /\ client' = [client EXCEPT ![s] = "asked"]
    /\ UNCHANGED <<observationVars, actorVars, jobVars, boundVars>>

\* cancel_subscription.
Unsubscribe(s) ==
    /\ client[s] = "open"
    /\ Send(Control("cancel", s, NoStatus))
    /\ client' = [client EXCEPT ![s] = "leaving"]
    /\ UNCHANGED <<observationVars, actorVars, jobVars, boundVars>>

\* The client of s disconnects: its emitter is closed at once,
Disconnect(s) ==
    /\ client[s] = "open"
    /\ client' = [client EXCEPT ![s] = "closed"]
    /\ UNCHANGED <<observationVars, queue, actorVars, jobVars, boundVars>>

\* and drop_owner waits for room in the queue.
DropOwner(s) ==
    /\ client[s] = "closed"
    /\ Send(Control("drop", s, NoStatus))
    /\ client' = [client EXCEPT ![s] = "gone"]
    /\ UNCHANGED <<observationVars, actorVars, jobVars, boundVars>>

\* Other traffic: emit_external, health signals, owner queries.
SendExternal ==
    /\ external < MaxExternal
    /\ external' = external + 1
    /\ Send(Control("external", None, NoStatus))
    /\ UNCHANGED <<observationVars, actorVars, clientVars, jobVars, refused, panics>>

\* The event callback after invalidate: try_send drops what has no room.
NotifyChanged ==
    /\ calling
    /\ calling' = FALSE
    /\ queue' = IF Room THEN Append(queue, Changed) ELSE queue
    /\ UNCHANGED <<worldVars, due, stateVars, captureVars, invalidAt,
                   actorVars, clientVars, jobVars, boundVars>>

-----------------------------------------------------------------------------
(* The actor.                                                              *)

\* SubscriptionState::watches.
Watches(s) == s \in Watching /\ client[s] \notin {"closed", "gone"}

\* Mutant: a refresh that is asked for while one runs is forgotten.
RequestRefreshOnce(S, busy) ==
    \/ /\ busy
       /\ inFlight' = TRUE /\ dirty' = FALSE /\ UNCHANGED <<job, refused>>
    \/ /\ ~busy /\ \A s \in S : ~Watches(s)
       /\ inFlight' = FALSE /\ dirty' = FALSE /\ UNCHANGED <<job, refused>>
    \/ /\ ~busy /\ \E s \in S : Watches(s)
       /\ inFlight' = TRUE /\ dirty' = FALSE
       /\ job' = "queued" /\ UNCHANGED refused

\* request_shared_refresh for the subscriptions S, with busy the gate's
\* in_flight: it becomes dirty, or a job is submitted if anybody watches.  The
\* fast lane may refuse the job, and the gate does not remember that.
RequestRefresh(S, busy) ==
    \/ /\ busy
       /\ inFlight' = TRUE /\ dirty' = TRUE /\ UNCHANGED <<job, refused>>
    \/ /\ ~busy /\ \A s \in S : ~Watches(s)
       /\ inFlight' = FALSE /\ dirty' = FALSE /\ UNCHANGED <<job, refused>>
    \/ /\ ~busy /\ \E s \in S : Watches(s)
       /\ inFlight' = TRUE /\ dirty' = FALSE
       /\ job' = "queued" /\ UNCHANGED refused
    \/ /\ ~busy /\ \E s \in S : Watches(s)
       /\ refused < MaxRefused /\ refused' = refused + 1
       /\ inFlight' = FALSE /\ dirty' = FALSE /\ UNCHANGED job

Received(kind) == queue # <<>> /\ Head(queue).kind = kind /\ queue' = Tail(queue)

\* add_subscription, and the reply to the client.
AddSubscription ==
    /\ Received("subscribe")
    /\ LET s == Head(queue).sub IN
          /\ subs' = subs \union {s}
          /\ client' = [client EXCEPT ![s] = "open"]
          /\ RequestRefresh(subs \union {s}, inFlight)
    /\ UNCHANGED <<observationVars, deadline, seen, payload, external, panics>>

\* remove_subscription and drop_subscriptions_for_owner.
RemoveSubscription ==
    /\ Received("cancel") \/ Received("drop")
    /\ subs' = subs \ {Head(queue).sub}
    /\ client' = [client EXCEPT ![Head(queue).sub] = "gone"]
    /\ UNCHANGED <<observationVars, deadline, inFlight, dirty, seen, jobVars, boundVars>>

\* A control that is no business of the subscriptions.
HandleExternal ==
    /\ Received("external")
    /\ UNCHANGED <<observationVars, actorVars, clientVars, jobVars, boundVars>>

\* A change sets the deadline of the burst.
HandleChanged ==
    /\ Received("changed")
    /\ deadline' = TRUE
    /\ UNCHANGED <<observationVars, inFlight, dirty, subs, seen, clientVars, jobVars,
                   boundVars>>

\* The debounce delay is over.
Debounced ==
    /\ deadline
    /\ deadline' = FALSE
    /\ RequestRefresh(subs, inFlight)
    /\ UNCHANGED <<observationVars, queue, subs, seen, clientVars, payload, external,
                   panics>>

\* emit_changes: a payload without a status changes nothing.
Emitted(p) ==
    [s \in Sub |-> IF s \in subs /\ Watches(s) /\ p # NoStatus THEN p ELSE seen[s]]

\* complete_shared_refresh: a dirty gate starts the next refresh.
CompleteRefresh ==
    /\ Received("refreshed")
    /\ seen' = Emitted(Head(queue).payload)
    /\ IF dirty
       THEN RequestRefresh(subs, FALSE)
       ELSE inFlight' = FALSE /\ UNCHANGED <<dirty, job, refused>>
    /\ UNCHANGED <<observationVars, deadline, subs, clientVars, payload, external,
                   panics>>

-----------------------------------------------------------------------------
(* The refresh job and the readers.                                        *)

BeginJob ==
    /\ job = "queued"
    /\ BeginCapture(Job)
    /\ job' = "capturing"
    /\ UNCHANGED <<queue, actorVars, clientVars, payload, boundVars>>

\* The payload of a publication.
PublishedByJob == [epoch |-> epoch', rev |-> revision', status |-> capture[Job].seen]

FinishJob ==
    /\ job = "capturing"
    /\ \/ Publish(Job) /\ payload' = PublishedByJob
       \/ Conflict(Job) /\ payload' = NoStatus
    /\ job' = "sending"
    /\ UNCHANGED <<queue, actorVars, clientVars, boundVars>>

\* blocking_send of the payload: the job waits for room.
SendRefreshed ==
    /\ job = "sending"
    /\ Send(Control("refreshed", None, payload))
    /\ job' = "none" /\ payload' = NoStatus
    /\ UNCHANGED <<observationVars, actorVars, clientVars, boundVars>>

\* The job panics: the lane survives, and nobody tells the gate.
PanicJob ==
    /\ job = "capturing"
    /\ panics < MaxPanic
    /\ panics' = panics + 1
    /\ job' = "none"
    /\ holder' = None
    /\ capture' = [capture EXCEPT ![Job] = NoCapture]
    /\ UNCHANGED <<worldVars, signalVars, stateVars, invalidAt, queue,
                   actorVars, clientVars, payload, external, refused>>

Others == <<queue, deadline, inFlight, dirty, job, payload, subs, client, seen,
            external, refused, panics>>

\* call_status on the read lane.
Read(o) ==
    /\ o # Job
    /\ BeginCapture(o) \/ Publish(o) \/ Conflict(o)
    /\ UNCHANGED Others

Capture(o) ==
    /\ ReadStatus(o) \/ CheckCaptureOwner(o)
    /\ UNCHANGED Others

ChangeWorld ==
    /\ ChangeOwner \/ \E v \in Value : ChangeStatus(v)
    /\ UNCHANGED Others

Signal == Invalidate /\ UNCHANGED Others

Client(s) == Subscribe(s) \/ Unsubscribe(s) \/ Disconnect(s) \/ DropOwner(s)

Actor ==
    \/ AddSubscription \/ RemoveSubscription \/ HandleExternal \/ HandleChanged
    \/ CompleteRefresh

Next ==
    \/ \E s \in Sub : Client(s)
    \/ SendExternal \/ Signal \/ NotifyChanged \/ ChangeWorld
    \/ Actor \/ Debounced
    \/ BeginJob \/ FinishJob \/ SendRefreshed \/ PanicJob
    \/ \E o \in Observer : Read(o) \/ Capture(o)

Spec == Init /\ [][Next]_vars

\* The actor, the lane and the callback keep running, and captures end.  The
\* capture mutex is not kept from the job for ever by the readers.
Fairness ==
    /\ WF_vars(Actor) /\ WF_vars(Debounced) /\ WF_vars(Signal)
    /\ WF_vars(NotifyChanged) /\ WF_vars(FinishJob) /\ SF_vars(SendRefreshed)
    /\ SF_vars(BeginJob)
    /\ \A o \in Observer : WF_vars(Capture(o)) /\ WF_vars(holder = o /\ Read(o))

FairSpec == Spec /\ Fairness

-----------------------------------------------------------------------------
(* Properties.                                                             *)

\* A subscriber never sees the status go back: publication identities only
\* grow on a subscription, whatever readers publish between a refresh and its
\* delivery (the serialised captures and the single refresh in flight).
EmissionsOrdered ==
    [][\A s \in Sub : seen'[s] # seen[s] =>
          \/ seen'[s].epoch > seen[s].epoch
          \/ seen'[s].epoch = seen[s].epoch /\ seen'[s].rev > seen[s].rev]_vars

PresentStatus == IF nmOwner = 0 THEN Unavailable ELSE world

\* Bursts are coalesced without losing the final change: every subscriber that
\* stays is eventually shown NetworkManager's last status (the debounce
\* deadline, the dirty gate, the conflict and the later invalidation).
FinalChangeDelivered ==
    <>[](\A s \in subs : Watches(s) => seen[s].status = PresentStatus)

\* The same, as long as the lane refused no refresh and no job panicked.
ChangeDelivered ==
    <>[](refused = 0 /\ panics = 0 =>
            \A s \in subs : Watches(s) => seen[s].status = PresentStatus)
=============================================================================
