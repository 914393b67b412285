---------------------------- MODULE SecretAgent ----------------------------
(* The SecretAgent that NetworkManager asks for credentials: authorization  *)
(* of the caller, the registry of in-flight and prompted requests, answers  *)
(* from frontends, the one-shot SaveSecrets handoff, the activation that    *)
(* owns a request's time budget, the owner watch with its registration, and *)
(* the queue of durable saves that starts after a reply was dispatched.     *)
(* NetworkManager's successive bus owners are 1, 2, ...; 0 is no owner.     *)
EXTENDS Naturals, FiniteSets

CONSTANTS Requests, Paths, Settings, Frontends, Activations, Policies,
          Scenarios, Handoffs, Capacity, NONE

ASSUME SecretBounds ==
    /\ Requests \subseteq Nat /\ IsFiniteSet(Requests)
    /\ Handoffs \in Nat \ {0} /\ Capacity \in Nat \ {0}
    /\ NONE \notin Requests /\ \A owners \in SUBSET Frontends : owners # NONE
    /\ \A sc \in Scenarios : sc.calls \in Nat /\ sc.moves \in Nat

VARIABLES
    busOwner, born,   \* owner of NetworkManager's name on the bus (external)
    nmOwner,     \* PendingRegistry.nm_owner
    watched, registering, registered,   \* the owner watch
    req,         \* one record per GetSecrets call
    inflight,    \* PendingRegistry.inflight: key -> request
    pending,     \* PendingRegistry.requests: request -> frontends that may answer
    channel,     \* the mpsc channel behind a pending entry
    session, staging, staged,   \* the SaveSecrets handoff
    acts,        \* activation::State per activation
    ticket, save, writer,       \* persistence tickets and the durable-write queue
    shown,       \* wifi.secret events emitted for a request
    moves, scenario   \* what NetworkManager does: scenario.calls GetSecrets calls with
                      \* scenario.flags, and at most scenario.moves calls and changes
                      \* of scenario.kinds

bus == <<busOwner, born>>
watch == <<watched, registering, registered>>
handoff == <<session, staging, staged>>
saves == <<ticket, save, writer>>
vars == <<bus, nmOwner, watch, req, inflight, pending, channel,
          handoff, acts, saves, shown, moves, scenario>>

Keys == Paths \X Settings
Signal(kind) == [kind |-> kind, save |-> FALSE]
CancelMsg == Signal("cancel")
Answers == [kind : {"values", "partial"}, save : BOOLEAN] \cup {CancelMsg}

Idle == [pc |-> "idle", key |-> NONE, owner |-> 0, new |-> FALSE, interact |-> FALSE,
         policy |-> NONE, act |-> NONE, cancelled |-> FALSE, late |-> FALSE,
         source |-> 0, save |-> FALSE, gone |-> FALSE]
(* Two fields are history: source, the stamp of the staged values a request *)
(* was given, and gone, that after its last check NetworkManager asked for, *)
(* cancelled or deleted the profile's secrets before they were stored.      *)

Init ==
    /\ busOwner = 1 /\ born = 1 /\ nmOwner = 0
    /\ watched = 0 /\ registering = NONE /\ registered = NONE
    /\ req = [r \in Requests |-> Idle]
    /\ inflight = [k \in Keys |-> NONE]
    /\ pending = [r \in Requests |-> NONE]
    /\ channel = [r \in Requests |-> Signal("none")]
    /\ session = {} /\ staging = NONE /\ staged = 0
    /\ acts = [a \in Activations |-> [state |-> "none", owner |-> 0, path |-> NONE,
                                      time |-> 0, failure |-> NONE, missing |-> FALSE]]
    /\ ticket = [r \in Requests |-> "none"]
    /\ save = [r \in Requests |-> "none"]
    /\ writer = NONE
    /\ shown = [r \in Requests |-> {}]
    /\ moves = 0 /\ scenario \in Scenarios

-----------------------------------------------------------------------------
(* Requests, their keys and the registry.                                   *)

Path(r) == req[r].key[1]
Setting(r) == req[r].key[2]
Pending == {r \in Requests : pending[r] # NONE}
AtKey(k) == {r \in Pending : req[r].key = k}
AtPath(p) == {r \in Pending : Path(r) = p}

Emit(rs, event) ==
    shown' = [r \in Requests |-> IF r \in rs THEN shown[r] \cup {event} ELSE shown[r]]

(* The cancelled flag of every request in rs is stored. *)
Flagged(rs) ==
    [r \in Requests |-> IF r \in rs THEN [req[r] EXCEPT !.cancelled = TRUE] ELSE req[r]]

(* Requests past their last check whose profile p NetworkManager turns to. *)
Superseded(rs, p) ==
    LET Overtaken(q) == /\ rs[q].pc \in {"dispatch", "done"}
                        /\ rs[q].save /\ rs[q].key[1] = p
                        /\ "stored" \notin shown[q]
    IN  [q \in Requests |-> [rs[q] EXCEPT !.gone = rs[q].gone \/ Overtaken(q)]]

(* Registry entries in rs are removed; their senders deliver msg or drop. *)
Removed(rs) == [r \in Requests |-> IF r \in rs THEN NONE ELSE pending[r]]
Sent(rs, msg) == [r \in Requests |-> IF r \in rs THEN msg ELSE channel[r]]

\* Mutant: a request has no deadline of its own.
ExpiredWithActivation(r) == req[r].act # NONE /\ acts[req[r].act].time >= 1

(* activation::State::live and the request's own and inherited deadlines. *)
ActLive(a) == acts[a].state = "live" /\ acts[a].time < 2 /\ acts[a].failure = NONE
Expired(r) == req[r].late \/ (req[r].act # NONE /\ acts[req[r].act].time >= 1)
Live(r) == /\ ~req[r].cancelled /\ ~Expired(r)
           /\ req[r].act # NONE => ActLive(req[r].act)

(* activation::State::stop: the first reason stays. *)
Stopped(a, reason) ==
    IF a # NONE /\ acts[a].failure = NONE THEN [acts EXCEPT ![a].failure = reason] ELSE acts

(* ensure_delivery_live: its verdict, and what it does to the activation. *)
Verdict(r) ==
    CASE req[r].cancelled -> "cancelled"
      [] ~req[r].cancelled /\ req[r].owner # nmOwner -> "stale"
      [] ~req[r].cancelled /\ req[r].owner = nmOwner /\ Expired(r) -> "expired"
      [] OTHER -> IF req[r].act # NONE /\ ~ActLive(req[r].act) THEN "ended" ELSE "ok"
Deliverable(r) == Verdict(r) = "ok"
AfterVerdict(r) == IF Verdict(r) = "expired" THEN Stopped(req[r].act, "expired") ELSE acts

(* A request that is over keeps only what later calls or the save read. *)
Ended(r, pc) ==
    IF pc = "failed" THEN [Idle EXCEPT !.pc = pc, !.key = req[r].key, !.source = req[r].source]
    ELSE [req[r] EXCEPT !.pc = pc, !.new = FALSE, !.act = NONE, !.policy = NONE, !.late = FALSE]
Step(r, pc) ==
    req' = [req EXCEPT ![r] = IF pc \in {"failed", "done"} THEN Ended(r, pc)
                              ELSE [@ EXCEPT !.pc = pc]]

\* Mutant: a late guard removes whatever is registered for its key.
DropGuardsBlindly(r) ==
    /\ inflight' = [inflight EXCEPT ![req[r].key] = NONE]
    /\ pending' = Removed({r})

(* The worker returns: both guards drop. A late guard never removes the     *)
(* registration that replaced it.                                           *)
DropGuards(r) ==
    /\ inflight' = [k \in Keys |-> IF k = req[r].key /\ inflight[k] = r THEN NONE
                                   ELSE inflight[k]]
    /\ pending' = Removed({r})

Leave(r) ==
    /\ DropGuards(r)
    /\ Step(r, "failed")
    /\ channel' = Sent({r}, Signal("none"))
    /\ UNCHANGED <<bus, nmOwner, watch, handoff, saves>>

-----------------------------------------------------------------------------
(* GetSecrets.                                                              *)

(* activation::find for the owner and profile identity. *)
Find(o, p) ==
    LET found == {a \in Activations : /\ acts[a].state = "live"
                                      /\ acts[a].owner = o /\ acts[a].path = p}
    IN  IF found = {} THEN NONE ELSE CHOOSE a \in found : TRUE

\* Mutant: only saves that wait for the writer are invalidated.
InvalidatedQueued(p) ==
    [r \in Requests |-> IF ticket[r] = "held" /\ Path(r) = p /\ save[r] = "queued"
                        THEN "cancelled" ELSE ticket[r]]

(* persistence::invalidate. *)
Invalidated(p) ==
    [r \in Requests |-> IF ticket[r] = "held" /\ Path(r) = p THEN "cancelled" ELSE ticket[r]]

(* authorize, then prepare: only the sender that owns the name both on the  *)
(* bus and in the registry is served, and a new call for a profile          *)
(* invalidates its unfinished saves.                                        *)
GetSecrets(r) ==
    /\ req[r].pc = "idle" /\ r <= scenario.calls
    /\ \A q \in Requests : q < r => req[q].pc # "idle"
    /\ \E k \in Keys, o \in 1 .. born, flags \in scenario.flags, policy \in Policies :
         IF o = busOwner /\ nmOwner = o
         THEN /\ req' = [Superseded(req, k[1]) EXCEPT ![r] =
                    [Idle EXCEPT !.pc = "authorized", !.key = k, !.owner = o, !.new = "new" \in flags,
                                 !.interact = "interact" \in flags, !.policy = policy,
                                 !.act = Find(o, k[1])]]
              /\ ticket' = Invalidated(k[1])
         ELSE /\ Step(r, "failed")
              /\ UNCHANGED ticket
    /\ UNCHANGED <<bus, nmOwner, watch, inflight, pending, channel,
                   handoff, acts, save, writer, shown>>

(* InflightRegistration::new: one lock region that cancels the request      *)
(* registered for the same key and takes its place.                         *)
Begin(r) ==
    LET k == req[r].key
        displaced == {q \in Requests : inflight[k] = q}
    IN  /\ req[r].pc = "authorized" /\ req[r].owner = nmOwner
        /\ req' = [Flagged(displaced) EXCEPT ![r].pc = "lookup"]
        /\ pending' = Removed(AtKey(k))
        /\ channel' = Sent(AtKey(k), CancelMsg)
        /\ Emit(AtKey(k), "cancelled")
        /\ inflight' = [inflight EXCEPT ![k] = r]
        /\ UNCHANGED <<bus, nmOwner, watch, handoff, acts, saves>>

BeginRefused(r) ==
    /\ req[r].pc = "authorized" /\ req[r].owner # nmOwner
    /\ Step(r, "failed")
    /\ UNCHANGED <<bus, nmOwner, watch, inflight, pending, channel,
                   handoff, acts, saves, shown>>

\* Mutant: values another NetworkManager staged are taken.
MatchingAnyOwner(r) == {e \in session : e.path = Path(r) /\ Setting(r) \in e.settings}

(* resolve_secret_request, first half: a fresh request clears the handoff   *)
(* of its profile, any other takes the values staged for its owner, profile *)
(* and setting. Taking removes them.                                        *)
Matching(r) == {e \in session : /\ e.owner = req[r].owner /\ e.path = Path(r)
                                /\ Setting(r) \in e.settings}
Emptied(e, s) ==
    IF e.settings = {s} THEN {} ELSE {[e EXCEPT !.settings = @ \ {s}]}

Lookup(r) ==
    /\ req[r].pc = "lookup" /\ Deliverable(r)
    /\ IF req[r].new
       THEN /\ session' = {e \in session : e.path # Path(r)}
            /\ Step(r, "decide")
       ELSE /\ session' = (session \ Matching(r))
                             \cup UNION {Emptied(e, Setting(r)) : e \in Matching(r)}
            /\ req' = [req EXCEPT ![r].pc = "decide",
                         ![r].source = IF Matching(r) = {} THEN 0
                                       ELSE (CHOOSE e \in Matching(r) : TRUE).stamp]
    /\ UNCHANGED <<bus, nmOwner, watch, inflight, pending, channel,
                   staging, staged, acts, saves, shown>>

(* Second half, and wait_for_secret_response until the prompt: complete     *)
(* values are returned, otherwise interaction must be allowed and the       *)
(* frontends subscribed at this moment are the ones that may answer. Staged *)
(* values may cover only some of the requested names, and the connection    *)
(* NetworkManager sent may already hold them.                               *)
Complete(r) ==
    /\ ~req[r].new
    /\ Step(r, "reply")
    /\ inflight' = [k \in Keys |-> IF inflight[k] = r THEN NONE ELSE inflight[k]]
    /\ UNCHANGED <<pending, channel, acts>>

Interact(r, owners) ==
    /\ req[r].interact
    /\ acts' = IF req[r].act = NONE THEN acts
               ELSE [acts EXCEPT ![req[r].act].missing = (owners = {})]
    /\ IF owners = {}
       THEN /\ Step(r, "failed") /\ DropGuards(r) /\ UNCHANGED channel
       ELSE /\ req' = [req EXCEPT ![r].pc = "publish", ![r].interact = FALSE, ![r].new = FALSE]
            /\ pending' = [Removed(AtKey(req[r].key)) EXCEPT ![r] = owners]
            /\ channel' = [Sent(AtKey(req[r].key), CancelMsg) EXCEPT ![r] = Signal("open")]
            /\ UNCHANGED inflight

Decide(r) ==
    /\ req[r].pc = "decide" /\ Deliverable(r)
    /\ \/ Complete(r)
       \/ \E owners \in SUBSET Frontends : Interact(r, owners)
       \/ /\ ~req[r].interact
          /\ Step(r, "failed") /\ DropGuards(r) /\ UNCHANGED <<channel, acts>>
    /\ UNCHANGED <<bus, nmOwner, watch, handoff, saves, shown>>

(* The prompt is published under the registry lock. *)
Publish(r) ==
    /\ req[r].pc = "publish"
    /\ pending[r] # NONE /\ Live(r)
    /\ Step(r, "receive")
    /\ Emit({r}, "requested")
    /\ UNCHANGED <<bus, nmOwner, watch, inflight, pending, channel,
                   handoff, acts, saves>>

PublishRefused(r) ==
    /\ req[r].pc = "publish"
    /\ pending[r] = NONE \/ ~Live(r)
    /\ Leave(r)
    /\ acts' = AfterVerdict(r)
    /\ UNCHANGED shown

(* receive_live_response and apply_secret_response. *)
Receive(r) ==
    /\ req[r].pc = "receive" /\ Deliverable(r)
    /\ channel[r] \in Answers
    /\ DropGuards(r)
    /\ LET m == channel[r]
           ok == m.kind = "values"
       IN  /\ acts' = IF m.kind = "cancel" THEN Stopped(req[r].act, "cancelled") ELSE acts
           /\ IF ok THEN req' = [req EXCEPT ![r].pc = "reply", ![r].save = m.save]
              ELSE Step(r, "failed")
    /\ channel' = Sent({r}, Signal("none"))
    /\ UNCHANGED <<bus, nmOwner, watch, handoff, saves, shown>>

(* A liveness check fails while the request waits for its answer. A sender  *)
(* dropped without an answer only follows a request that is not live.       *)
Retire(r) ==
    /\ req[r].pc = "receive" /\ ~Deliverable(r)
    /\ Leave(r)
    /\ Emit({r}, "cancelled")
    /\ acts' = AfterVerdict(r)

(* A liveness check fails before there is a prompt. *)
Abandon(r) ==
    /\ req[r].pc \in {"lookup", "decide"} /\ ~Deliverable(r)
    /\ Leave(r)
    /\ acts' = AfterVerdict(r)
    /\ UNCHANGED shown

(* The last check, then the reply; a save takes its ticket before dispatch. *)
Reply(r) ==
    /\ req[r].pc = "reply"
    /\ IF Deliverable(r)
       THEN /\ Step(r, "dispatch")
            /\ ticket' = [ticket EXCEPT ![r] = IF req[r].save THEN "held" ELSE @]
            /\ UNCHANGED <<acts, shown>>
       ELSE /\ Step(r, "failed")
            /\ Emit({r}, "cancelled")
            /\ acts' = AfterVerdict(r)
            /\ UNCHANGED ticket
    /\ UNCHANGED <<bus, nmOwner, watch, inflight, pending, channel,
                   handoff, save, writer>>

-----------------------------------------------------------------------------
(* after_reply and persist: the durable save runs only after dispatch.      *)

Saving == {q \in Requests : save[q] \in {"queued", "writing"}}

Dispatch(r) ==
    /\ req[r].pc = "dispatch"
    /\ Step(r, "done")
    /\ IF req[r].owner # nmOwner
       THEN /\ ticket' = [ticket EXCEPT ![r] = "none"]
            /\ UNCHANGED <<shown, save>>
       ELSE LET full == Cardinality(Saving) >= Capacity
            IN  /\ shown' = [shown EXCEPT ![r] = @ \cup {"delivered"}
                               \cup (IF req[r].save /\ full THEN {"failed"} ELSE {})]
                /\ save' = [save EXCEPT ![r] = IF ~req[r].save THEN @
                                               ELSE IF full THEN "over" ELSE "queued"]
                /\ ticket' = [ticket EXCEPT ![r] = IF full THEN "none" ELSE @]
    /\ UNCHANGED <<bus, nmOwner, watch, inflight, pending, channel,
                   handoff, acts, writer>>

(* The save returns and drops its ticket. *)
Over(r, event) ==
    /\ save' = [save EXCEPT ![r] = "over"]
    /\ ticket' = [ticket EXCEPT ![r] = "none"]
    /\ Emit({r}, event)

(* The writer lock is granted, or the wait for it times out. *)
Write(r) ==
    /\ save[r] = "queued" /\ writer = NONE
    /\ IF ticket[r] = "cancelled" \/ req[r].owner # nmOwner
       THEN Over(r, "failed") /\ UNCHANGED writer
       ELSE /\ save' = [save EXCEPT ![r] = "writing"]
            /\ writer' = r /\ UNCHANGED <<ticket, shown>>
    /\ UNCHANGED <<bus, nmOwner, watch, req, inflight, pending, channel,
                   handoff, acts>>

WriteExpired(r) ==
    /\ save[r] = "queued" /\ writer # NONE
    /\ Over(r, "failed")
    /\ UNCHANGED <<bus, nmOwner, watch, req, inflight, pending, channel,
                   handoff, acts, writer>>

(* storage::confirm rechecks the ticket, the request and the owner around   *)
(* every call it makes, the last time after the commit; it may fail anyway. *)
Written(r) ==
    /\ save[r] = "writing"
    /\ \E stored \in BOOLEAN :
         /\ stored => /\ ticket[r] = "held" /\ ~req[r].cancelled
                      /\ req[r].owner = nmOwner /\ req[r].owner = busOwner
         /\ Over(r, IF stored THEN "stored" ELSE "failed")
    /\ writer' = NONE
    /\ UNCHANGED <<bus, nmOwner, watch, req, inflight, pending, channel,
                   handoff, acts>>

-----------------------------------------------------------------------------
(* The other SecretAgent methods.                                           *)

Authorized(o) == o = busOwner /\ nmOwner = o

CancelGetSecrets ==
    \E k \in Keys :
      /\ Authorized(busOwner) /\ busOwner # 0
      /\ session' = {e \in session : e.path # k[1]}
      /\ ticket' = Invalidated(k[1])
      /\ req' = Superseded(Flagged({q \in Requests : inflight[k] = q}), k[1])
      /\ pending' = Removed(AtKey(k))
      /\ channel' = Sent(AtKey(k), CancelMsg)
      /\ Emit(AtKey(k), "cancelled")
      /\ UNCHANGED <<bus, nmOwner, watch, inflight, staging, staged,
                     acts, save, writer>>

DeleteSecrets ==
    \E p \in Paths :
      LET cancelled == AtPath(p)
          flagged == {q \in Requests : \E k \in Keys : k[1] = p /\ inflight[k] = q}
      IN  /\ Authorized(busOwner) /\ busOwner # 0
          /\ session' = {e \in session : e.path # p}
          /\ ticket' = Invalidated(p)
          /\ req' = Superseded(Flagged(flagged), p)
          /\ pending' = Removed(cancelled)
          /\ channel' = Sent(cancelled, CancelMsg)
          /\ Emit(cancelled, "cancelled")
          /\ UNCHANGED <<bus, nmOwner, watch, inflight, staging, staged,
                         acts, save, writer>>

(* save_secrets checks the owner, then stages; the owner may change between. *)
SaveSecrets ==
    /\ staging = NONE /\ Authorized(busOwner) /\ busOwner # 0
    /\ \E p \in Paths, ss \in SUBSET Settings :
         staging' = [owner |-> busOwner, path |-> p, settings |-> ss]
    /\ UNCHANGED <<bus, nmOwner, watch, req, inflight, pending, channel,
                   session, staged, acts, saves, shown>>

(* session::stage: replaces the profile's entries and evicts the one that   *)
(* expires first when the handoff is full.                                  *)
Evicted(es) ==
    IF Cardinality(es) < Handoffs THEN es
    ELSE es \ {CHOOSE e \in es : \A f \in es : e.stamp <= f.stamp}

Stage ==
    /\ staging # NONE
    /\ LET kept == {e \in session : e.path # staging.path}
       IN  session' = IF staging.settings = {} THEN kept
                      ELSE Evicted(kept) \cup
                           {[owner |-> staging.owner, path |-> staging.path,
                             settings |-> staging.settings, stamp |-> staged + 1]}
    /\ staged' = staged + 1
    /\ staging' = NONE
    /\ UNCHANGED <<bus, nmOwner, watch, req, inflight, pending, channel,
                   acts, saves, shown>>

ExpireHandoff ==
    /\ \E e \in session : session' = session \ {e}
    /\ UNCHANGED <<bus, nmOwner, watch, req, inflight, pending, channel,
                   staging, staged, acts, saves, shown>>

-----------------------------------------------------------------------------
(* Frontends: wifi.secret.provide.                                          *)

(* storage::Policy::rejection. *)
Rejected(r, keep) ==
    \/ ~keep /\ req[r].policy = "persistent"
    \/ keep /\ req[r].policy = "agent-owned"

(* provide: an authorized answer removes the entry; only a live request is  *)
(* sent the answer, otherwise the sender is dropped.                        *)
Provide(f, r) ==
    \E m \in Answers :
      /\ pending[r] # NONE /\ f \in pending[r]
      /\ m.kind = "cancel" \/ ~(Live(r) /\ Rejected(r, m.save))
      /\ pending' = Removed({r})
      /\ IF Live(r)
         THEN channel' = Sent({r}, m)
         ELSE channel' = Sent({r}, Signal("closed"))
      /\ UNCHANGED <<bus, nmOwner, watch, req, inflight, handoff, acts,
                     saves, shown>>

-----------------------------------------------------------------------------
(* The activation that owns a request's time budget (activation.rs).        *)

Finished(a, reason) ==
    [acts[a] EXCEPT !.state = "finished", !.time = 0, !.missing = FALSE,
                    !.failure = IF @ = NONE THEN reason ELSE @]

StartActivation(a) ==
    /\ acts[a].state = "none" /\ busOwner # 0
    /\ \E p \in Paths :
         acts' = [b \in Activations |->
                    IF b = a
                    THEN [acts[a] EXCEPT !.state = "live", !.owner = busOwner, !.path = p]
                    ELSE IF b = Find(busOwner, p)
                    THEN Finished(b, "cancelled")
                    ELSE acts[b]]
    /\ UNCHANGED <<bus, nmOwner, watch, req, inflight, pending, channel,
                   handoff, saves, shown>>

PendingCredentials(a) ==
    {r \in Requests : req[r].act = a /\ req[r].pc \notin {"failed", "dispatch", "done"}}

(* The verifier polls State::error, which enforces the credential budget    *)
(* while a request is still unanswered.                                     *)
VerifierCheck(a) ==
    /\ acts[a].state = "live" /\ acts[a].time >= 1 /\ PendingCredentials(a) # {}
    /\ acts[a].failure = NONE
    /\ acts' = Stopped(a, "expired")
    /\ UNCHANGED <<bus, nmOwner, watch, req, inflight, pending, channel,
                   handoff, saves, shown>>

(* NetworkManager ended the activation for want of a password. *)
ActivationError(a) ==
    /\ acts[a].state = "live" /\ acts[a].missing /\ acts[a].failure = NONE
    /\ acts' = Stopped(a, "agent-unavailable")
    /\ UNCHANGED <<bus, nmOwner, watch, req, inflight, pending, channel,
                   handoff, saves, shown>>

FinishActivation(a) ==
    /\ acts[a].state = "live"
    /\ acts' = [acts EXCEPT ![a] = Finished(a, NONE)]
    /\ UNCHANGED <<bus, nmOwner, watch, req, inflight, pending, channel,
                   handoff, saves, shown>>

(* Time: the credential deadline, then the activation's own. *)
ActivationTime(a) ==
    /\ acts[a].state = "live" /\ acts[a].time < 2
    /\ acts' = [acts EXCEPT ![a].time = @ + 1]
    /\ UNCHANGED <<bus, nmOwner, watch, req, inflight, pending, channel,
                   handoff, saves, shown>>

RequestTime(r) ==
    /\ req[r].pc \in {"lookup", "decide", "publish", "receive", "reply"}
    /\ ~req[r].late
    /\ req' = [req EXCEPT ![r].late = TRUE]
    /\ UNCHANGED <<bus, nmOwner, watch, inflight, pending, channel,
                   handoff, acts, saves, shown>>

-----------------------------------------------------------------------------
(* watch_network_manager: registration follows the bus owner.               *)

ReplaceNm ==
    /\ \/ /\ busOwner # 0 /\ busOwner' = 0 /\ UNCHANGED born
       \/ /\ busOwner' = born + 1 /\ born' = born + 1
    /\ UNCHANGED <<nmOwner, watch, req, inflight, pending, channel, handoff,
                   acts, saves, shown>>

(* change_network_manager_owner. *)
ChangeOwner(o) ==
    /\ nmOwner' = o
    /\ registered' = NONE
    /\ req' = Flagged({q \in Requests : \E k \in Keys : inflight[k] = q})
    /\ inflight' = [k \in Keys |-> NONE]
    /\ pending' = Removed(Pending)
    /\ channel' = Sent(Pending, CancelMsg)
    /\ Emit(Pending, "cancelled")
    /\ session' = {}

(* One iteration of the loop that sees a new owner: the call in flight is   *)
(* dropped and a registration with the new owner starts.                    *)
WatchChange ==
    /\ busOwner # watched
    /\ ChangeOwner(busOwner)
    /\ watched' = busOwner
    /\ registering' = IF busOwner = 0 THEN NONE ELSE busOwner
    /\ UNCHANGED <<bus, staging, staged, acts, saves>>

RegistrationFinished ==
    /\ registering # NONE /\ busOwner = watched
    /\ \E ok \in BOOLEAN :
         registered' = IF ok /\ nmOwner = watched THEN registering ELSE registered
    /\ registering' = NONE
    /\ UNCHANGED <<bus, nmOwner, watched, req, inflight,
                   pending, channel, handoff, acts, saves, shown>>

RetryRegistration ==
    /\ watched # 0 /\ busOwner = watched /\ registering = NONE /\ registered = NONE
    /\ registering' = watched
    /\ UNCHANGED <<bus, nmOwner, watched, registered, req,
                   inflight, pending, channel, handoff, acts, saves, shown>>

WatchInterrupted ==
    /\ ChangeOwner(0)
    /\ watched' = 0 /\ registering' = NONE
    /\ UNCHANGED <<bus, staging, staged, acts, saves>>

-----------------------------------------------------------------------------
RequestStep(r) ==
    \/ Begin(r) \/ BeginRefused(r) \/ Lookup(r) \/ Decide(r) \/ Publish(r)
    \/ PublishRefused(r) \/ Receive(r) \/ Retire(r) \/ Abandon(r)
    \/ Reply(r) \/ Dispatch(r)

SaveStep(r) == Write(r) \/ WriteExpired(r) \/ Written(r)

WatchStep == WatchChange \/ RegistrationFinished \/ RetryRegistration

(* What NetworkManager and the connect workers do unasked.                  *)
Move ==
    \/ "activation" \in scenario.kinds /\ \E a \in Activations :
          StartActivation(a) \/ ActivationError(a) \/ FinishActivation(a)
    \/ "cancel" \in scenario.kinds /\ CancelGetSecrets
    \/ "delete" \in scenario.kinds /\ DeleteSecrets
    \/ "save" \in scenario.kinds /\ SaveSecrets
    \/ "owner" \in scenario.kinds /\ (ReplaceNm \/ WatchInterrupted)

Internal ==
    \/ \E r \in Requests : GetSecrets(r) \/ RequestStep(r) \/ SaveStep(r) \/ RequestTime(r)
    \/ \E f \in Frontends, r \in Requests : Provide(f, r)
    \/ \E a \in Activations : VerifierCheck(a) \/ ActivationTime(a)
    \/ Stage \/ ExpireHandoff \/ WatchStep

Next ==
    /\ UNCHANGED scenario
    /\ \/ Internal /\ UNCHANGED moves
       \/ moves < scenario.moves /\ moves' = moves + 1 /\ Move

Spec == Init /\ [][Next]_vars

(* Some worker or deadline keeps making progress, and the watch loop has a  *)
(* periodic tick. Each request takes finitely many steps, so no request can *)
(* starve another.                                                          *)
FairSpec ==
    /\ Spec
    /\ WF_vars(/\ \E r \in Requests : RequestStep(r) \/ RequestTime(r)
               /\ UNCHANGED <<moves, scenario>>)
    /\ WF_vars(WatchStep /\ UNCHANGED <<moves, scenario>>)

-----------------------------------------------------------------------------
(* Properties.                                                              *)

(* A prompt in the registry belongs to the current NetworkManager, has not  *)
(* been cancelled, and is the one in-flight request of its connection and   *)
(* setting: neither a replaced request nor a previous owner's can be shown  *)
(* or answered (daemon_secret.rs, PendingRegistry).                         *)
PromptsAreCurrent ==
    \A r \in Pending : /\ inflight[req[r].key] = r
                       /\ ~req[r].cancelled
                       /\ req[r].owner = nmOwner
                       /\ req[r].pc \in {"publish", "receive"}

(* Prompts are current, and frontends see their events in order: never a    *)
(* prompt after its cancellation, nor a delivery after a cancellation or a  *)
(* newer owner's arrival ("requested" and cancellation share the registry   *)
(* lock, and delivery is reported last).                                    *)
PromptsInOrder ==
    [][/\ PromptsAreCurrent'
       /\ \A r \in Requests :
            /\ "requested" \in shown'[r] \ shown[r] => shown[r] = {}
            /\ "delivered" \in shown'[r] \ shown[r] =>
                 "cancelled" \notin shown[r] /\ req[r].owner = nmOwner
            /\ "cancelled" \in shown'[r] \ shown[r] => "delivered" \notin shown[r]]_vars

(* A staged secret is handed over at most once per setting, and only to the *)
(* NetworkManager owner that staged it, for the profile it was staged for,  *)
(* although staging may finish after the owner changed (session.rs,         *)
(* save_secrets).                                                           *)
HandoffOnce ==
    [][\A r \in Requests : req'[r].source # req[r].source =>
         /\ \E e \in session : e.stamp = req'[r].source /\ e.owner = req[r].owner
                               /\ e.path = Path(r) /\ Setting(r) \in e.settings
         /\ \A e \in session' : e.stamp = req'[r].source => Setting(r) \notin e.settings
         /\ \A q \in Requests \ {r} : req[q].source = req'[r].source => Setting(q) # Setting(r)]_vars

(* A save reported as stored followed its delivery, and nothing             *)
(* NetworkManager asked of the profile after the reply's last check has     *)
(* overtaken it: a later request, cancellation or deletion stops the save   *)
(* wherever it is, before dispatch, in the queue or inside the write        *)
(* (persistence.rs, ticket and invalidate). The queue keeps its bound and   *)
(* the writer lock admits one save at a time.                               *)
SavesAreCurrent ==
    /\ \A r \in Requests : "stored" \in shown[r] =>
          "delivered" \in shown[r] /\ "failed" \notin shown[r] /\ req[r].save /\ ~req[r].gone
    /\ \A r \in Requests : save[r] = "writing" <=> writer = r
    /\ Cardinality(Saving) <= Capacity

(* The agent serves: every GetSecrets call returns to NetworkManager, since *)
(* an unanswered prompt is retired by its deadline, and the agent never     *)
(* stops trying to register with the running NetworkManager (lifecycle.rs). *)
AgentServes ==
    /\ \A r \in Requests : (req[r].pc # "idle") ~> (req[r].pc \in {"failed", "done"})
    /\ []<>(busOwner = 0 \/ (nmOwner = busOwner /\ busOwner \in {registered, registering}))
=============================================================================
