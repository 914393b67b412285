-------------------------- MODULE StatusObservation --------------------------
(***************************************************************************)
(* Wi-Fi status observations (src/daemon_status/observation.rs and         *)
(* DaemonRuntime::observe_status).                                         *)
(*                                                                         *)
(* Reads of clients and refreshes for subscribers capture NetworkManager's *)
(* state one at a time.  A capture that was invalidated while it ran is a  *)
(* conflict; the others are given a publication identity, an epoch and a   *)
(* revision, which stays the same as long as the status does.              *)
(***************************************************************************)
EXTENDS Integers

CONSTANTS
    Observer,       \* threads that capture: read workers and the refresh job
    Value,          \* statuses NetworkManager may be in
    MaxRevision,    \* MAX_REVISION
    MaxEpoch,       \* bound: epochs
    MaxChange       \* bound: changes of NetworkManager's state

VARIABLES
    world,          \* NetworkManager's status
    nmOwner,        \* its bus owner: 0 is nobody, else the change it came with
    change,         \* number of changes so far
    due,            \* NetworkManager signals not handled yet
    calling,        \* the event callback has invalidated, and not sent yet
    generation,     \* State.generation
    epoch,          \* State.epoch, and
    previous,       \* State.previous_epoch; epochs are numbered, 0 is none
    revision,       \* State.revision
    value,          \* State.value
    holder,         \* who holds the capture mutex
    capture,        \* what each observer has captured so far
    invalidAt       \* history: the change the last invalidation followed

worldVars == <<world, nmOwner, change>>
stateVars == <<generation, epoch, previous, revision, value>>
captureVars == <<holder, capture>>
signalVars == <<due, calling>>
observationVars == <<world, nmOwner, change, due, calling, generation, epoch,
                     previous, revision, value, holder, capture, invalidAt>>

None == "none"
Unavailable == "unavailable"    \* {"available": false}
Status == Value \union {Unavailable}

ASSUME ObservationAssumption ==
    /\ MaxRevision \in Nat \ {0}
    /\ MaxEpoch \in Nat \ {0}
    /\ MaxChange \in Nat
    /\ Value # {} /\ None \notin Value
    /\ None \notin Observer

NoCapture == [at |-> "idle", gen |-> 0, owner |-> 0, seen |-> None, change |-> 0]

Publication == [epoch : 1..MaxEpoch, rev : 1..MaxRevision, status : Status]

ObservationTypeOK ==
    /\ world \in Value /\ nmOwner \in 0..MaxChange + 1 /\ change \in 0..MaxChange
    /\ due \in 0..MaxChange /\ calling \in BOOLEAN
    /\ generation \in Nat
    /\ epoch \in 1..MaxEpoch /\ previous \in 0..MaxEpoch
    /\ revision \in 0..MaxRevision
    /\ value \in Status \union {None}
    /\ holder \in Observer \union {None}
    /\ DOMAIN capture = Observer
    /\ \A o \in Observer :
          /\ capture[o].at \in {"idle", "scoped", "read", "checked"}
          /\ capture[o].seen \in Status \union {None}
    /\ invalidAt \in 0..MaxChange

ObservationInit ==
    /\ world \in Value /\ nmOwner = 1 /\ change = 0
    /\ due = 0 /\ calling = FALSE
    /\ generation = 0 /\ epoch = 1 /\ previous = 0 /\ revision = 0 /\ value = None
    /\ holder = None
    /\ capture = [o \in Observer |-> NoCapture]
    /\ invalidAt = 0

-----------------------------------------------------------------------------
(* NetworkManager, and the callback for its signals.                       *)

\* The status changes.
ChangeStatus(v) ==
    /\ change < MaxChange
    /\ v # world
    /\ world' = v /\ change' = change + 1 /\ due' = due + 1
    /\ UNCHANGED <<nmOwner, calling, stateVars, captureVars, invalidAt>>

\* NetworkManager leaves the bus, or appears on it under a new name.
ChangeOwner ==
    /\ change < MaxChange
    /\ nmOwner' = IF nmOwner = 0 THEN change + 2 ELSE 0
    /\ change' = change + 1 /\ due' = due + 1
    /\ UNCHANGED <<world, calling, stateVars, captureVars, invalidAt>>

\* StatusObservations::invalidate, from the event callback and from
\* network_manager_owner_changed: it does not wait for a capture.
Invalidate ==
    /\ due > 0 /\ ~calling
    /\ due' = due - 1 /\ calling' = TRUE
    /\ generation' = generation + 1
    /\ invalidAt' = change
    /\ UNCHANGED <<worldVars, epoch, previous, revision, value, captureVars>>

-----------------------------------------------------------------------------
(* One capture: StatusObservations::observe with observe_status's closure. *)

\* The capture mutex is taken, the generation noted, and Nm scoped to the
\* present bus owner; without one the observation is "unavailable".
BeginCapture(o) ==
    /\ holder = None
    /\ holder' = o
    /\ capture' = [capture EXCEPT ![o] =
                     [NoCapture EXCEPT !.at = IF nmOwner = 0 THEN "checked" ELSE "scoped",
                                       !.gen = generation, !.owner = nmOwner,
                                       !.seen = IF nmOwner = 0 THEN Unavailable ELSE None,
                                       !.change = change]]
    /\ UNCHANGED <<worldVars, signalVars, stateVars, invalidAt>>

\* status_snapshot.
ReadStatus(o) ==
    /\ capture[o].at = "scoped"
    /\ capture' = [capture EXCEPT ![o].at = "read", ![o].seen = world,
                                  ![o].change = change]
    /\ UNCHANGED <<worldVars, signalVars, stateVars, holder, invalidAt>>

\* Mutant: the generation is taken when the read is over.
CheckCaptureOwnerLate(o) ==
    /\ capture[o].at = "read"
    /\ capture' = [capture EXCEPT ![o].at = "checked", ![o].gen = generation,
                                  ![o].seen = IF nmOwner = capture[o].owner
                                              THEN @ ELSE Unavailable]
    /\ UNCHANGED <<worldVars, signalVars, stateVars, holder, invalidAt>>

\* ensure_current_owner; an error makes the observation "unavailable".
CheckCaptureOwner(o) ==
    /\ capture[o].at = "read"
    /\ capture' = [capture EXCEPT ![o].at = "checked",
                                  ![o].seen = IF nmOwner = capture[o].owner
                                              THEN @ ELSE Unavailable]
    /\ UNCHANGED <<worldVars, signalVars, stateVars, holder, invalidAt>>

\* Mutant: the epoch is kept when the revisions run out.
CommitWrapping(s) ==
    IF value = s THEN UNCHANGED <<epoch, previous, revision, value>>
    ELSE /\ revision' = (revision % MaxRevision) + 1
         /\ value' = s
         /\ UNCHANGED <<epoch, previous>>

\* A new status gets the next revision, in a new epoch when they run out.
Commit(s) ==
    IF value = s THEN UNCHANGED <<epoch, previous, revision, value>>
    ELSE /\ IF revision = MaxRevision
            THEN epoch' = epoch + 1 /\ previous' = epoch /\ revision' = 1
            ELSE revision' = revision + 1 /\ UNCHANGED <<epoch, previous>>
         /\ value' = s

\* The capture is still valid: it is published and answered.
Publish(o) ==
    /\ capture[o].at = "checked"
    /\ capture[o].gen = generation
    /\ value # capture[o].seen /\ revision = MaxRevision => epoch < MaxEpoch
    /\ Commit(capture[o].seen)
    /\ holder' = None
    /\ capture' = [capture EXCEPT ![o] = NoCapture]
    /\ UNCHANGED <<worldVars, signalVars, generation, invalidAt>>

\* It was invalidated in flight: a conflict, and nothing is published.
Conflict(o) ==
    /\ capture[o].at = "checked"
    /\ capture[o].gen # generation
    /\ holder' = None
    /\ capture' = [capture EXCEPT ![o] = NoCapture]
    /\ UNCHANGED <<worldVars, signalVars, stateVars, invalidAt>>

-----------------------------------------------------------------------------
(* Properties of the observations, whoever makes them.                     *)

\* Nothing is published that was read before the last invalidation: once the
\* daemon has been told of a change, no later publication shows the state
\* before it (the generation is taken before the read and compared after).
PublicationFresh ==
    [][\A o \in Observer :
          value' # value /\ holder = o
              => capture[o].change >= invalidAt]_observationVars
=============================================================================
