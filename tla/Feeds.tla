-------------------------------- MODULE Feeds --------------------------------
(***************************************************************************)
(* Two feeds the daemon keeps for its subscribers.                         *)
(*                                                                         *)
(* The delta chain of a wifi.networks subscription                         *)
(* (daemon_status/network_updates.rs, daemon_status.rs): every refresh is  *)
(* compared with the last one projected and sent as added, removed and     *)
(* changed entries between two revisions.  An emission may be lost, the    *)
(* revision is bounded and restarts under a new epoch, and a subscriber    *)
(* rebuilds the collection from what reaches it.                           *)
(*                                                                         *)
(* The refresh rate of a device's transfer counters                        *)
(* (nm/statistics.rs, daemon_statistics.rs): watchers share one setting    *)
(* inside NetworkManager, which the first turns on and the last turns off. *)
(***************************************************************************)
EXTENDS Naturals, FiniteSets

CONSTANTS
  Keys, Values, Ages,  \* network keys, their stable content, last_seen_age_ms
  MaxRevision,         \* MAX_REVISION
  MaxEpochs,           \* bound on restarts of the chain
  Interval,            \* the interval each watcher asks for
  MaxOwners            \* bound on NetworkManager instances

Watchers == DOMAIN Interval

\* interval_ms refuses an interval below MIN_INTERVAL_MS.
ASSUME FeedBounds ==
  /\ MaxRevision \in Nat \ {0}
  /\ MaxEpochs \in Nat \ {0}
  /\ MaxOwners \in Nat \ {0}
  /\ IsFiniteSet(Watchers)
  /\ Interval \in [Watchers -> Nat \ {0}]

VARIABLES
  updates,   \* NetworkUpdates: epoch, revision, and the last projected entries
  mirror,    \* a subscriber's copy: its cursor and entries, or out of step
  owner,     \* the NetworkManager instance that owns the name
  rate,      \* RefreshRateMs inside each instance
  registry,  \* StatisticsRefresh of each scope: watchers counted and their rate
  guard,     \* the holder of each scope's registry lock ({}: free)
  watch,     \* each watcher's step, scope and whether it was cancelled
  stuck      \* scopes whose final disable failed

deltaVars == <<updates, mirror>>
statVars == <<owner, rate, registry, guard, watch, stuck>>
feedVars == <<updates, mirror, owner, rate, registry, guard, watch, stuck>>

-----------------------------------------------------------------------------
(* The delta chain. *)

\* A collection: at most one entry per key.
Collections ==
  {c \in SUBSET [key : Keys, value : Values, age : Ages] :
     \A x, y \in c : x.key = y.key => x = y}

Keyed(c) == {x.key : x \in c}
\* network_entry_changed compares entries without their age.
Stable(c) == {[key |-> x.key, value |-> x.value] : x \in c}

NoUpdates(epoch) == [epoch |-> epoch, revision |-> 0, started |-> FALSE, last |-> {}]

\* A chain at MAX_REVISION starts over (project).
Restarted(u) == NoUpdates(u.epoch + 1)

\* network_delta against the last projected collection.
Delta(u, current) ==
  [added |-> {x \in current : x.key \notin Keyed(u.last)},
   removed |-> {x \in u.last : x.key \notin Keyed(current)},
   changed |-> {x \in current : \E y \in u.last : y.key = x.key /\ y.value # x.value},
   initial |-> ~u.started, epoch |-> u.epoch,
   base |-> u.revision, revision |-> u.revision + 1]

\* No event for a collection that differs in nothing but ages.
Unchanged(u, d) ==
  u.started /\ d.added = {} /\ d.removed = {} /\ d.changed = {}

\* What a subscriber does with a delta: a baseline replaces its copy, the next
\* delta of its chain is applied, anything else puts it out of step and it has
\* to subscribe anew.
Received(m, d) ==
  CASE d.initial ->
         [epoch |-> d.epoch, revision |-> d.revision, sound |-> TRUE,
          entries |-> Stable(d.added)]
    [] ~d.initial /\ m.sound /\ m.epoch = d.epoch /\ m.revision = d.base ->
         [m EXCEPT !.revision = d.revision,
            !.entries = {x \in @ : x.key \notin Keyed(d.removed) \union Keyed(d.changed)}
                          \union Stable(d.added) \union Stable(d.changed)]
    [] OTHER -> [m EXCEPT !.sound = FALSE]

\* Mutant: the cursor advances only when the emission reached the bus.
AdvancedWhenSent(u, d, current, delivered) ==
  [u EXCEPT !.revision = IF delivered THEN d.revision ELSE @,
            !.started = TRUE, !.last = current]

\* Cursor and collection advance together, before the emission (project).
Advanced(u, d, current, delivered) ==
  [u EXCEPT !.revision = d.revision, !.started = TRUE, !.last = current]

\* emit_network_changes: one refresh of the subscription's networks.
Project(current, delivered) ==
  LET u == IF updates.revision = MaxRevision THEN Restarted(updates) ELSE updates
      d == Delta(u, current)
  IN /\ u.epoch <= MaxEpochs
     /\ IF Unchanged(u, d)
        THEN updates' = u /\ UNCHANGED mirror
        ELSE /\ updates' = Advanced(u, d, current, delivered)
             /\ mirror' = IF delivered THEN Received(mirror, d) ELSE mirror
     /\ UNCHANGED statVars

-----------------------------------------------------------------------------
(* The statistics refresh. *)

Idle == [step |-> "idle", scope |-> 0, cancelled |-> FALSE]

\* start_watch: the worker keeps the scope of the instance it started under.
StartWatch(w) ==
  /\ watch[w].step = "idle"
  /\ watch' = [watch EXCEPT ![w] = [Idle EXCEPT !.step = "starting", !.scope = owner]]
  /\ UNCHANGED <<updates, mirror, owner, rate, registry, guard, stuck>>

\* The call reaches NetworkManager only while its scope is current.
Reaches(w) == watch[w].scope = owner

\* acquire_statistics_refresh, under the registry lock: the rate becomes the
\* smallest asked for; if it cannot be set, nothing is recorded and the watch
\* fails.
AcquireRefresh(w) ==
  LET s == watch[w].scope
      effective == IF registry[s].watchers = 0 THEN Interval[w]
                   ELSE IF registry[s].rate < Interval[w] THEN registry[s].rate
                        ELSE Interval[w]
  IN /\ watch[w].step = "starting" /\ guard[s] = {}
     /\ \/ /\ Reaches(w)
           /\ rate' = [rate EXCEPT ![s] = effective]
           /\ registry' = [registry EXCEPT ![s] =
                             [watchers |-> @.watchers + 1, rate |-> effective]]
           /\ watch' = [watch EXCEPT ![w].step = "sampling"]
        \/ /\ watch' = [watch EXCEPT ![w] = Idle]        \* emit_failure
           /\ UNCHANGED <<rate, registry>>
     /\ UNCHANGED <<updates, mirror, owner, guard, stuck>>

\* Cancel, or the loss of the client that owns the watch.
CancelWatch(w) ==
  /\ watch[w].step \in {"starting", "sampling"} /\ ~watch[w].cancelled
  /\ watch' = [watch EXCEPT ![w].cancelled = TRUE]
  /\ UNCHANGED <<updates, mirror, owner, rate, registry, guard, stuck>>

\* watch_statistics returns: cancelled, or the device is gone.
LeaveSampling(w) ==
  /\ watch[w].step = "sampling"
  /\ watch[w].cancelled \/ ~Reaches(w)
  /\ watch' = [watch EXCEPT ![w].step = "leaving"]
  /\ UNCHANGED <<updates, mirror, owner, rate, registry, guard, stuck>>

\* Mutant: the lock is released before the refresh is turned off.
UnlocksBeforeDisable(w) == {}

\* The registry lock is kept until the refresh is off.
HeldForDisable(w) == {w}

\* release_statistics_refresh: forget the watcher; the last one turns the
\* refresh off under the same lock.
ReleaseRefresh(w) ==
  LET s == watch[w].scope
  IN /\ watch[w].step = "leaving" /\ guard[s] = {}
     /\ registry' = [registry EXCEPT ![s].watchers = @ - 1]
     /\ IF registry[s].watchers > 1
        THEN watch' = [watch EXCEPT ![w] = Idle] /\ UNCHANGED guard
        ELSE /\ watch' = [watch EXCEPT ![w].step = "disabling"]
             /\ guard' = [guard EXCEPT ![s] = HeldForDisable(w)]
     /\ UNCHANGED <<updates, mirror, owner, rate, stuck>>

DisableRefresh(w) ==
  LET s == watch[w].scope
  IN /\ watch[w].step = "disabling"
     /\ \/ Reaches(w) /\ rate' = [rate EXCEPT ![s] = 0] /\ UNCHANGED stuck
        \/ stuck' = stuck \union {s} /\ UNCHANGED rate   \* only logged
     /\ guard' = [guard EXCEPT ![s] = {}]
     /\ watch' = [watch EXCEPT ![w] = Idle]
     /\ UNCHANGED <<updates, mirror, owner, registry>>

\* NetworkManager restarts: a new instance with no refresh, and a new scope.
ReplaceInstance ==
  /\ owner < MaxOwners
  /\ owner' = owner + 1
  /\ UNCHANGED <<updates, mirror, rate, registry, guard, watch, stuck>>

-----------------------------------------------------------------------------

FeedInit ==
  /\ updates = NoUpdates(1)
  /\ mirror = [epoch |-> 0, revision |-> 0, sound |-> FALSE, entries |-> {}]
  /\ owner = 1
  /\ rate = [s \in 1..MaxOwners |-> 0]
  /\ registry = [s \in 1..MaxOwners |-> [watchers |-> 0, rate |-> 0]]
  /\ guard = [s \in 1..MaxOwners |-> {}]
  /\ watch = [w \in Watchers |-> Idle]
  /\ stuck = {}

DeltaNext == \E current \in Collections, delivered \in BOOLEAN : Project(current, delivered)

StatNext ==
  \/ ReplaceInstance
  \/ \E w \in Watchers :
       StartWatch(w) \/ AcquireRefresh(w) \/ CancelWatch(w) \/ LeaveSampling(w)
         \/ ReleaseRefresh(w) \/ DisableRefresh(w)

\* The two share no state: either may move.
FeedSpec == FeedInit /\ [][DeltaNext \/ StatNext]_feedVars

-----------------------------------------------------------------------------

\* A subscriber that is in step with its subscription holds exactly the
\* networks the daemon last projected, ages aside: a lost delta always shows
\* as a gap before the copy can be wrong unnoticed (network_updates.rs:
\* "a failed emission is detectable by the next delta's base revision"), and
\* a chain restarted at MAX_REVISION is never taken for the one before it.
MirrorFaithful ==
  (mirror.sound /\ mirror.epoch = updates.epoch /\ mirror.revision = updates.revision)
    => mirror.entries = Stable(updates.last)

\* While watchers sample a device of the running instance the counters are
\* refreshed at least as often as each of them asked, and when nobody watches
\* the refresh is off, unless turning it off failed (acquire_ and
\* release_statistics_refresh).
RefreshServes ==
  LET holders == {w \in Watchers : watch[w].step \in {"sampling", "leaving"}
                                     /\ watch[w].scope = owner}
  IN /\ \A w \in holders : 0 < rate[owner] /\ rate[owner] <= Interval[w]
     /\ (holders = {} /\ guard[owner] = {} /\ owner \notin stuck
           /\ \A w \in Watchers : watch[w].step # "disabling")
          => rate[owner] = 0

=============================================================================
