----------------------------- MODULE CastPolicy -----------------------------
(***************************************************************************)
(* The per-network Cast permission: the profile's saved mDNS policy, the   *)
(* policy applied to the active device, and the firewall set nm-cast-policy*)
(* derives from both (cast_policy/mod.rs, network.rs, firewall.rs), with   *)
(* the toggle nm-daemon runs against them (nm/settings/casting.rs).        *)
(*                                                                         *)
(* One Wi-Fi device.  Every D-Bus read of a snapshot is a step of its own; *)
(* the device, the profile and NetworkManager may change between two reads.*)
(***************************************************************************)
EXTENDS Naturals, FiniteSets

CONSTANTS CastProfiles,  \* saved Wi-Fi profiles
          Reconcilers,   \* concurrent callers of reconcile: refresh loop, dispatcher, toggle
          Toggler,       \* the one of them that is nm-daemon's toggle of CastTarget
          CastTarget,    \* the profile whose toggle nm-daemon runs
          MaxCastMoves   \* bound on moves of the environment

ASSUME CastBounds == Toggler \in Reconcilers /\ CastTarget \in CastProfiles

VARIABLES
    policy,   \* policy[p]: the profile's mDNS policy permits discovery
    device,   \* [up, act, profile, applied, version] of the Wi-Fi device
    manager,  \* the NetworkManager instance, 0 while stopped
    holder,   \* the reconcile holding Policy.transaction, {} when free
    reading,  \* next read of each reconcile
    snap,     \* what each reconcile has read
    opened,   \* profile on whose account the interface is in the enabled set, {} when closed
    toggle,   \* the toggle: [pc, on, ok, version]; kept (ghost): nobody else has
              \* changed the saved policy since the toggle saved it
    castMoves

castVars == <<policy, device, manager, holder, reading, snap, opened, toggle, castMoves>>

NoSnap == [owner |-> 0, act |-> 0, profile |-> CastTarget, applied |-> FALSE, version |-> 0,
           saved |-> FALSE, fresh |-> FALSE, stable |-> FALSE]

CastInit ==
    /\ policy \in [CastProfiles -> BOOLEAN]
    /\ \E p \in CastProfiles :
         device = [up |-> TRUE, act |-> 1, profile |-> p, applied |-> policy[p], version |-> 1]
    /\ manager = 1
    /\ holder = {}
    /\ reading = [r \in Reconcilers |-> "idle"]
    /\ snap = [r \in Reconcilers |-> NoSnap]
    /\ opened = {}
    /\ \E on \in BOOLEAN : toggle = [pc |-> "save", on |-> on, ok |-> TRUE, version |-> 0, kept |-> TRUE]
    /\ castMoves = 0

----------------------------------------------------------------------------
(* Policy::reconcile *)

\* Who may call now: the refresh loop and the dispatcher any time, the toggle
\* before and after it patches the resolver policy.
MayCall(r) == r = Toggler => toggle.pc \in {"before", "after"}

\* Where a finished reconcile leaves its caller.
Advance(r, ok) ==
    toggle' = IF r # Toggler THEN toggle
              ELSE [toggle EXCEPT !.ok = @ /\ ok,
                                  !.pc = IF @ = "before" THEN "resolver" ELSE "done"]

\* Mutant: reconciliations overlap.
OverlapsFreely(r) == holder' = holder

Acquire(r) == holder = {} /\ holder' = {r}

\* Take the transaction, then pin the snapshot to the current NetworkManager.
BeginReconcile(r) ==
    /\ reading[r] = "idle" /\ MayCall(r)
    /\ Acquire(r)
    /\ reading' = [reading EXCEPT ![r] = IF manager = 0 THEN "withdraw" ELSE "device"]
    /\ snap' = [snap EXCEPT ![r] = [NoSnap EXCEPT !.owner = manager]]
    /\ UNCHANGED <<policy, device, manager, opened, toggle, castMoves>>

\* The lock is not free within its two seconds: the call fails.
Busy(r) ==
    /\ reading[r] = "idle" /\ MayCall(r) /\ r = Toggler
    /\ holder # {}
    /\ Advance(r, FALSE)
    /\ UNCHANGED <<policy, device, manager, holder, reading, snap, opened, castMoves>>

\* One read of device_enabled: it fails when the pinned NetworkManager is gone.
Reading(r, place, next, value) ==
    /\ reading[r] = place
    /\ reading' = [reading EXCEPT ![r] = IF snap[r].owner = manager THEN next ELSE "withdraw"]
    /\ snap' = [snap EXCEPT ![r] = IF snap[r].owner = manager THEN value ELSE @]
    /\ UNCHANGED <<policy, device, manager, holder, opened, toggle, castMoves>>

\* State and ActiveConnection; a device that is not activated stays closed.
ReadDevice(r) ==
    Reading(r, "device", IF device.up THEN "applied" ELSE "close", [snap[r] EXCEPT !.act = device.act])

\* GetAppliedConnection: the applied policy and its version.
ReadApplied(r) ==
    Reading(r, "applied", "saved", [snap[r] EXCEPT !.applied = device.applied,
                                                   !.version = device.version])

\* The active connection's profile and its saved settings; an activation that
\* is gone cannot be read.
ReadSaved(r) ==
    /\ device.up /\ device.act = snap[r].act
    /\ Reading(r, "saved", "version",
               [snap[r] EXCEPT !.profile = device.profile,
                               !.saved = policy[device.profile],
                               !.fresh = device.applied])

ActivationGone(r) ==
    /\ reading[r] = "saved" /\ ~(device.up /\ device.act = snap[r].act)
    /\ reading' = [reading EXCEPT ![r] = "withdraw"]
    /\ UNCHANGED <<policy, device, manager, holder, snap, opened, toggle, castMoves>>

\* GetAppliedConnection a second time: did the applied policy change meanwhile?
SameVersion(r) == snap[r].version # 0 /\ snap[r].version = device.version

ReadVersion(r) ==
    Reading(r, "version", "again", [snap[r] EXCEPT !.stable = SameVersion(r)])

\* ActiveConnection and State a second time, and policy_enabled.
ReadAgain(r) ==
    Reading(r, "again",
            IF /\ device.up /\ device.act = snap[r].act
               /\ snap[r].stable /\ snap[r].saved /\ snap[r].applied
            THEN "permit" ELSE "close",
            snap[r])

\* SNAPSHOT_TIMEOUT passes, which withdraws the permission like any failed read.
SnapshotTimesOut(r) ==
    /\ reading[r] \in {"device", "applied", "saved", "version", "again"}
    /\ castMoves < MaxCastMoves /\ castMoves' = castMoves + 1
    /\ reading' = [reading EXCEPT ![r] = "withdraw"]
    /\ UNCHANGED <<policy, device, manager, holder, snap, opened, toggle>>

\* firewall::apply replaces the whole table in one nft batch; the result is an
\* error after a withdrawal even when nft succeeded.
ApplyRules(r) ==
    /\ reading[r] \in {"permit", "close", "withdraw"}
    /\ opened' = IF reading[r] = "permit" THEN {snap[r].profile} ELSE {}
    /\ reading' = [reading EXCEPT ![r] = "idle"]
    /\ holder' = holder \ {r}
    /\ snap' = [snap EXCEPT ![r] = NoSnap]
    /\ Advance(r, reading[r] # "withdraw")
    /\ UNCHANGED <<policy, device, manager, castMoves>>

\* nft fails or runs into its two seconds: the old rules stay (a killed nft
\* that had committed already is ApplyRules with an error).
ApplyFails(r) ==
    /\ reading[r] \in {"permit", "close", "withdraw"}
    /\ castMoves < MaxCastMoves /\ castMoves' = castMoves + 1
    /\ \/ UNCHANGED opened
       \/ opened' = IF reading[r] = "permit" THEN {snap[r].profile} ELSE {}
    /\ reading' = [reading EXCEPT ![r] = "idle"]
    /\ holder' = holder \ {r}
    /\ snap' = [snap EXCEPT ![r] = NoSnap]
    /\ Advance(r, FALSE)
    /\ UNCHANGED <<policy, device, manager>>

\* The permission lease runs out.
LeaseExpires ==
    /\ opened # {}
    /\ opened' = {}
    /\ UNCHANGED <<policy, device, manager, holder, reading, snap, toggle, castMoves>>

----------------------------------------------------------------------------
(* The toggle: set_casting_enabled, then reapply_casting *)

SaveToggle ==
    /\ toggle.pc = "save" /\ manager = 1
    /\ policy' = [policy EXCEPT ![CastTarget] = toggle.on]
    /\ toggle' = [toggle EXCEPT !.pc = "before"]
    /\ UNCHANGED <<device, manager, holder, reading, snap, opened, castMoves>>

\* reapply_device_casting reads the applied settings of a device on the
\* profile; a profile that is not active needs no patch.
ReadResolver ==
    /\ toggle.pc = "resolver"
    /\ toggle' =
         IF manager # 1 THEN [toggle EXCEPT !.ok = FALSE, !.pc = "after"]
         ELSE IF device.up /\ device.profile = CastTarget /\ device.applied # toggle.on
              THEN [toggle EXCEPT !.pc = "reapply", !.version = device.version]
              ELSE [toggle EXCEPT !.pc = "after"]
    /\ UNCHANGED <<policy, device, manager, holder, reading, snap, opened, castMoves>>

\* Reapply patches the applied policy; NetworkManager rejects a stale version.
Reapply ==
    /\ toggle.pc = "reapply"
    /\ IF manager = 1 /\ device.up /\ device.version = toggle.version
       THEN /\ device' = [device EXCEPT !.applied = toggle.on, !.version = @ + 1]
            /\ toggle' = [toggle EXCEPT !.pc = "after"]
       ELSE /\ toggle' = [toggle EXCEPT !.pc = "after", !.ok = FALSE]
            /\ UNCHANGED device
    /\ UNCHANGED <<policy, manager, holder, reading, snap, opened, castMoves>>

----------------------------------------------------------------------------
(* The environment: the user's other tools and NetworkManager *)

CastMove ==
    /\ castMoves < MaxCastMoves /\ castMoves' = castMoves + 1
    /\ \/ \E p \in CastProfiles :
            /\ policy' = [policy EXCEPT ![p] = ~@]
            /\ toggle' = [toggle EXCEPT !.kept = @ /\ (p = CastTarget => toggle.pc = "save")]
            /\ UNCHANGED <<device, manager>>
       \/ \E p \in CastProfiles :
            /\ device' = [up |-> TRUE, act |-> device.act + 1, profile |-> p,
                          applied |-> policy[p], version |-> device.version + 1]
            /\ UNCHANGED <<policy, manager, toggle>>
       \/ device' = [device EXCEPT !.applied = ~@, !.version = @ + 1] /\ UNCHANGED <<policy, manager, toggle>>
       \/ device.up /\ device' = [device EXCEPT !.up = FALSE] /\ UNCHANGED <<policy, manager, toggle>>
       \/ manager = 1 /\ manager' = 0 /\ UNCHANGED <<policy, device, toggle>>
    /\ UNCHANGED <<holder, reading, snap, opened>>

----------------------------------------------------------------------------
CastNext ==
    \/ \E r \in Reconcilers :
         \/ BeginReconcile(r) \/ Busy(r) \/ ReadDevice(r) \/ ReadApplied(r) \/ ReadSaved(r)
         \/ ActivationGone(r) \/ ReadVersion(r) \/ ReadAgain(r) \/ SnapshotTimesOut(r)
         \/ ApplyRules(r) \/ ApplyFails(r)
    \/ LeaseExpires \/ SaveToggle \/ ReadResolver \/ Reapply \/ CastMove

CastSpec == CastInit /\ [][CastNext]_castVars

----------------------------------------------------------------------------
(* Properties *)

\* When the toggle reports that discovery is off, no permission of the profile
\* is left and no reconcile that read the old policy can restore it ("must not
\* apply snapshots out of order"), as long as nobody turns it on again.
OffIsEnforced ==
    (toggle.pc = "done" /\ toggle.ok /\ ~toggle.on /\ toggle.kept)
        => CastTarget \notin opened

\* The firewall follows the user's consent.  It opens only on a snapshot that
\* really existed: at the instant the saved policy was read the applied policy
\* permitted discovery as well, although the two come from different calls
\* ("saved-on must not open it while the old applied policy is off"); and once
\* the toggle reported off it stays closed (OffIsEnforced).
ConsentFollowed ==
    [][/\ OffIsEnforced'
       /\ \A r \in Reconcilers :
            (reading[r] = "permit" /\ reading'[r] = "idle" /\ opened' # {})
                => snap[r].saved /\ snap[r].fresh]_castVars
=============================================================================
