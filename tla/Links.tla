------------------------------- MODULE Links -------------------------------
(***************************************************************************)
(* Links a request raises and may have to take down again: the Wi-Fi       *)
(* hotspot (nm/hotspot.rs, daemon_hotspot.rs) and saved VPN profiles       *)
(* (nm/vpn.rs, daemon_vpn.rs).  A worker makes several D-Bus calls, each a *)
(* step here; other workers, the user's own NetworkManager tools and       *)
(* NetworkManager itself move in between.                                  *)
(*                                                                         *)
(* An activation is named after the worker that asked for it (or           *)
(* ForeignLink for one made outside the daemon); all hotspots compete for  *)
(* the one AP-capable device, and the VPN requests select one profile.     *)
(***************************************************************************)
EXTENDS Naturals, Sequences, FiniteSets

CONSTANTS LinkWorkers,  \* operation threads
          LinkJobs,     \* sets of functions LinkWorkers -> Tasks
          HotspotInputs, \* what a hotspot start finds and asks for (see Unavailable)
          ForeignLink,  \* the activation made by another NetworkManager client
          MaxLinkFaults \* bound on external moves and refused calls

Tasks == {"hotspot-start", "hotspot-stop", "vpn-connect", "vpn-disconnect"}

ASSUME LinkAssumption ==
    ForeignLink \notin LinkWorkers /\ LinkJobs \subseteq [LinkWorkers -> Tasks]

VARIABLES
    task,     \* what each worker was asked for
    at,       \* the call each worker makes next
    flag,     \* its cancellation flag
    chosen,   \* the hotspot a start has resolved, {} for none
    target,   \* the activation a stop or disconnect found, {} for none
    link,     \* state of every activation
    volatile, \* generated hotspot profiles NetworkManager holds
    txn,      \* holder of the profile transaction, {} when free
    scope,    \* workers whose NetworkManager instance is still the running one
    outcome,  \* the terminal event of each worker
    unswept,  \* workers one of whose teardown calls was refused
    linkFaults

linkVars == <<task, at, flag, chosen, target, link, volatile, txn, scope, outcome, unswept,
              linkFaults>>

Activations == LinkWorkers \cup {ForeignLink}
Up == {"activating", "activated"}

Hotspot(w) == w = ForeignLink \/ task[w] \in {"hotspot-start", "hotspot-stop"}

\* The activations a lookup can find: hotspot_status reports the AP device's
\* active connection, vpn_status every active connection of the profile.
Running(hot) == {a \in Activations : link[a] \in Up /\ (Hotspot(a) <=> hot)}

LinkInit ==
    /\ task \in LinkJobs
    /\ at = [w \in LinkWorkers |->
               IF task[w] \in {"hotspot-start", "vpn-connect"} THEN "begin" ELSE "lookup"]
    /\ flag = [w \in LinkWorkers |-> FALSE]
    /\ target = [w \in LinkWorkers |-> {}]
    /\ chosen = [w \in LinkWorkers |-> {}]
    /\ link = [a \in Activations |-> "none"]
    /\ volatile = {}
    /\ txn = {}
    /\ scope = LinkWorkers
    /\ outcome = [w \in LinkWorkers |-> "none"]
    /\ unswept = {}
    /\ linkFaults = 0

Goto(w, place) == at' = [at EXCEPT ![w] = place]

\* The worker ends with a terminal event, and what it held is released.
EndAt(w, place, result) ==
    /\ Goto(w, place)
    /\ outcome' = [outcome EXCEPT ![w] = result]
    /\ txn' = txn \ {w}

End(w, result) == EndAt(w, "done", result)

Refused == linkFaults < MaxLinkFaults /\ linkFaults' = linkFaults + 1

----------------------------------------------------------------------------
(* Starting a hotspot *)

\* begin_profile_transaction serialises the whole start.
TakeTransaction(w) == txn = {} /\ txn' = {w}

\* An input is [devices, radio, device, band, channel, security, hidden, ssid,
\* passphrase]: the Wi-Fi devices in NetworkManager's order, each [ap, busy,
\* bands]; whether the radio is on; the index of the requested device (0: any);
\* ssid and passphrase lengths (0: to be generated).
Usable(d) == d.ap /\ ~d.busy

\* hotspot_capabilities and hotspot_availability.
Unavailable(in) ==
    \/ in.devices = <<>>
    \/ \A i \in DOMAIN in.devices : ~in.devices[i].ap
    \/ ~in.radio
    \/ \A i \in DOMAIN in.devices : ~Usable(in.devices[i])

\* select_hotspot_device: the first unused one, or the requested one, which has
\* only to support access-point mode.
Selected(in) ==
    IF in.device = 0
    THEN {i \in DOMAIN in.devices :
            Usable(in.devices[i]) /\ \A j \in 1 .. i - 1 : ~Usable(in.devices[j])}
    ELSE {i \in DOMAIN in.devices : i = in.device /\ in.devices[i].ap}

\* capability_bands tells 2.4 and 5 GHz apart; 6 GHz is never found.
BandsOf(d) == d.bands \cap {"2.4", "5"}

ResolvesBand(in, d) == in.band = "auto" \/ in.band \in BandsOf(d)

ValidPassphrase(in) == in.passphrase = 0 \/ in.passphrase \in 8 .. 63

\* resolve_hotspot: the devices a start may use; none when it is refused.
Resolution(in) ==
    {i \in Selected(in) :
        /\ ~Unavailable(in)
        /\ in.ssid <= 32
        /\ ValidPassphrase(in)
        /\ ResolvesBand(in, in.devices[i])}

\* hotspot_connection_settings: the volatile profile; an automatic band and an
\* unset channel are left out of it.
HotspotProfile(in) ==
    [mode |-> "ap", autoconnect |-> FALSE, hidden |-> in.hidden,
     band |-> IF in.band = "auto" THEN {} ELSE {in.band},
     channel |-> in.channel, keymgmt |-> in.security]

\* hotspot_profile_status: what hotspot.status reads back from a profile.
HotspotReadBack(profile) ==
    [band |-> profile.band, channel |-> profile.channel \ {0}, security |-> profile.keymgmt,
     hidden |-> profile.hidden]

\* start_hotspot up to the NetworkManager call: refuse a second hotspot, resolve
\* the request, check the cancellation flag.
HotspotBegin(w) ==
    /\ at[w] = "begin" /\ task[w] = "hotspot-start"
    /\ TakeTransaction(w)
    /\ \E in \in HotspotInputs :
         IF w \in scope /\ Running(TRUE) = {} /\ Resolution(in) # {} /\ ~flag[w]
         THEN /\ \E i \in Resolution(in) : chosen' = [chosen EXCEPT ![w] = {[in |-> in, dev |-> i]}]
              /\ Goto(w, "add")
         ELSE Goto(w, "fail") /\ UNCHANGED chosen
    /\ UNCHANGED <<task, flag, target, link, volatile, scope, outcome, unswept, linkFaults>>

\* add_and_activate_hotspot: the volatile profile and its activation appear at
\* once, displacing whatever used the device.
HotspotAdd(w) ==
    /\ at[w] = "add" /\ w \in scope
    /\ Goto(w, "await")
    /\ chosen' = [chosen EXCEPT ![w] = {}]
    /\ link' = [a \in Activations |->
                  IF a = w THEN "activating"
                  ELSE IF a \in Running(TRUE) THEN "down" ELSE link[a]]
    /\ volatile' = volatile \cup {w}
    /\ UNCHANGED <<task, flag, target, txn, scope, outcome, unswept, linkFaults>>

\* The call is refused, or reaches no NetworkManager: nothing to roll back.
AddRefused(w) ==
    /\ at[w] \in {"add", "activate"}
    /\ IF w \in scope THEN Refused ELSE UNCHANGED linkFaults
    /\ Goto(w, "fail")
    /\ chosen' = [chosen EXCEPT ![w] = {}]
    /\ UNCHANGED <<task, flag, target, link, volatile, txn, scope, outcome, unswept>>

\* An error before anything was created ends the request.  "failed" stands for
\* every error event; whether it names the cancellation is left out.
LinkFail(w) ==
    /\ at[w] = "fail"
    /\ End(w, "failed")
    /\ UNCHANGED <<task, chosen, flag, target, link, volatile, scope, unswept, linkFaults>>

\* roll_back_hotspot and deactivate_quietly deactivate the path NetworkManager
\* returned; a refusal is logged and the cleanup goes on.
RollBack(w) ==
    /\ at[w] = "rollback"
    /\ \/ w \in scope /\ link' = [link EXCEPT ![w] = "down"] /\ UNCHANGED <<unswept, linkFaults>>
       \/ w \notin scope /\ UNCHANGED <<link, unswept, linkFaults>>
       \/ w \in scope /\ Refused /\ unswept' = unswept \cup {w} /\ UNCHANGED link
    /\ IF task[w] = "hotspot-start"
       THEN Goto(w, "remove") /\ UNCHANGED <<outcome, txn>>
       ELSE End(w, "failed")
    /\ UNCHANGED <<task, chosen, flag, target, volatile, scope>>

\* remove_hotspot_profile deletes the generated profile explicitly.
RemoveProfile(w) ==
    /\ at[w] = "remove"
    /\ \/ w \in scope /\ volatile' = volatile \ {w} /\ UNCHANGED <<unswept, linkFaults>>
       \/ w \notin scope /\ UNCHANGED <<volatile, unswept, linkFaults>>
       \/ w \in scope /\ Refused /\ unswept' = unswept \cup {w} /\ UNCHANGED volatile
    /\ EndAt(w, "removed", "failed")
    /\ UNCHANGED <<task, chosen, flag, target, link, scope>>

----------------------------------------------------------------------------
(* Connecting a VPN *)

\* activate_vpn selects the saved profile; an unknown or ambiguous one fails.
VpnSelect(w) ==
    /\ at[w] = "begin" /\ task[w] = "vpn-connect"
    /\ \/ w \in scope /\ Goto(w, "activate") /\ UNCHANGED linkFaults
       \/ w \notin scope /\ Goto(w, "fail") /\ UNCHANGED linkFaults
       \/ w \in scope /\ Refused /\ Goto(w, "fail")
    /\ UNCHANGED <<task, chosen, flag, target, link, volatile, txn, scope, outcome, unswept>>

\* ActivateConnection: another activation of the same profile goes down.
VpnActivate(w) ==
    /\ at[w] = "activate" /\ w \in scope
    /\ Goto(w, "await")
    /\ link' = [a \in Activations |->
                  IF a = w THEN "activating"
                  ELSE IF a \in Running(FALSE) THEN "down" ELSE link[a]]
    /\ UNCHANGED <<task, chosen, flag, target, volatile, txn, scope, outcome, unswept, linkFaults>>

----------------------------------------------------------------------------
(* Waiting, shared by await_hotspot_activation and await_vpn_activation *)

\* Past the deadline, which each round checks after the state it read.
Expired(w) == link[w] # "activated"

\* vpn_status_for_active_path: the active connection is gone, or its
\* NetworkManager is; the health signal only words the error.
VpnUnreadable(w) == w \notin scope \/ link[w] = "down"

\* vpn_failure: failed or disconnected; a disconnect the user asked for is not
\* a failure and leaves the wait to its deadline.
VpnFailed(w) == w \in scope /\ link[w] = "down"

\* A round that ends the wait with an error: cancelled, activation failed or
\* removed, deadline passed.  A read that fails counts as state 0 for a
\* hotspot, which then waits for its deadline, and as an error for a VPN.
AwaitStops(w) ==
    /\ at[w] = "await"
    /\ \/ flag[w]
       \/ task[w] = "hotspot-start" /\ w \in scope /\ link[w] = "down"
       \/ task[w] = "vpn-connect" /\ (VpnUnreadable(w) \/ VpnFailed(w))
       \/ Expired(w)
    /\ Goto(w, "rollback")
    /\ UNCHANGED <<task, chosen, flag, target, link, volatile, txn, scope, outcome, unswept, linkFaults>>

\* A round that reads the link as activated; the hotspot's transaction ends here.
AwaitSucceeds(w) ==
    /\ at[w] = "await" /\ ~flag[w]
    /\ w \in scope /\ link[w] = "activated"
    /\ Goto(w, "owner")
    /\ txn' = txn \ {w}
    /\ UNCHANGED <<task, chosen, flag, target, link, volatile, scope, outcome, unswept, linkFaults>>

\* ensure_current_owner: a link of a replaced NetworkManager is an error.
CheckOwner(w) ==
    /\ at[w] = "owner"
    /\ Goto(w, IF w \in scope THEN "report" ELSE "fail")
    /\ UNCHANGED <<task, chosen, flag, target, link, volatile, txn, scope, outcome, unswept, linkFaults>>

\* Mutant: a success is reported without a last look at the cancellation flag.
ReportsAnyway(w) ==
    /\ at[w] = "report"
    /\ End(w, "succeeded")

\* run_hotspot_worker / run_vpn_worker: a success whose request was cancelled
\* meanwhile is taken down again by the ordinary stop or disconnect.
Reported(w) ==
    /\ at[w] = "report"
    /\ IF flag[w] THEN Goto(w, "lookup") /\ UNCHANGED <<outcome, txn>>
                  ELSE End(w, "succeeded")

Report(w) ==
    /\ Reported(w)
    /\ UNCHANGED <<task, chosen, flag, target, link, volatile, scope, unswept, linkFaults>>

----------------------------------------------------------------------------
(* stop_hotspot and deactivate_vpn, on their own or after a late success *)

Stopping(w) == task[w] \in {"hotspot-stop", "vpn-disconnect"}
Stopped(w) == IF Stopping(w) THEN "succeeded" ELSE "cancelled"

\* The lookup goes by device or by selected profile, not by what w started.
LookUp(w) ==
    /\ at[w] = "lookup"
    /\ IF w \in scope /\ Running(Hotspot(w)) # {}
       THEN /\ \E a \in Running(Hotspot(w)) : target' = [target EXCEPT ![w] = {a}]
            /\ Goto(w, "deactivate")
            /\ UNCHANGED <<outcome, txn>>
       ELSE /\ End(w, IF w \in scope \/ ~Stopping(w) THEN Stopped(w) ELSE "failed")
            /\ UNCHANGED target
    /\ UNCHANGED <<task, chosen, flag, link, volatile, scope, unswept, linkFaults>>

\* DeactivateConnection on the path that was found; a refusal ends the stop.
Deactivate(w) ==
    /\ at[w] = "deactivate"
    /\ \/ /\ w \in scope
          /\ link' = [a \in Activations |-> IF a \in target[w] THEN "down" ELSE link[a]]
          /\ IF Hotspot(w) THEN Goto(w, "delete") /\ UNCHANGED <<outcome, txn>>
                           ELSE End(w, Stopped(w))
          /\ UNCHANGED <<unswept, linkFaults>>
       \/ /\ IF w \in scope THEN Refused ELSE UNCHANGED linkFaults
          /\ unswept' = unswept \cup {w}
          /\ End(w, IF Stopping(w) THEN "failed" ELSE "cancelled")
          /\ UNCHANGED link
    /\ UNCHANGED <<task, chosen, flag, target, volatile, scope>>

\* stop_hotspot then deletes the profile the status named, ignoring failures.
DeleteFound(w) ==
    /\ at[w] = "delete"
    /\ volatile' = IF w \in scope THEN volatile \ target[w] ELSE volatile
    /\ End(w, Stopped(w))
    /\ UNCHANGED <<task, chosen, flag, target, link, scope, unswept, linkFaults>>

----------------------------------------------------------------------------
(* The environment *)

\* A client cancels a start (daemon_runtime.rs cancel_task).
CancelLink(w) ==
    /\ ~Stopping(w) /\ outcome[w] = "none" /\ ~flag[w]
    /\ flag' = [flag EXCEPT ![w] = TRUE]
    /\ UNCHANGED <<task, chosen, at, target, link, volatile, txn, scope, outcome, unswept, linkFaults>>

\* NetworkManager brings an activation up or gives it up, and drops a volatile
\* profile once its activation is down.
LinkMoves(a) ==
    \/ /\ link[a] = "activating"
       /\ \E s \in {"activated", "down"} : link' = [link EXCEPT ![a] = s]
       /\ UNCHANGED volatile
    \/ /\ link[a] = "down" /\ a \in volatile
       /\ volatile' = volatile \ {a}
       /\ UNCHANGED link

MoveLink ==
    /\ \E a \in Activations : LinkMoves(a)
    /\ UNCHANGED <<task, chosen, at, flag, target, txn, scope, outcome, unswept, linkFaults>>

\* Another NetworkManager client starts a hotspot of its own, or takes a link down.
OtherClient ==
    /\ Refused
    /\ \/ /\ link[ForeignLink] = "none"
          /\ link' = [a \in Activations |->
                        IF a = ForeignLink THEN "activated"
                        ELSE IF a \in Running(TRUE) THEN "down" ELSE link[a]]
       \/ \E a \in Activations : link[a] = "activated" /\ link' = [link EXCEPT ![a] = "down"]
    /\ UNCHANGED <<task, chosen, at, flag, target, volatile, txn, scope, outcome, unswept>>

\* NetworkManager is replaced: its links and volatile profiles are gone, and
\* the workers' owner-pinned proxies reach nothing any more.
ReplaceManager ==
    /\ Refused /\ scope # {}
    /\ scope' = {}
    /\ link' = [a \in Activations |-> IF link[a] = "none" THEN "none" ELSE "down"]
    /\ volatile' = {}
    /\ UNCHANGED <<task, chosen, at, flag, target, txn, outcome, unswept>>

----------------------------------------------------------------------------
LinkStep(w) ==
    \/ HotspotBegin(w) \/ HotspotAdd(w) \/ AddRefused(w) \/ LinkFail(w)
    \/ RollBack(w) \/ RemoveProfile(w)
    \/ VpnSelect(w) \/ VpnActivate(w)
    \/ AwaitStops(w) \/ AwaitSucceeds(w) \/ CheckOwner(w) \/ Report(w)
    \/ LookUp(w) \/ Deactivate(w) \/ DeleteFound(w)

LinkNext ==
    \/ \E w \in LinkWorkers : LinkStep(w) \/ CancelLink(w)
    \/ MoveLink \/ OtherClient \/ ReplaceManager

LinkSpec == LinkInit /\ [][LinkNext]_linkVars

----------------------------------------------------------------------------
(* Properties *)

\* A start that ends without success leaves nothing behind: neither its link
\* nor, when it rolled back, the generated profile with its passphrase ("a late
\* success must not leave a cancelled hotspot broadcasting",
\* "a generated passphrase can never survive a partial start").  The exceptions
\* are a teardown NetworkManager refused and a replaced NetworkManager.
NothingLeftBehind ==
    \A w \in LinkWorkers :
        (~Stopping(w) /\ outcome[w] \in {"failed", "cancelled"} /\ w \notin unswept)
            => link[w] \notin Up /\ (at[w] = "removed" => w \notin volatile)

\* A resolved hotspot fits its device, takes no device in use unless asked to by
\* name, and is read back as it was asked for.
HotspotFits(c) ==
    LET d == c.in.devices[c.dev]
        seen == HotspotReadBack(HotspotProfile(c.in))
    IN /\ c.in.radio /\ d.ap
       /\ d.busy => c.in.device = c.dev
       /\ c.in.band \in {"auto"} \cup (d.bands \ {"6"})
       /\ c.in.band # "auto" => seen.band = {c.in.band}
       /\ seen.hidden = c.in.hidden /\ seen.security = c.in.security

\* Starts are clean: one that does not succeed leaves nothing behind, one that
\* was cancelled before its last look at the flag never reports success, and a
\* hotspot start never displaces a hotspot another request of the daemon has
\* running (start_hotspot checks and activates in one profile transaction,
\* run_hotspot_worker and run_vpn_worker look at the flag last).  The hotspot it
\* adds fits its device and takes no device in use unless asked to by name, and
\* hotspot.status reads back what was asked (resolve_hotspot).
StartsAreClean ==
    [][/\ NothingLeftBehind'
       /\ \A w \in LinkWorkers : \A c \in chosen'[w] : HotspotFits(c)
       /\ \A w \in LinkWorkers :
            (~Stopping(w) /\ flag[w] /\ outcome[w] = "none") => outcome'[w] # "succeeded"
       /\ \A v, w \in LinkWorkers :
            (v # w /\ v \in Running(TRUE)) => ~(at[w] = "add" /\ at'[w] = "await")]_linkVars
=============================================================================
