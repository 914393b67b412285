------------------------------- MODULE MCWifi -------------------------------
(* The three parts of a Wi-Fi join that meet in NetworkManager's profiles,  *)
(* each in the instances that make its hard cases happen: a connect request *)
(* (WifiConnect), concurrent writers of saved profiles (ProfileStore), and  *)
(* the settings requests and edits write (WifiProfiles). `part` says which  *)
(* of them moves; the others rest in one initial state.                     *)
EXTENDS WifiConnect, ProfileStore, WifiProfiles, TLC

CONSTANTS w1, w2

VARIABLE part
mcVars == <<part, requestVars, storeVars, wifiVars>>

(* Requests with and without an alternative, credentials, a saved profile   *)
(* to reuse, a hidden target.                                               *)
Ask(alternative, credentials, temporary, hidden, secured) ==
    [alternative |-> alternative, credentials |-> credentials, temporary |-> temporary,
     hidden |-> hidden, secured |-> secured]
MCAsked == {Ask(TRUE, FALSE, FALSE, FALSE, TRUE), Ask(FALSE, TRUE, FALSE, TRUE, FALSE),
            Ask(TRUE, FALSE, TRUE, FALSE, FALSE)}

(* Pairs of writers on the profiles of one SSID. *)
Pair(a, b) == w1 :> a @@ w2 :> b
MCJobs == {Pair("band", "confirm"), Pair("credentials", "autoconnect"),
           Pair("remember", "confirm"), Pair("drop", "credentials"), Pair("forget", "band")}

(* One access point of each kind, and profiles other tools have saved. *)
Ap(privacy, wpa, rsn) == [privacy |-> privacy, wpa |-> wpa, rsn |-> rsn]
MCAccessPoints ==
    {Ap(FALSE, {}, {}), Ap(FALSE, {}, {"owe-tm"}), Ap(FALSE, {}, {"owe"}), Ap(TRUE, {}, {}),
     Ap(TRUE, {"psk", "cipher"}, {"psk", "sae", "cipher"}), Ap(TRUE, {}, {"sae", "cipher"}),
     Ap(TRUE, {}, {"suite-b", "psk"}), Ap(TRUE, {}, {"cipher"})}
Foreign(mgmt) == [Blank EXCEPT !.mgmt = mgmt]
MCForeign ==
    {[Foreign("sae") EXCEPT !.secret["psk"] = "old"],
     [Foreign("wpa-psk") EXCEPT !.flags["psk"] = "agent"],
     [Foreign("none") EXCEPT !.secret["wep-key0"] = "old", !.secret["wep-key1"] = "old"],
     [Foreign("wpa-eap") EXCEPT !.dot1x = TRUE, !.private = TRUE, !.secret["password"] = "old",
                                !.secret["pin"] = "old"],
     [Foreign("wpa-eap") EXCEPT !.dot1x = TRUE, !.flags["password"] = "not-saved"],
     [Foreign("ieee8021x") EXCEPT !.alg = "leap", !.secret["leap-password"] = "old"]}

(* A part at rest: one fixed initial state. *)
RequestQuiet ==
    /\ request = Ask(FALSE, FALSE, FALSE, FALSE, FALSE) /\ profiles = {} /\ device = Down
    /\ pc = "start" /\ attempt = 1 /\ rescanned = FALSE /\ created = Nil
    /\ path = Nil /\ scope = Nil /\ error = Nil /\ wait = NoWait
    /\ cancelled = FALSE /\ late = FALSE /\ events = 0
    /\ status = "idle" /\ attempts = <<>> /\ outcome = Nil /\ kept = {}
StoreQuiet ==
    /\ prof = [p \in Profiles |-> Gone] /\ link = Disconnected /\ owner = 1 /\ txn = NONE
    /\ moves = 0 /\ connects = "none" /\ job = [w \in Workers |-> Idle("autoconnect")]
WifiQuiet ==
    air = {} /\ shown = {} /\ saved = {} /\ used = {} /\ asked = NoRequest /\ wifiMoves = 0

MCInit ==
    \/ part = "request" /\ RequestInit /\ StoreQuiet /\ WifiQuiet
    \/ part = "store" /\ RequestQuiet /\ StoreInit /\ WifiQuiet
    \/ part = "wifi" /\ RequestQuiet /\ StoreQuiet /\ WifiInit

MCNext ==
    \/ part = "request" /\ RequestNext /\ UNCHANGED <<part, storeVars, wifiVars>>
    \/ part = "store" /\ StoreNext /\ UNCHANGED <<part, requestVars, wifiVars>>
    \/ part = "wifi" /\ WifiNext /\ UNCHANGED <<part, requestVars, storeVars>>

MCSpec == MCInit /\ [][MCNext]_mcVars
=============================================================================
