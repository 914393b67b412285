---------------------------- MODULE WifiProfiles ----------------------------
(***************************************************************************)
(* From access points to stored profiles, for one SSID: how the daemon      *)
(* classifies what a radio hears, what a frontend is told to ask the user    *)
(* for (model.rs), which settings a request writes (nm/wifi_settings.rs,     *)
(* nm/activate.rs), how the profile editor replaces secrets                  *)
(* (nm/settings/profile_secrets.rs) and what is kept by a durable write      *)
(* (nm/credential_writer.rs).  The parts are pure functions of one another's *)
(* results; the properties are that they agree.                              *)
(* Flag words are sets of key managements ("cipher" stands for the cipher    *)
(* bits); a result that may be refused is a set of at most one profile.      *)
(***************************************************************************)
EXTENDS Naturals, FiniteSets

CONSTANTS AccessPoints,    \* access points that may be in the air: [privacy, wpa, rsn]
          ForeignProfiles, \* profiles other tools may have saved
          MaxWifiMoves     \* bound on requests, edits and changes of the air

VARIABLES air,    \* access points in range
          shown,  \* the network entry a frontend holds: {} or {[ap, known, prompt, hint]}
          saved,  \* the saved profiles of the SSID
          used,   \* settings of the last request or edit: {} when it was refused
          asked,  \* [how, pw, sight, fresh, takes]: that request (ghost)
          wifiMoves

wifiVars == <<air, shown, saved, used, asked, wifiMoves>>

SecretKeys == {"psk", "wep-key0", "wep-key1", "leap-password", "password", "pin"}
WepKeys == {"wep-key0", "wep-key1"}
FlagsKey(k) == IF k \in WepKeys THEN "wep-key" ELSE k
Section(k) == IF k \in {"password", "pin"} THEN "802-1x" ELSE "security"

NoSecrets == [k \in SecretKeys |-> "absent"]

(* The settings of a profile the daemon reads or writes.                    *)
KeyFlags == {"psk", "sae", "802.1x", "suite-b", "owe", "owe-tm", "cipher"}
KeyMgmts == {"", "none", "owe", "wpa-psk", "sae", "ieee8021x", "wpa-eap", "suite-b"}
Passwords == {"absent", "short", "long", "old"}
Policies == {"system", "agent", "not-saved", "not-required"}
ProfileSettings ==
    [mgmt : KeyMgmts, alg : {"", "open", "shared", "leap"}, tx : 0..3, phrase : BOOLEAN,
     dot1x : BOOLEAN, ca : BOOLEAN, private : BOOLEAN, secret : [SecretKeys -> Passwords],
     flags : [{FlagsKey(k) : k \in SecretKeys} -> Policies]]

(* base_wifi_connection_settings: no security section (mgmt = "").          *)
Blank == [mgmt |-> "", alg |-> "", tx |-> 0, phrase |-> FALSE, dot1x |-> FALSE, ca |-> FALSE,
          private |-> FALSE, secret |-> NoSecrets,
          flags |-> [f \in {FlagsKey(k) : k \in SecretKeys} |-> "system"]]

-----------------------------------------------------------------------------
(* model.rs: access point flags.                                            *)

Bits(ap) == ap.wpa \cup ap.rsn
FlagsPasswordless(flags) ==
    /\ flags \cap {"psk", "sae", "802.1x", "suite-b"} = {}
    /\ flags = {} \/ flags \cap {"owe", "owe-tm"} # {}
Passwordless(ap) ==
    \/ "owe" \in Bits(ap)
    \/ ~ap.privacy /\ FlagsPasswordless(ap.wpa) /\ FlagsPasswordless(ap.rsn)

\* Mutant: the personal bits are looked at before the enterprise ones.
PersonalFirst(ap) ==
    IF Passwordless(ap) THEN IF "owe" \in Bits(ap) THEN "enhanced-open" ELSE "open"
    ELSE IF Bits(ap) = {} THEN "legacy"
    ELSE IF Bits(ap) \cap {"psk", "sae", "cipher"} # {} THEN "personal"
    ELSE IF Bits(ap) \cap {"802.1x", "suite-b"} # {} THEN "enterprise" ELSE "unknown"

SecurityClass(ap) ==
    IF Passwordless(ap) THEN IF "owe" \in Bits(ap) THEN "enhanced-open" ELSE "open"
    ELSE IF Bits(ap) = {} THEN "legacy"
    ELSE IF Bits(ap) \cap {"802.1x", "suite-b"} # {} THEN "enterprise"
    ELSE IF Bits(ap) \cap {"psk", "sae"} # {} THEN "personal" ELSE "unknown"

PersonalKeyMgmt(ap) == IF "sae" \in Bits(ap) /\ "psk" \notin Bits(ap) THEN "sae" ELSE "wpa-psk"
EnterpriseKeyMgmt(ap) == IF "suite-b" \in Bits(ap) THEN "suite-b" ELSE "wpa-eap"

(* What NetworkManager accepts as usable with an access point (external).   *)
Compatible(p, ap) ==
    CASE p.mgmt = "" -> ~ap.privacy /\ Bits(ap) \subseteq {"owe-tm"}
      [] p.mgmt = "none" -> ap.privacy /\ Bits(ap) = {}
      [] p.mgmt = "wpa-psk" -> Bits(ap) \cap {"psk", "sae"} # {}
      [] p.mgmt = "ieee8021x" -> ap.privacy
      [] p.mgmt = "wpa-eap" -> Bits(ap) \cap {"802.1x", "suite-b"} # {}
      [] OTHER -> p.mgmt \in Bits(ap)

(* NetworkManager verifies a profile before it stores it (external).        *)
Verifies(p) ==
    /\ p.alg = "leap" => p.mgmt = "ieee8021x"
    /\ p.mgmt \in {"wpa-eap", "suite-b"} \/ (p.mgmt = "ieee8021x" /\ p.alg # "leap") => p.dot1x

(* connection_readiness, auth_capability_for and connect_prompt_for.        *)
Prompt(ap, known) ==
    CASE known \/ SecurityClass(ap) \in {"open", "enhanced-open"} -> "none"
      [] ~known /\ SecurityClass(ap) \in {"personal", "legacy"} -> "password"
      [] ~known /\ SecurityClass(ap) = "enterprise" -> "enterprise"
      [] ~known /\ SecurityClass(ap) = "unknown" -> "unsupported"
AuthKeyMgmt(ap, known) ==
    CASE known \/ SecurityClass(ap) \in {"open", "enhanced-open", "unknown"} -> "unset"
      [] ~known /\ SecurityClass(ap) = "personal" -> PersonalKeyMgmt(ap)
      [] ~known /\ SecurityClass(ap) = "legacy" -> "none"
      [] ~known /\ SecurityClass(ap) = "enterprise" -> EnterpriseKeyMgmt(ap)

(* A group holds one class of access points; profiles match them by SSID    *)
(* among the device-wide AvailableConnections.                              *)
Offered == {p \in saved : \E ap \in air : Compatible(p, ap)}

Entries == {[ap |-> ap, known |-> Offered # {}, prompt |-> Prompt(ap, Offered # {}),
             hint |-> AuthKeyMgmt(ap, Offered # {})] : ap \in air}

-----------------------------------------------------------------------------
(* auth.rs: "long" is an 8-63 character phrase, "short" a 5 character key.  *)
Suits(format, pw) == IF format = "wep-key" THEN pw = "short" ELSE pw # "short"

(* nm/wifi_settings.rs: the sections a request adds to settings p.          *)
WithPersonal(p, mgmt, pw, checked) ==
    IF pw = "absent" THEN {[p EXCEPT !.mgmt = mgmt]}
    ELSE {q \in {[p EXCEPT !.mgmt = mgmt, !.secret["psk"] = pw, !.flags["psk"] = "system"]} :
            checked => Suits("psk", pw)}
WithWep(p, pw, kind) ==
    {q \in {[p EXCEPT !.mgmt = "none", !.secret["wep-key0"] = pw, !.flags["wep-key"] = "system",
                      !.phrase = (kind = "phrase")]} :
       Suits(IF kind = "phrase" THEN "wep-phrase" ELSE "wep-key", pw)}
WithEnterprise(p, ent, pw, mgmt) ==
    {q \in {[p EXCEPT !.mgmt = mgmt, !.dot1x = TRUE, !.ca = @ \/ ent.ca, !.secret["password"] = pw,
                      !.flags["password"] = IF ent.flags # "default" THEN ent.flags
                                            ELSE IF pw # "absent" THEN "system" ELSE @]} :
       ent.flags # "agent"}

VisibleSettings(ap, t) ==
    CASE SecurityClass(ap) = "open" -> {Blank}
      [] SecurityClass(ap) = "enhanced-open" -> {[Blank EXCEPT !.mgmt = "owe"]}
      [] SecurityClass(ap) = "personal" ->
           WithPersonal(Blank, PersonalKeyMgmt(ap), t.pw, PersonalKeyMgmt(ap) = "wpa-psk")
      [] SecurityClass(ap) = "legacy" ->
           IF t.pw # "absent" THEN WithWep(Blank, t.pw, t.kind)
           ELSE {[Blank EXCEPT !.mgmt = "none", !.phrase = (t.kind = "phrase")]}
      [] SecurityClass(ap) = "enterprise" ->
           UNION {WithEnterprise(Blank, ent, t.pw, EnterpriseKeyMgmt(ap)) : ent \in t.ent}
      [] OTHER -> {}

(* security_settings_for_target_hint and security_settings_without_hint;    *)
(* "none" is normalized to "wep".                                           *)
HintedSettings(p, t) ==
    IF t.ent # {} THEN UNION {WithEnterprise(p, ent, t.pw, IF t.hint = "unset" THEN "wpa-eap"
                                                           ELSE t.hint) : ent \in t.ent}
    ELSE CASE t.hint = "unset" ->
                IF t.pw = "absent" THEN {p}
                ELSE IF t.kind # "unset" THEN WithWep(p, t.pw, t.kind)
                ELSE WithPersonal(p, "wpa-psk", t.pw, TRUE)
           [] t.hint = "open" -> {p}
           [] t.hint = "owe" -> {[p EXCEPT !.mgmt = "owe"]}
           [] t.hint = "none" -> IF t.pw = "absent" THEN {} ELSE WithWep(p, t.pw, t.kind)
           [] t.hint \in {"wpa-psk", "sae"} ->
                IF t.pw = "absent" THEN {} ELSE WithPersonal(p, t.hint, t.pw, TRUE)
           [] OTHER -> {}

(* security_settings_for_visible_ap, merged into the profile.               *)
SightedSettings(p, t, ap) ==
    IF t.ent # {} THEN UNION {WithEnterprise(p, ent, t.pw, EnterpriseKeyMgmt(ap)) : ent \in t.ent}
    ELSE IF SecurityClass(ap) = "enhanced-open" THEN {[p EXCEPT !.mgmt = "owe"]}
    ELSE IF t.pw # "absent" /\ SecurityClass(ap) = "legacy" THEN WithWep(p, t.pw, t.kind)
    ELSE IF t.pw # "absent" /\ SecurityClass(ap) = "personal"
         THEN WithPersonal(p, PersonalKeyMgmt(ap), t.pw, PersonalKeyMgmt(ap) = "wpa-psk")
    ELSE {p}

(* security_settings_for_saved_profile.                                     *)
UnsightedSettings(p, t) ==
    IF t.ent # {} \/ t.hint # "unset" THEN HintedSettings(p, t)
    ELSE IF t.pw = "absent" THEN {p}
    ELSE IF p.mgmt \in {"wpa-psk", "sae"} THEN WithPersonal(p, p.mgmt, t.pw, TRUE)
    ELSE IF p.mgmt \in {"none", ""} THEN WithWep(p, t.pw, t.kind)
    ELSE HintedSettings(p, t)

(* apply_saved_activation_settings; cloned profiles go through it too.      *)
SavedSettings(p, t, sight) ==
    IF sight = {} THEN UnsightedSettings(p, t)
    ELSE UNION {SightedSettings(p, t, ap) : ap \in sight}

(* apply_target_connection_metadata and validate_private_ca_paths.          *)
Trusted(settings) == {p \in settings : ~(p.private /\ p.dot1x /\ p.ca)}
Metadata(settings, t) == Trusted({[p EXCEPT !.private = @ \/ t.private] : p \in settings})

(* What NetworkManager reports and stores: an open BSS in OWE transition    *)
(* mode names no cipher; saved profiles verify.  The profiles of other      *)
(* tools are ones validate_private_ca_paths lets the daemon activate, and   *)
(* no LEAP profile shares its SSID with a protected OWE network.            *)
ASSUME WifiAssumption ==
    /\ AccessPoints \subseteq [privacy : BOOLEAN, wpa : SUBSET KeyFlags, rsn : SUBSET KeyFlags]
    /\ \A ap \in AccessPoints : "owe-tm" \in Bits(ap) => "cipher" \notin Bits(ap)
    /\ ForeignProfiles \subseteq {p \in Trusted(ProfileSettings) : Verifies(p)}
    /\ \A p \in ForeignProfiles, ap \in AccessPoints :
          p.alg = "leap" /\ "owe" \in Bits(ap) => ~ap.privacy

-----------------------------------------------------------------------------
(* profile_secret_spec and wifi_secret_kind: the key `password` stands for. *)
PrimaryKey(p) ==
    CASE p.mgmt \in {"wpa-psk", "sae"} -> "psk"
      [] p.mgmt = "ieee8021x" /\ p.alg = "leap" -> "leap-password"
      [] p.mgmt = "none" -> IF p.tx = 0 THEN "wep-key0" ELSE "wep-key1"
      [] OTHER -> IF p.dot1x \/ p.mgmt \in {"wpa-eap", "suite-b"} THEN "password" ELSE "none"
EditableKeys(p) ==
    CASE PrimaryKey(p) \in WepKeys -> WepKeys
      [] PrimaryKey(p) = "password" -> {"password", "pin"}
      [] OTHER -> {PrimaryKey(p)}

(* secret_keys_for and wireless_secret_key: the key a prompt without hints  *)
(* asks for, NetworkManager naming the setting.                             *)
AgentKey(p) ==
    IF p.mgmt \in {"wpa-eap", "suite-b"} \/ (p.mgmt = "ieee8021x" /\ p.alg # "leap") THEN "password"
    ELSE IF p.mgmt = "none" THEN IF p.tx = 0 THEN "wep-key0" ELSE "wep-key1"
    ELSE IF p.alg = "leap" THEN "leap-password" ELSE "psk"

(* wifi_share_payload_for_settings.                                         *)
ShareKey(p) ==
    CASE p.mgmt \in {"wpa-psk", "sae"} -> "psk"
      [] p.mgmt = "none" -> IF p.tx = 0 THEN "wep-key0" ELSE "wep-key1"
      [] OTHER -> "none"

\* Mutant: a WEP profile is not counted among those with secrets to preserve.
RequiresPskOnly(section, p) ==
    IF section = "security" THEN p.mgmt \in {"wpa-psk", "sae"} \/ p.alg = "leap" ELSE p.dot1x

RequiresSecrets(section, p) ==
    IF section = "security" THEN p.mgmt \in {"wpa-psk", "sae", "none"} \/ p.alg = "leap" ELSE p.dot1x

-----------------------------------------------------------------------------
(* nm/credential_writer.rs.  GetSettings returns no secrets.                *)
PublicPart(p) == [p EXCEPT !.secret = NoSecrets]

Present(section, p) == IF section = "security" THEN p.mgmt # "" ELSE p.dot1x

(* validate_policy_changes.                                                 *)
PolicyAllows(p, q) ==
    \A k \in SecretKeys :
        LET before == p.flags[FlagsKey(k)]  after == q.flags[FlagsKey(k)] IN
        Present(Section(k), p) /\ Present(Section(k), q) =>
            /\ before = "not-saved" => after = "not-saved"
            /\ after = "agent" => before = "agent"
            /\ before = "agent" /\ after # "agent" => k \notin WepKeys /\ q.secret[k] # "absent"

(* preserve_secrets: a write that carries a secret must carry them all;     *)
(* NetworkManager keeps the stored ones when a write carries none.          *)
Merged(p, q) ==
    [q EXCEPT !.secret = [k \in SecretKeys |->
        IF q.flags[FlagsKey(k)] # "system" THEN "absent"
        ELSE IF q.secret = NoSecrets THEN p.secret[k]
        ELSE IF q.secret[k] # "absent" THEN q.secret[k]
        ELSE IF RequiresSecrets(Section(k), q) THEN p.secret[k] ELSE "absent"]]
Committed(p, settings) ==
    {Merged(p, q) : q \in {q \in settings : PolicyAllows(p, q) /\ Verifies(q)}}

NoRequest == [how |-> "none", pw |-> "absent", sight |-> {}, fresh |-> FALSE, takes |-> FALSE]
Quiet == used' = {} /\ asked' = NoRequest
Spend == wifiMoves < MaxWifiMoves /\ wifiMoves' = wifiMoves + 1

(* saved_wifi_activation_target_for: compatible with what is seen, or any   *)
(* profile of the SSID when no access point was asked for.                  *)
Found(t, sight) ==
    IF ~t.remember THEN {}
    ELSE IF ~t.hidden /\ sight # {} /\ Offered # {} THEN Offered
    ELSE IF t.ap # {} THEN {} ELSE saved

(* visible_access_point_for takes the first match.                          *)
Sights(t) ==
    LET matching == {ap \in air : t.ap = {} \/ ap \in t.ap}
    IN IF matching = {} THEN {{}} ELSE {{ap} : ap \in matching}

Offers(t) == t.pw # "absent" \/ t.ent # {}

(* Whether a request's security takes the password (ghost).                 *)
Keyed(t, sight) ==
    \/ t.ent # {}
    \/ sight = {} /\ t.hint # "open"
    \/ \E ap \in sight : SecurityClass(ap) \in {"personal", "legacy"}

Note(how, t, sight, fresh, takes) ==
    asked' = [how |-> how, pw |-> t.pw, sight |-> sight, fresh |-> fresh, takes |-> takes]

(* activate_saved_wifi_connection_for.                                      *)
ConnectSaved(p, t, sight, fresh) ==
    LET out == IF Offers(t) THEN Committed(p, Metadata(SavedSettings(PublicPart(p), t, sight), t))
               ELSE Trusted({p})
    IN /\ used' = out
       /\ saved' = IF out = {} THEN saved ELSE (saved \ {p}) \cup out
       /\ Note("saved", t, sight, fresh, Keyed(t, sight))

(* visible_activation_settings: the profiles whose settings may be cloned.  *)
Origins(t, sight) ==
    IF ~t.hidden /\ sight # {} /\ Offered # {} /\ (Offers(t) \/ ~t.remember)
    THEN {{p} : p \in Offered} ELSE {{}}

(* add_and_activate_wifi_connection_for.                                    *)
ConnectNew(t, sight, from, fresh) ==
    LET made == IF t.hidden THEN HintedSettings(Blank, t)
                ELSE IF from # {} THEN UNION {SavedSettings(PublicPart(p), t, sight) : p \in from}
                ELSE UNION {VisibleSettings(ap, t) : ap \in sight}
        out == {q \in Metadata(made, t) : Verifies(q)}
    IN /\ used' = out
       /\ saved' = IF t.remember THEN saved \cup out ELSE saved
       /\ IF t.hidden THEN Note("hidden", t, sight, fresh, Keyed(t, {}))
          ELSE IF from # {} THEN Note("clone", t, sight, fresh, Keyed(t, sight))
          ELSE Note("new", t, sight, fresh, \E q \in out : q.mgmt \notin {"", "owe"})

(* connect.rs: a saved profile first, else a new one.  `t` is the target    *)
(* and its credentials.                                                     *)
Connect(t, fresh) ==
    \E sight \in Sights(t) :
        \/ \E p \in Found(t, sight) : ConnectSaved(p, t, sight, fresh)
        \/ /\ Found(t, sight) = {}
           /\ \E from \in Origins(t, sight) : ConnectNew(t, sight, from, fresh)

(* network list handlers: a frontend reads an entry.                        *)
Look ==
    /\ \E e \in Entries : shown' = {e}
    /\ Quiet
    /\ UNCHANGED <<air, saved, wifiMoves>>

(* wifi.connectTarget with a network entry: the user answers its prompt     *)
(* with credentials of the right form (connect_target_for_network).         *)
AnswerPrompt ==
    /\ Spend
    /\ \E e \in shown, pw \in {"long", "short", "absent"}, kind \in {"unset", "phrase"},
          remember \in BOOLEAN :
        /\ e.prompt # "unsupported"
        /\ e.prompt = "none" => pw = "absent" /\ kind = "unset"
        /\ e.prompt = "password" =>
               pw = IF e.hint = "none" /\ kind = "unset" THEN "short" ELSE "long"
        /\ Connect([pw |-> pw, kind |-> kind, hint |-> e.hint, ap |-> {e.ap}, hidden |-> FALSE,
                    ent |-> IF e.prompt = "enterprise" THEN {[flags |-> "default", ca |-> FALSE]} ELSE {},
                    remember |-> remember, private |-> FALSE],
                   e \in Entries /\ \A p \in Offered : Compatible(p, e.ap))
    /\ UNCHANGED <<air, shown>>

Enterprises == {{}, {[flags |-> "default", ca |-> TRUE]}, {[flags |-> "not-saved", ca |-> FALSE]},
                {[flags |-> "agent", ca |-> FALSE]}}

(* A target named by its SSID: the command line, a QR code, a hidden        *)
(* network.  Hints that contradict the credentials are not asked for.       *)
SsidTargets ==
    {t \in [pw : {"long", "short", "absent"}, kind : {"unset", "phrase"}, ent : Enterprises,
            hint : {"unset", "open", "none", "sae", "wpa-eap"}, hidden : BOOLEAN,
            private : BOOLEAN, ap : {{}}, remember : {TRUE}] :
        /\ t.kind = "phrase" => t.pw = "long" /\ t.ent = {}
        /\ t.private => t.ent # {}
        /\ IF t.ent = {} THEN t.hint # "wpa-eap" ELSE t.hint \in {"unset", "wpa-eap"}}

ConnectSsid ==
    /\ Spend
    /\ \E t \in SsidTargets : Connect(t, FALSE)
    /\ UNCHANGED <<air, shown>>

(* update_wifi_profile_by_path: apply_advanced, then update_profile_secrets. *)
Advanced(p, u) ==
    Trusted({[p EXCEPT !.private = CASE u.private = "set" -> TRUE [] u.private = "clear" -> FALSE
                                     [] OTHER -> @,
                       !.ca = CASE u.ca = "set" -> TRUE [] u.ca = "clear" -> FALSE [] OTHER -> @,
                       !.dot1x = @ \/ u.ca # "keep" \/ u.flags # "keep",
                       !.flags["password"] = IF u.flags = "keep" THEN @ ELSE u.flags]})
Replaced(p, key, pw) ==
    IF pw = "absent" THEN {p}
    ELSE IF /\ key \in EditableKeys(p) \ {"none"}
            /\ p.flags[FlagsKey(key)] # "not-saved"
            /\ key = "psk" => Suits("psk", pw)
            /\ key \in WepKeys => Suits(IF p.phrase THEN "wep-phrase" ELSE "wep-key", pw)
         THEN {[p EXCEPT !.secret[key] = pw, !.flags[FlagsKey(key)] = "system"]} ELSE {}

(* `named` chooses a key of `secrets`; otherwise `password` is the primary. *)
Edits ==
    {u \in [pw : {"long", "short", "absent"}, named : {"primary", "wep-key1", "pin"},
            flags : {"keep", "agent", "not-saved", "system"}, ca : {"keep", "set", "clear"},
            private : {"keep", "set", "clear"}] :
        /\ Cardinality({i \in {1, 2, 3} : <<u.flags, u.ca, u.private>>[i] # "keep"}) <= 1
        /\ u.pw = "absent" => u.named = "primary"}

EditProfile ==
    /\ Spend
    /\ \E p \in saved, u \in Edits :
        LET Key(q) == IF u.named = "primary" THEN PrimaryKey(q) ELSE u.named
            edited == UNION {Replaced(q, Key(q), u.pw) : q \in Advanced(PublicPart(p), u)}
            out == Committed(p, edited)
        IN /\ used' = out
           /\ saved' = IF out = {} THEN saved ELSE (saved \ {p}) \cup out
           /\ asked' = [how |-> "edit", pw |-> IF u.named = "primary" THEN u.pw ELSE "absent",
                        sight |-> {}, fresh |-> FALSE, takes |-> TRUE]
    /\ UNCHANGED <<air, shown>>

(* External: access points come and go, or are reconfigured.                *)
AirMoves ==
    /\ Spend
    /\ Cardinality(air) = 1
    /\ \E ap \in AccessPoints \ air : air' \in {{}, {ap}, air \cup {ap}}
    /\ Quiet
    /\ UNCHANGED <<shown, saved>>

WifiInit ==
    /\ air \in {{ap} : ap \in AccessPoints}
    /\ shown = {}
    /\ saved \in {{}} \cup {{p} : p \in ForeignProfiles}
    /\ used = {}
    /\ asked = NoRequest
    /\ wifiMoves = 0

WifiNext == Look \/ AnswerPrompt \/ ConnectSsid \/ EditProfile \/ AirMoves
WifiSpec == WifiInit /\ [][WifiNext]_wifiVars

-----------------------------------------------------------------------------
(* What an entry's prompt asks for is enough: a user who answers it while   *)
(* the air is as the entry says is not refused (of entries that inherited   *)
(* no other network's profile), and a profile created for an access point   *)
(* is one NetworkManager can use with that access point, however stale the  *)
(* entry was.                                                               *)
(* connect_prompt_for (model.rs) and visible_connection_settings            *)
(* (nm/wifi_settings.rs) classify separately.                               *)
PromptSuffices ==
    /\ asked.fresh => used # {}
    /\ asked.how = "new" => \A p \in used, ap \in asked.sight : Compatible(p, ap)

(* A password the daemon accepted is the one the profile uses: the editor's *)
(* primary key holds it, the share payload and the secret agent read the    *)
(* same key.  Two exceptions of the code are excluded: a WEP profile whose  *)
(* transmit index is not 0 (wep_security_section writes wep-key0), and      *)
(* credentials NetworkManager was told not to save.                         *)
ReadsBack ==
    /\ asked.pw # "absent" /\ asked.takes =>
          \A p \in used : LET k == PrimaryKey(p) IN
              k # "none" /\ (p.tx = 0 /\ p.flags[FlagsKey(k)] = "system" => p.secret[k] = asked.pw)
    /\ \A p \in saved : p.mgmt \notin {"", "owe"} =>
          AgentKey(p) = PrimaryKey(p) /\ ShareKey(p) \in {"none", PrimaryKey(p)}

(* A credential survives the way through connect, editor and durable write: *)
(* what was accepted reads back (ReadsBack), and replacing one secret of a  *)
(* profile keeps the others its security uses, the WEP keys of other slots  *)
(* and the PIN beside an 802.1X password (preserve_secrets,                 *)
(* update_profile_secrets).                                                 *)
SecretsKept ==
    [][/\ ReadsBack'
       /\ \A p \in saved \ saved', q \in used' : p.mgmt = q.mgmt =>
            \A k \in EditableKeys(p) \ {"none"} :
              q.flags[FlagsKey(k)] = "system" => q.secret[k] # "absent" \/ p.secret[k] = "absent"]_wifiVars
=============================================================================
