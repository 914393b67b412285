----------------------------- MODULE WifiProofs -----------------------------
(***************************************************************************)
(* What is stored and looked up, for every request, every stored profile   *)
(* and any set of processes: a prompt asks for what the network needs and  *)
(* stored secrets survive (WifiProfiles); the cache and history files lose *)
(* nothing (Caches); an answer assembled from several replies claims no    *)
(* more than was observed (Lookups).                                       *)
(***************************************************************************)
EXTENDS WifiProfiles, Caches, Lookups, Integers, TLAPS

\* Most steps are first-order; the ones that need arithmetic name SMT;
\* the limits leave room for a loaded machine.
USE ZenonT(60)

-----------------------------------------------------------------------------
\* The settings a request writes.

\* Profiles NetworkManager stores and the daemon may activate.
Sound ==
    {p \in ProfileSettings :
        /\ Verifies(p) /\ ~(p.private /\ p.dot1x /\ p.ca)
        /\ p.alg = "leap" => \E f \in ForeignProfiles : f.alg = "leap"}

\* The settings derived from p: the daemon writes neither algorithm nor
\* transmit index, and drops no 802-1x section.
Kin(p) == {q \in ProfileSettings : q.alg = p.alg /\ q.tx = p.tx /\ (p.dot1x => q.dot1x)}

\* The password is where the profile's security reads it.
Holds(q, pw) == PrimaryKey(q) # "none" /\ (q.tx = 0 => q.secret[PrimaryKey(q)] = pw)

\* What a request may carry.
EnterpriseSet == [flags : {"default", "agent", "not-saved"}, ca : BOOLEAN]
EnterpriseMgmts == {"wpa-eap", "suite-b"}
Hints == {"unset", "open", "none", "wpa-psk", "sae"} \cup EnterpriseMgmts
Target(t) ==
    /\ t.pw \in Passwords /\ t.ent \in SUBSET EnterpriseSet /\ t.hint \in Hints
    /\ t.ent # {} => t.hint \in {"unset"} \cup EnterpriseMgmts
    /\ t.private \in BOOLEAN /\ t.hidden \in BOOLEAN /\ t.remember \in BOOLEAN

WifiInv ==
    /\ air \subseteq AccessPoints /\ saved \subseteq Sound
    /\ \A e \in shown : e.hint \in Hints /\ (e.prompt = "enterprise" => e.hint \in EnterpriseMgmts)
    /\ PromptSuffices
\* Writing secrets and policies keeps a profile's other settings.
LEMMA SecretWritten ==
    ASSUME NEW p \in ProfileSettings, NEW k \in SecretKeys, NEW pw \in Passwords, NEW f \in Policies
    PROVE  /\ [p.secret EXCEPT ![k] = pw] \in [SecretKeys -> Passwords]
           /\ [p.flags EXCEPT ![FlagsKey(k)] = f] \in [{FlagsKey(j) : j \in SecretKeys} -> Policies]
<1>1. p.secret \in [SecretKeys -> Passwords] /\ p.flags \in [{FlagsKey(j) : j \in SecretKeys} -> Policies]
  BY DEF ProfileSettings
<1>2. FlagsKey(k) \in {FlagsKey(j) : j \in SecretKeys}
  OBVIOUS
<1> HIDE DEF SecretKeys, Passwords
<1> QED BY <1>1, <1>2

LEMMA BlankSound ==
    /\ Blank \in ProfileSettings /\ Blank \in Sound /\ Verifies(Blank)
    /\ Blank.mgmt = "" /\ Blank.alg = "" /\ Blank.dot1x = FALSE /\ Blank.ca = FALSE /\ Blank.private = FALSE
<1>1. NoSecrets \in [SecretKeys -> Passwords]
  BY DEF NoSecrets, Passwords
<1>2. [f \in {FlagsKey(k) : k \in SecretKeys} |-> "system"] \in [{FlagsKey(k) : k \in SecretKeys} -> Policies]
  BY DEF Policies
<1>3. 0 \in 0..3
  BY SMTT(40)
<1>4. /\ Blank.mgmt = "" /\ Blank.alg = "" /\ Blank.dot1x = FALSE /\ Blank.ca = FALSE
      /\ Blank.private = FALSE
  BY DEF Blank
<1>5. Blank \in ProfileSettings
  BY <1>1, <1>2, <1>3 DEF Blank, ProfileSettings, KeyMgmts
<1> QED BY <1>4, <1>5 DEF Sound, Verifies

\* personal_security_section.
LEMMA PersonalWritten ==
    ASSUME NEW p \in ProfileSettings, NEW m \in {"wpa-psk", "sae"}, NEW pw \in Passwords, NEW c \in BOOLEAN
    PROVE  \A q \in WithPersonal(p, m, pw, c) :
              /\ q \in Kin(p) /\ q.mgmt = m /\ q.dot1x = p.dot1x /\ q.ca = p.ca
              /\ q.private = p.private /\ (pw # "absent" => Holds(q, pw))
<1>0. m \in KeyMgmts
  BY DEF KeyMgmts
<1>1. PICK q : q = [p EXCEPT !.mgmt = m]
  OBVIOUS
<1>2. q \in Kin(p) /\ q.mgmt = m /\ q.dot1x = p.dot1x /\ q.ca = p.ca /\ q.private = p.private
  BY <1>0, <1>1 DEF ProfileSettings, Kin
<1>3. PICK s : s = [p.secret EXCEPT !["psk"] = pw]
  OBVIOUS
<1>4. PICK f : f = [p.flags EXCEPT !["psk"] = "system"]
  OBVIOUS
<1>5. "psk" \in SecretKeys /\ "system" \in Policies /\ FlagsKey("psk") = "psk"
  BY DEF SecretKeys, Policies, FlagsKey, WepKeys
<1>6. s \in [SecretKeys -> Passwords] /\ f \in [{FlagsKey(j) : j \in SecretKeys} -> Policies]
  BY <1>3, <1>4, <1>5, SecretWritten
<1>7. s["psk"] = pw
  BY <1>3, <1>5 DEF ProfileSettings
<1>8. PICK r : r = [p EXCEPT !.mgmt = m, !.secret["psk"] = pw, !.flags["psk"] = "system"]
  OBVIOUS
<1>9. r = [p EXCEPT !.mgmt = m, !.secret = s, !.flags = f]
  BY <1>3, <1>4, <1>8
<1>10. r \in Kin(p) /\ r.mgmt = m /\ r.dot1x = p.dot1x /\ r.ca = p.ca /\ r.private = p.private /\ r.secret = s
  BY <1>0, <1>6, <1>9 DEF ProfileSettings, Kin
<1>11. Holds(r, pw)
  BY <1>7, <1>10 DEF Holds, PrimaryKey
<1>12. WithPersonal(p, m, pw, c) \subseteq {q, r} /\ (pw # "absent" => WithPersonal(p, m, pw, c) \subseteq {r})
  BY <1>1, <1>8 DEF WithPersonal
<1> QED BY <1>2, <1>10, <1>11, <1>12

\* wep_security_section.
LEMMA WepWritten ==
    ASSUME NEW p \in ProfileSettings, NEW pw \in Passwords, NEW kind
    PROVE  \A q \in WithWep(p, pw, kind) :
              /\ q \in Kin(p) /\ q.mgmt = "none" /\ q.dot1x = p.dot1x /\ q.ca = p.ca
              /\ q.private = p.private /\ Holds(q, pw)
<1>0. "none" \in KeyMgmts /\ (kind = "phrase") \in BOOLEAN
  BY DEF KeyMgmts
<1>3. PICK s : s = [p.secret EXCEPT !["wep-key0"] = pw]
  OBVIOUS
<1>4. PICK f : f = [p.flags EXCEPT !["wep-key"] = "system"]
  OBVIOUS
<1>5. "wep-key0" \in SecretKeys /\ "system" \in Policies /\ FlagsKey("wep-key0") = "wep-key"
  BY DEF SecretKeys, Policies, FlagsKey, WepKeys
<1>6. s \in [SecretKeys -> Passwords] /\ f \in [{FlagsKey(j) : j \in SecretKeys} -> Policies]
  BY <1>3, <1>4, <1>5, SecretWritten
<1>7. s["wep-key0"] = pw
  BY <1>3, <1>5 DEF ProfileSettings
<1>8. PICK r : r = [p EXCEPT !.mgmt = "none", !.secret["wep-key0"] = pw, !.flags["wep-key"] = "system",
                             !.phrase = (kind = "phrase")]
  OBVIOUS
<1>9. r = [p EXCEPT !.mgmt = "none", !.secret = s, !.flags = f, !.phrase = (kind = "phrase")]
  BY <1>3, <1>4, <1>8
<1>10. r \in Kin(p) /\ r.mgmt = "none" /\ r.dot1x = p.dot1x /\ r.ca = p.ca /\ r.private = p.private /\ r.secret = s
  BY <1>0, <1>6, <1>9 DEF ProfileSettings, Kin
<1>11. Holds(r, pw)
  BY <1>7, <1>10 DEF Holds, PrimaryKey
<1>12. WithWep(p, pw, kind) \subseteq {r}
  BY <1>8 DEF WithWep
<1> QED BY <1>10, <1>11, <1>12

\* enterprise_settings.
LEMMA EnterpriseWritten ==
    ASSUME NEW p \in ProfileSettings, NEW pw \in Passwords, NEW m \in EnterpriseMgmts,
           NEW ent \in EnterpriseSet
    PROVE  \A q \in WithEnterprise(p, ent, pw, m) :
              /\ q \in Kin(p) /\ q.mgmt = m /\ q.dot1x /\ q.ca = (p.ca \/ ent.ca)
              /\ q.private = p.private /\ Holds(q, pw)
<1>0. m \in KeyMgmts /\ ent.flags \in {"default", "agent", "not-saved"} /\ ent.ca \in BOOLEAN
  BY DEF KeyMgmts, EnterpriseSet, EnterpriseMgmts
<1>1. PICK g : g = IF ent.flags # "default" THEN ent.flags
                   ELSE IF pw # "absent" THEN "system" ELSE p.flags["password"]
  OBVIOUS
<1>3. PICK s : s = [p.secret EXCEPT !["password"] = pw]
  OBVIOUS
<1>4. PICK f : f = [p.flags EXCEPT !["password"] = g]
  OBVIOUS
<1>5. "password" \in SecretKeys /\ FlagsKey("password") = "password"
  BY DEF SecretKeys, FlagsKey, WepKeys
<1>2. g \in Policies
  <2>1. p.flags["password"] \in Policies
    BY <1>5 DEF ProfileSettings
  <2> QED BY <1>0, <1>1, <2>1 DEF Policies
<1>6. s \in [SecretKeys -> Passwords] /\ f \in [{FlagsKey(j) : j \in SecretKeys} -> Policies]
  BY <1>2, <1>3, <1>4, <1>5, SecretWritten
<1>7. s["password"] = pw
  BY <1>3, <1>5 DEF ProfileSettings
<1>8. PICK r : r = [p EXCEPT !.mgmt = m, !.dot1x = TRUE, !.ca = @ \/ ent.ca, !.secret["password"] = pw,
                      !.flags["password"] = IF ent.flags # "default" THEN ent.flags
                                            ELSE IF pw # "absent" THEN "system" ELSE @]
  OBVIOUS
<1>9. r = [p EXCEPT !.mgmt = m, !.dot1x = TRUE, !.ca = p.ca \/ ent.ca, !.secret = s, !.flags = f]
  BY <1>1, <1>3, <1>4, <1>8
<1>10. r \in Kin(p) /\ r.mgmt = m /\ r.dot1x /\ r.ca = (p.ca \/ ent.ca) /\ r.private = p.private /\ r.secret = s
  BY <1>0, <1>6, <1>9 DEF ProfileSettings, Kin
<1>11. Holds(r, pw)
  BY <1>7, <1>10 DEF Holds, PrimaryKey, EnterpriseMgmts
<1>12. WithEnterprise(p, ent, pw, m) \subseteq {r}
  BY <1>8 DEF WithEnterprise
<1> QED BY <1>10, <1>11, <1>12
\* Settings a profile keeps, and settings of an OWE network.
LEMMA KinKept ==
    ASSUME NEW p \in ProfileSettings
    PROVE  /\ p \in Kin(p)
           /\ [p EXCEPT !.mgmt = "owe"] \in Kin(p)
BY DEF Kin, ProfileSettings, KeyMgmts

LEMMA HintedKin ==
    ASSUME NEW p \in ProfileSettings, NEW t, Target(t), NEW q \in HintedSettings(p, t)
    PROVE  /\ q \in Kin(p)
           /\ t.pw # "absent" /\ (t.ent # {} \/ t.hint # "open") => Holds(q, t.pw)
<1>0. /\ t.pw \in Passwords /\ t.ent \subseteq EnterpriseSet /\ t.hint \in Hints /\ p \in Kin(p)
      /\ t.ent # {} => t.hint \in {"unset"} \cup EnterpriseMgmts
  BY KinKept DEF Target
<1>1. CASE t.ent # {}
  <2>1. PICK m : m = IF t.hint = "unset" THEN "wpa-eap" ELSE t.hint
    OBVIOUS
  <2>2. m \in EnterpriseMgmts
    BY <1>0, <1>1, <2>1 DEF EnterpriseMgmts
  <2>3. PICK ent \in t.ent : q \in WithEnterprise(p, ent, t.pw, m)
    BY <1>1, <2>1 DEF HintedSettings
  <2> QED BY <1>0, <2>2, <2>3, EnterpriseWritten
<1>2. CASE t.ent = {} /\ t.hint = "unset"
  <2>1. \/ t.pw = "absent" /\ q = p
        \/ q \in WithWep(p, t.pw, t.kind)
        \/ t.pw # "absent" /\ q \in WithPersonal(p, "wpa-psk", t.pw, TRUE)
    BY <1>2 DEF HintedSettings
  <2> QED BY <1>0, <2>1, WepWritten, PersonalWritten
<1>3. CASE t.ent = {} /\ t.hint = "open"
  BY <1>0, <1>3 DEF HintedSettings
<1>4. CASE t.ent = {} /\ t.hint = "none"
  <2>1. q \in WithWep(p, t.pw, t.kind)
    BY <1>4 DEF HintedSettings
  <2> QED BY <1>0, <2>1, WepWritten
<1>5. CASE t.ent = {} /\ t.hint \in {"wpa-psk", "sae"}
  <2>1. t.pw # "absent" /\ q \in WithPersonal(p, t.hint, t.pw, TRUE)
    BY <1>5 DEF HintedSettings
  <2> QED BY <1>0, <1>5, <2>1, PersonalWritten
<1>6. CASE t.ent = {} /\ t.hint \in EnterpriseMgmts
  BY <1>6 DEF HintedSettings, EnterpriseMgmts
<1> QED BY <1>0, <1>1, <1>2, <1>3, <1>4, <1>5, <1>6 DEF Hints

\* What an access point's classes allow.
LEMMA KeyMgmtOf ==
    ASSUME NEW ap
    PROVE  /\ PersonalKeyMgmt(ap) \in {"wpa-psk", "sae"} /\ EnterpriseKeyMgmt(ap) \in EnterpriseMgmts
           /\ SecurityClass(ap) \in {"open", "enhanced-open", "legacy", "enterprise", "personal", "unknown"}
BY DEF PersonalKeyMgmt, EnterpriseKeyMgmt, EnterpriseMgmts, SecurityClass

LEMMA SightedKin ==
    ASSUME NEW p \in ProfileSettings, NEW t, Target(t), NEW ap, NEW q \in SightedSettings(p, t, ap)
    PROVE  /\ q \in Kin(p)
           /\ t.pw # "absent" /\ (t.ent # {} \/ SecurityClass(ap) \in {"personal", "legacy"}) =>
                Holds(q, t.pw)
<1>0. t.pw \in Passwords /\ t.ent \subseteq EnterpriseSet
  BY DEF Target
<1>1. CASE t.ent # {}
  <2>1. PICK ent \in t.ent : q \in WithEnterprise(p, ent, t.pw, EnterpriseKeyMgmt(ap))
    BY <1>1 DEF SightedSettings
  <2> QED BY <1>0, <2>1, EnterpriseWritten, KeyMgmtOf
<1>2. CASE t.ent = {}
  <2>1. \/ q = [p EXCEPT !.mgmt = "owe"] /\ SecurityClass(ap) = "enhanced-open"
        \/ q \in WithWep(p, t.pw, t.kind)
        \/ t.pw # "absent" /\ q \in WithPersonal(p, PersonalKeyMgmt(ap), t.pw, PersonalKeyMgmt(ap) = "wpa-psk")
        \/ q = p /\ (t.pw = "absent" \/ SecurityClass(ap) \notin {"personal", "legacy"})
    BY <1>2 DEF SightedSettings
  <2>2. CASE q = [p EXCEPT !.mgmt = "owe"] /\ SecurityClass(ap) = "enhanced-open"
    BY <1>2, <2>2, KinKept
  <2>3. CASE q \in WithWep(p, t.pw, t.kind)
    BY <1>0, <2>3, WepWritten
  <2>4. CASE t.pw # "absent" /\ q \in WithPersonal(p, PersonalKeyMgmt(ap), t.pw, PersonalKeyMgmt(ap) = "wpa-psk")
    <3>1. PICK m, c : m = PersonalKeyMgmt(ap) /\ c = (m = "wpa-psk")
      OBVIOUS
    <3>2. m \in {"wpa-psk", "sae"} /\ c \in BOOLEAN /\ q \in WithPersonal(p, m, t.pw, c)
      BY <2>4, <3>1, KeyMgmtOf
    <3> QED BY <1>0, <2>4, <3>2, PersonalWritten
  <2>5. CASE q = p /\ (t.pw = "absent" \/ SecurityClass(ap) \notin {"personal", "legacy"})
    BY <1>2, <2>5, KinKept
  <2> QED BY <2>1, <2>2, <2>3, <2>4, <2>5
<1> QED BY <1>1, <1>2

LEMMA SavedKin ==
    ASSUME NEW p \in ProfileSettings, NEW t, Target(t), NEW sight, NEW q \in SavedSettings(p, t, sight)
    PROVE  /\ q \in Kin(p)
           /\ sight = {} /\ t.pw # "absent" /\ (t.ent # {} \/ t.hint # "open") => Holds(q, t.pw)
           /\ \A ap : sight = {ap} /\ t.pw # "absent"
                        /\ (t.ent # {} \/ SecurityClass(ap) \in {"personal", "legacy"}) => Holds(q, t.pw)
<1>0. t.pw \in Passwords
  BY DEF Target
<1>1. CASE sight # {}
  <2>1. PICK ap \in sight : q \in SightedSettings(p, t, ap)
    BY <1>1 DEF SavedSettings
  <2>2. /\ q \in Kin(p)
        /\ t.pw # "absent" /\ (t.ent # {} \/ SecurityClass(ap) \in {"personal", "legacy"}) => Holds(q, t.pw)
    BY <2>1, SightedKin
  <2>3. \A x : sight = {x} => x = ap
    OBVIOUS
  <2> QED BY <1>1, <2>2, <2>3
<1>2. CASE sight = {}
  <2>1. q \in UnsightedSettings(p, t)
    BY <1>2 DEF SavedSettings
  <2>2. \/ q \in HintedSettings(p, t)
        \/ t.pw = "absent" /\ q = p
        \/ t.pw # "absent" /\ p.mgmt \in {"wpa-psk", "sae"} /\ q \in WithPersonal(p, p.mgmt, t.pw, TRUE)
        \/ q \in WithWep(p, t.pw, t.kind)
    BY <2>1 DEF UnsightedSettings
  <2>3. q \in Kin(p) /\ (t.pw # "absent" /\ (t.ent # {} \/ t.hint # "open") => Holds(q, t.pw))
    <3>1. CASE q \in HintedSettings(p, t)
      BY <3>1, HintedKin
    <3>2. CASE t.pw = "absent" /\ q = p
      BY <3>2, KinKept
    <3>3. CASE t.pw # "absent" /\ p.mgmt \in {"wpa-psk", "sae"} /\ q \in WithPersonal(p, p.mgmt, t.pw, TRUE)
      BY <1>0, <3>3, PersonalWritten
    <3>4. CASE q \in WithWep(p, t.pw, t.kind)
      BY <1>0, <3>4, WepWritten
    <3> QED BY <2>2, <3>1, <3>2, <3>3, <3>4
  <2> QED BY <1>2, <2>3
<1> QED BY <1>1, <1>2

\* visible_connection_settings writes what the access point's class needs.
LEMMA VisibleKin ==
    ASSUME NEW ap \in AccessPoints, NEW t, Target(t), NEW q \in VisibleSettings(ap, t)
    PROVE  /\ q \in Kin(Blank) /\ q.private = FALSE /\ Compatible(q, ap)
           /\ t.pw # "absent" /\ q.mgmt \notin {"", "owe"} => Holds(q, t.pw)
           /\ q.mgmt # "ieee8021x" /\ (q.mgmt \in EnterpriseMgmts => q.dot1x)
           /\ (q.mgmt \in {"", "owe"}) <=> (SecurityClass(ap) \in {"open", "enhanced-open"})
<1>0. t.pw \in Passwords /\ t.ent \subseteq EnterpriseSet /\ Blank \in ProfileSettings
  BY BlankSound DEF Target
<1>1. /\ Bits(ap) \subseteq KeyFlags /\ ap.privacy \in BOOLEAN /\ ap.wpa \subseteq Bits(ap) /\ ap.rsn \subseteq Bits(ap)
      /\ "owe-tm" \in Bits(ap) => "cipher" \notin Bits(ap)
  BY WifiAssumption DEF Bits
<1>2. CASE SecurityClass(ap) = "open"
  <2>1. q = Blank
    BY <1>2 DEF VisibleSettings
  <2>2. Passwordless(ap) /\ "owe" \notin Bits(ap)
    BY <1>2 DEF SecurityClass
  <2>3. ~ap.privacy /\ FlagsPasswordless(ap.wpa) /\ FlagsPasswordless(ap.rsn)
    BY <2>2 DEF Passwordless
  <2>4. ASSUME NEW x \in Bits(ap) PROVE x = "owe-tm"
    <3>1. PICK flags \in {ap.wpa, ap.rsn} : x \in flags
      BY <2>4 DEF Bits
    <3>2. flags \cap {"psk", "sae", "802.1x", "suite-b"} = {} /\ flags \cap {"owe", "owe-tm"} # {}
      BY <2>3, <3>1 DEF FlagsPasswordless
    <3>3. "owe-tm" \in Bits(ap)
      BY <1>1, <2>2, <3>1, <3>2
    <3>4. x \in {"psk", "sae", "802.1x", "suite-b", "owe", "owe-tm", "cipher"}
      BY <1>1 DEF KeyFlags
    <3> QED BY <1>1, <2>2, <3>1, <3>2, <3>3, <3>4
  <2>5. Compatible(q, ap)
    BY <2>1, <2>3, <2>4, BlankSound DEF Compatible
  <2> QED BY <1>0, <1>2, <2>1, <2>5, KinKept, BlankSound DEF EnterpriseMgmts
<1>3. CASE SecurityClass(ap) = "enhanced-open"
  <2>1. q = [Blank EXCEPT !.mgmt = "owe"]
    BY <1>3 DEF VisibleSettings
  <2>2. q \in Kin(Blank) /\ q.mgmt = "owe" /\ q.private = FALSE
    BY <1>0, <2>1, KinKept, BlankSound DEF ProfileSettings
  <2>3. "owe" \in Bits(ap)
    BY <1>3 DEF SecurityClass
  <2> QED BY <1>3, <2>2, <2>3 DEF Compatible, EnterpriseMgmts
<1>4. CASE SecurityClass(ap) = "personal"
  <2>1. q \in WithPersonal(Blank, PersonalKeyMgmt(ap), t.pw, PersonalKeyMgmt(ap) = "wpa-psk")
    BY <1>4 DEF VisibleSettings
  <2>2. /\ q \in Kin(Blank) /\ q.mgmt = PersonalKeyMgmt(ap) /\ q.private = FALSE
        /\ t.pw # "absent" => Holds(q, t.pw)
    <3>1. PICK m, c : m = PersonalKeyMgmt(ap) /\ c = (m = "wpa-psk")
      OBVIOUS
    <3>2. m \in {"wpa-psk", "sae"} /\ c \in BOOLEAN /\ q \in WithPersonal(Blank, m, t.pw, c)
      BY <2>1, <3>1, KeyMgmtOf
    <3>3. /\ q \in Kin(Blank) /\ q.mgmt = m /\ q.private = Blank.private
          /\ t.pw # "absent" => Holds(q, t.pw)
      BY <1>0, <3>2, PersonalWritten, SMTT(40)
    <3> QED BY <3>1, <3>3, BlankSound
  <2>3. Bits(ap) \cap {"psk", "sae"} # {}
    BY <1>4 DEF SecurityClass
  <2>4. Compatible(q, ap)
    BY <2>2, <2>3 DEF Compatible, PersonalKeyMgmt
  <2> QED BY <1>4, <2>2, <2>4, KeyMgmtOf DEF EnterpriseMgmts
<1>5. CASE SecurityClass(ap) = "legacy"
  <2>1. \/ q \in WithWep(Blank, t.pw, t.kind)
        \/ t.pw = "absent" /\ q = [Blank EXCEPT !.mgmt = "none", !.phrase = (t.kind = "phrase")]
    BY <1>5 DEF VisibleSettings
  <2>2. /\ q \in Kin(Blank) /\ q.mgmt = "none" /\ q.private = FALSE
        /\ t.pw # "absent" => Holds(q, t.pw)
    <3>1. CASE q \in WithWep(Blank, t.pw, t.kind)
      BY <1>0, <3>1, WepWritten, BlankSound
    <3>2. CASE t.pw = "absent" /\ q = [Blank EXCEPT !.mgmt = "none", !.phrase = (t.kind = "phrase")]
      BY <1>0, <3>2, BlankSound DEF ProfileSettings, Kin, KeyMgmts
    <3> QED BY <2>1, <3>1, <3>2
  <2>3. Bits(ap) = {} /\ ~Passwordless(ap)
    BY <1>5 DEF SecurityClass
  <2>4. ap.privacy
    BY <1>1, <2>3 DEF Passwordless, FlagsPasswordless
  <2> QED BY <1>5, <2>2, <2>3, <2>4 DEF Compatible, EnterpriseMgmts
<1>6. CASE SecurityClass(ap) = "enterprise"
  <2>1. PICK ent \in t.ent : q \in WithEnterprise(Blank, ent, t.pw, EnterpriseKeyMgmt(ap))
    BY <1>6 DEF VisibleSettings
  <2>2. /\ q \in Kin(Blank) /\ q.mgmt = EnterpriseKeyMgmt(ap) /\ q.private = FALSE /\ q.dot1x
        /\ Holds(q, t.pw)
    <3>1. PICK m : m = EnterpriseKeyMgmt(ap)
      OBVIOUS
    <3>2. m \in EnterpriseMgmts /\ ent \in EnterpriseSet /\ q \in WithEnterprise(Blank, ent, t.pw, m)
      BY <1>0, <2>1, <3>1, KeyMgmtOf
    <3>3. /\ q \in Kin(Blank) /\ q.mgmt = m /\ q.private = Blank.private /\ q.dot1x
          /\ Holds(q, t.pw)
      BY <1>0, <3>2, EnterpriseWritten, SMTT(40)
    <3> QED BY <3>1, <3>3, BlankSound
  <2>3. Bits(ap) \cap {"802.1x", "suite-b"} # {}
    BY <1>6 DEF SecurityClass
  <2>4. Compatible(q, ap)
    BY <2>2, <2>3 DEF Compatible, EnterpriseKeyMgmt
  <2> QED BY <1>6, <2>2, <2>4, KeyMgmtOf DEF EnterpriseMgmts
<1>7. CASE SecurityClass(ap) = "unknown"
  BY <1>7 DEF VisibleSettings
<1> QED BY <1>2, <1>3, <1>4, <1>5, <1>6, <1>7, KeyMgmtOf
\* What reads a profile's password finds it, and the secrets beside it stay.
ReadBack(q, pw) ==
    /\ PrimaryKey(q) # "none"
    /\ q.tx = 0 /\ q.flags[FlagsKey(PrimaryKey(q))] = "system" => q.secret[PrimaryKey(q)] = pw
Kept(p, q) ==
    p.mgmt = q.mgmt =>
        \A k \in EditableKeys(p) \ {"none"} :
            q.flags[FlagsKey(k)] = "system" => q.secret[k] # "absent" \/ p.secret[k] = "absent"
Harmless(q) == ~(q.private /\ q.dot1x /\ q.ca)

LEMMA PrimaryKeys ==
    ASSUME NEW p
    PROVE  /\ PrimaryKey(p) \in SecretKeys \cup {"none"}
           /\ EditableKeys(p) \subseteq SecretKeys \cup {"none"}
<1>1. PrimaryKey(p) \in SecretKeys \cup {"none"}
  BY DEF PrimaryKey, SecretKeys
<1>2. WepKeys \subseteq SecretKeys /\ {"password", "pin"} \subseteq SecretKeys
  BY DEF WepKeys, SecretKeys
<1> HIDE DEF SecretKeys
<1> QED BY <1>1, <1>2 DEF EditableKeys

LEMMA PublicKin ==
    ASSUME NEW p \in ProfileSettings
    PROVE  PublicPart(p) \in ProfileSettings /\ Kin(PublicPart(p)) = Kin(p)
<1>1. NoSecrets \in [SecretKeys -> Passwords]
  BY DEF NoSecrets, Passwords
<1>2. /\ PublicPart(p) \in ProfileSettings /\ PublicPart(p).alg = p.alg /\ PublicPart(p).tx = p.tx
      /\ PublicPart(p).dot1x = p.dot1x
  BY <1>1 DEF PublicPart, ProfileSettings
<1> QED BY <1>2 DEF Kin

\* apply_target_connection_metadata and validate_private_ca_paths.
LEMMA MetadataKin ==
    ASSUME NEW p, NEW S, NEW t, Target(t), NEW q \in Metadata(S, t)
    PROVE  \E r \in S : r \in Kin(p) =>
              /\ q \in Kin(p) /\ Harmless(q) /\ q.mgmt = r.mgmt
              /\ \A pw : Holds(r, pw) => Holds(q, pw)
<1>1. PICK r \in S : q = [r EXCEPT !.private = r.private \/ t.private]
  BY DEF Metadata, Trusted
<1> SUFFICES ASSUME r \in Kin(p)
             PROVE  /\ q \in Kin(p) /\ Harmless(q) /\ q.mgmt = r.mgmt
                    /\ \A pw : Holds(r, pw) => Holds(q, pw)
  OBVIOUS
<1>2. r \in ProfileSettings /\ r.alg = p.alg /\ r.tx = p.tx /\ (p.dot1x => r.dot1x)
  BY <1>1 DEF Kin
<1>3. /\ q \in ProfileSettings /\ q.mgmt = r.mgmt /\ q.alg = r.alg /\ q.tx = r.tx /\ q.dot1x = r.dot1x
      /\ q.secret = r.secret
  <2>1. (r.private \/ t.private) \in BOOLEAN
    BY DEF Target
  <2> QED BY <1>1, <1>2, <2>1 DEF ProfileSettings
<1>4. Harmless(q)
  BY DEF Metadata, Trusted, Harmless
<1>5. PrimaryKey(q) = PrimaryKey(r)
  BY <1>3 DEF PrimaryKey
<1>6. \A pw : Holds(r, pw) => Holds(q, pw)
  BY <1>3, <1>5 DEF Holds
<1>7. q \in Kin(p)
  BY <1>2, <1>3 DEF Kin
<1> QED BY <1>3, <1>4, <1>6, <1>7

\* preserve_secrets keeps what the profile's security uses.
LEMMA CommittedSound ==
    ASSUME NEW p \in Sound, NEW S, \A r \in S : r \in Kin(p) /\ Harmless(r), NEW q \in Committed(p, S)
    PROVE  /\ q \in Sound /\ Kept(p, q)
           /\ \E r \in S : \A pw : pw # "absent" /\ Holds(r, pw) => ReadBack(q, pw)
<1>1. PICK r \in S : q = Merged(p, r) /\ Verifies(r)
  BY DEF Committed
<1>2. /\ p \in ProfileSettings /\ r \in ProfileSettings /\ r.alg = p.alg /\ r.tx = p.tx
      /\ (p.dot1x => r.dot1x) /\ Harmless(r)
  BY <1>1 DEF Kin, Sound
<1>3. PICK s : s = [k \in SecretKeys |->
        IF r.flags[FlagsKey(k)] # "system" THEN "absent"
        ELSE IF r.secret = NoSecrets THEN p.secret[k]
        ELSE IF r.secret[k] # "absent" THEN r.secret[k]
        ELSE IF RequiresSecrets(Section(k), r) THEN p.secret[k] ELSE "absent"]
  OBVIOUS
<1>4. \A k \in SecretKeys : p.secret[k] \in Passwords /\ r.secret[k] \in Passwords
  BY <1>2 DEF ProfileSettings
<1>5. s \in [SecretKeys -> Passwords]
  <2>1. "absent" \in Passwords
    BY DEF Passwords
  <2> QED BY <1>3, <1>4, <2>1
<1>6. q = [r EXCEPT !.secret = s]
  BY <1>1, <1>3 DEF Merged
<1>7. /\ q \in ProfileSettings /\ q.mgmt = r.mgmt /\ q.alg = r.alg /\ q.tx = r.tx /\ q.dot1x = r.dot1x
      /\ q.secret = s /\ q.flags = r.flags /\ q.private = r.private /\ q.ca = r.ca
  BY <1>2, <1>5, <1>6 DEF ProfileSettings
<1>8. q \in Sound
  BY <1>1, <1>2, <1>7 DEF Sound, Verifies, Harmless
<1>9. \A k \in SecretKeys :
        s[k] = IF r.flags[FlagsKey(k)] # "system" THEN "absent"
               ELSE IF r.secret = NoSecrets THEN p.secret[k]
               ELSE IF r.secret[k] # "absent" THEN r.secret[k]
               ELSE IF RequiresSecrets(Section(k), r) THEN p.secret[k] ELSE "absent"
  BY <1>3
<1>10. Kept(p, q)
  <2> SUFFICES ASSUME p.mgmt = q.mgmt, NEW k \in EditableKeys(p) \ {"none"},
                      q.flags[FlagsKey(k)] = "system"
               PROVE  s[k] # "absent" \/ p.secret[k] = "absent"
    BY <1>7 DEF Kept
  <2>1. k \in SecretKeys
    BY PrimaryKeys
  <2>2. RequiresSecrets(Section(k), r)
    <3>1. k \in {"psk", "wep-key0", "wep-key1", "leap-password"} =>
            p.mgmt \in {"wpa-psk", "sae", "none"} \/ p.alg = "leap"
      BY DEF EditableKeys, PrimaryKey, WepKeys
    <3>2. k \in {"password", "pin"} => p.dot1x \/ p.mgmt \in {"wpa-eap", "suite-b"}
      BY DEF EditableKeys, PrimaryKey, WepKeys
    <3>3. p.dot1x \/ p.mgmt \in {"wpa-eap", "suite-b"} => r.dot1x
      BY <1>1, <1>2, <1>7 DEF Verifies
    <3>4. k \in {"psk", "wep-key0", "wep-key1", "leap-password", "password", "pin"}
      BY <2>1 DEF SecretKeys
    <3> QED BY <1>2, <1>7, <3>1, <3>2, <3>3, <3>4 DEF RequiresSecrets, Section
  <2> QED BY <1>7, <1>9, <2>1, <2>2
<1>11. ASSUME NEW pw, pw # "absent", Holds(r, pw) PROVE ReadBack(q, pw)
  <2>1. PrimaryKey(q) = PrimaryKey(r) /\ PrimaryKey(r) # "none"
    BY <1>7, <1>11 DEF PrimaryKey, Holds
  <2>2. PrimaryKey(r) \in SecretKeys
    BY <2>1, PrimaryKeys
  <2>3. ASSUME q.tx = 0, q.flags[FlagsKey(PrimaryKey(q))] = "system"
        PROVE  s[PrimaryKey(q)] = pw
    <3>1. r.secret[PrimaryKey(r)] = pw
      BY <1>7, <1>11, <2>3 DEF Holds
    <3>2. r.secret # NoSecrets
      BY <1>11, <2>2, <3>1 DEF NoSecrets
    <3> QED BY <1>7, <1>9, <1>11, <2>1, <2>2, <2>3, <3>1, <3>2
  <2> QED BY <1>7, <2>1, <2>3 DEF ReadBack
<1> QED BY <1>8, <1>10, <1>11

\* The editor, the share payload and the secret agent mean the same key.
LEMMA SoundKeys ==
    ASSUME NEW p \in Sound, p.mgmt \notin {"", "owe"}
    PROVE  AgentKey(p) = PrimaryKey(p) /\ ShareKey(p) \in {"none", PrimaryKey(p)}
<1>1. Verifies(p) /\ p.mgmt \in KeyMgmts
  BY DEF Sound, ProfileSettings
<1> QED BY <1>1 DEF Verifies, KeyMgmts, AgentKey, PrimaryKey, ShareKey

\* How a request or an edit ends: the profiles stay sound, a profile made for
\* an access point fits it, the password reads back, the other secrets stay.
Settles ==
    /\ saved' \subseteq Sound
    /\ asked'.how = "new" => \A q \in used', ap \in asked'.sight : Compatible(q, ap)
    /\ asked'.pw # "absent" /\ asked'.takes => \A q \in used' : ReadBack(q, asked'.pw)
    /\ \A p \in saved \ saved', q \in used' : Kept(p, q)

\* visible_access_point_for.
LEMMA SightsAre ==
    ASSUME NEW t, NEW sight \in Sights(t)
    PROVE  sight = {} \/ \E ap \in air : sight = {ap} /\ (t.ap = {} \/ ap \in t.ap)
BY DEF Sights

LEMMA HoldsReads ==
    ASSUME NEW q, NEW pw, Holds(q, pw)
    PROVE  ReadBack(q, pw)
BY DEF Holds, ReadBack

\* Settings merged into a profile for a request hold the password it takes.
LEMMA SavedHolds ==
    ASSUME NEW p \in ProfileSettings, NEW t, Target(t), NEW sight \in Sights(t),
           NEW q \in Metadata(SavedSettings(PublicPart(p), t, sight), t)
    PROVE  /\ q \in Kin(p) /\ Harmless(q)
           /\ t.pw # "absent" /\ Keyed(t, sight) => Holds(q, t.pw)
<1>1. PublicPart(p) \in ProfileSettings /\ Kin(PublicPart(p)) = Kin(p)
  BY PublicKin
<1>2. PICK S : S = SavedSettings(PublicPart(p), t, sight)
  OBVIOUS
<1>3. \A r \in S : r \in Kin(p)
  BY <1>1, <1>2, SavedKin
<1>4. t.pw # "absent" /\ Keyed(t, sight) => \A r \in S : Holds(r, t.pw)
  <2>1. CASE sight = {}
    BY <1>1, <1>2, <2>1, SavedKin DEF Keyed
  <2>2. CASE sight # {}
    <3>1. PICK ap : sight = {ap}
      BY <2>2, SightsAre
    <3>2. Keyed(t, sight) => t.ent # {} \/ SecurityClass(ap) \in {"personal", "legacy"}
      BY <3>1 DEF Keyed
    <3> QED BY <1>1, <1>2, <3>1, <3>2, SavedKin
  <2> QED BY <2>1, <2>2
<1>5. PICK r \in S : r \in Kin(p) => /\ q \in Kin(p) /\ Harmless(q)
                                     /\ \A pw : Holds(r, pw) => Holds(q, pw)
  BY <1>2, MetadataKin
<1> QED BY <1>3, <1>4, <1>5

\* activate_saved_wifi_connection_for.
LEMMA SavedSettles ==
    ASSUME WifiInv, NEW t, Target(t), NEW fresh, NEW sight \in Sights(t), NEW p \in saved,
           ConnectSaved(p, t, sight, fresh)
    PROVE  Settles /\ asked'.fresh = fresh
<1>1. PICK S : S = Metadata(SavedSettings(PublicPart(p), t, sight), t)
  OBVIOUS
<1>2. p \in Sound /\ p \in ProfileSettings /\ saved \subseteq Sound
  BY DEF WifiInv, Sound
<1>3. asked' = [how |-> "saved", pw |-> t.pw, sight |-> sight, fresh |-> fresh, takes |-> Keyed(t, sight)]
  BY DEF ConnectSaved, Note
<1>4. /\ asked'.how = "saved" /\ asked'.pw = t.pw /\ asked'.fresh = fresh /\ asked'.takes = Keyed(t, sight)
  BY <1>3
<1>5. CASE ~Offers(t)
  <2>1. used' = Trusted({p}) /\ t.pw = "absent"
    BY <1>5 DEF ConnectSaved, Offers
  <2>2. used' = {p}
    BY <1>2, <2>1 DEF Trusted, Sound
  <2>3. saved' = saved
    BY <1>5, <2>1, <2>2 DEF ConnectSaved
  <2> QED BY <1>2, <1>4, <2>1, <2>3 DEF Settles
<1>6. CASE Offers(t)
  <2>1. used' = Committed(p, S)
    BY <1>1, <1>6 DEF ConnectSaved
  <2>2. \/ saved' = saved
        \/ saved' = (saved \ {p}) \cup used'
    BY DEF ConnectSaved
  <2>3. \A r \in S : /\ r \in Kin(p) /\ Harmless(r)
                     /\ t.pw # "absent" /\ Keyed(t, sight) => Holds(r, t.pw)
    BY <1>1, <1>2, SavedHolds
  <2>4. \A q \in used' : /\ q \in Sound /\ Kept(p, q)
                         /\ \E r \in S : \A pw : pw # "absent" /\ Holds(r, pw) => ReadBack(q, pw)
    BY <1>2, <2>1, <2>3, CommittedSound
  <2>5. \A q \in used' : t.pw # "absent" /\ Keyed(t, sight) => ReadBack(q, t.pw)
    BY <2>3, <2>4
  <2>6. saved' \subseteq Sound /\ \A x \in saved \ saved', q \in used' : Kept(x, q)
    BY <1>2, <2>2, <2>4
  <2> QED BY <1>4, <2>5, <2>6 DEF Settles
<1> QED BY <1>5, <1>6

\* add_and_activate_wifi_connection_for.
LEMMA NewSettles ==
    ASSUME WifiInv, NEW t, Target(t), NEW fresh, NEW sight \in Sights(t), NEW from \in Origins(t, sight),
           ConnectNew(t, sight, from, fresh)
    PROVE  Settles /\ asked'.fresh = fresh
<1>1. PICK made : made = IF t.hidden THEN HintedSettings(Blank, t)
                         ELSE IF from # {} THEN UNION {SavedSettings(PublicPart(p), t, sight) : p \in from}
                         ELSE UNION {VisibleSettings(ap, t) : ap \in sight}
  OBVIOUS
<1>2. PICK out : out = {q \in Metadata(made, t) : Verifies(q)}
  OBVIOUS
<1>3. used' = out /\ saved' = IF t.remember THEN saved \cup out ELSE saved
  BY <1>1, <1>2 DEF ConnectNew
<1>4. saved \subseteq Sound
  BY DEF WifiInv
<1>5. SUFFICES /\ out \subseteq Sound
               /\ asked'.how = "new" => \A q \in out, ap \in asked'.sight : Compatible(q, ap)
               /\ asked'.pw # "absent" /\ asked'.takes => \A q \in out : Holds(q, asked'.pw)
               /\ asked'.fresh = fresh
  BY <1>3, <1>4, HoldsReads DEF Settles
<1>6. ASSUME NEW p \in Sound, NEW q, q \in Kin(p), Harmless(q), Verifies(q)
      PROVE  q \in Sound
  BY <1>6 DEF Sound, Kin, Harmless
<1>7. CASE t.hidden
  <2>1. asked' = [how |-> "hidden", pw |-> t.pw, sight |-> sight, fresh |-> fresh, takes |-> Keyed(t, {})]
    BY <1>7 DEF ConnectNew, Note
  <2>2. asked'.how = "hidden" /\ asked'.pw = t.pw /\ asked'.fresh = fresh /\ asked'.takes = Keyed(t, {})
    BY <2>1
  <2>3. \A r \in made : r \in Kin(Blank) /\ (t.pw # "absent" /\ Keyed(t, {}) => Holds(r, t.pw))
    BY <1>1, <1>7, HintedKin, BlankSound DEF Keyed
  <2>4. made \subseteq Kin(Blank) /\ Blank \in ProfileSettings /\ Blank \in Sound
    BY <2>3, BlankSound
  <2>5. \A q \in Metadata(made, t) :
            q \in Kin(Blank) /\ Harmless(q) /\ \E r \in made : \A pw : Holds(r, pw) => Holds(q, pw)
    BY <2>3, MetadataKin
  <2> QED BY <1>2, <1>6, <2>2, <2>3, <2>4, <2>5
<1>8. CASE ~t.hidden /\ from # {}
  <2>1. asked' = [how |-> "clone", pw |-> t.pw, sight |-> sight, fresh |-> fresh, takes |-> Keyed(t, sight)]
    BY <1>8 DEF ConnectNew, Note
  <2>2. asked'.how = "clone" /\ asked'.pw = t.pw /\ asked'.fresh = fresh /\ asked'.takes = Keyed(t, sight)
    BY <2>1
  <2>3. PICK p \in saved : from = {p}
    BY <1>8 DEF Origins, Offered
  <2>4. p \in Sound /\ p \in ProfileSettings
    BY <1>4 DEF Sound
  <2>5. made = SavedSettings(PublicPart(p), t, sight)
    BY <1>1, <1>8, <2>3
  <2>6. \A q \in out : /\ q \in Kin(p) /\ Harmless(q) /\ Verifies(q)
                       /\ t.pw # "absent" /\ Keyed(t, sight) => Holds(q, t.pw)
    BY <1>2, <2>4, <2>5, SavedHolds
  <2> QED BY <1>6, <2>2, <2>4, <2>6
<1>9. CASE ~t.hidden /\ from = {}
  <2>1. asked' = [how |-> "new", pw |-> t.pw, sight |-> sight, fresh |-> fresh,
                  takes |-> \E q \in out : q.mgmt \notin {"", "owe"}]
    BY <1>1, <1>2, <1>9 DEF ConnectNew, Note
  <2>2. /\ asked'.pw = t.pw /\ asked'.fresh = fresh /\ asked'.sight = sight
        /\ asked'.takes = (\E q \in out : q.mgmt \notin {"", "owe"})
    BY <2>1
  <2>3. CASE sight = {}
    <3>1. made = {}
      BY <1>1, <1>9, <2>3
    <3>2. out = {}
      BY <1>2, <3>1 DEF Metadata, Trusted
    <3> QED BY <2>2, <2>3, <3>2
  <2>4. CASE sight # {}
    <3>1. PICK ap \in AccessPoints : sight = {ap}
      BY <2>4, SightsAre DEF WifiInv
    <3>2. made = VisibleSettings(ap, t)
      BY <1>1, <1>9, <3>1
    <3>3. \A r \in made : /\ r \in Kin(Blank) /\ Compatible(r, ap)
                          /\ (r.mgmt \in {"", "owe"}) <=> (SecurityClass(ap) \in {"open", "enhanced-open"})
                          /\ t.pw # "absent" /\ r.mgmt \notin {"", "owe"} => Holds(r, t.pw)
      BY <3>2, VisibleKin
    <3>4. made \subseteq Kin(Blank) /\ Blank \in ProfileSettings /\ Blank \in Sound
      BY <3>3, BlankSound
    <3>5. \A q \in Metadata(made, t) :
              /\ q \in Kin(Blank) /\ Harmless(q)
              /\ \E r \in made : q.mgmt = r.mgmt /\ \A pw : Holds(r, pw) => Holds(q, pw)
      BY <3>3, MetadataKin
    <3>6. ASSUME NEW q \in out
          PROVE  /\ q \in Sound /\ Compatible(q, ap)
                 /\ (q.mgmt \in {"", "owe"}) <=> (SecurityClass(ap) \in {"open", "enhanced-open"})
                 /\ t.pw # "absent" /\ q.mgmt \notin {"", "owe"} => Holds(q, t.pw)
      <4>1. PICK r \in made : q.mgmt = r.mgmt /\ \A pw : Holds(r, pw) => Holds(q, pw)
        BY <1>2, <3>5
      <4>2. Compatible(q, ap) = Compatible(r, ap)
        BY <4>1 DEF Compatible
      <4>3. q \in Sound
        BY <1>2, <1>6, <3>4, <3>5
      <4> QED BY <3>3, <4>1, <4>2, <4>3
    <3> QED BY <2>2, <3>1, <3>6
  <2> QED BY <2>3, <2>4
<1> QED BY <1>7, <1>8, <1>9

LEMMA ConnectSettles ==
    ASSUME WifiInv, NEW t, Target(t), NEW fresh, Connect(t, fresh)
    PROVE  Settles /\ asked'.fresh = fresh
<1>1. PICK sight \in Sights(t) : \/ \E p \in Found(t, sight) : ConnectSaved(p, t, sight, fresh)
                                 \/ \E from \in Origins(t, sight) : ConnectNew(t, sight, from, fresh)
  BY DEF Connect
<1>2. Found(t, sight) \subseteq saved
  BY DEF Found, Offered
<1>3. ASSUME NEW p \in Found(t, sight), ConnectSaved(p, t, sight, fresh)
      PROVE  Settles /\ asked'.fresh = fresh
  BY <1>2, <1>3, SavedSettles
<1>4. ASSUME NEW from \in Origins(t, sight), ConnectNew(t, sight, from, fresh)
      PROVE  Settles /\ asked'.fresh = fresh
  BY <1>4, NewSettles
<1> QED BY <1>1, <1>3, <1>4

\* apply_advanced.
LEMMA AdvancedKin ==
    ASSUME NEW p \in ProfileSettings, NEW u \in Edits, NEW q \in Advanced(p, u)
    PROVE  q \in Kin(p) /\ Harmless(q)
<1>1. /\ u.flags \in {"keep", "agent", "not-saved", "system"} /\ u.ca \in {"keep", "set", "clear"}
      /\ u.private \in {"keep", "set", "clear"}
  BY DEF Edits
<1>2. PICK private : private = CASE u.private = "set" -> TRUE [] u.private = "clear" -> FALSE
                                 [] OTHER -> p.private
  OBVIOUS
<1>3. PICK ca : ca = CASE u.ca = "set" -> TRUE [] u.ca = "clear" -> FALSE [] OTHER -> p.ca
  OBVIOUS
<1>4. PICK g : g = IF u.flags = "keep" THEN p.flags["password"] ELSE u.flags
  OBVIOUS
<1>5. PICK f : f = [p.flags EXCEPT !["password"] = g]
  OBVIOUS
<1>6. PICK d : d = (p.dot1x \/ u.ca # "keep" \/ u.flags # "keep")
  OBVIOUS
<1>7. q = [p EXCEPT !.private = private, !.ca = ca, !.dot1x = d, !.flags = f] /\ Harmless(q)
  <2>1. PICK r : r = [p EXCEPT !.private = CASE u.private = "set" -> TRUE [] u.private = "clear" -> FALSE
                                             [] OTHER -> @,
                               !.ca = CASE u.ca = "set" -> TRUE [] u.ca = "clear" -> FALSE [] OTHER -> @,
                               !.dot1x = @ \/ u.ca # "keep" \/ u.flags # "keep",
                               !.flags["password"] = IF u.flags = "keep" THEN @ ELSE u.flags]
    OBVIOUS
  <2>2. q = r /\ ~(q.private /\ q.dot1x /\ q.ca)
    BY <2>1 DEF Advanced, Trusted
  <2>3. r = [p EXCEPT !.private = private, !.ca = ca, !.dot1x = d, !.flags = f]
    BY <1>2, <1>3, <1>4, <1>5, <1>6, <2>1
  <2> QED BY <2>2, <2>3 DEF Harmless
<1>8. private \in BOOLEAN /\ ca \in BOOLEAN
  BY <1>1, <1>2, <1>3 DEF ProfileSettings
<1>9. f \in [{FlagsKey(j) : j \in SecretKeys} -> Policies]
  <2>1. "password" \in SecretKeys /\ FlagsKey("password") = "password" /\ "absent" \in Passwords
    BY DEF SecretKeys, FlagsKey, WepKeys, Passwords
  <2>2. p.flags["password"] \in Policies
    BY <2>1 DEF ProfileSettings
  <2>3. g \in Policies
    BY <1>1, <1>4, <2>2 DEF Policies
  <2> QED BY <1>5, <2>1, <2>3, SecretWritten
<1>10. d \in BOOLEAN /\ (p.dot1x => d)
  BY <1>6
<1>11. q \in ProfileSettings /\ q.alg = p.alg /\ q.tx = p.tx /\ q.dot1x = d
  BY <1>7, <1>8, <1>9, <1>10 DEF ProfileSettings
<1> QED BY <1>7, <1>10, <1>11 DEF Kin

\* update_profile_secrets.
LEMMA ReplacedKin ==
    ASSUME NEW p \in ProfileSettings, NEW key, NEW pw \in Passwords, NEW q \in Replaced(p, key, pw)
    PROVE  /\ q \in Kin(p) /\ (Harmless(p) => Harmless(q))
           /\ pw # "absent" /\ key = PrimaryKey(p) => Holds(q, pw)
<1>1. CASE pw = "absent"
  BY <1>1, KinKept DEF Replaced
<1>2. CASE pw # "absent"
  <2>1. key \in EditableKeys(p) \ {"none"}
    BY <1>2 DEF Replaced
  <2>2. key \in SecretKeys /\ "system" \in Policies
    BY <2>1, PrimaryKeys DEF Policies
  <2>3. PICK s : s = [p.secret EXCEPT ![key] = pw]
    OBVIOUS
  <2>4. PICK f : f = [p.flags EXCEPT ![FlagsKey(key)] = "system"]
    OBVIOUS
  <2>5. q = [p EXCEPT !.secret = s, !.flags = f]
    BY <1>2, <2>3, <2>4 DEF Replaced
  <2>6. s \in [SecretKeys -> Passwords] /\ f \in [{FlagsKey(j) : j \in SecretKeys} -> Policies]
    BY <2>2, <2>3, <2>4, SecretWritten
  <2>7. s[key] = pw
    BY <2>2, <2>3 DEF ProfileSettings
  <2>8. /\ q \in ProfileSettings /\ q.mgmt = p.mgmt /\ q.alg = p.alg /\ q.tx = p.tx /\ q.dot1x = p.dot1x
        /\ q.ca = p.ca /\ q.private = p.private /\ q.secret = s
    BY <2>5, <2>6 DEF ProfileSettings
  <2>9. PrimaryKey(q) = PrimaryKey(p)
    BY <2>8 DEF PrimaryKey
  <2>10. key = PrimaryKey(p) => Holds(q, pw)
    BY <2>1, <2>7, <2>8, <2>9 DEF Holds
  <2>11. q \in Kin(p) /\ (Harmless(p) => Harmless(q))
    BY <2>8 DEF Kin, Harmless
  <2> QED BY <2>10, <2>11
<1> QED BY <1>1, <1>2

\* update_wifi_profile_by_path.
LEMMA EditSettles ==
    ASSUME WifiInv, EditProfile
    PROVE  Settles /\ asked'.fresh = FALSE
<1>1. PICK p \in saved, u \in Edits :
        LET Key(q) == IF u.named = "primary" THEN PrimaryKey(q) ELSE u.named
            edited == UNION {Replaced(q, Key(q), u.pw) : q \in Advanced(PublicPart(p), u)}
            out == Committed(p, edited)
        IN /\ used' = out
           /\ saved' = IF out = {} THEN saved ELSE (saved \ {p}) \cup out
           /\ asked' = [how |-> "edit", pw |-> IF u.named = "primary" THEN u.pw ELSE "absent",
                        sight |-> {}, fresh |-> FALSE, takes |-> TRUE]
  BY DEF EditProfile
<1> DEFINE Key(q) == IF u.named = "primary" THEN PrimaryKey(q) ELSE u.named
<1>2. PICK S : S = UNION {Replaced(q, Key(q), u.pw) : q \in Advanced(PublicPart(p), u)}
  OBVIOUS
<1>3. /\ used' = Committed(p, S)
      /\ saved' = saved \/ saved' = (saved \ {p}) \cup used'
      /\ asked' = [how |-> "edit", pw |-> IF u.named = "primary" THEN u.pw ELSE "absent",
                   sight |-> {}, fresh |-> FALSE, takes |-> TRUE]
  BY <1>1, <1>2
<1>4. /\ asked'.how = "edit" /\ asked'.fresh = FALSE
      /\ asked'.pw = IF u.named = "primary" THEN u.pw ELSE "absent"
  BY <1>3
<1>5. p \in Sound /\ p \in ProfileSettings /\ saved \subseteq Sound /\ u.pw \in Passwords
  BY DEF WifiInv, Sound, Edits, Passwords
<1>6. PublicPart(p) \in ProfileSettings /\ Kin(PublicPart(p)) = Kin(p)
  BY <1>5, PublicKin
<1>7. ASSUME NEW r \in S
      PROVE  r \in Kin(p) /\ Harmless(r) /\ (u.pw # "absent" /\ u.named = "primary" => Holds(r, u.pw))
  <2>1. PICK q \in Advanced(PublicPart(p), u) : r \in Replaced(q, Key(q), u.pw)
    BY <1>2
  <2>2. q \in Kin(p) /\ Harmless(q) /\ q \in ProfileSettings
    BY <1>6, <2>1, AdvancedKin DEF Kin
  <2>3. r \in Kin(q) /\ Harmless(r) /\ (u.pw # "absent" /\ Key(q) = PrimaryKey(q) => Holds(r, u.pw))
    BY <1>5, <2>1, <2>2, ReplacedKin
  <2>4. r \in Kin(p)
    BY <2>2, <2>3 DEF Kin
  <2> QED BY <2>3, <2>4
<1>8. \A q \in used' : /\ q \in Sound /\ Kept(p, q)
                       /\ \E r \in S : \A pw : pw # "absent" /\ Holds(r, pw) => ReadBack(q, pw)
  BY <1>3, <1>5, <1>7, CommittedSound
<1>9. saved' \subseteq Sound /\ \A x \in saved \ saved', q \in used' : Kept(x, q)
  BY <1>3, <1>5, <1>8
<1>10. asked'.pw # "absent" => \A q \in used' : ReadBack(q, asked'.pw)
  BY <1>4, <1>7, <1>8
<1> QED BY <1>4, <1>9, <1>10 DEF Settles

\* apply_target_connection_metadata passes on what verifies, for a request
\* that asks for no private profile.
LEMMA MetadataMakes ==
    ASSUME NEW S, NEW t, t.private = FALSE, NEW r \in S, r \in ProfileSettings, Harmless(r), Verifies(r)
    PROVE  {q \in Metadata(S, t) : Verifies(q)} # {}
<1>1. PICK q : q = [r EXCEPT !.private = @ \/ t.private]
  OBVIOUS
<1>2. r.private \in BOOLEAN
  BY DEF ProfileSettings
<1>3. /\ q.private = r.private /\ q.dot1x = r.dot1x /\ q.ca = r.ca /\ q.mgmt = r.mgmt /\ q.alg = r.alg
  BY <1>1, <1>2 DEF ProfileSettings
<1>4. q \in Metadata(S, t)
  BY <1>1, <1>3 DEF Metadata, Trusted, Harmless
<1>5. Verifies(q)
  BY <1>3 DEF Verifies
<1> QED BY <1>4, <1>5

\* A saved profile's settings can be cloned for an access point it fits.
LEMMA CloneVerifies ==
    ASSUME NEW p \in Sound, NEW ap \in AccessPoints, Compatible(p, ap), NEW t, t.pw = "absent", t.ent = {}
    PROVE  \E r \in SavedSettings(PublicPart(p), t, {ap}) : r \in ProfileSettings /\ Harmless(r) /\ Verifies(r)
<1>1. PICK pp : pp = PublicPart(p)
  OBVIOUS
<1>2. p \in ProfileSettings /\ pp \in ProfileSettings
  BY <1>1, PublicKin DEF Sound
<1>3. /\ pp.mgmt = p.mgmt /\ pp.alg = p.alg /\ pp.dot1x = p.dot1x /\ pp.private = p.private /\ pp.ca = p.ca
  BY <1>1, <1>2 DEF PublicPart, ProfileSettings
<1>4. Harmless(pp) /\ Verifies(pp)
  BY <1>3 DEF Sound, Harmless, Verifies
<1>5. CASE SecurityClass(ap) = "enhanced-open"
  <2>1. PICK r : r = [pp EXCEPT !.mgmt = "owe"]
    OBVIOUS
  <2>2. r \in SavedSettings(PublicPart(p), t, {ap})
    BY <1>1, <1>5, <2>1 DEF SavedSettings, SightedSettings
  <2>3. /\ r \in ProfileSettings /\ r.mgmt = "owe" /\ r.alg = pp.alg /\ r.dot1x = pp.dot1x
        /\ r.private = pp.private /\ r.ca = pp.ca
    BY <1>2, <2>1 DEF ProfileSettings, KeyMgmts
  <2>4. "owe" \in Bits(ap)
    BY <1>5 DEF SecurityClass
  <2>5. p.alg # "leap"
    <3> SUFFICES ASSUME p.alg = "leap" PROVE FALSE
      OBVIOUS
    <3>1. p.mgmt = "ieee8021x"
      BY DEF Sound, Verifies
    <3>2. ap.privacy
      BY <3>1 DEF Compatible
    <3>3. PICK f \in ForeignProfiles : f.alg = "leap"
      BY DEF Sound
    <3> QED BY <2>4, <3>2, <3>3, WifiAssumption
  <2>6. Harmless(r) /\ Verifies(r)
    BY <1>3, <1>4, <2>3, <2>5 DEF Harmless, Verifies
  <2> QED BY <2>2, <2>3, <2>6
<1>6. CASE SecurityClass(ap) # "enhanced-open"
  <2>1. pp \in SavedSettings(PublicPart(p), t, {ap})
    BY <1>1, <1>6 DEF SavedSettings, SightedSettings
  <2> QED BY <1>2, <1>4, <2>1
<1> QED BY <1>5, <1>6

\* Credentials of the form a prompt asks for make settings for its access
\* point.
LEMMA VisibleMade ==
    ASSUME NEW ap \in AccessPoints, NEW t, Target(t),
           Prompt(ap, FALSE) # "unsupported",
           Prompt(ap, FALSE) = "none" => t.pw = "absent",
           Prompt(ap, FALSE) = "password" =>
               t.pw = IF AuthKeyMgmt(ap, FALSE) = "none" /\ t.kind # "phrase" THEN "short" ELSE "long",
           Prompt(ap, FALSE) = "enterprise" => t.ent = {[flags |-> "default", ca |-> FALSE]}
    PROVE  VisibleSettings(ap, t) # {}
<1>1. CASE SecurityClass(ap) \in {"open", "enhanced-open"}
  BY <1>1 DEF VisibleSettings
<1>2. CASE SecurityClass(ap) = "personal"
  <2>1. PICK m, c : m = PersonalKeyMgmt(ap) /\ c = (m = "wpa-psk")
    OBVIOUS
  <2>2. m \in {"wpa-psk", "sae"} /\ c \in BOOLEAN /\ VisibleSettings(ap, t) = WithPersonal(Blank, m, t.pw, c)
    BY <1>2, <2>1, KeyMgmtOf DEF VisibleSettings
  <2>3. t.pw = "long"
    BY <1>2, <2>1, <2>2 DEF Prompt, AuthKeyMgmt
  <2>4. WithPersonal(Blank, m, t.pw, c) # {}
    BY <2>3 DEF WithPersonal, Suits
  <2> QED BY <2>2, <2>4
<1>3. CASE SecurityClass(ap) = "legacy"
  <2>1. t.pw = IF t.kind = "phrase" THEN "long" ELSE "short"
    BY <1>3 DEF Prompt, AuthKeyMgmt
  <2>2. VisibleSettings(ap, t) = WithWep(Blank, t.pw, t.kind)
    BY <1>3, <2>1 DEF VisibleSettings
  <2>3. WithWep(Blank, t.pw, t.kind) # {}
    BY <2>1 DEF WithWep, Suits
  <2> QED BY <2>2, <2>3
<1>4. CASE SecurityClass(ap) = "enterprise"
  <2>1. PICK ent : ent = [flags |-> "default", ca |-> FALSE]
    OBVIOUS
  <2>2. t.ent = {ent} /\ ent.flags # "agent" /\ ent \in EnterpriseSet
    BY <1>4, <2>1 DEF Prompt, EnterpriseSet
  <2>3. PICK m \in EnterpriseMgmts : m = EnterpriseKeyMgmt(ap)
    BY KeyMgmtOf
  <2>4. VisibleSettings(ap, t) = WithEnterprise(Blank, ent, t.pw, m)
    BY <1>4, <2>2, <2>3 DEF VisibleSettings
  <2>5. WithEnterprise(Blank, ent, t.pw, m) # {}
    BY <2>2 DEF WithEnterprise
  <2> QED BY <2>4, <2>5
<1>5. CASE SecurityClass(ap) = "unknown"
  BY <1>5 DEF Prompt
<1> QED BY <1>1, <1>2, <1>3, <1>4, <1>5, KeyMgmtOf

\* A prompt answered while the air is as its entry says.
LEMMA FreshAnswered ==
    ASSUME WifiInv, NEW e \in Entries, \A p \in Offered : Compatible(p, e.ap), NEW t, Target(t), NEW fresh,
           t.ap = {e.ap}, t.hidden = FALSE, t.private = FALSE,
           t.ent = IF e.prompt = "enterprise" THEN {[flags |-> "default", ca |-> FALSE]} ELSE {},
           e.prompt # "unsupported",
           e.prompt = "none" => t.pw = "absent",
           e.prompt = "password" =>
               t.pw = IF e.hint = "none" /\ t.kind # "phrase" THEN "short" ELSE "long",
           Connect(t, fresh)
    PROVE  used' # {}
<1>1. PICK ap \in air : e = [ap |-> ap, known |-> Offered # {}, prompt |-> Prompt(ap, Offered # {}),
                             hint |-> AuthKeyMgmt(ap, Offered # {})]
  BY DEF Entries
<1>2. e.ap = ap /\ e.prompt = Prompt(ap, Offered # {}) /\ e.hint = AuthKeyMgmt(ap, Offered # {})
  BY <1>1
<1>3. ap \in AccessPoints /\ saved \subseteq Sound /\ Offered \subseteq saved
  BY DEF WifiInv, Offered
<1>4. Sights(t) = {{ap}}
  BY <1>1, <1>2 DEF Sights
<1>5. \/ \E p \in Found(t, {ap}) : ConnectSaved(p, t, {ap}, fresh)
      \/ /\ Found(t, {ap}) = {}
         /\ \E from \in Origins(t, {ap}) : ConnectNew(t, {ap}, from, fresh)
  BY <1>4 DEF Connect
<1>6. CASE Offered # {}
  <2>1. t.pw = "absent" /\ t.ent = {}
    BY <1>2, <1>6 DEF Prompt
  <2>2. ASSUME NEW p \in Found(t, {ap}), ConnectSaved(p, t, {ap}, fresh) PROVE used' # {}
    <3>1. p \in Sound
      BY <1>3 DEF Found
    <3>2. used' = Trusted({p})
      BY <2>1, <2>2 DEF ConnectSaved, Offers
    <3> QED BY <3>1, <3>2 DEF Trusted, Sound
  <2>3. ASSUME Found(t, {ap}) = {}, NEW from \in Origins(t, {ap}), ConnectNew(t, {ap}, from, fresh)
        PROVE  used' # {}
    <3>1. t.remember = FALSE
      BY <1>6, <2>3 DEF Found, Target
    <3>2. PICK p \in Offered : from = {p}
      BY <1>6, <2>3, <3>1 DEF Origins
    <3>3. PICK S : S = SavedSettings(PublicPart(p), t, {ap})
      OBVIOUS
    <3>4. used' = {q \in Metadata(S, t) : Verifies(q)}
      BY <2>3, <3>2, <3>3 DEF ConnectNew
    <3>5. PICK r \in S : r \in ProfileSettings /\ Harmless(r) /\ Verifies(r)
      BY <1>2, <1>3, <2>1, <3>2, <3>3, CloneVerifies
    <3> QED BY <3>4, <3>5, MetadataMakes
  <2> QED BY <1>5, <2>2, <2>3
<1>7. CASE Offered = {}
  <2>1. (Offered # {}) = FALSE
    BY <1>7
  <2>2. e.prompt = Prompt(ap, FALSE) /\ e.hint = AuthKeyMgmt(ap, FALSE)
    BY <1>2, <2>1
  <2>3. Found(t, {ap}) = {} /\ Origins(t, {ap}) = {{}}
    BY <1>7 DEF Found, Origins
  <2>4. ConnectNew(t, {ap}, {}, fresh)
    BY <1>5, <2>3
  <2>5. PICK S : S = VisibleSettings(ap, t)
    OBVIOUS
  <2>6. used' = {q \in Metadata(S, t) : Verifies(q)}
    BY <2>4, <2>5 DEF ConnectNew
  <2>7. S # {}
    BY <1>3, <2>2, <2>5, VisibleMade
  <2>8. PICK r \in S : r \in ProfileSettings /\ Harmless(r) /\ Verifies(r)
    <3>1. PICK r \in S : TRUE
      BY <2>7
    <3>2. /\ r \in Kin(Blank) /\ r.private = FALSE /\ r.mgmt # "ieee8021x"
          /\ r.mgmt \in EnterpriseMgmts => r.dot1x
      BY <1>3, <2>5, <3>1, VisibleKin
    <3>3. r.alg = "" /\ r \in ProfileSettings
      BY <3>2, BlankSound DEF Kin
    <3> QED BY <3>1, <3>2, <3>3 DEF Harmless, Verifies, EnterpriseMgmts
  <2> QED BY <2>6, <2>8, MetadataMakes
<1> QED BY <1>6, <1>7

\* The steps of the frontend, the editor and the air.
LEMMA WifiSteps ==
    ASSUME WifiInv, [WifiNext]_wifiVars
    PROVE  /\ WifiInv'
           /\ UNCHANGED wifiVars \/ Settles
<1>0. /\ [flags |-> "default", ca |-> FALSE] \in EnterpriseSet
      /\ [flags |-> "default", ca |-> TRUE] \in EnterpriseSet
      /\ [flags |-> "not-saved", ca |-> FALSE] \in EnterpriseSet
      /\ [flags |-> "agent", ca |-> FALSE] \in EnterpriseSet
  BY DEF EnterpriseSet
<1>1. CASE UNCHANGED wifiVars
  <2>1. WifiInv' = WifiInv
    BY <1>1 DEF wifiVars, WifiInv, PromptSuffices
  <2> QED BY <1>1, <2>1
<1>2. ASSUME Settles, asked'.fresh => used' # {}, UNCHANGED <<air, shown>>
      PROVE  WifiInv'
  BY <1>2 DEF Settles, WifiInv, PromptSuffices
<1>3. CASE Look
  <2>1. PICK e \in Entries : shown' = {e} /\ Quiet /\ UNCHANGED <<air, saved, wifiMoves>>
    BY <1>3 DEF Look
  <2>2. asked' = NoRequest /\ used' = {}
    BY <2>1 DEF Quiet
  <2>3. asked'.fresh = FALSE /\ asked'.pw = "absent" /\ asked'.how = "none"
    BY <2>2 DEF NoRequest
  <2>4. e.hint \in Hints /\ (e.prompt = "enterprise" => e.hint \in EnterpriseMgmts)
    <3>1. PICK ap \in air : e = [ap |-> ap, known |-> Offered # {}, prompt |-> Prompt(ap, Offered # {}),
                                 hint |-> AuthKeyMgmt(ap, Offered # {})]
      BY DEF Entries
    <3>2. PICK known \in BOOLEAN : e.prompt = Prompt(ap, known) /\ e.hint = AuthKeyMgmt(ap, known)
      BY <3>1
    <3>3. AuthKeyMgmt(ap, known) \in Hints
      BY KeyMgmtOf DEF AuthKeyMgmt, Hints
    <3>4. Prompt(ap, known) = "enterprise" => AuthKeyMgmt(ap, known) \in EnterpriseMgmts
      BY KeyMgmtOf DEF Prompt, AuthKeyMgmt
    <3> QED BY <3>2, <3>3, <3>4
  <2>5. WifiInv'
    BY <2>1, <2>2, <2>3, <2>4 DEF WifiInv, PromptSuffices
  <2>6. Settles
    BY <2>1, <2>2, <2>3 DEF Settles, WifiInv
  <2> QED BY <2>5, <2>6
<1>4. CASE AirMoves
  <2>1. /\ used' = {} /\ asked' = NoRequest /\ UNCHANGED <<shown, saved>>
        /\ \E ap \in AccessPoints : air' \in {{}, {ap}, air \cup {ap}}
    BY <1>4 DEF AirMoves, Quiet
  <2>2. asked'.fresh = FALSE /\ asked'.pw = "absent" /\ asked'.how = "none"
    BY <2>1 DEF NoRequest
  <2>3. air' \subseteq AccessPoints
    BY <2>1 DEF WifiInv
  <2>4. WifiInv'
    BY <2>1, <2>2, <2>3 DEF WifiInv, PromptSuffices
  <2>5. Settles
    BY <2>1, <2>2 DEF Settles, WifiInv
  <2> QED BY <2>4, <2>5
<1>5. CASE EditProfile
  BY <1>2, <1>5, EditSettles DEF EditProfile
<1>6. CASE ConnectSsid
  <2>1. PICK t \in SsidTargets : Connect(t, FALSE) /\ UNCHANGED <<air, shown>>
    BY <1>6 DEF ConnectSsid
  <2>2. /\ t.pw \in {"long", "short", "absent"} /\ t.ent \in Enterprises
        /\ t.hint \in {"unset", "open", "none", "sae", "wpa-eap"} /\ t.hidden \in BOOLEAN
        /\ t.private \in BOOLEAN /\ t.remember \in {TRUE}
        /\ t.ent # {} => t.hint \in {"unset", "wpa-eap"}
    BY DEF SsidTargets
  <2>3. t.ent \in SUBSET EnterpriseSet
    BY <1>0, <2>2 DEF Enterprises
  <2>4. Target(t)
    BY <2>2, <2>3 DEF Target, Hints, EnterpriseMgmts, Passwords
  <2> QED BY <1>2, <2>1, <2>4, ConnectSettles
<1>7. CASE AnswerPrompt
  <2>1. PICK e \in shown, pw \in {"long", "short", "absent"}, kind \in {"unset", "phrase"},
             remember \in BOOLEAN :
        /\ e.prompt # "unsupported"
        /\ e.prompt = "none" => pw = "absent" /\ kind = "unset"
        /\ e.prompt = "password" =>
               pw = IF e.hint = "none" /\ kind = "unset" THEN "short" ELSE "long"
        /\ Connect([pw |-> pw, kind |-> kind, hint |-> e.hint, ap |-> {e.ap}, hidden |-> FALSE,
                    ent |-> IF e.prompt = "enterprise" THEN {[flags |-> "default", ca |-> FALSE]} ELSE {},
                    remember |-> remember, private |-> FALSE],
                   e \in Entries /\ \A p \in Offered : Compatible(p, e.ap))
    BY <1>7 DEF AnswerPrompt
  <2>2. PICK fresh : fresh = (e \in Entries /\ \A p \in Offered : Compatible(p, e.ap))
    OBVIOUS
  <2>3. PICK ent : ent = IF e.prompt = "enterprise" THEN {[flags |-> "default", ca |-> FALSE]} ELSE {}
    OBVIOUS
  <2>4. PICK t : t = [pw |-> pw, kind |-> kind, hint |-> e.hint, ap |-> {e.ap}, hidden |-> FALSE,
                      ent |-> ent, remember |-> remember, private |-> FALSE]
    OBVIOUS
  <2>5. Connect(t, fresh) /\ UNCHANGED <<air, shown>>
    BY <1>7, <2>1, <2>2, <2>3, <2>4 DEF AnswerPrompt
  <2>6. /\ t.pw = pw /\ t.kind = kind /\ t.hint = e.hint /\ t.ap = {e.ap} /\ t.hidden = FALSE
        /\ t.ent = ent /\ t.remember = remember /\ t.private = FALSE
    BY <2>4
  <2>7. ent \in SUBSET EnterpriseSet
    BY <1>0, <2>3
  <2>8. e.hint \in Hints /\ (ent # {} => e.hint \in EnterpriseMgmts)
    BY <2>3 DEF WifiInv
  <2>9. Target(t)
    BY <2>6, <2>7, <2>8 DEF Target, Passwords
  <2>10. Settles /\ asked'.fresh = fresh
    BY <2>5, <2>9, ConnectSettles
  <2>11. ASSUME fresh PROVE used' # {}
    <3>1. e \in Entries /\ \A p \in Offered : Compatible(p, e.ap)
      BY <2>2, <2>11
    <3>2. e.prompt = "password" => t.pw = IF e.hint = "none" /\ t.kind # "phrase" THEN "short" ELSE "long"
      BY <2>1, <2>6
    <3>3. /\ t.ap = {e.ap} /\ t.hidden = FALSE /\ t.private = FALSE /\ e.prompt # "unsupported"
          /\ t.ent = IF e.prompt = "enterprise" THEN {[flags |-> "default", ca |-> FALSE]} ELSE {}
          /\ e.prompt = "none" => t.pw = "absent"
      BY <2>1, <2>3, <2>6
    <3> QED BY <2>5, <2>9, <3>1, <3>2, <3>3, FreshAnswered
  <2> QED BY <1>2, <2>5, <2>10, <2>11
<1> QED BY <1>1, <1>3, <1>4, <1>5, <1>6, <1>7 DEF WifiNext

\* The strengthening behind the two theorems below: the saved profiles are
\* ones NetworkManager stores and the daemon may activate, whichever of
\* connect, clone and edit wrote them (nm/activate.rs, nm/settings.rs).
THEOREM WifiInductive == WifiSpec => []WifiInv
<1>1. WifiInit => WifiInv
  <2> SUFFICES ASSUME WifiInit PROVE WifiInv
    OBVIOUS
  <2>1. air \subseteq AccessPoints /\ shown = {} /\ used = {} /\ asked = NoRequest
    BY DEF WifiInit
  <2>2. saved \subseteq Sound
    <3>1. saved \subseteq ForeignProfiles
      BY DEF WifiInit
    <3>2. \A p \in ForeignProfiles : p \in Sound
      BY WifiAssumption DEF Trusted, Sound
    <3> QED BY <3>1, <3>2
  <2>3. asked.fresh = FALSE /\ asked.how = "none"
    BY <2>1 DEF NoRequest
  <2> QED BY <2>1, <2>2, <2>3 DEF WifiInv, PromptSuffices
<1>2. WifiInv /\ [WifiNext]_wifiVars => WifiInv'
  BY WifiSteps
<1> QED BY <1>1, <1>2, PTL DEF WifiSpec

\* connect_prompt_for and visible_connection_settings agree for every access
\* point and every profile other tools may have saved: an answered prompt is
\* never refused, and a created profile is one its access point can use.
THEOREM PromptsSuffice == WifiSpec => []PromptSuffices
<1>1. WifiInv => PromptSuffices
  BY DEF WifiInv
<1> QED BY <1>1, WifiInductive, PTL

\* connect, the editor and the durable write keep credentials: an accepted
\* password is where the profile's security, the share payload and the secret
\* agent read it, and replacing one secret keeps the others (preserve_secrets).
THEOREM SecretsAreKept == WifiSpec => SecretsKept
<1>1. WifiInv /\ WifiInv' /\ [WifiNext]_wifiVars =>
        [/\ ReadsBack'
         /\ \A p \in saved \ saved', q \in used' : p.mgmt = q.mgmt =>
              \A k \in EditableKeys(p) \ {"none"} :
                q.flags[FlagsKey(k)] = "system" => q.secret[k] # "absent" \/ p.secret[k] = "absent"]_wifiVars
  <2> SUFFICES ASSUME WifiInv, WifiInv', [WifiNext]_wifiVars, ~UNCHANGED wifiVars
               PROVE  /\ ReadsBack'
                      /\ \A p \in saved \ saved', q \in used' : Kept(p, q)
    BY DEF Kept
  <2>1. Settles
    BY WifiSteps
  <2>2. \A p \in saved' : p.mgmt \notin {"", "owe"} =>
            AgentKey(p) = PrimaryKey(p) /\ ShareKey(p) \in {"none", PrimaryKey(p)}
    BY <2>1, SoundKeys DEF Settles
  <2>3. ReadsBack'
    BY <2>1, <2>2 DEF ReadsBack, Settles, ReadBack
  <2> QED BY <2>1, <2>3 DEF Settles
<1> QED BY <1>1, WifiInductive, PTL DEF WifiSpec, SecretsKept

-----------------------------------------------------------------------------
\* The cache and history repositories.

CacheOps ==
    [kind : {"write", "remove", "rename", "append"}, file : CacheFiles \cup Nat, value : CacheReads \cup {0}]

CacheType ==
    /\ disk \in [CacheFiles -> CacheReads] /\ hist \in [0..Rotations -> Seq(Nat)]
    /\ lock \in [{"runtime", "state"} -> Procs \cup {NONE}]
    /\ todo \in [Procs -> Seq(CacheJobs)] /\ plan \in [Procs -> Seq(CacheOps)]
    /\ open \in [Procs -> BOOLEAN] /\ lines \in Nat /\ faults \in Nat

\* A transaction is open while its lock is held.
HoldInv ==
    /\ \A p \in Procs : IF open[p] THEN todo[p] # <<>> /\ lock[Repository(Job(p))] = p ELSE plan[p] = <<>>
    /\ \A r \in {"runtime", "state"} : lock[r] # NONE => open[lock[r]] /\ Repository(Job(lock[r])) = r

\* The n-th last operation of a rotation and its append.
HistoryStep(n) ==
    IF n = 1 THEN Op("append", 0, 0)
    ELSE IF n = Rotations + 2 THEN Op("remove", Rotations, 0) ELSE Op("rename", n - 2, 0)
HistoryPlan(q) ==
    Len(q) <= Rotations + 2 /\ \A k \in 1..Len(q) : q[k] = HistoryStep(Len(q) + 1 - k)

\* What an open transaction will write to the known connections extends what
\* they are, once.
KnownPlan(q, known) ==
    /\ \A k \in 1..Len(q) : q[k].kind = "write" /\ q[k].file \in CacheFiles /\ q[k].value \in CacheReads
    /\ \A k \in 1..Len(q) : q[k].file = "known" =>
          /\ known.st # "corrupt" /\ q[k].value.st = "available"
          /\ known.st = "available" => known.items \subseteq q[k].value.items
    /\ \A j, k \in 1..Len(q) : q[j].file = "known" /\ q[k].file = "known" => j = k

PlanInv ==
    \A p \in Procs : open[p] =>
        IF Repository(Job(p)) = "state" THEN HistoryPlan(plan[p]) ELSE KnownPlan(plan[p], disk["known"])

\* File i holds the records after e[i + 1] up to e[i]; m records were appended.
Edges(e, h, m) ==
    /\ e \in [0..(Rotations + 1) -> 0..m] /\ e[0] = m
    /\ \A i \in 0..Rotations :
         /\ e[i + 1] + Len(h[i]) = e[i]
         /\ \A k \in 1..Len(h[i]) : h[i][k] = e[i + 1] + k

\* With n operations left, the next rename moves into an empty slot.
Vacant(n, h) == n > 1 /\ n < Rotations + 2 => Len(h[n - 1]) = 0

\* Where the edges are while no transaction was interrupted: the rotated
\* files are full, and a rotation has shifted those from n on.
Down(x, k) == IF k * MaxLines <= x THEN x - k * MaxLines ELSE 0
Paced(e, n, m) ==
    /\ n = 0 => m - e[1] <= MaxLines /\ (e[1] > 0 => m > e[1])
    /\ n = 1 => m - e[1] < MaxLines
    /\ n < 2 => \A i \in 1..(Rotations + 1) : e[i] = Down(e[1], i - 1)
    /\ n > 1 => m >= MaxLines /\ \A i \in 1..(Rotations + 1) : e[i] = Down(m, IF i < n THEN i ELSE i - 1)

HistoryAt(n, h, m, f) ==
    Vacant(n, h) /\ \E e : Edges(e, h, m) /\ (f = 0 => Paced(e, n, m))

Unwritten == IF lock["state"] = NONE THEN 0 ELSE Len(plan[lock["state"]])

CacheInv == CacheType /\ HoldInv /\ PlanInv /\ HistoryAt(Unwritten, hist, lines, faults)

LEMMA PlanTaken ==
    ASSUME NEW S, NEW q \in Seq(S), q # <<>>
    PROVE  /\ Len(q) \in Nat /\ Len(q) > 0 /\ Head(q) = q[1] /\ Head(q) \in S
           /\ Tail(q) \in Seq(S) /\ Len(Tail(q)) = Len(q) - 1
           /\ \A k \in 1..(Len(q) - 1) : Tail(q)[k] = q[k + 1]
BY SMTT(40)

\* append_json_line_with_rotation.
LEMMA HistoryPlanned ==
    ASSUME CacheType
    PROVE  /\ HistoryOps \in Seq(CacheOps) /\ HistoryPlan(HistoryOps)
           /\ IF Len(hist[0]) > 0 /\ Len(hist[0]) + 1 > MaxLines THEN Len(HistoryOps) = Rotations + 2
              ELSE Len(HistoryOps) = 1
<1>1. Rotations \in Nat /\ Rotations > 0
  BY CacheBounds, SMTT(40)
<1>2. PICK q : q = IF Len(hist[0]) > 0 /\ Len(hist[0]) + 1 > MaxLines THEN RotationOps ELSE <<>>
  OBVIOUS
<1>3. \A i \in 1..(Rotations + 1) : RotationOps[i] \in CacheOps /\ RotationOps[i] = HistoryStep(Rotations + 3 - i)
  BY <1>1, SMTT(40) DEF RotationOps, CacheOps, Op, HistoryStep
<1>4. RotationOps \in Seq(CacheOps) /\ Len(RotationOps) = Rotations + 1
  BY <1>1, <1>3, SMTT(40) DEF RotationOps
<1>5. Op("append", 0, 0) \in CacheOps
  BY SMTT(40) DEF CacheOps, Op
<1>6. q \in Seq(CacheOps) /\ HistoryOps = Append(q, Op("append", 0, 0))
  BY <1>2, <1>4, SMTT(40) DEF HistoryOps
<1>7. /\ HistoryOps \in Seq(CacheOps) /\ Len(HistoryOps) = Len(q) + 1
      /\ HistoryOps[Len(q) + 1] = Op("append", 0, 0)
      /\ \A k \in 1..Len(q) : HistoryOps[k] = q[k]
  BY <1>5, <1>6, SMTT(40)
<1>8. CASE Len(hist[0]) > 0 /\ Len(hist[0]) + 1 > MaxLines
  <2>1. q = RotationOps
    BY <1>2, <1>8
  <2>2. Len(HistoryOps) = Rotations + 2
    BY <1>1, <1>4, <1>7, <2>1, SMTT(40)
  <2>3. \A k \in 1..(Rotations + 2) : HistoryOps[k] = HistoryStep(Rotations + 3 - k)
    BY <1>1, <1>3, <1>4, <1>7, <2>1, SMTT(40) DEF HistoryStep
  <2>4. HistoryPlan(HistoryOps)
    BY <1>1, <2>2, <2>3, SMTT(40) DEF HistoryPlan
  <2> QED BY <1>7, <1>8, <2>2, <2>4
<1>9. CASE ~(Len(hist[0]) > 0 /\ Len(hist[0]) + 1 > MaxLines)
  <2>1. q = <<>>
    BY <1>2, <1>9
  <2>2. Len(HistoryOps) = 1 /\ HistoryOps[1] = Op("append", 0, 0)
    BY <1>7, <2>1, SMTT(40)
  <2>3. HistoryPlan(HistoryOps)
    BY <1>1, <2>2, SMTT(40) DEF HistoryPlan, HistoryStep
  <2> QED BY <1>7, <1>9, <2>2, <2>3
<1> QED BY <1>8, <1>9

\* A write that keeps the known connections.
Keeps(o, known) ==
    /\ o.kind = "write" /\ o.file \in CacheFiles /\ o.value \in CacheReads
    /\ o.file = "known" =>
          /\ known.st # "corrupt" /\ o.value.st = "available"
          /\ known.st = "available" => known.items \subseteq o.value.items

LEMMA ListPlanned ==
    ASSUME NEW known, NEW a \in CacheOps, NEW b \in CacheOps, NEW u \in Seq(CacheOps),
           Keeps(a, known), Keeps(b, known), a.file # "known", Len(u) \in {0, 1},
           Len(u) = 1 => Keeps(u[1], known) /\ u[1].file # "known"
    PROVE  /\ <<a>> \in Seq(CacheOps) /\ KnownPlan(<<a>>, known)
           /\ b.file # "known" => <<a, b>> \in Seq(CacheOps) /\ KnownPlan(<<a, b>>, known)
           /\ <<a>> \o u \in Seq(CacheOps) /\ KnownPlan(<<a>> \o u, known)
           /\ <<a, b>> \o u \in Seq(CacheOps) /\ KnownPlan(<<a, b>> \o u, known)
<1>1. <<a>> \in Seq(CacheOps) /\ <<a, b>> \in Seq(CacheOps) /\ <<a>> \o u \in Seq(CacheOps)
      /\ <<a, b>> \o u \in Seq(CacheOps)
  BY SMTT(40)
<1>2. ASSUME NEW q, Len(q) \in Nat,
             \A k \in 1..Len(q) : Keeps(q[k], known) /\ (q[k].file = "known" => k = 2)
      PROVE  KnownPlan(q, known)
  BY <1>2 DEF KnownPlan, Keeps
<1>3. /\ Len(<<a>>) = 1 /\ \A k \in 1..1 : <<a>>[k] = a
      /\ Len(<<a, b>>) = 2 /\ \A k \in 1..2 : <<a, b>>[k] = IF k = 2 THEN b ELSE a
  BY SMTT(40)
<1>4. /\ Len(<<a>> \o u) = 1 + Len(u) /\ \A k \in 1..(1 + Len(u)) : (<<a>> \o u)[k] = IF k = 1 THEN a ELSE u[1]
  BY SMTT(40)
<1>5. /\ Len(<<a, b>> \o u) = 2 + Len(u)
      /\ \A k \in 1..(2 + Len(u)) : (<<a, b>> \o u)[k] = IF k = 1 THEN a ELSE IF k = 2 THEN b ELSE u[1]
  BY SMTT(40)
<1>6. KnownPlan(<<a>>, known)
  BY <1>2, <1>3, SMTT(40)
<1>7. ASSUME b.file # "known" PROVE KnownPlan(<<a, b>>, known)
  <2>1. PICK q : q = <<a, b>>
    OBVIOUS
  <2>2. \A k \in 1..Len(q) : Keeps(q[k], known) /\ (q[k].file = "known" => k = 2)
    BY <1>3, <1>7, <2>1
  <2>3. Len(q) \in Nat
    BY <1>3, <2>1, SMTT(40)
  <2> QED BY <1>2, <2>1, <2>2, <2>3
<1>8. KnownPlan(<<a>> \o u, known)
  <2>1. PICK q : q = <<a>> \o u
    OBVIOUS
  <2>2. Len(q) \in {1, 2} /\ \A k \in 1..Len(q) : q[k] = IF k = 1 THEN a ELSE u[1]
    BY <1>4, <2>1, SMTT(40)
  <2>3. \A k \in 1..Len(q) : k = 1 \/ Len(u) = 1
    BY <1>4, <2>1, SMTT(40)
  <2>4. \A k \in 1..Len(q) : Keeps(q[k], known) /\ (q[k].file = "known" => k = 2)
    BY <2>2, <2>3
  <2>5. Len(q) \in Nat
    BY <2>2, SMTT(40)
  <2> QED BY <1>2, <2>1, <2>4, <2>5
<1>9. KnownPlan(<<a, b>> \o u, known)
  <2>1. PICK q : q = <<a, b>> \o u
    OBVIOUS
  <2>2. \A k \in 1..Len(q) : q[k] = IF k = 1 THEN a ELSE IF k = 2 THEN b ELSE u[1]
    BY <1>5, <2>1
  <2>3. Len(q) \in Nat /\ \A k \in 1..Len(q) : k \in {1, 2} \/ Len(u) = 1
    BY <1>5, <2>1, SMTT(40)
  <2>4. \A k \in 1..Len(q) : Keeps(q[k], known) /\ (q[k].file = "known" => k = 2)
    BY <2>2, <2>3
  <2> QED BY <1>2, <2>1, <2>3, <2>4
<1> QED BY <1>1, <1>6, <1>7, <1>8, <1>9

\* cache_connected_network_status and the other writers of the runtime files.
LEMMA WritesPlanned ==
    ASSUME CacheType, NEW j \in CacheJobs, j.op # "append", ~Refuses(j, disk)
    PROVE  Writes(j, disk) \in Seq(CacheOps) /\ KnownPlan(Writes(j, disk), disk["known"])
<1> DEFINE W(f, v) == Op("write", f, v)
<1>1. /\ \A f \in CacheFiles : disk[f] \in CacheReads
      /\ disk.latest = disk["latest"] /\ disk.known = disk["known"]
      /\ disk["latest"] \in CacheReads /\ disk["known"] \in CacheReads
  BY SMTT(40) DEF CacheType, CacheFiles
<1>2. \A f \in CacheFiles, v \in CacheReads :
        W(f, v) \in CacheOps /\ W(f, v).kind = "write" /\ W(f, v).file = f /\ W(f, v).value = v
  BY DEF Op, CacheOps
<1>3. \A listed \in SUBSET (APs \cup {KeyOf[ap] : ap \in APs}), act \in SUBSET APs :
        File("available", listed, act) \in CacheReads
  BY DEF File, CacheReads
<1>4. Missing \in CacheReads
  BY DEF Missing, File, CacheReads
<1> HIDE DEF W
<1>5. \A f \in CacheFiles \ {"known"}, v \in CacheReads : Keeps(W(f, v), disk["known"])
  BY <1>2 DEF Keeps
<1>6. ASSUME NEW listed \in SUBSET (APs \cup {KeyOf[ap] : ap \in APs}), NEW act \in SUBSET APs
      PROVE  LET u == UpdateSnapshot(disk.latest, listed, act) IN
             /\ u \in Seq(CacheOps) /\ Len(u) \in {0, 1}
             /\ Len(u) = 1 => Keeps(u[1], disk["known"]) /\ u[1].file # "known"
  <2>1. PICK o : o = W("latest", File("available", listed, act))
    OBVIOUS
  <2>2. o \in CacheOps /\ Keeps(o, disk["known"]) /\ o.file = "latest"
    BY <1>2, <1>3, <1>5, <2>1 DEF CacheFiles
  <2>3. /\ <<o>> \in Seq(CacheOps) /\ Len(<<o>>) = 1 /\ <<o>>[1] = o
        /\ <<>> \in Seq(CacheOps) /\ Len(<<>>) = 0
    BY <2>2, SMTT(40)
  <2>4. PICK u : u = UpdateSnapshot(disk.latest, listed, act)
    OBVIOUS
  <2>5. u = <<o>> \/ u = <<>>
    BY <2>1, <2>4 DEF UpdateSnapshot, W
  <2>6. CASE u = <<o>>
    BY <2>2, <2>3, <2>4, <2>6
  <2>7. CASE u = <<>>
    BY <2>3, <2>4, <2>7, SMTT(40)
  <2> QED BY <2>5, <2>6, <2>7
<1>7. disk["latest"].items \in SUBSET (APs \cup {KeyOf[ap] : ap \in APs})
  BY <1>1 DEF CacheReads
<1>8. /\ j.ap \in APs \cup {NONE} /\ j.items \in SUBSET APs /\ j.act \in SUBSET APs
      /\ j.op \in {"status", "clear", "scan", "snapshot"}
  BY DEF CacheJobs
<1>9. CASE j.op = "status" /\ j.ap # NONE
  <2>1. PICK a, b, u : /\ a = W("active", File("available", {j.ap}, {j.ap}))
                       /\ b = W("known", File("available", KnownForUpdate(disk.known) \union {KeyOf[j.ap]}, {}))
                       /\ u = UpdateSnapshot(disk.latest, disk.latest.items \union {j.ap}, {j.ap})
    OBVIOUS
  <2>2. Writes(j, disk) = <<a, b>> \o u
    <3>1. Writes(j, disk) = StatusWrites(j.ap, disk)
      BY <1>9 DEF Writes
    <3>2. StatusWrites(j.ap, disk) = <<a, b>> \o u
      BY <2>1 DEF StatusWrites, Upsert, W
    <3> QED BY <3>1, <3>2
  <2>3. a \in CacheOps /\ Keeps(a, disk["known"]) /\ a.file # "known"
    <3>1. PICK v : v = File("available", {j.ap}, {j.ap})
      OBVIOUS
    <3>2. {j.ap} \in SUBSET APs /\ {j.ap} \in SUBSET (APs \cup {KeyOf[ap] : ap \in APs})
      BY <1>8, <1>9
    <3>3. v \in CacheReads /\ a = W("active", v)
      BY <1>3, <2>1, <3>1, <3>2
    <3> QED BY <1>2, <1>5, <3>3 DEF CacheFiles
  <2>4. PICK known : known = KnownForUpdate(disk.known) \union {KeyOf[j.ap]}
    OBVIOUS
  <2>5. /\ known \in SUBSET (APs \cup {KeyOf[ap] : ap \in APs})
        /\ disk["known"].st = "available" => disk["known"].items \subseteq known
    BY <1>1, <1>8, <1>9, <2>4 DEF KnownForUpdate, CacheReads
  <2>6. disk["known"].st # "corrupt"
    BY <1>1, <1>9 DEF Refuses
  <2>7. PICK v : v = File("available", known, {})
    OBVIOUS
  <2>8. v \in CacheReads /\ v.st = "available" /\ v.items = known
    BY <1>3, <2>5, <2>7 DEF File
  <2>9. b \in CacheOps /\ Keeps(b, disk["known"])
    <3>1. b = W("known", v) /\ "known" \in CacheFiles
      BY <2>1, <2>4, <2>7 DEF CacheFiles
    <3>0. v \in CacheReads
      BY <2>8
    <3>2. b \in CacheOps /\ b.kind = "write" /\ b.file = "known" /\ b.value = v
      BY <1>2, <3>0, <3>1
    <3>3. disk["known"].st = "available" => disk["known"].items \subseteq b.value.items
      BY <2>5, <2>8, <3>2
    <3>4. b.value \in CacheReads /\ b.value.st = "available" /\ b.file \in CacheFiles
      BY <2>8, <3>1, <3>2
    <3> QED BY <2>6, <3>2, <3>3, <3>4 DEF Keeps
  <2>10. /\ u \in Seq(CacheOps) /\ Len(u) \in {0, 1}
         /\ Len(u) = 1 => Keeps(u[1], disk["known"]) /\ u[1].file # "known"
    <3>1. PICK listed : listed = disk.latest.items \cup {j.ap}
      OBVIOUS
    <3>2. listed \in SUBSET (APs \cup {KeyOf[ap] : ap \in APs}) /\ {j.ap} \in SUBSET APs
      BY <1>1, <1>7, <1>8, <1>9, <3>1
    <3>3. u = UpdateSnapshot(disk.latest, listed, {j.ap})
      BY <2>1, <3>1
    <3> QED BY <1>6, <3>2, <3>3
  <2>11. <<a, b>> \o u \in Seq(CacheOps) /\ KnownPlan(<<a, b>> \o u, disk["known"])
    BY <2>3, <2>9, <2>10, ListPlanned
  <2> QED BY <2>2, <2>11
<1>10. ASSUME NEW v \in CacheReads,
              Writes(j, disk) = <<Op("write", "active", v)>> \o MarkInactive(disk.latest)
       PROVE  Writes(j, disk) \in Seq(CacheOps) /\ KnownPlan(Writes(j, disk), disk["known"])
  <2>1. PICK a, u : a = W("active", v) /\ u = UpdateSnapshot(disk.latest, disk.latest.items, {})
    OBVIOUS
  <2>2. Writes(j, disk) = <<a>> \o u
    BY <1>10, <2>1 DEF MarkInactive, W
  <2>3. a \in CacheOps /\ Keeps(a, disk["known"]) /\ a.file # "known"
    BY <1>2, <1>5, <2>1 DEF CacheFiles
  <2>4. /\ u \in Seq(CacheOps) /\ Len(u) \in {0, 1}
        /\ Len(u) = 1 => Keeps(u[1], disk["known"]) /\ u[1].file # "known"
    BY <1>1, <1>6, <1>7, <2>1
  <2>5. <<a>> \o u \in Seq(CacheOps) /\ KnownPlan(<<a>> \o u, disk["known"])
    BY <2>3, <2>4, ListPlanned
  <2> QED BY <2>2, <2>5
<1>11. CASE j.op = "status" /\ j.ap = NONE
  BY <1>3, <1>10, <1>11 DEF Writes
<1>12. CASE j.op = "clear"
  BY <1>4, <1>10, <1>12 DEF Writes
<1>13. CASE j.op \in {"scan", "snapshot"}
  <2>1. PICK a, b : /\ a = W("latest", File("available", j.items, j.act))
                    /\ b = W("session", File("available", j.items, j.act))
    OBVIOUS
  <2>2. Writes(j, disk) = <<a, b>> \/ Writes(j, disk) = <<a>>
    BY <1>13, <2>1 DEF Writes, W
  <2>3. /\ a \in CacheOps /\ Keeps(a, disk["known"]) /\ a.file # "known"
        /\ b \in CacheOps /\ Keeps(b, disk["known"]) /\ b.file # "known"
    <3>1. PICK v : v = File("available", j.items, j.act)
      OBVIOUS
    <3>2. v \in CacheReads /\ a = W("latest", v) /\ b = W("session", v)
      BY <1>3, <1>8, <2>1, <3>1
    <3>3. "latest" \in CacheFiles \ {"known"} /\ "session" \in CacheFiles \ {"known"}
      BY DEF CacheFiles
    <3> QED BY <1>2, <1>5, <3>2, <3>3
  <2>4. <<>> \in Seq(CacheOps) /\ Len(<<>>) = 0 /\ Len(<<>>) \in {0, 1} /\ ~(Len(<<>>) = 1)
    BY SMTT(40)
  <2>5. /\ <<a>> \in Seq(CacheOps) /\ KnownPlan(<<a>>, disk["known"])
        /\ <<a, b>> \in Seq(CacheOps) /\ KnownPlan(<<a, b>>, disk["known"])
    BY <2>3, <2>4, ListPlanned
  <2> QED BY <2>2, <2>5
<1> QED BY <1>8, <1>9, <1>11, <1>12, <1>13

\* rotate_files shifts the edges from the oldest file down.
LEMMA EdgesRemove ==
    ASSUME NEW m \in Nat, NEW h \in [0..Rotations -> Seq(Nat)], NEW f \in Nat,
           HistoryAt(Rotations + 2, h, m, f)
    PROVE  HistoryAt(Rotations + 1, [h EXCEPT ![Rotations] = <<>>], m, f)
<1>0. Rotations \in Nat /\ Rotations > 0 /\ MaxLines \in Nat
  BY CacheBounds, SMTT(40)
<1>1. PICK e : Edges(e, h, m) /\ (f = 0 => Paced(e, Rotations + 2, m))
  BY DEF HistoryAt
<1>2. PICK g : g = [h EXCEPT ![Rotations] = <<>>]
  OBVIOUS
<1>3. PICK d : d = [e EXCEPT ![Rotations + 1] = e[Rotations]]
  OBVIOUS
<1>4. /\ e \in [0..(Rotations + 1) -> 0..m] /\ e[0] = m
      /\ \A i \in 0..Rotations : e[i + 1] + Len(h[i]) = e[i] /\ \A k \in 1..Len(h[i]) : h[i][k] = e[i + 1] + k
  BY <1>1 DEF Edges
<1>5. /\ Rotations \in 0..Rotations /\ Rotations \in 0..(Rotations + 1) /\ Rotations + 1 \in 0..(Rotations + 1)
      /\ 0 \in 0..(Rotations + 1)
      /\ \A i \in 0..Rotations : i + 1 \in 0..(Rotations + 1) /\ i \in 0..(Rotations + 1) /\ (i # Rotations => i + 1 # Rotations + 1)
  BY <1>0, SMTT(40)
<1>6. /\ d \in [0..(Rotations + 1) -> 0..m] /\ d[0] = m /\ d[Rotations + 1] = e[Rotations]
      /\ \A i \in 0..(Rotations + 1) : i # Rotations + 1 => d[i] = e[i]
  BY <1>0, <1>3, <1>4, <1>5, SMTT(40)
<1>7. Len(g[Rotations]) = 0 /\ \A i \in 0..Rotations : i # Rotations => g[i] = h[i]
  BY <1>2, <1>5, SMTT(40)
<1>8. Edges(d, g, m)
  <2>1. ASSUME NEW i \in 0..Rotations
        PROVE  d[i + 1] + Len(g[i]) = d[i] /\ \A k \in 1..Len(g[i]) : g[i][k] = d[i + 1] + k
    <3>1. CASE i = Rotations
      <4>1. i # Rotations + 1 /\ i \in 0..(Rotations + 1)
        BY <1>0, <3>1, SMTT(40)
      <4>2. d[i + 1] = e[i] /\ d[i] = e[i] /\ Len(g[i]) = 0 /\ e[i] \in 0..m
        BY <1>4, <1>6, <1>7, <3>1, <4>1
      <4> QED BY <4>2, SMTT(40)
    <3>2. CASE i # Rotations
      <4>1. d[i + 1] = e[i + 1] /\ d[i] = e[i] /\ g[i] = h[i]
        BY <1>5, <1>6, <1>7, <3>2, SMTT(40)
      <4> QED BY <1>4, <4>1
    <3> QED BY <3>1, <3>2
  <2> QED BY <1>6, <2>1 DEF Edges
<1>9. ASSUME f = 0 PROVE Paced(d, Rotations + 1, m)
  <2>1. m >= MaxLines /\ \A i \in 1..(Rotations + 1) : e[i] = Down(m, i)
    BY <1>0, <1>1, <1>9, SMTT(40) DEF Paced
  <2>2. ASSUME NEW i \in 1..(Rotations + 1)
        PROVE  d[i] = Down(m, IF i < Rotations + 1 THEN i ELSE i - 1)
    <3>1. CASE i = Rotations + 1
      <4>1. Rotations \in 1..(Rotations + 1) /\ ~(i < Rotations + 1) /\ i - 1 = Rotations
        BY <1>0, <3>1, SMTT(40)
      <4> QED BY <1>6, <2>1, <3>1, <4>1
    <3>2. CASE i # Rotations + 1
      <4>1. i \in 0..(Rotations + 1) /\ i < Rotations + 1
        BY <1>0, <3>2, SMTT(40)
      <4> QED BY <1>6, <2>1, <3>2, <4>1
    <3> QED BY <3>1, <3>2
  <2> QED BY <1>0, <2>1, <2>2, SMTT(40) DEF Paced
<1>10. Vacant(Rotations + 1, g)
  BY <1>0, <1>7, SMTT(40) DEF Vacant
<1> QED BY <1>2, <1>8, <1>9, <1>10 DEF HistoryAt

LEMMA EdgesRename ==
    ASSUME NEW m \in Nat, NEW h \in [0..Rotations -> Seq(Nat)], NEW f \in Nat,
           NEW n \in Nat, n > 1, n < Rotations + 2, HistoryAt(n, h, m, f),
           NEW g, g = IF h[n - 2] = <<>> THEN h ELSE [h EXCEPT ![n - 2] = <<>>, ![n - 1] = h[n - 2]]
    PROVE  HistoryAt(n - 1, g, m, f)
<1>0. Rotations \in Nat /\ Rotations > 0 /\ MaxLines \in Nat \ {0} /\ Len(h[n - 1]) = 0
  BY CacheBounds, SMTT(40) DEF HistoryAt, Vacant
<1>1. PICK e : Edges(e, h, m) /\ (f = 0 => Paced(e, n, m))
  BY DEF HistoryAt
<1>3. PICK d : d = [e EXCEPT ![n - 1] = e[n - 2]]
  OBVIOUS
<1>4. /\ e \in [0..(Rotations + 1) -> 0..m] /\ e[0] = m
      /\ \A i \in 0..Rotations : e[i + 1] + Len(h[i]) = e[i] /\ \A k \in 1..Len(h[i]) : h[i][k] = e[i + 1] + k
  BY <1>1 DEF Edges
<1>5. n - 2 \in 0..Rotations /\ n - 1 \in 0..Rotations /\ n - 2 # n - 1
  BY <1>0, SMTT(40)
<1>6. /\ d \in [0..(Rotations + 1) -> 0..m] /\ d[0] = m /\ d[n - 1] = e[n - 2]
      /\ \A i \in 0..(Rotations + 1) : i # n - 1 => d[i] = e[i]
  <2>1. /\ n - 1 \in 0..(Rotations + 1) /\ n - 2 \in 0..(Rotations + 1) /\ 0 \in 0..(Rotations + 1)
        /\ n - 1 # 0
    BY <1>0, SMTT(40)
  <2>2. e[n - 2] \in 0..m
    BY <1>4, <2>1
  <2>3. d \in [0..(Rotations + 1) -> 0..m] /\ d[n - 1] = e[n - 2]
    BY <1>3, <1>4, <2>1, <2>2
  <2>4. \A i \in 0..(Rotations + 1) : i # n - 1 => d[i] = e[i]
    BY <1>3, <1>4
  <2> QED BY <1>4, <2>1, <2>3, <2>4
<1>7. /\ Len(g[n - 2]) = 0 /\ Len(g[n - 1]) = Len(h[n - 2])
      /\ \A k \in 1..Len(h[n - 2]) : g[n - 1][k] = h[n - 2][k]
      /\ \A i \in 0..Rotations : i \notin {n - 2, n - 1} => g[i] = h[i]
  <2>1. CASE h[n - 2] = <<>>
    BY <1>0, <2>1, SMTT(40)
  <2>2. CASE h[n - 2] # <<>>
    BY <1>5, <2>2, SMTT(40)
  <2> QED BY <2>1, <2>2
<1>8. Edges(d, g, m)
  <2>1. ASSUME NEW i \in 0..Rotations
        PROVE  d[i + 1] + Len(g[i]) = d[i] /\ \A k \in 1..Len(g[i]) : g[i][k] = d[i + 1] + k
    <3>0. i + 1 \in 0..(Rotations + 1) /\ i \in 0..(Rotations + 1)
      BY <1>0, SMTT(40)
    <3>1. CASE i = n - 2
      <4>1. i + 1 = n - 1 /\ i # n - 1
        BY <1>0, <3>1, SMTT(40)
      <4>2. d[i + 1] = e[i] /\ d[i] = e[i] /\ Len(g[i]) = 0 /\ e[i] \in 0..m
        BY <1>4, <1>6, <1>7, <3>0, <3>1, <4>1
      <4> QED BY <4>2, SMTT(40)
    <3>2. CASE i = n - 1
      <4>0. (n - 1) + 1 = n /\ (n - 2) + 1 = n - 1 /\ n # n - 1 /\ n \in 0..(Rotations + 1)
        BY <1>0, SMTT(40)
      <4>1. e[n] + 0 = e[n - 1] /\ d[n] = e[n] /\ e[n] \in 0..m
        <5>1. e[n] + Len(h[n - 1]) = e[n - 1]
          BY <1>4, <1>5, <4>0
        <5>2. d[n] = e[n] /\ e[n] \in 0..m
          BY <1>4, <1>6, <4>0
        <5> QED BY <1>0, <5>1, <5>2
      <4>2. e[n - 1] + Len(h[n - 2]) = e[n - 2] /\ \A k \in 1..Len(h[n - 2]) : h[n - 2][k] = e[n - 1] + k
        BY <1>4, <1>5, <4>0
      <4>3. d[i + 1] = e[n] /\ d[i] = e[n - 2] /\ e[n - 1] = e[n]
        BY <1>6, <3>2, <4>0, <4>1, SMTT(40)
      <4>4. Len(g[i]) = Len(h[n - 2]) /\ \A k \in 1..Len(h[n - 2]) : g[i][k] = h[n - 2][k]
        BY <1>7, <3>2
      <4>5. d[i + 1] = e[n - 1] /\ e[n - 1] + Len(g[i]) = d[i]
        BY <4>2, <4>3, <4>4
      <4>6. \A k \in 1..Len(g[i]) : g[i][k] = e[n - 1] + k
        BY <4>2, <4>4
      <4> QED BY <4>5, <4>6
    <3>3. CASE i \notin {n - 2, n - 1}
      <4>1. i + 1 # n - 1
        BY <1>0, <3>3, SMTT(40)
      <4>2. d[i + 1] = e[i + 1] /\ d[i] = e[i] /\ g[i] = h[i]
        BY <1>6, <1>7, <3>0, <3>3, <4>1
      <4>3. e[i + 1] + Len(h[i]) = e[i] /\ \A k \in 1..Len(h[i]) : h[i][k] = e[i + 1] + k
        BY <1>4
      <4> QED BY <4>2, <4>3, SMTT(40)
    <3> QED BY <3>1, <3>2, <3>3
  <2> QED BY <1>6, <2>1 DEF Edges
<1>9. ASSUME f = 0 PROVE Paced(d, n - 1, m)
  <2>1. m >= MaxLines /\ \A i \in 1..(Rotations + 1) : e[i] = Down(m, IF i < n THEN i ELSE i - 1)
    BY <1>0, <1>1, <1>9, SMTT(40) DEF Paced
  <2>2. CASE n > 2
    <3>1. ASSUME NEW i \in 1..(Rotations + 1)
          PROVE  d[i] = Down(m, IF i < n - 1 THEN i ELSE i - 1)
      <4>1. CASE i = n - 1
        <5>1. n - 2 \in 1..(Rotations + 1) /\ n - 2 < n /\ ~(i < n - 1) /\ i - 1 = n - 2
          BY <1>0, <2>2, <4>1, SMTT(40)
        <5> QED BY <1>6, <2>1, <4>1, <5>1
      <4>2. CASE i # n - 1
        <5>1. i \in 0..(Rotations + 1) /\ (i < n - 1 <=> i < n)
          BY <1>0, <4>2, SMTT(40)
        <5> QED BY <1>6, <2>1, <4>2, <5>1
      <4> QED BY <4>1, <4>2
    <3> QED BY <1>0, <2>1, <2>2, <3>1, SMTT(40) DEF Paced
  <2>3. CASE n = 2
    <3>1. d[1] = m
      BY <1>4, <1>6, <2>3, SMTT(40)
    <3>2. Down(m, 0) = m
      BY <1>0, SMTT(40) DEF Down
    <3>3. ASSUME NEW i \in 1..(Rotations + 1) PROVE d[i] = Down(m, i - 1)
      <4>1. CASE i = 1
        <5>1. i - 1 = 0
          BY <4>1, SMTT(40)
        <5> QED BY <3>1, <3>2, <4>1, <5>1
      <4>2. CASE i # 1
        <5>1. i \in 0..(Rotations + 1) /\ i # n - 1 /\ ~(i < n)
          BY <1>0, <2>3, <4>2, SMTT(40)
        <5> QED BY <1>6, <2>1, <5>1
      <4> QED BY <4>1, <4>2
    <3> QED BY <1>0, <2>3, <3>1, <3>3, SMTT(40) DEF Paced
  <2> QED BY <2>2, <2>3, SMTT(40)
<1>10. Vacant(n - 1, g)
  BY <1>0, <1>7, SMTT(40) DEF Vacant
<1> QED BY <1>8, <1>9, <1>10 DEF HistoryAt

\* append_private_file.
LEMMA EdgesAppend ==
    ASSUME NEW m \in Nat, NEW h \in [0..Rotations -> Seq(Nat)], NEW f \in Nat, HistoryAt(1, h, m, f)
    PROVE  HistoryAt(0, [h EXCEPT ![0] = Append(@, m + 1)], m + 1, f)
<1>0. Rotations \in Nat /\ Rotations > 0 /\ MaxLines \in Nat \ {0}
  BY CacheBounds, SMTT(40)
<1>1. PICK e : Edges(e, h, m) /\ (f = 0 => Paced(e, 1, m))
  BY DEF HistoryAt
<1>2. PICK g : g = [h EXCEPT ![0] = Append(h[0], m + 1)]
  OBVIOUS
<1>3. PICK d : d = [e EXCEPT ![0] = m + 1]
  OBVIOUS
<1>4. /\ e \in [0..(Rotations + 1) -> 0..m] /\ e[0] = m
      /\ \A i \in 0..Rotations : e[i + 1] + Len(h[i]) = e[i] /\ \A k \in 1..Len(h[i]) : h[i][k] = e[i + 1] + k
  BY <1>1 DEF Edges
<1>5. 0 \in 0..Rotations /\ h[0] \in Seq(Nat) /\ m + 1 \in Nat /\ Len(h[0]) \in Nat
  BY <1>0, SMTT(40)
<1>6. /\ d \in [0..(Rotations + 1) -> 0..(m + 1)] /\ d[0] = m + 1
      /\ \A i \in 1..(Rotations + 1) : d[i] = e[i]
  BY <1>0, <1>3, <1>4, SMTT(40)
<1>7. /\ Len(g[0]) = Len(h[0]) + 1 /\ g[0][Len(h[0]) + 1] = m + 1
      /\ \A k \in 1..Len(h[0]) : g[0][k] = h[0][k]
      /\ \A i \in 1..Rotations : g[i] = h[i]
  BY <1>0, <1>2, <1>5, SMTT(40)
<1>8. Edges(d, g, m + 1)
  <2>1. ASSUME NEW i \in 0..Rotations
        PROVE  d[i + 1] + Len(g[i]) = d[i] /\ \A k \in 1..Len(g[i]) : g[i][k] = d[i + 1] + k
    <3>1. CASE i = 0
      <4>1. e[1] + Len(h[0]) = m /\ e[1] \in 0..m /\ d[1] = e[1] /\ \A k \in 1..Len(h[0]) : h[0][k] = e[1] + k
        BY <1>0, <1>4, <1>5, <1>6, SMTT(40)
      <4>2. d[1] + Len(g[0]) = d[0]
        <5>1. PICK x, l : x = e[1] /\ l = Len(h[0])
          OBVIOUS
        <5>2. x \in Nat /\ l \in Nat /\ x + l = m
          BY <1>5, <4>1, <5>1, SMTT(40)
        <5>3. x + (l + 1) = m + 1
          BY <5>2, SMTT(40)
        <5> QED BY <1>6, <1>7, <4>1, <5>1, <5>3
      <4>3. ASSUME NEW k \in 1..Len(g[0]) PROVE g[0][k] = d[1] + k
        <5>1. k = Len(h[0]) + 1 \/ k \in 1..Len(h[0])
          BY <1>5, <1>7, SMTT(40)
        <5>2. d[1] + (Len(h[0]) + 1) = m + 1
          BY <1>5, <4>1, SMTT(40)
        <5>3. CASE k = Len(h[0]) + 1
          BY <1>7, <5>2, <5>3
        <5>4. CASE k \in 1..Len(h[0])
          BY <1>7, <4>1, <5>4
        <5> QED BY <5>1, <5>3, <5>4
      <4>4. i + 1 = 1
        BY <3>1, SMTT(40)
      <4> QED BY <3>1, <4>2, <4>3, <4>4
    <3>2. CASE i # 0
      <4>1. i \in 1..Rotations /\ i \in 1..(Rotations + 1) /\ i + 1 \in 1..(Rotations + 1)
        BY <1>0, <3>2, SMTT(40)
      <4>2. d[i] = e[i] /\ d[i + 1] = e[i + 1] /\ g[i] = h[i]
        BY <1>6, <1>7, <4>1
      <4>3. e[i + 1] + Len(h[i]) = e[i] /\ \A k \in 1..Len(h[i]) : h[i][k] = e[i + 1] + k
        BY <1>4
      <4> QED BY <4>2, <4>3
    <3> QED BY <3>1, <3>2
  <2> QED BY <1>6, <2>1 DEF Edges
<1>9. ASSUME f = 0 PROVE Paced(d, 0, m + 1)
  <2>1. m - e[1] < MaxLines /\ \A i \in 1..(Rotations + 1) : e[i] = Down(e[1], i - 1)
    BY <1>0, <1>1, <1>9, SMTT(40) DEF Paced
  <2>2. d[1] = e[1] /\ e[1] \in 0..m
    BY <1>0, <1>4, <1>6, SMTT(40)
  <2>3. \A i \in 1..(Rotations + 1) : d[i] = Down(d[1], i - 1)
    BY <1>6, <2>1, <2>2
  <2> QED BY <1>0, <2>1, <2>2, <2>3, SMTT(40) DEF Paced
<1>10. Vacant(0, g)
  BY SMTT(40) DEF Vacant
<1> QED BY <1>2, <1>8, <1>9, <1>10 DEF HistoryAt

\* append_json_line_with_rotation decides.
LEMMA EdgesBegin ==
    ASSUME NEW m \in Nat, NEW h \in [0..Rotations -> Seq(Nat)], NEW f \in Nat, HistoryAt(0, h, m, f)
    PROVE  IF Len(h[0]) > 0 /\ Len(h[0]) + 1 > MaxLines THEN HistoryAt(Rotations + 2, h, m, f)
           ELSE HistoryAt(1, h, m, f)
<1>0. Rotations \in Nat /\ Rotations > 0 /\ MaxLines \in Nat \ {0} /\ h[0] \in Seq(Nat) /\ Len(h[0]) \in Nat
  <2>1. Rotations \in Nat /\ Rotations > 0 /\ MaxLines \in Nat \ {0}
    BY CacheBounds, SMTT(40)
  <2> QED BY <2>1, SMTT(40)
<1>1. PICK e : Edges(e, h, m) /\ (f = 0 => Paced(e, 0, m))
  BY DEF HistoryAt
<1>2. e[1] \in 0..m /\ e[1] + Len(h[0]) = m
  BY <1>0, <1>1, SMTT(40) DEF Edges
<1>3. f = 0 => /\ m - e[1] <= MaxLines
               /\ \A i \in 1..(Rotations + 1) : e[i] = Down(e[1], i - 1)
  BY <1>1, SMTT(40) DEF Paced
<1>4. Vacant(1, h) /\ Vacant(Rotations + 2, h)
  BY <1>0, SMTT(40) DEF Vacant
<1>5. CASE Len(h[0]) > 0 /\ Len(h[0]) + 1 > MaxLines
  <2>1. ASSUME f = 0 PROVE Paced(e, Rotations + 2, m)
    <3>1. e[1] = m - MaxLines
      BY <1>0, <1>2, <1>3, <1>5, <2>1, SMTT(40)
    <3>2. ASSUME NEW i \in 1..(Rotations + 1) PROVE Down(e[1], i - 1) = Down(m, i)
      <4>1. i \in Int /\ i * MaxLines = (i - 1) * MaxLines + MaxLines
        BY <1>0, SMTT(40)
      <4>2. PICK x : x = (i - 1) * MaxLines /\ x \in Int
        BY <1>0, SMTT(40)
      <4> QED BY <1>0, <1>2, <3>1, <4>1, <4>2, SMTT(40) DEF Down
    <3>3. \A i \in 1..(Rotations + 1) : e[i] = Down(m, IF i < Rotations + 2 THEN i ELSE i - 1)
      BY <1>0, <1>3, <2>1, <3>2, SMTT(40)
    <3> QED BY <1>0, <1>2, <3>1, <3>3, SMTT(40) DEF Paced
  <2> QED BY <1>1, <1>4, <1>5, <2>1 DEF HistoryAt
<1>6. CASE ~(Len(h[0]) > 0 /\ Len(h[0]) + 1 > MaxLines)
  <2>1. m - e[1] < MaxLines
    BY <1>0, <1>2, <1>6, SMTT(40)
  <2>2. f = 0 => Paced(e, 1, m)
    BY <1>3, <2>1, SMTT(40) DEF Paced
  <2> QED BY <1>1, <1>4, <1>6, <2>2 DEF HistoryAt
<1> QED BY <1>5, <1>6

LEMMA CacheInitial ==
    CacheInit => CacheInv
<1> SUFFICES ASSUME CacheInit PROVE CacheInv
  OBVIOUS
<1>0. Rotations \in Nat /\ Rotations > 0 /\ MaxLines \in Nat \ {0} /\ 0 \in Nat
  BY CacheBounds, SMTT(40)
<1>1. CacheType
  <2>1. disk \in [CacheFiles -> CacheReads] /\ todo \in [Procs -> Seq(CacheJobs)]
    BY CacheBounds DEF CacheInit
  <2>2. <<>> \in Seq(Nat) /\ <<>> \in Seq(CacheOps)
    BY SMTT(40)
  <2> QED BY <1>0, <2>1, <2>2 DEF CacheInit, CacheType
<1>2. HoldInv /\ PlanInv
  BY DEF CacheInit, HoldInv, PlanInv
<1>3. hist = [i \in 0..Rotations |-> <<>>] /\ lines = 0 /\ lock["state"] = NONE
  BY DEF CacheInit
<1>4. PICK e : e = [i \in 0..(Rotations + 1) |-> 0]
  OBVIOUS
<1>5. \A i \in 0..(Rotations + 1) : e[i] = 0
  BY <1>4
<1>6. e \in [0..(Rotations + 1) -> 0..0]
  BY <1>4, SMTT(40)
<1>7. Edges(e, hist, 0)
  <2>1. ASSUME NEW i \in 0..Rotations
        PROVE  e[i + 1] + Len(hist[i]) = e[i] /\ \A k \in 1..Len(hist[i]) : hist[i][k] = e[i + 1] + k
    <3>1. hist[i] = <<>> /\ Len(<<>>) = 0 /\ i \in 0..(Rotations + 1) /\ i + 1 \in 0..(Rotations + 1)
      BY <1>0, <1>3, SMTT(40)
    <3> QED BY <1>5, <3>1, SMTT(40)
  <2>2. e[0] = 0
    BY <1>0, <1>5, SMTT(40)
  <2> QED BY <1>6, <2>1, <2>2 DEF Edges
<1>8. Paced(e, 0, 0)
  <2>1. \A i \in 1..(Rotations + 1) : (i - 1) * MaxLines >= 0
    BY <1>0, SMTT(40)
  <2>2. \A i \in 1..(Rotations + 1) : Down(0, i - 1) = 0
    BY <1>0, <2>1, SMTT(40) DEF Down
  <2>3. e[1] = 0 /\ \A i \in 1..(Rotations + 1) : e[i] = 0
    BY <1>0, <1>5, SMTT(40)
  <2> QED BY <1>0, <2>2, <2>3, SMTT(40) DEF Paced
<1>9. Vacant(0, hist)
  BY SMTT(40) DEF Vacant
<1> QED BY <1>1, <1>2, <1>3, <1>7, <1>8, <1>9 DEF CacheInv, HistoryAt, Unwritten

\* The lock files tell the transactions apart.
LEMMA Apart ==
    ASSUME CacheInv, NEW p \in Procs
    PROVE  /\ Repository(Job(p)) \in {"runtime", "state"}
           /\ plan[p] # <<>> => open[p]
           /\ open[p] => lock[Repository(Job(p))] = p /\ p # NONE /\ todo[p] # <<>> /\ Job(p) \in CacheJobs
           /\ Repository(Job(p)) = "state" <=> Job(p).op = "append"
<1>1. p # NONE
  BY CacheBounds
<1>2. todo[p] # <<>> => Job(p) \in CacheJobs
  <2>1. todo[p] \in Seq(CacheJobs)
    BY DEF CacheInv, CacheType
  <2> QED BY <2>1, PlanTaken DEF Job
<1> QED BY <1>1, <1>2 DEF CacheInv, HoldInv, Repository

\* A transaction ends: it is committed, or cut short and its lock dropped.
LEMMA CacheReleases ==
    ASSUME CacheInv, NEW p \in Procs, open[p], Released(p), NEW rest \in Seq(CacheJobs),
           todo' = [todo EXCEPT ![p] = rest], UNCHANGED <<disk, hist, lines>>, faults' \in Nat,
           faults' = 0 => faults = 0 /\ plan[p] = <<>>
    PROVE  CacheInv'
<1>1. PICK r : r = Repository(Job(p))
  OBVIOUS
<1>2. /\ r \in {"runtime", "state"} /\ lock[r] = p /\ p # NONE
      /\ lock \in [{"runtime", "state"} -> Procs \cup {NONE}] /\ open \in [Procs -> BOOLEAN]
      /\ todo \in [Procs -> Seq(CacheJobs)] /\ plan \in [Procs -> Seq(CacheOps)]
  BY <1>1, Apart DEF CacheInv, CacheType
<1>3. /\ lock' = [lock EXCEPT ![r] = NONE] /\ open' = [open EXCEPT ![p] = FALSE]
      /\ plan' = [plan EXCEPT ![p] = <<>>]
  BY <1>1, <1>2 DEF Released
<1>4. CacheType'
  <2>1. <<>> \in Seq(CacheOps)
    BY SMTT(40)
  <2> QED BY <1>2, <1>3, <2>1 DEF CacheInv, CacheType
<1>5. /\ ~open'[p] /\ plan'[p] = <<>>
      /\ \A q \in Procs \ {p} : open'[q] = open[q] /\ plan'[q] = plan[q] /\ todo'[q] = todo[q]
      /\ lock'[r] = NONE /\ \A x \in {"runtime", "state"} \ {r} : lock'[x] = lock[x]
      /\ \A q \in Procs \ {p} : Repository(Job(q))' = Repository(Job(q))
  BY <1>2, <1>3 DEF Job, Repository
<1>6. \A q \in Procs \ {p} : open[q] => Repository(Job(q)) # r /\ Repository(Job(q)) \in {"runtime", "state"}
  BY <1>2, Apart
<1>7. HoldInv'
  <2>1. ASSUME NEW q \in Procs
        PROVE  IF open'[q] THEN todo'[q] # <<>> /\ lock'[Repository(Job(q))'] = q ELSE plan'[q] = <<>>
    <3>1. CASE q = p
      BY <1>5, <3>1
    <3>2. CASE q # p
      <4>1. IF open[q] THEN todo[q] # <<>> /\ lock[Repository(Job(q))] = q ELSE plan[q] = <<>>
        BY DEF CacheInv, HoldInv
      <4>2. CASE open[q]
        <5>1. lock'[Repository(Job(q))] = lock[Repository(Job(q))]
          BY <1>5, <1>6, <3>2, <4>2
        <5> QED BY <1>5, <3>2, <4>1, <4>2, <5>1
      <4>3. CASE ~open[q]
        BY <1>5, <3>2, <4>1, <4>3
      <4> QED BY <4>2, <4>3
    <3> QED BY <3>1, <3>2
  <2>2. ASSUME NEW x \in {"runtime", "state"}, lock'[x] # NONE
        PROVE  open'[lock'[x]] /\ Repository(Job(lock[x]))' = x /\ lock'[x] = lock[x]
    <3>1. x # r /\ lock'[x] = lock[x]
      BY <1>5, <2>2
    <3>2. lock[x] \in Procs /\ open[lock[x]] /\ Repository(Job(lock[x])) = x
      BY <1>2, <2>2, <3>1 DEF CacheInv, HoldInv
    <3>3. lock[x] # p
      BY <1>1, <3>1, <3>2
    <3> QED BY <1>5, <3>1, <3>2, <3>3
  <2> QED BY <2>1, <2>2 DEF HoldInv, Repository, Job
<1>8. PlanInv'
  BY <1>5 DEF CacheInv, PlanInv, Repository, Job
<1>9. HistoryAt(Unwritten, hist, lines, faults)' 
  <2>1. HistoryAt(Unwritten, hist, lines, faults) /\ hist' = hist /\ lines' = lines
    BY DEF CacheInv
  <2>2. CASE r = "state"
    <3>1. Unwritten' = 0 /\ Unwritten = Len(plan[p])
      BY <1>2, <1>5, <2>2 DEF Unwritten
    <3>2. Vacant(0, hist) /\ Len(<<>>) = 0
      BY SMTT(40) DEF Vacant
    <3>3. HistoryAt(0, hist, lines, faults')
      BY <2>1, <3>1, <3>2 DEF HistoryAt
    <3> QED BY <2>1, <3>1, <3>3
  <2>3. CASE r # "state"
    <3>1. lock'["state"] = lock["state"]
      BY <1>5, <2>3
    <3>2. lock["state"] # NONE => lock["state"] \in Procs /\ lock["state"] # p
      BY <1>1, <1>2, <2>3 DEF CacheInv, HoldInv
    <3>3. Unwritten' = Unwritten
      BY <1>5, <3>1, <3>2 DEF Unwritten
    <3>4. HistoryAt(Unwritten, hist, lines, faults')
      BY <2>1 DEF HistoryAt
    <3> QED BY <2>1, <3>3, <3>4
  <2> QED BY <2>2, <2>3
<1> QED BY <1>4, <1>7, <1>8, <1>9 DEF CacheInv

\* write_transaction, refused or opened.
LEMMA CacheBegins ==
    ASSUME CacheInv, NEW p \in Procs, Begin(p)
    PROVE  CacheInv'
<1>1. PICK r : r = Repository(Job(p))
  OBVIOUS
<1>2. /\ r \in {"runtime", "state"} /\ lock[r] = NONE /\ p # NONE /\ ~open[p] /\ todo[p] # <<>>
      /\ lock \in [{"runtime", "state"} -> Procs \cup {NONE}] /\ open \in [Procs -> BOOLEAN]
      /\ todo \in [Procs -> Seq(CacheJobs)] /\ plan \in [Procs -> Seq(CacheOps)]
      /\ CacheType /\ hist \in [0..Rotations -> Seq(Nat)] /\ lines \in Nat /\ faults \in Nat
  BY <1>1, Apart, CacheBounds DEF CacheInv, CacheType, Begin, CanLock
<1>3. UNCHANGED <<disk, hist, lines, faults>>
  BY DEF Begin
<1>4. /\ Job(p) \in CacheJobs /\ Tail(todo[p]) \in Seq(CacheJobs)
  <2>1. todo[p] \in Seq(CacheJobs)
    BY <1>2
  <2> QED BY <1>2, <2>1, PlanTaken DEF Job
<1>5. HistoryAt(Unwritten, hist, lines, faults)
  BY DEF CacheInv
<1>6. \A x \in {"runtime", "state"} : lock[x] # NONE =>
        lock[x] \in Procs \ {p} /\ open[lock[x]] /\ Repository(Job(lock[x])) = x
  BY <1>2 DEF CacheInv, HoldInv
<1>7. \A q \in Procs : IF open[q] THEN todo[q] # <<>> /\ lock[Repository(Job(q))] = q ELSE plan[q] = <<>>
  BY DEF CacheInv, HoldInv
<1>8. CASE Refuses(Job(p), disk)
  <2>1. todo' = [todo EXCEPT ![p] = Tail(todo[p])] /\ UNCHANGED <<plan, open, lock>>
    BY <1>8 DEF Begin
  <2>2. \A q \in Procs \ {p} : todo'[q] = todo[q] /\ Repository(Job(q))' = Repository(Job(q))
    BY <1>2, <2>1 DEF Job, Repository
  <2>3. CacheType'
    BY <1>2, <1>3, <1>4, <2>1 DEF CacheType
  <2>4. HoldInv'
    <3>1. ASSUME NEW q \in Procs
          PROVE  IF open'[q] THEN todo'[q] # <<>> /\ lock'[Repository(Job(q))'] = q ELSE plan'[q] = <<>>
      <4>1. CASE q = p
        BY <1>2, <1>7, <2>1, <4>1
      <4>2. CASE q # p
        BY <1>7, <2>1, <2>2, <4>2
      <4> QED BY <4>1, <4>2
    <3>2. ASSUME NEW x \in {"runtime", "state"}, lock'[x] # NONE
          PROVE  open'[lock'[x]] /\ Repository(Job(lock[x]))' = x /\ lock'[x] = lock[x]
      BY <1>6, <2>1, <2>2, <3>2
    <3> QED BY <3>1, <3>2 DEF HoldInv, Repository, Job
  <2>5. PlanInv'
    <3>1. ASSUME NEW q \in Procs, open'[q]
          PROVE  IF Repository(Job(q))' = "state" THEN HistoryPlan(plan[q]) ELSE KnownPlan(plan[q], disk["known"])
      <4>1. q # p /\ open[q]
        BY <1>2, <2>1, <3>1
      <4> QED BY <2>2, <4>1 DEF CacheInv, PlanInv
    <3> QED BY <1>3, <2>1, <3>1 DEF PlanInv
  <2>6. HistoryAt(Unwritten, hist, lines, faults)'
    <3>1. Unwritten' = Unwritten
      BY <2>1 DEF Unwritten
    <3> QED BY <1>3, <1>5, <3>1
  <2> QED BY <2>3, <2>4, <2>5, <2>6 DEF CacheInv
<1>9. CASE ~Refuses(Job(p), disk)
  <2>0. PICK w : w = Writes(Job(p), disk)
    OBVIOUS
  <2>1. /\ plan' = [plan EXCEPT ![p] = w] /\ open' = [open EXCEPT ![p] = TRUE]
        /\ lock' = [lock EXCEPT ![r] = p] /\ UNCHANGED todo
    BY <1>1, <1>9, <2>0 DEF Begin
  <2>2. /\ \A q \in Procs : todo'[q] = todo[q] /\ Repository(Job(q))' = Repository(Job(q))
        /\ \A q \in Procs \ {p} : open'[q] = open[q] /\ plan'[q] = plan[q]
        /\ open'[p] /\ plan'[p] = w /\ lock'[r] = p
        /\ \A x \in {"runtime", "state"} \ {r} : lock'[x] = lock[x]
    BY <1>2, <2>1 DEF Job, Repository
  <2>3. /\ w \in Seq(CacheOps)
        /\ IF r = "state" THEN w = HistoryOps /\ HistoryPlan(w) ELSE KnownPlan(w, disk["known"])
    <3>1. CASE r = "state"
      <4>1. w = HistoryOps
        BY <1>1, <2>0, <3>1 DEF Repository, Writes
      <4> QED BY <1>2, <3>1, <4>1, HistoryPlanned
    <3>2. CASE r # "state"
      <4>1. Job(p).op # "append"
        BY <1>1, <3>2 DEF Repository
      <4> QED BY <1>2, <1>4, <1>9, <2>0, <3>2, <4>1, WritesPlanned
    <3> QED BY <3>1, <3>2
  <2>4. CacheType'
    BY <1>2, <1>3, <2>1, <2>3 DEF CacheType
  <2>5. HoldInv'
    <3>1. ASSUME NEW q \in Procs
          PROVE  IF open'[q] THEN todo'[q] # <<>> /\ lock'[Repository(Job(q))'] = q ELSE plan'[q] = <<>>
      <4>1. CASE q = p
        BY <1>1, <1>2, <2>2, <4>1
      <4>2. CASE q # p /\ open[q]
        <5>1. Repository(Job(q)) \in {"runtime", "state"} \ {r}
          BY <1>2, <1>7, <4>2, Apart
        <5>2. lock'[Repository(Job(q))] = q
          BY <1>7, <2>2, <4>2, <5>1
        <5> QED BY <1>7, <2>2, <4>2, <5>2
      <4>3. CASE q # p /\ ~open[q]
        BY <1>7, <2>2, <4>3
      <4> QED BY <4>1, <4>2, <4>3
    <3>2. ASSUME NEW x \in {"runtime", "state"}, lock'[x] # NONE
          PROVE  \E q \in Procs : lock'[x] = q /\ open'[q] /\ Repository(Job(q))' = x
      <4>1. CASE x = r
        BY <1>1, <1>2, <2>2, <4>1
      <4>2. CASE x # r
        <5>1. PICK q : q = lock[x]
          OBVIOUS
        <5>2. lock'[x] = q
          BY <2>2, <4>2, <5>1
        <5>3. q \in Procs \ {p} /\ open[q] /\ Repository(Job(q)) = x
          <6>1. lock[x] # NONE
            BY <3>2, <5>1, <5>2
          <6> QED BY <1>6, <5>1, <6>1
        <5>4. open'[q] /\ Repository(Job(q))' = x /\ q \in Procs
          BY <2>2, <5>3
        <5> QED BY <5>2, <5>4
      <4> QED BY <4>1, <4>2
    <3> QED BY <3>1, <3>2 DEF HoldInv, Repository, Job
  <2>6. PlanInv'
    <3>1. ASSUME NEW q \in Procs, open'[q]
          PROVE  IF Repository(Job(q))' = "state" THEN HistoryPlan(plan'[q]) ELSE KnownPlan(plan'[q], disk["known"])
      <4>1. CASE q = p
        BY <1>1, <2>2, <2>3, <4>1
      <4>2. CASE q # p
        BY <2>2, <3>1, <4>2 DEF CacheInv, PlanInv
      <4> QED BY <4>1, <4>2
    <3> QED BY <1>3, <3>1 DEF PlanInv
  <2>7. HistoryAt(Unwritten, hist, lines, faults)'
    <3>1. CASE r = "state"
      <4>1. Unwritten = 0 /\ Unwritten' = Len(HistoryOps)
        BY <1>2, <2>2, <2>3, <3>1 DEF Unwritten
      <4>2. HistoryAt(Len(HistoryOps), hist, lines, faults)
        BY <1>2, <1>5, <4>1, EdgesBegin, HistoryPlanned
      <4> QED BY <1>3, <4>1, <4>2
    <3>2. CASE r # "state"
      <4>1. Unwritten' = Unwritten
        BY <1>6, <2>2, <3>2 DEF Unwritten
      <4> QED BY <1>3, <1>5, <4>1
    <3> QED BY <3>1, <3>2
  <2> QED BY <2>4, <2>5, <2>6, <2>7 DEF CacheInv
<1> QED BY <1>8, <1>9

\* A step of an open history transaction.
LEMMA HistoryStepTaken ==
    ASSUME CacheInv, NEW p \in Procs, WriteFile(p), Repository(Job(p)) = "state"
    PROVE  /\ UNCHANGED disk /\ HistoryPlan(Tail(plan[p])) /\ lines' \in Nat /\ hist' \in [0..Rotations -> Seq(Nat)]
           /\ Len(Tail(plan[p])) \in Nat /\ HistoryAt(Len(Tail(plan[p])), hist', lines', faults)
<1>0. Rotations \in Nat /\ Rotations > 0 /\ 0 \in 0..Rotations
  BY CacheBounds, SMTT(40)
<1>1. PICK q : q = plan[p]
  OBVIOUS
<1>2. PICK n : n = Len(q)
  OBVIOUS
<1>3. q # <<>> /\ q \in Seq(CacheOps) /\ open[p] /\ lock["state"] = p /\ p # NONE
  BY <1>1, Apart DEF CacheInv, CacheType, WriteFile
<1>4. HistoryPlan(q) /\ HistoryAt(n, hist, lines, faults)
  BY <1>1, <1>2, <1>3 DEF CacheInv, PlanInv, Unwritten
<1>5. /\ n \in Nat /\ n > 0 /\ Head(q) = q[1] /\ Len(Tail(q)) = n - 1
      /\ \A k \in 1..(n - 1) : Tail(q)[k] = q[k + 1]
  BY <1>2, <1>3, PlanTaken
<1>6. n <= Rotations + 2 /\ \A k \in 1..n : q[k] = HistoryStep(n + 1 - k)
  BY <1>2, <1>4 DEF HistoryPlan
<1>7. Head(q) = HistoryStep(n)
  <2>1. 1 \in 1..n /\ n + 1 - 1 = n
    BY <1>5, SMTT(40)
  <2>2. q[1] = HistoryStep(n + 1 - 1)
    BY <1>6, <2>1
  <2> QED BY <1>5, <2>1, <2>2
<1>8. HistoryPlan(Tail(q))
  <2>1. ASSUME NEW k \in 1..(n - 1) PROVE Tail(q)[k] = HistoryStep(n - 1 + 1 - k)
    <3>1. k + 1 \in 1..n /\ n + 1 - (k + 1) = n - 1 + 1 - k
      BY <1>5, SMTT(40)
    <3>2. q[k + 1] = HistoryStep(n + 1 - (k + 1))
      BY <1>6, <3>1
    <3> QED BY <1>5, <3>1, <3>2
  <2>2. n - 1 <= Rotations + 2
    BY <1>0, <1>5, <1>6, SMTT(40)
  <2> QED BY <1>5, <2>1, <2>2 DEF HistoryPlan
<1>9. PICK o : o = Head(q)
  OBVIOUS
<1>10. /\ IF o.kind = "write" THEN TRUE ELSE hist' = Applied(o) /\ UNCHANGED disk
       /\ lines' = IF o.kind = "append" THEN lines + 1 ELSE lines
  BY <1>1, <1>9 DEF WriteFile
<1>11. hist \in [0..Rotations -> Seq(Nat)] /\ lines \in Nat /\ faults \in Nat /\ <<>> \in Seq(Nat)
  <2>1. <<>> \in Seq(Nat)
    BY SMTT(40)
  <2> QED BY <2>1 DEF CacheInv, CacheType
<1>12. CASE n = 1
  <2>1. o = Op("append", 0, 0) /\ o.kind = "append"
    <3>1. o = Op("append", 0, 0)
      BY <1>7, <1>9, <1>12 DEF HistoryStep
    <3> QED BY <3>1 DEF Op
  <2>2. hist' = [hist EXCEPT ![0] = Append(@, lines + 1)] /\ UNCHANGED disk /\ lines' = lines + 1
    BY <1>10, <2>1 DEF Applied
  <2>3. HistoryAt(0, hist', lines', faults)
    BY <1>4, <1>11, <1>12, <2>2, EdgesAppend
  <2>4. lines' \in Nat /\ Append(hist[0], lines + 1) \in Seq(Nat)
    BY <1>0, <1>11, <2>2, SMTT(40)
  <2>5. hist' \in [0..Rotations -> Seq(Nat)]
    BY <1>11, <2>2, <2>4
  <2>6. n - 1 = 0 /\ 0 \in Nat
    BY <1>12, SMTT(40)
  <2> QED BY <1>1, <1>5, <1>8, <2>2, <2>3, <2>4, <2>5, <2>6
<1>13. CASE n = Rotations + 2
  <2>1. n # 1 /\ n - 1 = Rotations + 1 /\ n - 1 \in Nat /\ Rotations \in 0..Rotations
    BY <1>0, <1>13, SMTT(40)
  <2>2. o = Op("remove", Rotations, 0) /\ o.kind = "remove" /\ o.file = Rotations
    <3>1. o = Op("remove", Rotations, 0)
      BY <1>7, <1>9, <1>13, <2>1 DEF HistoryStep
    <3> QED BY <3>1 DEF Op
  <2>3. hist' = [hist EXCEPT ![Rotations] = <<>>] /\ UNCHANGED disk /\ lines' = lines
    BY <1>10, <2>2 DEF Applied
  <2>4. HistoryAt(Rotations + 1, hist', lines', faults)
    BY <1>4, <1>11, <1>13, <2>3, EdgesRemove
  <2>5. hist' \in [0..Rotations -> Seq(Nat)]
    BY <1>11, <2>3
  <2> QED BY <1>1, <1>5, <1>8, <1>11, <2>1, <2>3, <2>4, <2>5
<1>14. CASE n # 1 /\ n # Rotations + 2
  <2>1. /\ n > 1 /\ n < Rotations + 2 /\ n - 1 \in Nat /\ n - 2 \in 0..Rotations /\ n - 1 \in 0..Rotations
        /\ n - 2 + 1 = n - 1
    BY <1>0, <1>5, <1>6, <1>14, SMTT(40)
  <2>2. o = Op("rename", n - 2, 0) /\ o.kind = "rename" /\ o.file = n - 2
    <3>1. o = Op("rename", n - 2, 0)
      BY <1>7, <1>9, <1>14 DEF HistoryStep
    <3> QED BY <3>1 DEF Op
  <2>3. hist' = Applied(o) /\ UNCHANGED disk /\ lines' = lines
    BY <1>10, <2>2
  <2>4. hist' = IF hist[n - 2] = <<>> THEN hist ELSE [hist EXCEPT ![n - 2] = <<>>, ![n - 1] = hist[n - 2]]
    BY <2>1, <2>2, <2>3 DEF Applied
  <2>5. HistoryAt(n - 1, hist', lines', faults)
    BY <1>4, <1>5, <1>11, <2>1, <2>3, <2>4, EdgesRename
  <2>6. hist' \in [0..Rotations -> Seq(Nat)]
    BY <1>11, <2>1, <2>4
  <2> QED BY <1>1, <1>5, <1>8, <1>11, <2>1, <2>3, <2>5, <2>6
<1> QED BY <1>12, <1>13, <1>14

\* A write of an open transaction on the runtime repository.
LEMMA KnownStepTaken ==
    ASSUME CacheInv, NEW p \in Procs, WriteFile(p), Repository(Job(p)) # "state"
    PROVE  /\ UNCHANGED <<hist, lines>> /\ disk' \in [CacheFiles -> CacheReads]
           /\ KnownPlan(Tail(plan[p]), disk'["known"])
           /\ disk["known"].st = "available" =>
                disk'["known"].st = "available" /\ disk["known"].items \subseteq disk'["known"].items
           /\ disk["known"].st = "corrupt" => disk'["known"] = disk["known"]
<1>1. PICK q : q = plan[p]
  OBVIOUS
<1>2. q # <<>> /\ q \in Seq(CacheOps) /\ open[p]
  BY <1>1, Apart DEF CacheInv, CacheType, WriteFile
<1>3. KnownPlan(q, disk["known"]) /\ disk \in [CacheFiles -> CacheReads]
  BY <1>1, <1>2 DEF CacheInv, PlanInv, CacheType
<1>4. PICK n : n = Len(q)
  OBVIOUS
<1>5. /\ n \in Nat /\ n > 0 /\ Head(q) = q[1] /\ Len(Tail(q)) = n - 1
      /\ \A k \in 1..(n - 1) : Tail(q)[k] = q[k + 1]
  BY <1>2, <1>4, PlanTaken
<1>6. PICK o : o = q[1]
  OBVIOUS
<1>7. 1 \in 1..n /\ \A k \in 1..(n - 1) : k + 1 \in 1..n /\ k + 1 # 1 /\ (\A j \in 1..(n - 1) : j + 1 = k + 1 => j = k)
  BY <1>5, SMTT(40)
<1>8. o.kind = "write" /\ o.file \in CacheFiles /\ o.value \in CacheReads
  BY <1>3, <1>4, <1>6, <1>7 DEF KnownPlan
<1>9. UNCHANGED <<hist, lines>> /\ disk' = [disk EXCEPT ![o.file] = o.value]
  BY <1>1, <1>5, <1>6, <1>8 DEF WriteFile
<1>10. disk' \in [CacheFiles -> CacheReads]
  BY <1>3, <1>8, <1>9
<1>11. PICK t : t = Tail(q)
  OBVIOUS
<1>12. /\ Len(t) = n - 1
       /\ \A k \in 1..(n - 1) : t[k].kind = "write" /\ t[k].file \in CacheFiles /\ t[k].value \in CacheReads
       /\ \A j, k \in 1..(n - 1) : t[j].file = "known" /\ t[k].file = "known" => j = k
  <2>1. \A k \in 1..(n - 1) : t[k] = q[k + 1] /\ k + 1 \in 1..n
    BY <1>5, <1>7, <1>11
  <2>2. \A k \in 1..(n - 1) : t[k].kind = "write" /\ t[k].file \in CacheFiles /\ t[k].value \in CacheReads
    BY <1>3, <1>4, <2>1 DEF KnownPlan
  <2>3. \A j, k \in 1..n : q[j].file = "known" /\ q[k].file = "known" => j = k
    BY <1>3, <1>4 DEF KnownPlan
  <2>4. ASSUME NEW j \in 1..(n - 1), NEW k \in 1..(n - 1), t[j].file = "known", t[k].file = "known" PROVE j = k
    <3>1. j + 1 = k + 1
      BY <2>1, <2>3, <2>4
    <3> QED BY <1>7, <3>1
  <2> QED BY <1>5, <1>11, <2>2, <2>4
<1>13. "known" \in CacheFiles
  BY DEF CacheFiles
<1>14. CASE o.file = "known"
  <2>1. disk'["known"] = o.value
    BY <1>3, <1>9, <1>13, <1>14
  <2>2. /\ disk["known"].st # "corrupt" /\ o.value.st = "available"
        /\ disk["known"].st = "available" => disk["known"].items \subseteq o.value.items
    BY <1>3, <1>4, <1>6, <1>7, <1>14 DEF KnownPlan
  <2>3. \A k \in 1..(n - 1) : t[k].file # "known"
    <3>1. \A j, k \in 1..n : q[j].file = "known" /\ q[k].file = "known" => j = k
      BY <1>3, <1>4 DEF KnownPlan
    <3>2. ASSUME NEW k \in 1..(n - 1), t[k].file = "known" PROVE FALSE
      <4>1. q[k + 1].file = "known" /\ k + 1 \in 1..n /\ k + 1 # 1
        BY <1>5, <1>7, <1>11, <3>2
      <4> QED BY <1>6, <1>7, <1>14, <3>1, <4>1
    <3> QED BY <3>2
  <2>4. KnownPlan(t, disk'["known"])
    BY <1>12, <2>3 DEF KnownPlan
  <2> QED BY <1>1, <1>9, <1>10, <1>11, <2>1, <2>2, <2>4
<1>15. CASE o.file # "known"
  <2>1. disk'["known"] = disk["known"]
    BY <1>3, <1>9, <1>13, <1>15
  <2>2. \A k \in 1..(n - 1) : t[k] = q[k + 1] /\ k + 1 \in 1..n
    BY <1>5, <1>7, <1>11
  <2>3. ASSUME NEW k \in 1..(n - 1), t[k].file = "known"
        PROVE  /\ disk["known"].st # "corrupt" /\ t[k].value.st = "available"
               /\ disk["known"].st = "available" => disk["known"].items \subseteq t[k].value.items
    <3>1. \A i \in 1..n : q[i].file = "known" =>
            /\ disk["known"].st # "corrupt" /\ q[i].value.st = "available"
            /\ disk["known"].st = "available" => disk["known"].items \subseteq q[i].value.items
      BY <1>3, <1>4 DEF KnownPlan
    <3> QED BY <2>2, <2>3, <3>1
  <2>4. KnownPlan(t, disk'["known"])
    BY <1>12, <2>1, <2>3 DEF KnownPlan
  <2> QED BY <1>1, <1>9, <1>10, <1>11, <2>1, <2>4
<1> QED BY <1>14, <1>15

\* The next write of a transaction.
LEMMA CacheWrites ==
    ASSUME CacheInv, NEW p \in Procs, WriteFile(p)
    PROVE  CacheInv'
<1>1. PICK r : r = Repository(Job(p))
  OBVIOUS
<1>2. PICK t : t = Tail(plan[p])
  OBVIOUS
<1>3. /\ plan[p] # <<>> /\ plan' = [plan EXCEPT ![p] = t] /\ UNCHANGED <<lock, todo, open, faults>>
  BY <1>2 DEF WriteFile
<1>4. /\ open[p] /\ lock[r] = p /\ r \in {"runtime", "state"} /\ CacheType
      /\ lock \in [{"runtime", "state"} -> Procs \cup {NONE}] /\ plan \in [Procs -> Seq(CacheOps)]
  BY <1>1, <1>3, Apart DEF CacheInv, CacheType
<1>5. t \in Seq(CacheOps)
  <2>1. plan[p] \in Seq(CacheOps)
    BY <1>4
  <2> QED BY <1>2, <1>3, <2>1, PlanTaken
<1>6. /\ plan'[p] = t /\ \A q \in Procs \ {p} : plan'[q] = plan[q]
      /\ \A q \in Procs : Repository(Job(q))' = Repository(Job(q))
  BY <1>3, <1>4 DEF Job, Repository
<1>7. \A q \in Procs \ {p} : open[q] => Repository(Job(q)) # r
  BY <1>4, Apart
<1>8. HoldInv'
  <2>1. ASSUME NEW q \in Procs
        PROVE  IF open[q] THEN todo[q] # <<>> /\ lock[Repository(Job(q))] = q ELSE plan'[q] = <<>>
    BY <1>4, <1>6 DEF CacheInv, HoldInv
  <2>2. \A x \in {"runtime", "state"} : lock[x] # NONE => open[lock[x]] /\ Repository(Job(lock[x])) = x
    BY DEF CacheInv, HoldInv
  <2> QED BY <1>3, <2>1, <2>2 DEF HoldInv, Repository, Job
<1>9. CASE r = "state"
  <2>1. /\ UNCHANGED disk /\ HistoryPlan(t) /\ lines' \in Nat /\ hist' \in [0..Rotations -> Seq(Nat)]
        /\ HistoryAt(Len(t), hist', lines', faults)
    BY <1>1, <1>2, <1>9, HistoryStepTaken
  <2>2. CacheType'
    BY <1>3, <1>4, <1>5, <2>1 DEF CacheType
  <2>3. PlanInv'
    <3>1. ASSUME NEW q \in Procs, open[q]
          PROVE  IF Repository(Job(q)) = "state" THEN HistoryPlan(plan'[q]) ELSE KnownPlan(plan'[q], disk["known"])
      <4>1. CASE q = p
        BY <1>1, <1>6, <1>9, <2>1, <4>1
      <4>2. CASE q # p
        BY <1>6, <3>1, <4>2 DEF CacheInv, PlanInv
      <4> QED BY <4>1, <4>2
    <3> QED BY <1>3, <1>6, <2>1, <3>1 DEF PlanInv
  <2>4. Unwritten' = Len(t)
    <3>1. lock'["state"] = p /\ p # NONE
      BY <1>3, <1>4, <1>9, CacheBounds
    <3> QED BY <1>6, <3>1 DEF Unwritten
  <2>5. HistoryAt(Unwritten, hist, lines, faults)'
    BY <1>3, <2>1, <2>4
  <2> QED BY <1>8, <2>2, <2>3, <2>5 DEF CacheInv
<1>10. CASE r # "state"
  <2>1. UNCHANGED <<hist, lines>> /\ disk' \in [CacheFiles -> CacheReads] /\ KnownPlan(t, disk'["known"])
    BY <1>1, <1>2, <1>10, KnownStepTaken
  <2>2. CacheType'
    BY <1>3, <1>4, <1>5, <2>1 DEF CacheType
  <2>3. PlanInv'
    <3>1. ASSUME NEW q \in Procs, open[q]
          PROVE  IF Repository(Job(q)) = "state" THEN HistoryPlan(plan'[q]) ELSE KnownPlan(plan'[q], disk'["known"])
      <4>1. CASE q = p
        BY <1>1, <1>6, <1>10, <2>1, <4>1
      <4>2. CASE q # p
        <5>1. Repository(Job(q)) = "state"
          BY <1>4, <1>7, <1>10, <3>1, <4>2, Apart
        <5> QED BY <1>6, <3>1, <4>2, <5>1 DEF CacheInv, PlanInv
      <4> QED BY <4>1, <4>2
    <3> QED BY <1>3, <1>6, <3>1 DEF PlanInv
  <2>4. Unwritten' = Unwritten
    <3>1. lock["state"] # NONE => lock["state"] \in Procs \ {p}
      BY <1>1, <1>4, <1>10 DEF CacheInv, HoldInv
    <3>2. lock'["state"] = lock["state"]
      BY <1>3
    <3>3. lock["state"] # NONE => plan'[lock["state"]] = plan[lock["state"]]
      BY <1>6, <3>1
    <3> QED BY <3>2, <3>3 DEF Unwritten
  <2>5. HistoryAt(Unwritten, hist, lines, faults)'
    BY <1>3, <2>1, <2>4 DEF CacheInv
  <2> QED BY <1>8, <2>2, <2>3, <2>5 DEF CacheInv
<1> QED BY <1>9, <1>10

\* The inductive invariant is enough for the history.
LEMMA HistoryKept ==
    ASSUME CacheInv
    PROVE  HistoryContiguous
<1>0. Rotations \in Nat /\ Rotations > 0 /\ MaxLines \in Nat \ {0} /\ 1 \in 1..(Rotations + 1)
  BY CacheBounds, SMTT(40)
<1>1. PICK e : Edges(e, hist, lines) /\ (faults = 0 => Paced(e, Unwritten, lines))
  BY DEF CacheInv, HistoryAt
<1>2. lines \in Nat
  BY DEF CacheInv, CacheType
<1>3. ASSUME faults = 0, lock["state"] = NONE
      PROVE  e[Rotations + 1] = 0 \/ lines - e[Rotations + 1] > Rotations * MaxLines
  <2>1. Paced(e, 0, lines)
    BY <1>1, <1>3 DEF Unwritten
  <2>2. PICK a, b, w : a = e[1] /\ b = e[Rotations + 1] /\ w = Rotations * MaxLines
    OBVIOUS
  <2>3. a \in Nat /\ b \in Nat /\ w \in Nat
    BY <1>0, <1>1, <1>2, <2>2, SMTT(40) DEF Edges
  <2>4. a > 0 => lines > a
    BY <2>1, <2>2 DEF Paced
  <2>5. b = Down(a, Rotations)
    <3>0. PICK j : j = Rotations + 1
      OBVIOUS
    <3>1. j \in 1..(Rotations + 1) /\ j - 1 = Rotations /\ 0 < 2
      BY <1>0, <3>0, SMTT(40)
    <3>2. \A i \in 1..(Rotations + 1) : e[i] = Down(e[1], i - 1)
      BY <2>1, <3>1 DEF Paced
    <3>3. e[j] = Down(e[1], j - 1)
      BY <3>1, <3>2
    <3> QED BY <2>2, <3>0, <3>1, <3>3
  <2>6. b = IF w <= a THEN a - w ELSE 0
    BY <2>2, <2>5 DEF Down
  <2>7. b = 0 \/ lines - b > w
    BY <1>2, <2>3, <2>4, <2>6, SMTT(40)
  <2> QED BY <2>2, <2>7
<1> QED BY <1>1, <1>3 DEF Edges, HistoryContiguous

LEMMA CacheStep ==
    ASSUME CacheInv, CacheNext
    PROVE  CacheInv'
<1>1. PICK p \in Procs : Begin(p) \/ WriteFile(p) \/ Commit(p) \/ WriteFails(p) \/ Die(p)
  BY DEF CacheNext
<1>2. /\ faults \in Nat /\ faults + 1 \in Nat /\ faults + 1 # 0 /\ <<>> \in Seq(CacheJobs)
      /\ todo[p] \in Seq(CacheJobs)
  <2>1. faults \in Nat /\ todo[p] \in Seq(CacheJobs)
    BY DEF CacheInv, CacheType
  <2> QED BY <2>1, SMTT(40)
<1>3. open[p] => Tail(todo[p]) \in Seq(CacheJobs)
  BY <1>2, Apart, PlanTaken
<1>4. CASE Begin(p)
  BY <1>4, CacheBegins
<1>5. CASE WriteFile(p)
  BY <1>5, CacheWrites
<1>6. CASE Commit(p)
  BY <1>2, <1>3, <1>6, CacheReleases DEF Commit
<1>7. CASE WriteFails(p)
  <2>1. open[p]
    BY <1>7, Apart DEF WriteFails
  <2> QED BY <1>2, <1>3, <1>7, <2>1, CacheReleases DEF WriteFails
<1>8. CASE Die(p)
  BY <1>2, <1>8, CacheReleases DEF Die
<1> QED BY <1>1, <1>4, <1>5, <1>6, <1>7, <1>8

\* A transaction holds its repository's lock, and what it still has to write
\* keeps the known connections and leaves the history an unbroken run, however
\* many processes use the repositories and wherever one is cut short
\* (write_transaction, rotate_files, append_json_line_with_rotation).
THEOREM CacheInductive == CacheSpec => []CacheInv
<1>1. CacheInv /\ UNCHANGED cacheVars => CacheInv'
  <2> SUFFICES ASSUME CacheInv, UNCHANGED cacheVars PROVE CacheInv'
    OBVIOUS
  <2>1. /\ UNCHANGED <<disk, hist, lock, todo>> /\ UNCHANGED <<plan, open, lines, faults>>
    BY DEF cacheVars
  <2>2. CacheType' /\ HoldInv' /\ PlanInv'
    BY <2>1 DEF CacheInv, CacheType, HoldInv, PlanInv, Repository, Job
  <2>3. Unwritten' = Unwritten
    BY <2>1 DEF Unwritten
  <2>4. HistoryAt(Unwritten, hist, lines, faults)'
    BY <2>1, <2>3 DEF CacheInv
  <2> QED BY <2>2, <2>4 DEF CacheInv
<1> QED BY <1>1, CacheInitial, CacheStep, PTL DEF CacheSpec

\* Whichever processes write at once and wherever one of them dies or a write
\* fails, the known connections only grow, an unreadable list is never
\* replaced, and the history loses its oldest records only
\* (cache_connected_network_status, read_known_for_update, rotate_files).
THEOREM RecordsAreKept == CacheSpec => RecordsKept
<1>0. CacheInv' => HistoryContiguous'
  <2>1. CacheInv => HistoryContiguous
    BY HistoryKept
  <2> QED BY <2>1, PTL
<1>1. ASSUME CacheInv, CacheInv', [CacheNext]_cacheVars
      PROVE  /\ disk.known.st = "available" =>
                  /\ disk'.known.st = "available"
                  /\ disk.known.items \subseteq disk'.known.items
             /\ disk.known.st = "corrupt" => disk'.known = disk.known
             /\ HistoryContiguous'
  <2>1. HistoryContiguous'
    BY <1>0, <1>1
  <2>2. disk.known = disk["known"] /\ disk'.known = disk'["known"]
    OBVIOUS
  <2>3. CASE UNCHANGED disk
    BY <2>1, <2>3
  <2>4. CASE \E p \in Procs : WriteFile(p)
    <3>1. PICK p \in Procs : WriteFile(p)
      BY <2>4
    <3>2. CASE Repository(Job(p)) = "state"
      BY <1>1, <2>3, <3>1, <3>2, HistoryStepTaken
    <3>3. CASE Repository(Job(p)) # "state"
      BY <1>1, <2>1, <2>2, <3>1, <3>3, KnownStepTaken
    <3> QED BY <3>2, <3>3
  <2> QED BY <1>1, <2>3, <2>4 DEF CacheNext, cacheVars, Begin, Commit, WriteFails, Die
<1> QED BY <1>1, CacheInductive, PTL DEF CacheSpec, RecordsKept

-----------------------------------------------------------------------------
\* The jobs that assemble an answer.

LookType ==
    /\ job \in LookupJobs /\ lookMoves \in Nat
    /\ items \in [Items -> SUBSET Attributes]
    /\ found \in [queued : SUBSET Instances, running : SUBSET Instances]
    /\ results \in [ok : SUBSET Instances, warned : SUBSET Instances, truncated : BOOLEAN,
                    incomplete : BOOLEAN]

\* Where a job is in its calls; an answer is given once, and no job runs on
\* after it.
LookPlaces ==
    /\ answer # "none" => look = "done"
    /\ look = "resolve" => job = "discover"
    /\ look \in {"wait", "collect", "cancel", "timeout"} => job = "command"
    /\ child # "none" => job = "command"

\* What has been read so far is what the next call relies on.
DiscardInv ==
    job = "discard" =>
        /\ look \in {"second", "delete"} /\ lookMoves = 0 => viewed = items[Wanted.path]
        /\ look = "confirm" => deleted # {} /\ (lookMoves = 0 => deleted = viewed)

InventoryInv ==
    job = "inventory" =>
        /\ look = "start" => assoc.done = {}
        /\ \A pair \in assoc.done : pair[2] \in viewed

DiscoverInv ==
    /\ look = "start" => results.ok = {} /\ results.warned = {}
    /\ look = "resolve" =>
          \/ results.truncated
          \/ results.ok \cup results.warned \cup found.queued \cup found.running = viewed

LookInv == LookType /\ LookPlaces /\ DiscardInv /\ InventoryInv /\ DiscoverInv /\ AnswersHonest

LEMMA LookInitial ==
    LookInit => LookInv
<1> SUFFICES ASSUME LookInit PROVE LookInv
  OBVIOUS
<1>1. LookType
  <2>1. items \in [Items -> SUBSET Attributes]
    BY SMTT(40) DEF LookInit, Attributes
  <2> QED
    BY <2>1, SMTT(40) DEF LookInit, LookType
<1>2. LookPlaces /\ DiscardInv /\ DiscoverInv /\ AnswersHonest
  BY DEF LookInit, LookPlaces, DiscardInv, DiscoverInv, AnswersHonest
<1>3. InventoryInv
  BY DEF LookInit, InventoryInv
<1> QED
  BY <1>1, <1>2, <1>3 DEF LookInv

LEMMA LookStep ==
    LookInv /\ [LookNext]_lookVars => LookInv'
<1> SUFFICES ASSUME LookInv, [LookNext]_lookVars PROVE LookInv'
  OBVIOUS
<1>i. LookType /\ LookPlaces /\ DiscardInv /\ InventoryInv /\ DiscoverInv /\ AnswersHonest
  BY DEF LookInv
<1>0. CASE UNCHANGED lookVars
  BY <1>0, <1>i DEF lookVars, LookInv, LookType, LookPlaces, DiscardInv, InventoryInv, DiscoverInv,
                    AnswersHonest, Gone, Pinned, Matches
<1>1. CASE DiscardSearch
  <2>1. LookType'
    BY <1>1, <1>i DEF DiscardSearch, Answer, Continue, LookType
  <2>2. LookPlaces'
    BY <1>1, <1>i DEF DiscardSearch, Answer, Continue, LookPlaces
  <2>3. DiscardInv'
    BY <1>1, <1>i DEF DiscardSearch, Answer, Continue, DiscardInv
  <2>4. InventoryInv'
    BY <1>1, <1>i DEF DiscardSearch, Answer, Continue, InventoryInv
  <2>5. DiscoverInv'
    BY <1>1, <1>i DEF DiscardSearch, Answer, Continue, DiscoverInv, LookPlaces
  <2>6. AnswersHonest'
    BY <1>1, <1>i DEF DiscardSearch, Answer, Continue, AnswersHonest, LookPlaces
  <2> QED
    BY <2>1, <2>2, <2>3, <2>4, <2>5, <2>6 DEF LookInv
<1>2. CASE DiscardFirst
  <2>1. LookType'
    BY <1>2, <1>i DEF DiscardFirst, Answer, Continue, LookType
  <2>2. LookPlaces'
    BY <1>2, <1>i DEF DiscardFirst, Answer, Continue, LookPlaces
  <2>3. DiscardInv'
    BY <1>2, <1>i DEF DiscardFirst, Answer, Continue, DiscardInv
  <2>4. InventoryInv'
    BY <1>2, <1>i DEF DiscardFirst, Answer, Continue, InventoryInv
  <2>5. DiscoverInv'
    BY <1>2, <1>i DEF DiscardFirst, Answer, Continue, DiscoverInv, LookPlaces
  <2>6. AnswersHonest'
    BY <1>2, <1>i DEF DiscardFirst, Answer, Continue, AnswersHonest, LookPlaces
  <2> QED
    BY <2>1, <2>2, <2>3, <2>4, <2>5, <2>6 DEF LookInv
<1>3. CASE DiscardSecond
  <2>1. LookType'
    BY <1>3, <1>i DEF DiscardSecond, Answer, Continue, Unasked, LookType
  <2>2. LookPlaces'
    BY <1>3, <1>i DEF DiscardSecond, Answer, Continue, Unasked, LookPlaces
  <2>3. DiscardInv'
    BY <1>3, <1>i DEF DiscardSecond, Answer, Continue, Unasked, DiscardInv
  <2>4. InventoryInv'
    BY <1>3, <1>i DEF DiscardSecond, Answer, Continue, Unasked, InventoryInv
  <2>5. DiscoverInv'
    BY <1>3, <1>i DEF DiscardSecond, Answer, Continue, Unasked, DiscoverInv, LookPlaces
  <2>6. AnswersHonest'
    BY <1>3, <1>i DEF DiscardSecond, Answer, Continue, Unasked, AnswersHonest, LookPlaces
  <2> QED
    BY <2>1, <2>2, <2>3, <2>4, <2>5, <2>6 DEF LookInv
<1>4. CASE DiscardDelete
  <2>1. LookType'
    BY <1>4, <1>i DEF DiscardDelete, Answer, Continue, LookType
  <2>2. LookPlaces'
    BY <1>4, <1>i DEF DiscardDelete, Answer, Continue, LookPlaces
  <2>3. DiscardInv'
    BY <1>4, <1>i DEF DiscardDelete, Answer, Continue, DiscardInv
  <2>4. InventoryInv'
    BY <1>4, <1>i DEF DiscardDelete, Answer, Continue, InventoryInv
  <2>5. DiscoverInv'
    BY <1>4, <1>i DEF DiscardDelete, Answer, Continue, DiscoverInv, LookPlaces
  <2>6. AnswersHonest'
    BY <1>4, <1>i DEF DiscardDelete, Answer, Continue, AnswersHonest, LookPlaces
  <2> QED
    BY <2>1, <2>2, <2>3, <2>4, <2>5, <2>6 DEF LookInv
<1>5. CASE DiscardConfirm
  <2>1. LookType'
    BY <1>5, <1>i DEF DiscardConfirm, Answer, Unasked, LookType
  <2>2. LookPlaces'
    BY <1>5, <1>i DEF DiscardConfirm, Answer, Unasked, LookPlaces
  <2>3. DiscardInv'
    BY <1>5, <1>i DEF DiscardConfirm, Answer, Unasked, DiscardInv
  <2>4. InventoryInv'
    BY <1>5, <1>i DEF DiscardConfirm, Answer, Unasked, InventoryInv
  <2>5. DiscoverInv'
    BY <1>5, <1>i DEF DiscardConfirm, Answer, Unasked, DiscoverInv, LookPlaces
  <2>6. AnswersHonest'
    <3>1. /\ job = "discard" /\ deleted # {} /\ (lookMoves = 0 => deleted = viewed)
          /\ answer' = "ok" => Gone
          /\ UNCHANGED <<job, deleted, viewed, lookMoves, items, provider, pinned>>
      BY <1>5, <1>i DEF DiscardConfirm, Answer, Unasked, DiscardInv
    <3>2. answer' = "ok" => Gone'
      BY <3>1 DEF Gone, Pinned, Matches
    <3> QED
      BY <3>1, <3>2 DEF AnswersHonest
  <2> QED
    BY <2>1, <2>2, <2>3, <2>4, <2>5, <2>6 DEF LookInv
<1>6. CASE ListItems
  <2>1. LookType'
    BY <1>6, <1>i DEF ListItems, Continue, LookType
  <2>2. LookPlaces'
    BY <1>6, <1>i DEF ListItems, Continue, LookPlaces
  <2>3. DiscardInv'
    BY <1>6, <1>i DEF ListItems, Continue, DiscardInv
  <2>4. InventoryInv'
    BY <1>6, <1>i DEF ListItems, Continue, InventoryInv
  <2>5. DiscoverInv'
    BY <1>6, <1>i DEF ListItems, Continue, DiscoverInv, LookPlaces
  <2>6. AnswersHonest'
    BY <1>6, <1>i DEF ListItems, Continue, AnswersHonest, LookPlaces
  <2> QED
    BY <2>1, <2>2, <2>3, <2>4, <2>5, <2>6 DEF LookInv
<1>7. CASE QueryProfile
  <2>1. LookType'
    BY <1>7, <1>i DEF QueryProfile, Answer, Continue, LookType
  <2>2. LookPlaces'
    BY <1>7, <1>i DEF QueryProfile, Answer, Continue, LookPlaces
  <2>3. DiscardInv'
    BY <1>7, <1>i DEF QueryProfile, Answer, Continue, DiscardInv
  <2>4. InventoryInv'
    <3>1. /\ job = "inventory" /\ look = "query" /\ UNCHANGED <<job, viewed>>
          /\ \A pair \in assoc.done : pair[2] \in viewed
      BY <1>7, <1>i DEF QueryProfile, InventoryInv
    <3>2. PICK u \in assoc.left, hits \in SUBSET Items :
            \/ /\ hits \subseteq viewed
               /\ assoc' = [done |-> assoc.done \cup {<<u, i>> : i \in hits},
                            left |-> assoc.left \ {u}]
               /\ look' = "query"
            \/ look' = "done" /\ assoc' = assoc
      BY <1>7 DEF QueryProfile, Answer, Continue
    <3>3. look' # "start"
      BY <3>2
    <3>d. assoc'.done = assoc.done \/ assoc'.done = assoc.done \cup {<<u, i>> : i \in hits}
      BY <3>2, SMTT(40)
    <3>4. \A pair \in assoc'.done : pair \in assoc.done \/ \E i \in viewed : pair = <<u, i>>
      <4>1. CASE assoc'.done = assoc.done
        BY <4>1
      <4>2. CASE assoc'.done # assoc.done
        <5>1. hits \subseteq viewed
          BY <3>2, <4>2
        <5> QED
          BY <3>d, <4>2, <5>1
      <4> QED
        BY <4>1, <4>2
    <3>5. \A i : <<u, i>>[2] = i
      OBVIOUS
    <3> QED
      BY <3>1, <3>3, <3>4, <3>5 DEF InventoryInv
  <2>5. DiscoverInv'
    BY <1>7, <1>i DEF QueryProfile, Answer, Continue, DiscoverInv, LookPlaces
  <2>6. AnswersHonest'
    BY <1>7, <1>i DEF QueryProfile, Answer, Continue, AnswersHonest, LookPlaces
  <2> QED
    BY <2>1, <2>2, <2>3, <2>4, <2>5, <2>6 DEF LookInv
<1>8. CASE Publish
  <2>1. LookType'
    BY <1>8, <1>i DEF Publish, Answer, Unasked, LookType
  <2>2. LookPlaces'
    BY <1>8, <1>i DEF Publish, Answer, Unasked, LookPlaces
  <2>3. DiscardInv'
    BY <1>8, <1>i DEF Publish, Answer, Unasked, DiscardInv
  <2>4. InventoryInv'
    BY <1>8, <1>i DEF Publish, Answer, Unasked, InventoryInv
  <2>5. DiscoverInv'
    BY <1>8, <1>i DEF Publish, Answer, Unasked, DiscoverInv, LookPlaces
  <2>6. AnswersHonest'
    BY <1>8, <1>i DEF Publish, Answer, Unasked, AnswersHonest, InventoryInv
  <2> QED
    BY <2>1, <2>2, <2>3, <2>4, <2>5, <2>6 DEF LookInv
<1>9. CASE Browse
  <2>a. ASSUME NEW reply \in SUBSET Instances, NEW kept \in SUBSET reply,
               found' = [queued |-> kept, running |-> {}],
               results' = [results EXCEPT !.truncated = kept # reply], viewed' = reply,
               look' = "resolve"
        PROVE  /\ found' \in [queued : SUBSET Instances, running : SUBSET Instances]
               /\ results' \in [ok : SUBSET Instances, warned : SUBSET Instances,
                                 truncated : BOOLEAN, incomplete : BOOLEAN]
               /\ DiscoverInv'
    <3>0. kept \in SUBSET Instances /\ {} \in SUBSET Instances
      OBVIOUS
    <3>1. /\ found'.queued = kept /\ found'.running = {}
          /\ found' \in [queued : SUBSET Instances, running : SUBSET Instances]
      BY <2>a, <3>0
    <3>e. results.ok = {} /\ results.warned = {}
      BY <1>9, <1>i DEF Browse, DiscoverInv
    <3>2. /\ results'.truncated = (kept # reply)
          /\ results'.ok = results.ok /\ results'.warned = results.warned
          /\ results' \in [ok : SUBSET Instances, warned : SUBSET Instances,
                            truncated : BOOLEAN, incomplete : BOOLEAN]
      BY <1>i, <2>a DEF LookType
    <3> QED
      BY <2>a, <3>1, <3>2, <3>e DEF DiscoverInv
  <2>b. \/ \E reply \in SUBSET Instances : \E kept \in SUBSET reply :
             /\ found' = [queued |-> kept, running |-> {}]
             /\ results' = [results EXCEPT !.truncated = kept # reply]
             /\ viewed' = reply /\ look' = "resolve"
        \/ look' = "done" /\ UNCHANGED <<found, results>>
    BY <1>9 DEF Browse, Answer, Continue
  <2>1. LookType'
    BY <1>9, <1>i, <2>a, <2>b DEF Browse, LookType
  <2>2. LookPlaces'
    BY <1>9, <1>i DEF Browse, Answer, Continue, LookPlaces
  <2>3. DiscardInv'
    BY <1>9, <1>i DEF Browse, Answer, Continue, DiscardInv
  <2>4. InventoryInv'
    BY <1>9, <1>i DEF Browse, Answer, Continue, InventoryInv
  <2>5. DiscoverInv'
    BY <2>a, <2>b DEF DiscoverInv
  <2>6. AnswersHonest'
    BY <1>9, <1>i DEF Browse, Answer, Continue, AnswersHonest, LookPlaces
  <2> QED
    BY <2>1, <2>2, <2>3, <2>4, <2>5, <2>6 DEF LookInv
<1>10. CASE StartResolution
  <2>a. PICK i \in found.queued :
             found' = [queued |-> found.queued \ {i}, running |-> found.running \cup {i}]
    BY <1>10 DEF StartResolution
  <2>b. /\ found.queued \subseteq Instances /\ found.running \subseteq Instances
        /\ found'.queued = found.queued \ {i} /\ found'.running = found.running \cup {i}
        /\ found' \in [queued : SUBSET Instances, running : SUBSET Instances]
    <3>1. found.queued \in SUBSET Instances /\ found.running \in SUBSET Instances
      BY <1>i DEF LookType
    <3>2. found.queued \ {i} \in SUBSET Instances /\ found.running \cup {i} \in SUBSET Instances
      BY <3>1
    <3> QED
      BY <2>a, <3>1, <3>2
  <2>1. LookType'
    BY <1>10, <1>i, <2>b DEF StartResolution, LookType
  <2>2. LookPlaces'
    BY <1>10, <1>i DEF StartResolution, LookPlaces
  <2>3. DiscardInv'
    BY <1>10, <1>i DEF StartResolution, DiscardInv
  <2>4. InventoryInv'
    BY <1>10, <1>i DEF StartResolution, InventoryInv
  <2>5. DiscoverInv'
    <3>1. found.queued \cup found.running = found'.queued \cup found'.running
      BY <2>a, <2>b
    <3>2. UNCHANGED <<look, results, viewed>>
      BY <1>10 DEF StartResolution
    <3> QED
      BY <1>i, <3>1, <3>2 DEF DiscoverInv
  <2>6. AnswersHonest'
    BY <1>10, <1>i DEF StartResolution, AnswersHonest, LookPlaces
  <2> QED
    BY <2>1, <2>2, <2>3, <2>4, <2>5, <2>6 DEF LookInv
<1>11. CASE TakeResolution
  <2> DEFINE Result == [ok : SUBSET Instances, warned : SUBSET Instances, truncated : BOOLEAN,
                        incomplete : BOOLEAN]
  <2>a. PICK i \in found.running :
             /\ found' = [found EXCEPT !.running = found.running \ {i}]
             /\ \/ results' = [results EXCEPT !.ok = results.ok \cup {i}]
                \/ results' = [results EXCEPT !.warned = results.warned \cup {i}]
    BY <1>11 DEF TakeResolution
  <2>t. /\ found \in [queued : SUBSET Instances, running : SUBSET Instances]
        /\ results \in Result
    BY <1>i DEF LookType
  <2>s. /\ found.running \ {i} \in SUBSET Instances /\ i \in Instances
        /\ results.ok \cup {i} \in SUBSET Instances /\ results.warned \cup {i} \in SUBSET Instances
    BY <2>t
  <2>b. /\ found'.queued = found.queued /\ found'.running = found.running \ {i}
        /\ found' \in [queued : SUBSET Instances, running : SUBSET Instances]
    BY <2>a, <2>t, <2>s
  <2>r. /\ results' \in Result /\ results'.truncated = results.truncated
        /\ results'.ok \cup results'.warned = results.ok \cup results.warned \cup {i}
    <3>1. CASE results' = [results EXCEPT !.ok = results.ok \cup {i}]
      <4>1. /\ results' \in Result /\ results'.truncated = results.truncated
            /\ results'.ok = results.ok \cup {i} /\ results'.warned = results.warned
        BY <3>1, <2>t, <2>s
      <4> QED
        BY <4>1
    <3>2. CASE results' = [results EXCEPT !.warned = results.warned \cup {i}]
      <4>1. /\ results' \in Result /\ results'.truncated = results.truncated
            /\ results'.ok = results.ok /\ results'.warned = results.warned \cup {i}
        BY <3>2, <2>t, <2>s
      <4> QED
        BY <4>1
    <3> QED
      BY <2>a, <3>1, <3>2
  <2>1. LookType'
    BY <1>11, <1>i, <2>b, <2>r DEF TakeResolution, LookType
  <2>2. LookPlaces'
    BY <1>11, <1>i DEF TakeResolution, LookPlaces
  <2>3. DiscardInv'
    BY <1>11, <1>i DEF TakeResolution, DiscardInv
  <2>4. InventoryInv'
    BY <1>11, <1>i DEF TakeResolution, InventoryInv
  <2>5. DiscoverInv'
    <3>1. results.ok \cup results.warned \cup found.queued \cup found.running
            = results'.ok \cup results'.warned \cup found'.queued \cup found'.running
      BY <2>a, <2>b, <2>r
    <3>2. look = "resolve" /\ UNCHANGED <<look, viewed>> /\ results'.truncated = results.truncated
      BY <1>11, <2>r DEF TakeResolution
    <3> QED
      BY <1>i, <3>1, <3>2 DEF DiscoverInv
  <2>6. AnswersHonest'
    BY <1>11, <1>i DEF TakeResolution, AnswersHonest, LookPlaces
  <2> QED
    BY <2>1, <2>2, <2>3, <2>4, <2>5, <2>6 DEF LookInv
<1>12. CASE StopAtDeadline
  <2>1. LookType'
    BY <1>12, <1>i DEF StopAtDeadline, Answer, Incomplete, LookType
  <2>2. LookPlaces'
    BY <1>12, <1>i DEF StopAtDeadline, Answer, Incomplete, LookPlaces
  <2>3. DiscardInv'
    BY <1>12, <1>i DEF StopAtDeadline, Answer, Incomplete, DiscardInv
  <2>4. InventoryInv'
    BY <1>12, <1>i DEF StopAtDeadline, Answer, Incomplete, InventoryInv
  <2>5. DiscoverInv'
    BY <1>12, <1>i DEF StopAtDeadline, Answer, Incomplete, DiscoverInv, LookPlaces
  <2>6. AnswersHonest'
    <3>1. results' = [results EXCEPT !.incomplete = TRUE] /\ job = "discover" /\ job' = job
      BY <1>12, <1>i DEF StopAtDeadline, Incomplete, LookPlaces
    <3>2. results'.incomplete
      BY <1>i, <3>1 DEF LookType
    <3> QED
      BY <3>1, <3>2 DEF AnswersHonest
  <2> QED
    BY <2>1, <2>2, <2>3, <2>4, <2>5, <2>6 DEF LookInv
<1>13. CASE AllResolved
  <2>1. LookType'
    BY <1>13, <1>i DEF AllResolved, Answer, Unasked, LookType
  <2>2. LookPlaces'
    BY <1>13, <1>i DEF AllResolved, Answer, Unasked, LookPlaces
  <2>3. DiscardInv'
    BY <1>13, <1>i DEF AllResolved, Answer, Unasked, DiscardInv
  <2>4. InventoryInv'
    BY <1>13, <1>i DEF AllResolved, Answer, Unasked, InventoryInv
  <2>5. DiscoverInv'
    BY <1>13, <1>i DEF AllResolved, Answer, Unasked, DiscoverInv, LookPlaces
  <2>6. AnswersHonest'
    <3>1. /\ look = "resolve" /\ job = "discover" /\ found.queued = {} /\ found.running = {}
          /\ UNCHANGED <<job, results, viewed>>
      BY <1>13, <1>i DEF AllResolved, Unasked, LookPlaces
    <3>2. results.truncated \/ results.ok \cup results.warned = viewed
      BY <1>i, <3>1 DEF DiscoverInv
    <3> QED
      BY <3>1, <3>2 DEF AnswersHonest
  <2> QED
    BY <2>1, <2>2, <2>3, <2>4, <2>5, <2>6 DEF LookInv
<1>14. CASE Spawn
  <2>1. LookType'
    BY <1>14, <1>i DEF Spawn, Answer, Continue, LookType
  <2>2. LookPlaces'
    BY <1>14, <1>i DEF Spawn, Answer, Continue, LookPlaces
  <2>3. DiscardInv'
    BY <1>14, <1>i DEF Spawn, Answer, Continue, DiscardInv
  <2>4. InventoryInv'
    BY <1>14, <1>i DEF Spawn, Answer, Continue, InventoryInv
  <2>5. DiscoverInv'
    BY <1>14, <1>i DEF Spawn, Answer, Continue, DiscoverInv, LookPlaces
  <2>6. AnswersHonest'
    BY <1>14, <1>i DEF Spawn, Answer, Continue, AnswersHonest, LookPlaces
  <2> QED
    BY <2>1, <2>2, <2>3, <2>4, <2>5, <2>6 DEF LookInv
<1>15. CASE WaitRound
  <2>1. LookType'
    BY <1>15, <1>i DEF WaitRound, Continue, LookType
  <2>2. LookPlaces'
    BY <1>15, <1>i DEF WaitRound, Continue, LookPlaces
  <2>3. DiscardInv'
    BY <1>15, <1>i DEF WaitRound, Continue, DiscardInv
  <2>4. InventoryInv'
    BY <1>15, <1>i DEF WaitRound, Continue, InventoryInv
  <2>5. DiscoverInv'
    BY <1>15, <1>i DEF WaitRound, Continue, DiscoverInv, LookPlaces
  <2>6. AnswersHonest'
    BY <1>15, <1>i DEF WaitRound, Continue, AnswersHonest, LookPlaces
  <2> QED
    BY <2>1, <2>2, <2>3, <2>4, <2>5, <2>6 DEF LookInv
<1>16. CASE PipeCloses
  <2>1. LookType'
    BY <1>16, <1>i DEF PipeCloses, LookType
  <2>2. LookPlaces'
    BY <1>16, <1>i DEF PipeCloses, LookPlaces
  <2>3. DiscardInv'
    BY <1>16, <1>i DEF PipeCloses, DiscardInv
  <2>4. InventoryInv'
    BY <1>16, <1>i DEF PipeCloses, InventoryInv
  <2>5. DiscoverInv'
    BY <1>16, <1>i DEF PipeCloses, DiscoverInv, LookPlaces
  <2>6. AnswersHonest'
    BY <1>16, <1>i DEF PipeCloses, AnswersHonest, LookPlaces
  <2> QED
    BY <2>1, <2>2, <2>3, <2>4, <2>5, <2>6 DEF LookInv
<1>17. CASE Collect
  <2>1. LookType'
    BY <1>17, <1>i DEF Collect, Answer, Unasked, LookType
  <2>2. LookPlaces'
    BY <1>17, <1>i DEF Collect, Answer, Unasked, LookPlaces
  <2>3. DiscardInv'
    BY <1>17, <1>i DEF Collect, Answer, Unasked, DiscardInv
  <2>4. InventoryInv'
    BY <1>17, <1>i DEF Collect, Answer, Unasked, InventoryInv
  <2>5. DiscoverInv'
    BY <1>17, <1>i DEF Collect, Answer, Unasked, DiscoverInv, LookPlaces
  <2>6. AnswersHonest'
    BY <1>17, <1>i DEF Collect, Answer, Unasked, AnswersHonest, LookPlaces
  <2> QED
    BY <2>1, <2>2, <2>3, <2>4, <2>5, <2>6 DEF LookInv
<1>18. CASE ProviderMoves
  <2>1. LookType'
    <3>1. lookMoves' \in Nat
      BY <1>18, <1>i, SMTT(40) DEF ProviderMoves, LookType
    <3>2. items' \in [Items -> SUBSET Attributes]
      BY <1>18, <1>i, SMTT(40) DEF ProviderMoves, LookType
    <3> QED
      BY <1>18, <1>i, <3>1, <3>2 DEF ProviderMoves, LookType
  <2>2. LookPlaces'
    BY <1>18, <1>i DEF ProviderMoves, LookPlaces
  <2>3. DiscardInv'
    <3>1. lookMoves' # 0
      BY <1>18, <1>i, SMTT(40) DEF ProviderMoves, LookType
    <3> QED
      BY <1>18, <1>i, <3>1 DEF ProviderMoves, DiscardInv
  <2>4. InventoryInv'
    BY <1>18, <1>i DEF ProviderMoves, InventoryInv
  <2>5. DiscoverInv'
    BY <1>18, <1>i DEF ProviderMoves, DiscoverInv, LookPlaces
  <2>6. AnswersHonest'
    BY <1>18, <1>i DEF ProviderMoves, AnswersHonest, LookPlaces
  <2> QED
    BY <2>1, <2>2, <2>3, <2>4, <2>5, <2>6 DEF LookInv
<1>19. CASE ChildExits
  <2>1. LookType'
    BY <1>19, <1>i DEF ChildExits, LookType
  <2>2. LookPlaces'
    BY <1>19, <1>i DEF ChildExits, LookPlaces
  <2>3. DiscardInv'
    BY <1>19, <1>i DEF ChildExits, DiscardInv
  <2>4. InventoryInv'
    BY <1>19, <1>i DEF ChildExits, InventoryInv
  <2>5. DiscoverInv'
    BY <1>19, <1>i DEF ChildExits, DiscoverInv, LookPlaces
  <2>6. AnswersHonest'
    BY <1>19, <1>i DEF ChildExits, AnswersHonest, LookPlaces
  <2> QED
    BY <2>1, <2>2, <2>3, <2>4, <2>5, <2>6 DEF LookInv
<1>20. CASE DeadlinePasses
  <2>1. LookType'
    BY <1>20, <1>i DEF DeadlinePasses, LookType
  <2>2. LookPlaces'
    BY <1>20, <1>i DEF DeadlinePasses, LookPlaces
  <2>3. DiscardInv'
    BY <1>20, <1>i DEF DeadlinePasses, DiscardInv
  <2>4. InventoryInv'
    BY <1>20, <1>i DEF DeadlinePasses, InventoryInv
  <2>5. DiscoverInv'
    BY <1>20, <1>i DEF DeadlinePasses, DiscoverInv, LookPlaces
  <2>6. AnswersHonest'
    BY <1>20, <1>i DEF DeadlinePasses, AnswersHonest, LookPlaces
  <2> QED
    BY <2>1, <2>2, <2>3, <2>4, <2>5, <2>6 DEF LookInv
<1>21. CASE CancelCommand
  <2>1. LookType'
    BY <1>21, <1>i DEF CancelCommand, LookType
  <2>2. LookPlaces'
    BY <1>21, <1>i DEF CancelCommand, LookPlaces
  <2>3. DiscardInv'
    BY <1>21, <1>i DEF CancelCommand, DiscardInv
  <2>4. InventoryInv'
    BY <1>21, <1>i DEF CancelCommand, InventoryInv
  <2>5. DiscoverInv'
    BY <1>21, <1>i DEF CancelCommand, DiscoverInv, LookPlaces
  <2>6. AnswersHonest'
    BY <1>21, <1>i DEF CancelCommand, AnswersHonest, LookPlaces
  <2> QED
    BY <2>1, <2>2, <2>3, <2>4, <2>5, <2>6 DEF LookInv
<1> QED
  BY <1>0, <1>1, <1>2, <1>3, <1>4, <1>5, <1>6, <1>7, <1>8, <1>9, <1>10, <1>11, <1>12, <1>13,
     <1>14, <1>15, <1>16, <1>17, <1>18, <1>19, <1>20, <1>21 DEF LookNext

\* What each job relies on holds in every reachable state: the two readings of
\* a discard, the listed items of an inventory and the instances of a browse.
THEOREM LookInductive ==
    LookSpec => []LookInv
  BY LookInitial, LookStep, PTL DEF LookSpec

\* AnswersHonest for any items, profiles and instances, and for any number of
\* moves of the provider: whatever happens between the calls of discard_on,
\* legacy_inventory_on, resolve_instances and the command runner, a result
\* claims no more than what was observed.
THEOREM AnswersAreHonest ==
    LookSpec => []AnswersHonest
<1>1. LookInv => AnswersHonest
  BY DEF LookInv
<1> QED
  BY <1>1, LookInductive, PTL
=============================================================================
