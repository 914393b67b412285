---------------------------- MODULE ClientProofs ----------------------------
(***************************************************************************)
(* What clients hold across requests, for every set of clients and every   *)
(* value of the bounds: a portal launch stays single across concurrent     *)
(* handlers, failed writes and restarts (PortalLedger), and a client that  *)
(* follows the change feed has what the daemon had (Feeds).                *)
(***************************************************************************)
EXTENDS PortalLedger, Feeds, FiniteSetTheorems, TLAPS

\* Most steps are first-order; the ones that need arithmetic name SMT;
\* the limits leave room for a loaded machine.
USE ZenonT(60)

-----------------------------------------------------------------------------
\* Portal launches.

MaybeEpisode == Episode \union {NoEpisode}

Request ==
  [at : {"idle", "prepare", "reserve", "claim"}, owner : Owner \union {"none"},
   mode : Mode \union {"none"}, fallback : BOOLEAN, proof : MaybeEpisode,
   id : Nat, episode : MaybeEpisode, captive : BOOLEAN, now : Nat]

Grant == [id : Id, episode : Episode, reason : Mode, proven : BOOLEAN]

\* A handler about to reserve knows for whom, why and where.
Prepared(q) ==
  /\ q.at \in {"prepare", "reserve"} => q.owner \in Owner /\ q.mode \in Mode
  /\ q.at = "reserve" => q.episode \in Episode

PortalType ==
  /\ nm \in 1..MaxNm /\ conn \in 1..MaxConn /\ now \in Nat /\ back \in Nat
  /\ captive \in BOOLEAN
  /\ proof \in [Owner -> MaybeEpisode]
  /\ mem \in Ledger /\ disk \in Ledger
  /\ call \in [Handler -> Request]
  /\ \A h \in Handler : Prepared(call[h])
  /\ nextId \in Nat \ {0}
  /\ granted \subseteq Grant
  /\ claims \in [Id -> Nat]

Known(l) == {e \in Episode : l[e].known}

\* What a ledger, in memory or on disk, has to remember of the grants g and the
\* claims k that were answered, with n the next launch id, t the clock and b
\* the times it was set back.
Remembers(l, n, g, k, b, t) ==
  /\ \A e \in Episode : l[e].launch.id < n
  /\ \A e1, e2 \in Episode :
       l[e1].launch.id = l[e2].launch.id /\ l[e1].launch.id # 0 => e1 = e2
  /\ \A x \in g : x.reason = "automatic" => l[x.episode].auto
  /\ \A e \in Episode : l[e].launch.phase = "reserved" => k[l[e].launch.id] = 0
  /\ b = 0 => \A e1, e2 \in Episode :
       Outstanding(l[e1], t) /\ Outstanding(l[e2], t) => e1 = e2
  /\ Cardinality(Known(l)) <= Limit

PortalInv ==
  /\ PortalType
  /\ Remembers(mem, nextId, granted, claims, back, now)
  /\ Remembers(disk, nextId, granted, claims, back, now)
  /\ \A i \in Id : i >= nextId => claims[i] = 0
  /\ back = 0 => \A h \in Handler : call[h].now <= now
  /\ AutomaticOnce
  /\ \A i \in Id : claims[i] <= 1

-----------------------------------------------------------------------------
(* Ledgers.                                                                *)

LEMMA EpisodesFinite == IsFiniteSet(Episode)
<1> DEFINE Pair == (1..MaxNm) \X (1..MaxConn)
           f == [p \in Pair |-> [nm |-> p[1], conn |-> p[2]]]
<1>1. IsFiniteSet(1..MaxNm) /\ IsFiniteSet(1..MaxConn)
  BY PortalAssumption, FS_Interval, SMTT(40)
<1>2. IsFiniteSet(Pair)
  BY <1>1, FS_Product
<1>3. f \in Surjection(Pair, Episode)
  <2>1. f \in [Pair -> Episode]
    BY DEF Episode
  <2>2. ASSUME NEW e \in Episode PROVE \E p \in Pair : f[p] = e
    <3>1. <<e.nm, e.conn>> \in Pair
      BY DEF Episode
    <3>2. f[<<e.nm, e.conn>>] = e
      BY <3>1 DEF Episode
    <3> QED BY <3>1, <3>2
  <2> QED BY <2>1, <2>2 DEF Surjection
<1> QED
  BY <1>2, <1>3, FS_Surjection

\* A ledger that names one more episode has one more entry at most.
LEMMA KnownGrows ==
  ASSUME NEW l, NEW s, NEW e \in Episode,
         \A d \in Episode \ {e} : s[d].known = l[d].known
  PROVE  /\ IsFiniteSet(Known(l)) /\ Cardinality(Known(l)) \in Nat
         /\ IsFiniteSet(Known(s)) /\ Cardinality(Known(s)) \in Nat
         /\ l[e].known => Cardinality(Known(s)) <= Cardinality(Known(l))
         /\ Cardinality(Known(s)) <= Cardinality(Known(l)) + 1
<1>1. /\ IsFiniteSet(Known(l)) /\ IsFiniteSet(Known(s))
      /\ Cardinality(Known(l)) \in Nat /\ Cardinality(Known(s)) \in Nat
  <2>1. Known(l) \in SUBSET Episode /\ Known(s) \in SUBSET Episode
    BY DEF Known
  <2>2. IsFiniteSet(Known(l)) /\ IsFiniteSet(Known(s))
    BY <2>1, EpisodesFinite, FS_Subset
  <2> QED BY <2>2, FS_CardinalityType
<1>2. Known(s) \subseteq Known(l) \union {e}
  BY DEF Known
<1>3. l[e].known => Known(s) \subseteq Known(l)
  BY DEF Known
<1>4. /\ IsFiniteSet(Known(l) \union {e})
      /\ Cardinality(Known(l) \union {e}) <= Cardinality(Known(l)) + 1
  <2>1. /\ IsFiniteSet(Known(l) \union {e})
        /\ Cardinality(Known(l) \union {e}) =
             IF e \in Known(l) THEN Cardinality(Known(l)) ELSE Cardinality(Known(l)) + 1
    BY <1>1, FS_AddElement
  <2> QED BY <1>1, <2>1, SMTT(40)
<1>5. Cardinality(Known(s)) <= Cardinality(Known(l) \union {e})
  BY <1>2, <1>4, FS_Subset
<1>6. l[e].known => Cardinality(Known(s)) <= Cardinality(Known(l))
  BY <1>1, <1>3, FS_Subset
<1>7. Cardinality(Known(l) \union {e}) \in Nat
  BY <1>4, FS_CardinalityType
<1> QED
  BY <1>1, <1>4, <1>5, <1>6, <1>7, SMTT(40)

LEMMA KnownSame ==
  ASSUME NEW l, NEW s, \A d \in Episode : s[d].known = l[d].known
  PROVE  Cardinality(Known(s)) = Cardinality(Known(l))
BY DEF Known

\* Time passes, ids are used up: what was remembered is remembered.
LEMMA StillRemembers ==
  ASSUME NEW l \in Ledger, NEW n \in Nat, NEW m \in Nat, NEW g, NEW k,
         NEW b, NEW c, NEW t \in Nat, NEW u \in Nat,
         Remembers(l, n, g, k, b, t), n <= m, c = 0 => b = 0 /\ t <= u
  PROVE  Remembers(l, m, g, k, c, u)
<1>1. \A e \in Episode : l[e].launch.id \in Nat
  BY SMTT(40) DEF Ledger, Entry, Launch, NoLaunch, Id
<1>2. \A e \in Episode : l[e].launch # NoLaunch => l[e].launch.expires \in Nat
  BY DEF Ledger, Entry, Launch
<1>3. \A e \in Episode : l[e].launch.id < m
  BY <1>1, SMTT(40) DEF Remembers
<1>4. c = 0 => \A e1, e2 \in Episode :
        Outstanding(l[e1], u) /\ Outstanding(l[e2], u) => e1 = e2
  BY <1>2, SMTT(40) DEF Remembers, Outstanding
<1> QED
  BY <1>3, <1>4 DEF Remembers

-----------------------------------------------------------------------------
(* The ledger's three updates.                                             *)

LEMMA ReservedFields ==
  ASSUME PortalType, NEW h \in Handler, call[h].at = "reserve", nextId \in Id
  PROVE  LET e == call[h].episode
             s == Reserved(h) IN
         /\ e \in Episode /\ s \in Ledger
         /\ \A d \in Episode \ {e} : s[d] = mem[d]
         /\ s[e].launch.id = nextId /\ s[e].launch.phase = "reserved"
         /\ s[e].auto <=> mem[e].auto \/ call[h].mode = "automatic"
<1> DEFINE e == call[h].episode
           f == mem[e].fallback
           back2 == IF call[h].fallback THEN ((f % Fallbacks) + 1) % Fallbacks ELSE f
           launch == [id |-> nextId, owner |-> call[h].owner, reason |-> call[h].mode,
                      expires |-> call[h].now + Lifetime, phase |-> "reserved",
                      outcome |-> "none"]
           new == [known |-> TRUE, auto |-> mem[e].auto \/ call[h].mode = "automatic",
                   fallback |-> back2, launch |-> launch]
<1>1. /\ e \in Episode /\ call[h].owner \in Owner /\ call[h].mode \in Mode
      /\ call[h].now \in Nat /\ call[h].fallback \in BOOLEAN
      /\ mem \in [Episode -> Entry]
  BY DEF PortalType, Request, Ledger, Prepared
<1>2. f \in 0..Fallbacks - 1 /\ mem[e].auto \in BOOLEAN
  BY <1>1 DEF Entry
<1>3. back2 \in 0..Fallbacks - 1
  BY <1>1, <1>2, PortalAssumption, SMTT(40)
<1>4. launch \in Launch
  BY <1>1, PortalAssumption, SMTT(40) DEF Launch
<1> HIDE DEF back2
<1>5. new \in Entry
  BY <1>2, <1>3, <1>4 DEF Entry
<1>6. Reserved(h) = [mem EXCEPT ![e] = new]
  BY DEF Reserved, back2
<1>7. new.launch.id = nextId /\ new.launch.phase = "reserved"
      /\ (new.auto <=> mem[e].auto \/ call[h].mode = "automatic")
  OBVIOUS
<1> HIDE DEF new, e
<1>8. /\ Reserved(h) \in Ledger /\ Reserved(h)[e] = new
      /\ \A d \in Episode \ {e} : Reserved(h)[d] = mem[d]
  BY <1>1, <1>5, <1>6 DEF Ledger
<1> QED
  BY <1>1, <1>7, <1>8 DEF e

\* A reservation is the only launch outstanding, under a new id.
LEMMA ReserveRemembers ==
  ASSUME PortalInv, NEW h \in Handler, call[h].at = "reserve", MayReserve(h),
         nextId \in Id, NEW x \in Grant, x.episode = call[h].episode,
         x.reason = call[h].mode
  PROVE  Remembers(Reserved(h), nextId + 1, granted \union {x}, claims, back, now)
<1> DEFINE e == call[h].episode
           s == Reserved(h)
<1>0. /\ PortalType /\ Remembers(mem, nextId, granted, claims, back, now)
      /\ nextId \in Nat \ {0} /\ now \in Nat /\ claims[nextId] = 0
      /\ granted \subseteq Grant
      /\ back = 0 => call[h].now <= now
      /\ call[h].now \in Nat
  BY SMTT(40) DEF PortalInv, PortalType, Request
<1>1. /\ e \in Episode /\ s \in Ledger
      /\ \A d \in Episode \ {e} : s[d] = mem[d]
      /\ s[e].launch.id = nextId /\ s[e].launch.phase = "reserved"
      /\ s[e].auto <=> mem[e].auto \/ call[h].mode = "automatic"
  BY <1>0, ReservedFields
<1> HIDE DEF s
<1>2. \A d \in Episode : mem[d].launch.id \in Nat /\ mem[d].launch.id < nextId
  BY <1>0, SMTT(40) DEF PortalType, Ledger, Entry, Launch, NoLaunch, Id, Remembers
<1> HIDE DEF e
<1>3. \A d \in Episode : s[d].launch.id < nextId + 1
  BY <1>0, <1>1, <1>2, SMTT(40)
<1>4. \A e1, e2 \in Episode :
        s[e1].launch.id = s[e2].launch.id /\ s[e1].launch.id # 0 => e1 = e2
  BY <1>0, <1>1, <1>2, SMTT(40) DEF Remembers
<1>5. \A y \in granted \union {x} : y.reason = "automatic" => s[y.episode].auto
  BY <1>0, <1>1 DEF Remembers, Grant, e
<1>6. \A d \in Episode : s[d].launch.phase = "reserved" => claims[s[d].launch.id] = 0
  BY <1>0, <1>1 DEF Remembers
<1>7. back = 0 => \A d \in Episode \ {e} : ~Outstanding(s[d], now)
  <2> SUFFICES ASSUME back = 0, NEW d \in Episode \ {e} PROVE ~Outstanding(mem[d], now)
    BY <1>1
  <2>1. ~Outstanding(mem[d], call[h].now)
    BY DEF MayReserve
  <2>2. mem[d].launch # NoLaunch => mem[d].launch.expires \in Nat
    BY <1>0 DEF PortalType, Ledger, Entry, Launch
  <2> QED BY <1>0, <2>1, <2>2, SMTT(40) DEF Outstanding
<1>8. Cardinality(Known(s)) <= Limit
  <2>1. /\ Cardinality(Known(mem)) \in Nat /\ Cardinality(Known(s)) \in Nat
        /\ mem[e].known => Cardinality(Known(s)) <= Cardinality(Known(mem))
        /\ Cardinality(Known(s)) <= Cardinality(Known(mem)) + 1
    BY <1>1, KnownGrows
  <2>2. mem[e].known \/ Cardinality(Known(mem)) < Limit
    BY DEF MayReserve, Known, e
  <2>3. Cardinality(Known(mem)) <= Limit
    BY <1>0 DEF Remembers
  <2> QED BY <2>1, <2>2, <2>3, PortalAssumption, SMTT(40)
<1> QED
  BY <1>1, <1>3, <1>4, <1>5, <1>6, <1>7, <1>8 DEF Remembers, s

\* The state after a claim, or after a report.
LEMMA LaunchUpdated ==
  ASSUME NEW l \in Ledger, NEW e \in Episode, NEW launch \in Launch
  PROVE  LET s == [l EXCEPT ![e].launch = launch] IN
         /\ s \in Ledger
         /\ \A d \in Episode \ {e} : s[d] = l[d]
         /\ s[e].launch = launch /\ s[e].auto = l[e].auto /\ s[e].known = l[e].known
<1> DEFINE new == [l[e] EXCEPT !.launch = launch]
           s == [l EXCEPT ![e].launch = launch]
<1>1. l[e] \in Entry
  BY DEF Ledger
<1>2. /\ new \in Entry /\ new.launch = launch /\ new.auto = l[e].auto
      /\ new.known = l[e].known
  BY <1>1 DEF Entry
<1>3. s = [l EXCEPT ![e] = new]
  OBVIOUS
<1> HIDE DEF new, s
<1>4. /\ s \in Ledger /\ s[e] = new /\ \A d \in Episode \ {e} : s[d] = l[d]
  BY <1>2, <1>3 DEF Ledger
<1> QED
  BY <1>2, <1>4 DEF s

\* Ledger s is l with the launch of e claimed or complete, m the claims after k.
Advances(l, s, e, k, m) ==
  /\ l[e].launch.id # 0
  /\ \A d \in Episode \ {e} : s[d] = l[d] /\ m[l[d].launch.id] = k[l[d].launch.id]
  /\ s[e].launch.id = l[e].launch.id /\ s[e].launch.phase \in {"claimed", "complete"}
  /\ s[e].launch.expires = l[e].launch.expires
  /\ s[e].auto = l[e].auto /\ s[e].known = l[e].known
  /\ s[e].launch.phase = "claimed" => l[e].launch.phase # "complete"

\* A launch moved on: nothing more is outstanding or reserved than before.
LEMMA AdvanceRemembers ==
  ASSUME NEW l \in Ledger, NEW s \in Ledger, NEW e \in Episode, NEW n, NEW g \in SUBSET Grant,
         NEW k, NEW m, NEW b, NEW t,
         Remembers(l, n, g, k, b, t), Advances(l, s, e, k, m)
  PROVE  Remembers(s, n, g, m, b, t)
<1> USE DEF Advances
<1>1. \A d \in Episode : s[d].launch.id = l[d].launch.id /\ s[d].auto = l[d].auto
                         /\ s[d].known = l[d].known
  OBVIOUS
<1>2. \A d \in Episode : Outstanding(s[d], t) => Outstanding(l[d], t)
  <2>1. l[e].launch # NoLaunch
    BY SMTT(40) DEF NoLaunch
  <2> QED BY <2>1 DEF Outstanding
<1>3. \A d \in Episode : s[d].launch.phase = "reserved" => m[s[d].launch.id] = 0
  BY SMTT(40) DEF Remembers
<1>4. \A x \in g : x.episode \in Episode
  BY DEF Grant
<1>5. Cardinality(Known(s)) <= Limit
  BY <1>1, KnownSame, SMTT(40) DEF Remembers
<1> QED
  BY <1>1, <1>2, <1>3, <1>4, <1>5, SMTT(40) DEF Remembers

-----------------------------------------------------------------------------
(* The handlers.                                                           *)

\* A handler that answers or starts over holds nothing.
LEMMA NoCallTyped ==
  NoCall \in Request /\ Prepared(NoCall) /\ NoCall.now = 0
BY DEF NoCall, Request, NoEpisode, MaybeEpisode, Prepared

LEMMA CallReplaced ==
  ASSUME PortalType, NEW h \in Handler, NEW q \in Request, call' = [call EXCEPT ![h] = q],
         Prepared(q)
  PROVE  /\ call' \in [Handler -> Request] /\ call'[h] = q
         /\ \A i \in Handler \ {h} : call'[i] = call[i]
         /\ \A i \in Handler : Prepared(call'[i])
<1>1. call \in [Handler -> Request]
  BY DEF PortalType
<1>2. /\ call' \in [Handler -> Request] /\ call'[h] = q
      /\ \A i \in Handler \ {h} : call'[i] = call[i]
  BY <1>1
<1> QED
  BY <1>2 DEF PortalType

\* A step of a handler that leaves the ledger and the histories alone.
LEMMA CallMoves ==
  ASSUME PortalInv, NEW h \in Handler, NEW q \in Request, call' = [call EXCEPT ![h] = q],
         Prepared(q),
         back = 0 => q.now <= now,
         UNCHANGED <<envVars, ledgerVars, nextId, histVars>>
  PROVE  PortalInv'
<1>0. PortalType
  BY DEF PortalInv
<1>1. /\ call' \in [Handler -> Request] /\ call'[h] = q
      /\ \A i \in Handler \ {h} : call'[i] = call[i]
      /\ \A i \in Handler : Prepared(call'[i])
  BY <1>0, CallReplaced
<1>2. PortalType'
  BY <1>0, <1>1 DEF PortalType, envVars, ledgerVars, histVars
<1>3. back = 0 => \A i \in Handler : call'[i].now <= now
  BY <1>1 DEF PortalInv
<1> QED
  BY <1>2, <1>3 DEF PortalInv, AutomaticOnce, envVars, ledgerVars, histVars

LEMMA RefuseStep ==
  ASSUME PortalInv, NEW h \in Handler, Refuse(h) PROVE PortalInv'
<1>1. back = 0 => 0 <= now
  BY SMTT(40) DEF PortalInv, PortalType
<1> QED
  BY <1>1, NoCallTyped, CallMoves DEF Refuse

LEMMA StartAutomaticStep ==
  ASSUME PortalInv, NEW h \in Handler, NEW o \in Owner, StartAutomatic(h, o) PROVE PortalInv'
<1> DEFINE q == [NoCall EXCEPT !.at = "prepare", !.owner = o, !.mode = "automatic",
                               !.proof = proof[o]]
<1>1. proof[o] \in MaybeEpisode /\ now \in Nat
  BY DEF PortalInv, PortalType
<1>2. q \in Request /\ Prepared(q) /\ q.now = 0
  BY <1>1 DEF NoCall, Request, Mode, MaybeEpisode, Prepared
<1>3. call' = [call EXCEPT ![h] = q] /\ UNCHANGED <<envVars, ledgerVars, nextId, histVars>>
  BY DEF StartAutomatic
<1>4. q.now <= now
  BY <1>1, <1>2, SMTT(40)
<1> HIDE DEF q
<1> QED
  BY <1>2, <1>3, <1>4, CallMoves

LEMMA StartManualStep ==
  ASSUME PortalInv, NEW h \in Handler, NEW o \in Owner, NEW f \in BOOLEAN, StartManual(h, o, f)
  PROVE  PortalInv'
<1> DEFINE q == [NoCall EXCEPT !.at = "reserve", !.owner = o, !.mode = "manual",
                               !.fallback = f, !.episode = Current, !.now = now]
<1>1. Current \in Episode /\ now \in Nat
  BY DEF PortalInv, PortalType, Current, Episode
<1>2. q \in Request /\ Prepared(q) /\ q.now = now
  BY <1>1 DEF NoCall, Request, Mode, MaybeEpisode, Prepared
<1>3. call' = [call EXCEPT ![h] = q] /\ UNCHANGED <<envVars, ledgerVars, nextId, histVars>>
  BY DEF StartManual
<1>4. q.now <= now
  BY <1>1, <1>2, SMTT(40)
<1> HIDE DEF q
<1> QED
  BY <1>2, <1>3, <1>4, CallMoves

LEMMA StartClaimStep ==
  ASSUME PortalInv, NEW h \in Handler, NEW o \in Owner, NEW i \in Nat, StartClaim(h, o, i)
  PROVE  PortalInv'
<1> DEFINE q == [NoCall EXCEPT !.at = "claim", !.owner = o, !.id = i,
                               !.episode = Current, !.captive = captive]
<1>1. Current \in Episode /\ now \in Nat /\ captive \in BOOLEAN
  BY DEF PortalInv, PortalType, Current, Episode
<1>2. q \in Request /\ Prepared(q) /\ q.now = 0
  BY <1>1 DEF NoCall, Request, MaybeEpisode, Prepared
<1>3. call' = [call EXCEPT ![h] = q] /\ UNCHANGED <<envVars, ledgerVars, nextId, histVars>>
  BY DEF StartClaim
<1>4. q.now <= now
  BY <1>1, <1>2, SMTT(40)
<1> HIDE DEF q
<1> QED
  BY <1>2, <1>3, <1>4, CallMoves

\* Only a handler with a mode and an owner reaches the reservation.
LEMMA SnapshotStep ==
  ASSUME PortalInv, NEW h \in Handler, Snapshot(h) PROVE PortalInv'
<1> DEFINE q == [call[h] EXCEPT !.at = "reserve", !.episode = Current, !.now = now]
<1>1. Current \in Episode /\ now \in Nat /\ call[h] \in Request /\ call[h].at = "prepare"
  BY DEF PortalInv, PortalType, Current, Episode, Snapshot
<1>2. call[h].owner \in Owner /\ call[h].mode \in Mode
  BY <1>1 DEF PortalInv, PortalType, Prepared
<1>3. q \in Request /\ Prepared(q) /\ q.now = now
  BY <1>1, <1>2 DEF Request, MaybeEpisode, Prepared
<1>4. call' = [call EXCEPT ![h] = q] /\ UNCHANGED <<envVars, ledgerVars, nextId, histVars>>
  BY DEF Snapshot
<1>5. q.now <= now
  BY <1>1, <1>3, SMTT(40)
<1> HIDE DEF q
<1> QED
  BY <1>3, <1>4, <1>5, CallMoves

LEMMA ReserveStep ==
  ASSUME PortalInv, NEW h \in Handler, Reserve(h) PROVE PortalInv'
<1> DEFINE e == call[h].episode
           s == Reserved(h)
           x == [id |-> nextId, episode |-> e, reason |-> call[h].mode,
                 proven |-> call[h].proof = e]
<1>0. /\ PortalType /\ AutomaticOnce /\ nextId \in Nat \ {0} /\ now \in Nat
      /\ disk \in Ledger /\ Remembers(mem, nextId, granted, claims, back, now)
      /\ Remembers(disk, nextId, granted, claims, back, now)
  BY DEF PortalInv, PortalType
<1>1. /\ call[h].at = "reserve" /\ MayReserve(h) /\ nextId \in Id /\ nextId' = nextId + 1
      /\ call' = [call EXCEPT ![h] = NoCall]
      /\ UNCHANGED <<nm, conn, captive, now, proof, back, claims>>
  BY DEF Reserve, envVars
<1>2. PICK answered \in BOOLEAN :
        /\ Persist(s, answered)
        /\ granted' = granted \union (IF answered THEN {x} ELSE {})
  BY DEF Reserve
<1>3. e \in Episode /\ s \in Ledger
  BY <1>0, <1>1, ReservedFields
<1>4. x \in Grant /\ x.episode = e /\ x.reason = call[h].mode /\ granted \subseteq Grant
  BY <1>0, <1>1, <1>3 DEF Grant, PortalType, Prepared
<1> HIDE DEF s, x
<1>5. Remembers(s, nextId + 1, granted \union {x}, claims, back, now)
  BY <1>1, <1>4, ReserveRemembers DEF s
<1>6. Remembers(s, nextId + 1, granted', claims, back, now)
  BY <1>2, <1>5 DEF Remembers
<1>7. mem' = s /\ (disk' = s \/ (disk' = disk /\ ~answered))
  BY <1>2 DEF Persist
<1>8. ~answered => Remembers(disk, nextId + 1, granted', claims, back, now)
  <2>1. nextId \in Nat /\ nextId + 1 \in Nat /\ nextId <= nextId + 1 /\ now <= now
    BY <1>0, SMTT(40)
  <2>2. Remembers(disk, nextId + 1, granted, claims, back, now)
    BY <1>0, <2>1, StillRemembers
  <2>3. ~answered => granted' = granted
    BY <1>2
  <2> QED BY <2>2, <2>3
<1>9. /\ Remembers(mem', nextId', granted', claims', back', now')
      /\ Remembers(disk', nextId', granted', claims', back', now')
  BY <1>1, <1>6, <1>7, <1>8
<1>10. /\ call' \in [Handler -> Request] /\ call'[h] = NoCall
       /\ \A i \in Handler \ {h} : call'[i] = call[i]
       /\ \A i \in Handler : Prepared(call'[i])
  BY <1>0, <1>1, NoCallTyped, CallReplaced
<1>11. PortalType'
  BY <1>0, <1>1, <1>2, <1>3, <1>4, <1>7, <1>10, SMTT(40) DEF PortalType
<1>12. AutomaticOnce'
  <2>1. ASSUME NEW g \in granted, g.reason = "automatic", g.episode = e,
               call[h].mode = "automatic"
        PROVE FALSE
    BY <1>0, <1>1, <2>1 DEF MayReserve, Attempted, Remembers
  <2>2. \A g \in granted' : g \in granted \/ g = x
    BY <1>2
  <2> QED BY <1>0, <1>4, <2>1, <2>2 DEF AutomaticOnce
<1>13. \A i \in Id : i >= nextId' => claims'[i] = 0
  BY <1>0, <1>1, SMTT(40) DEF PortalInv, Id
<1>14. back' = 0 => \A i \in Handler : call'[i].now <= now'
  BY <1>0, <1>1, <1>10, NoCallTyped, SMTT(40) DEF PortalInv
<1>15. \A i \in Id : claims'[i] <= 1
  BY <1>1 DEF PortalInv
<1> QED
  BY <1>9, <1>11, <1>12, <1>13, <1>14, <1>15 DEF PortalInv

\* A claim is answered once: the launch was still reserved, so nobody had it.
LEMMA ClaimStep ==
  ASSUME PortalInv, NEW h \in Handler, Claim(h) PROVE PortalInv'
<1>0. /\ PortalType /\ AutomaticOnce /\ mem \in Ledger /\ disk \in Ledger
      /\ granted \subseteq Grant /\ claims \in [Id -> Nat] /\ now \in Nat
      /\ nextId \in Nat \ {0}
      /\ Remembers(mem, nextId, granted, claims, back, now)
      /\ Remembers(disk, nextId, granted, claims, back, now)
  BY DEF PortalInv, PortalType
<1>1. /\ call' = [call EXCEPT ![h] = NoCall]
      /\ UNCHANGED <<nm, conn, captive, now, proof, back, nextId, granted>>
  BY DEF Claim, envVars
<1>2. PICK e \in Episode, answered \in BOOLEAN :
        /\ Claimable(e, h)
        /\ Persist([mem EXCEPT ![e].launch.phase = "claimed"], answered)
        /\ claims' = [claims EXCEPT ![call[h].id] = IF answered THEN @ + 1 ELSE @]
  BY DEF Claim
<1> DEFINE launch == [mem[e].launch EXCEPT !.phase = "claimed"]
           s == [mem EXCEPT ![e].launch = launch]
           i == call[h].id
<1>3. i = mem[e].launch.id /\ mem[e].launch.phase = "reserved"
  BY <1>2 DEF Claimable, Found
<1>4. mem[e].launch \in Launch
  BY <1>0, <1>3, SMTT(40) DEF Ledger, Entry, NoLaunch
<1>5. i \in Id /\ i # 0 /\ i < nextId /\ claims[i] = 0
  BY <1>0, <1>3, <1>4, SMTT(40) DEF Launch, Id, Remembers
<1>6. /\ launch \in Launch /\ launch.id = i /\ launch.phase = "claimed"
      /\ launch.expires = mem[e].launch.expires
  BY <1>3, <1>4 DEF Launch
<1>7. mem' = s /\ (disk' = s \/ (disk' = disk /\ ~answered))
  BY <1>2 DEF Persist
<1> HIDE DEF launch, i
<1>8. /\ s \in Ledger /\ \A d \in Episode \ {e} : s[d] = mem[d]
      /\ s[e].launch = launch /\ s[e].auto = mem[e].auto /\ s[e].known = mem[e].known
  BY <1>0, <1>6, LaunchUpdated, SMTT(40)
<1> HIDE DEF s
<1>9. /\ claims' \in [Id -> Nat] /\ claims'[i] <= 1
      /\ \A j \in Id \ {i} : claims'[j] = claims[j]
      /\ ~answered => claims' = claims
  BY <1>0, <1>2, <1>5, SMTT(40) DEF i
<1>10. \A d \in Episode \ {e} : claims'[mem[d].launch.id] = claims[mem[d].launch.id]
  <2> SUFFICES ASSUME NEW d \in Episode \ {e}
               PROVE claims'[mem[d].launch.id] = claims[mem[d].launch.id]
    OBVIOUS
  <2>1. mem[d].launch.id # i
    BY <1>0, <1>3, <1>5 DEF Remembers
  <2>2. mem[d].launch.id \in Id \/ mem[d].launch.id \notin DOMAIN claims
    BY <1>0 DEF Id
  <2> QED BY <1>0, <1>2, <2>1, <2>2, SMTT(40) DEF i
<1>11. Remembers(s, nextId, granted, claims', back, now)
  <2> DEFINE k == claims'
  <2>1. /\ s[e].launch.id = mem[e].launch.id /\ mem[e].launch.id # 0
        /\ s[e].launch.phase \in {"claimed", "complete"}
        /\ s[e].launch.expires = mem[e].launch.expires
        /\ s[e].launch.phase = "claimed" => mem[e].launch.phase # "complete"
    BY <1>3, <1>5, <1>6, <1>8
  <2>2. /\ granted \in SUBSET Grant /\ mem \in Ledger /\ s \in Ledger
        /\ Remembers(mem, nextId, granted, claims, back, now)
    BY <1>0, <1>8
  <2>3. Advances(mem, s, e, claims, k)
    BY <1>8, <1>10, <2>1 DEF Advances
  <2> HIDE DEF k
  <2>4. Remembers(s, nextId, granted, k, back, now)
    BY <2>2, <2>3, AdvanceRemembers
  <2> QED BY <2>4 DEF k
<1>12. ~answered => Remembers(disk, nextId, granted, claims', back, now)
  BY <1>0, <1>9
<1>13. /\ Remembers(mem', nextId', granted', claims', back', now')
       /\ Remembers(disk', nextId', granted', claims', back', now')
  BY <1>1, <1>7, <1>11, <1>12
<1>14. /\ call' \in [Handler -> Request] /\ call'[h] = NoCall
       /\ \A j \in Handler \ {h} : call'[j] = call[j]
       /\ \A j \in Handler : Prepared(call'[j])
  BY <1>0, <1>1, NoCallTyped, CallReplaced
<1>15. PortalType'
  BY <1>0, <1>1, <1>7, <1>8, <1>9, <1>14 DEF PortalType
<1>16. AutomaticOnce'
  BY <1>0, <1>1 DEF AutomaticOnce
<1>17. \A j \in Id : (j >= nextId' => claims'[j] = 0) /\ claims'[j] <= 1
  BY <1>0, <1>1, <1>5, <1>9, SMTT(40) DEF PortalInv, Id
<1>18. back' = 0 => \A j \in Handler : call'[j].now <= now'
  BY <1>0, <1>1, <1>14, NoCallTyped, SMTT(40) DEF PortalInv
<1> QED
  BY <1>13, <1>15, <1>16, <1>17, <1>18 DEF PortalInv

LEMMA CompleteStep ==
  ASSUME PortalInv, NEW e \in Episode, NEW i \in 1..nextId - 1, NEW o \in Owner,
         NEW result \in Result, Complete(e, i, o, result)
  PROVE  PortalInv'
<1> DEFINE launch == [mem[e].launch EXCEPT !.phase = "complete", !.outcome = result]
           s == [mem EXCEPT ![e].launch = launch]
<1>0. /\ PortalType /\ AutomaticOnce /\ mem \in Ledger /\ disk \in Ledger
      /\ granted \in SUBSET Grant /\ nextId \in Nat
      /\ Remembers(mem, nextId, granted, claims, back, now)
      /\ Remembers(disk, nextId, granted, claims, back, now)
  BY DEF PortalInv, PortalType
<1>1. UNCHANGED <<nm, conn, captive, now, proof, back, call, nextId, granted, claims>>
  BY DEF Complete, envVars
<1>2. mem[e].launch.id = i /\ i # 0
  BY <1>0, SMTT(40) DEF Complete, Completable, Found
<1>3. mem[e].launch \in Launch
  BY <1>0, <1>2, SMTT(40) DEF Ledger, Entry, NoLaunch
<1>4. /\ launch \in Launch /\ launch.id = mem[e].launch.id /\ launch.phase = "complete"
      /\ launch.expires = mem[e].launch.expires
  BY <1>3 DEF Launch
<1>5. PICK answered \in BOOLEAN : Persist(s, answered)
  BY DEF Complete
<1>6. mem' = s /\ disk' \in {disk, s}
  BY <1>5 DEF Persist
<1> HIDE DEF launch
<1>7. /\ s \in Ledger /\ \A d \in Episode \ {e} : s[d] = mem[d]
      /\ s[e].launch = launch /\ s[e].auto = mem[e].auto /\ s[e].known = mem[e].known
  BY <1>0, <1>4, LaunchUpdated, SMTT(40)
<1> HIDE DEF s
<1>8. Remembers(s, nextId, granted, claims, back, now)
  <2>1. /\ s[e].launch.id = mem[e].launch.id /\ mem[e].launch.id # 0
        /\ s[e].launch.phase \in {"claimed", "complete"}
        /\ s[e].launch.expires = mem[e].launch.expires
        /\ s[e].launch.phase = "claimed" => mem[e].launch.phase # "complete"
    BY <1>2, <1>4, <1>7
  <2>2. /\ granted \in SUBSET Grant /\ mem \in Ledger /\ s \in Ledger
        /\ Remembers(mem, nextId, granted, claims, back, now)
    BY <1>0, <1>7
  <2>3. Advances(mem, s, e, claims, claims)
    BY <1>7, <2>1 DEF Advances
  <2> QED BY <2>2, <2>3, AdvanceRemembers
<1>9. PortalType'
  BY <1>0, <1>1, <1>6, <1>7 DEF PortalType
<1>10. /\ Remembers(mem', nextId', granted', claims', back', now')
       /\ Remembers(disk', nextId', granted', claims', back', now')
  BY <1>0, <1>1, <1>6, <1>8
<1> QED
  BY <1>1, <1>9, <1>10 DEF PortalInv, AutomaticOnce

-----------------------------------------------------------------------------
(* The daemon and its surroundings.                                        *)

\* A restart reads what the last successful write left, or the failed one.
LEMMA RestartStep ==
  ASSUME PortalInv, Restart PROVE PortalInv'
<1>0. PortalType /\ now \in Nat
  BY DEF PortalInv, PortalType
<1>1. /\ mem' = disk /\ disk' = disk /\ call' = [h \in Handler |-> NoCall]
      /\ proof' = [o \in Owner |-> NoEpisode]
      /\ UNCHANGED <<nm, conn, captive, now, back, nextId, granted, claims>>
  BY DEF Restart, histVars
<1>2. proof' \in [Owner -> MaybeEpisode] /\ call' \in [Handler -> Request]
  BY <1>1, NoCallTyped DEF MaybeEpisode
<1>3. \A h \in Handler : Prepared(call'[h]) /\ call'[h].now <= now
  BY <1>0, <1>1, NoCallTyped, SMTT(40)
<1>4. PortalType'
  BY <1>0, <1>1, <1>2, <1>3 DEF PortalType
<1> QED
  BY <1>1, <1>3, <1>4 DEF PortalInv, AutomaticOnce

\* The network changes, and time goes on or is set back.
LEMMA SurroundingsStep ==
  ASSUME PortalInv, nm' \in 1..MaxNm, conn' \in 1..MaxConn, captive' \in BOOLEAN,
         now' \in Nat, back' \in Nat, back' = 0 => back = 0 /\ now <= now',
         proof' \in [Owner -> MaybeEpisode],
         UNCHANGED <<mem, disk, call, nextId, granted, claims>>
  PROVE  PortalInv'
<1>0. /\ PortalType /\ mem \in Ledger /\ disk \in Ledger /\ nextId \in Nat /\ now \in Nat
      /\ call \in [Handler -> Request]
  BY DEF PortalInv, PortalType
<1>1. PortalType'
  BY <1>0 DEF PortalType
<1>2. nextId <= nextId
  BY <1>0, SMTT(40)
<1> DEFINE b == back'
           t == now'
<1>3. t \in Nat /\ (b = 0 => back = 0 /\ now <= t)
  OBVIOUS
<1> HIDE DEF b, t
<1>4. /\ Remembers(mem, nextId, granted, claims, b, t)
      /\ Remembers(disk, nextId, granted, claims, b, t)
  BY <1>0, <1>2, <1>3, StillRemembers DEF PortalInv
<1>5. /\ Remembers(mem', nextId', granted', claims', back', now')
      /\ Remembers(disk', nextId', granted', claims', back', now')
  BY <1>4 DEF b, t
<1>6. back' = 0 => \A h \in Handler : call'[h].now <= now'
  <2> SUFFICES ASSUME back' = 0, NEW h \in Handler PROVE call[h].now <= now'
    OBVIOUS
  <2>1. call[h].now \in Nat /\ call[h].now <= now
    BY <1>0 DEF PortalInv, Request
  <2> QED BY <1>0, <2>1, SMTT(40)
<1> QED
  BY <1>1, <1>5, <1>6 DEF PortalInv, AutomaticOnce

LEMMA PortalStarts == Init => PortalInv
<1> SUFFICES ASSUME Init PROVE PortalInv
  OBVIOUS
<1>1. /\ nm \in 1..MaxNm /\ conn \in 1..MaxConn /\ captive \in BOOLEAN /\ now = 0 /\ back = 0
      /\ proof \in [Owner -> MaybeEpisode] /\ nextId = 1 /\ granted = {}
      /\ claims \in [Id -> Nat] /\ \A i \in Id : claims[i] = 0
  BY PortalAssumption, SMTT(40) DEF Init, MaybeEpisode
<1>2. call \in [Handler -> Request] /\ \A h \in Handler : Prepared(call[h]) /\ call[h].now = 0
  BY NoCallTyped DEF Init
<1>3. NoEntry \in Entry /\ NoEntry.launch = NoLaunch /\ NoEntry.known = FALSE
  BY PortalAssumption, SMTT(40) DEF NoEntry, Entry
<1>4. mem \in Ledger /\ disk = mem /\ \A e \in Episode : mem[e] = NoEntry
  BY <1>3 DEF Init, Ledger
<1>5. PortalType
  BY <1>1, <1>2, <1>4, SMTT(40) DEF PortalType
<1>6. Cardinality(Known(mem)) <= Limit
  <2>1. Known(mem) = {}
    BY <1>3, <1>4 DEF Known
  <2> QED BY <2>1, FS_EmptySet, PortalAssumption, SMTT(40)
<1>7. NoLaunch.id = 0 /\ NoLaunch.phase = "none"
  BY DEF NoLaunch
<1>8. Remembers(mem, nextId, granted, claims, back, now)
  BY <1>1, <1>3, <1>4, <1>6, <1>7, SMTT(40) DEF Remembers, Outstanding
<1> QED
  BY <1>1, <1>2, <1>4, <1>5, <1>8, SMTT(40) DEF PortalInv, AutomaticOnce, Id

LEMMA PortalSteps == PortalInv /\ [Next]_vars => PortalInv'
<1> SUFFICES ASSUME PortalInv, [Next]_vars PROVE PortalInv'
  OBVIOUS
<1>0. /\ nm \in 1..MaxNm /\ conn \in 1..MaxConn /\ captive \in BOOLEAN /\ now \in Nat
      /\ back \in Nat /\ proof \in [Owner -> MaybeEpisode] /\ nextId \in Nat \ {0}
  BY DEF PortalInv, PortalType
<1>1. ASSUME NEW h \in Handler, Prepare(h) PROVE PortalInv'
  <2>1. ASSUME NEW o \in Owner, NEW f \in {x \in BOOLEAN : x => Fallbacks > 1},
               StartManual(h, o, f)
        PROVE PortalInv'
    <3>1. f \in BOOLEAN
      OBVIOUS
    <3> QED BY <2>1, <3>1, StartManualStep
  <2> QED
    BY <1>1, <2>1, StartAutomaticStep, SnapshotStep, ReserveStep, RefuseStep
    DEF Prepare, Invalid, RefuseReserve
<1>2. ASSUME NEW h \in Handler, ClaimLaunch(h) PROVE PortalInv'
  <2>1. ASSUME NEW o \in Owner, NEW i \in 1..nextId - 1, StartClaim(h, o, i) PROVE PortalInv'
    <3>1. i \in Nat
      BY <1>0, SMTT(40)
    <3> QED BY <2>1, <3>1, StartClaimStep
  <2> QED
    BY <1>2, <2>1, ClaimStep, RefuseStep DEF ClaimLaunch, RefuseClaim
<1>3. ASSUME NEW e \in Episode, NEW i \in 1..nextId - 1, NEW o \in Owner,
             NEW result \in Result, Complete(e, i, o, result)
      PROVE PortalInv'
  BY <1>3, CompleteStep
<1>4. ASSUME NEW o \in Owner, ConnectSucceeded(o) PROVE PortalInv'
  <2>1. Current \in MaybeEpisode
    BY <1>0 DEF Current, MaybeEpisode, Episode
  <2>2. proof' \in [Owner -> MaybeEpisode]
    BY <1>0, <1>4, <2>1 DEF ConnectSucceeded
  <2> QED
    BY <1>0, <1>4, <2>2, SurroundingsStep, SMTT(40) DEF ConnectSucceeded, ledgerVars, histVars
<1>5. CASE Restart
  BY <1>5, RestartStep
<1>6. CASE Reactivate
  BY <1>0, <1>6, PortalAssumption, SurroundingsStep, SMTT(40) DEF Reactivate, ledgerVars, histVars
<1>7. CASE ReplaceNm
  BY <1>0, <1>7, PortalAssumption, SurroundingsStep, SMTT(40) DEF ReplaceNm, ledgerVars, histVars
<1>8. CASE ChangeVerdict
  BY <1>0, <1>8, SurroundingsStep, SMTT(40) DEF ChangeVerdict, ledgerVars, histVars
<1>9. CASE Tick
  BY <1>0, <1>9, SurroundingsStep, SMTT(40) DEF Tick, ledgerVars, histVars
<1>10. CASE SetBack
  BY <1>0, <1>10, SurroundingsStep, SMTT(40) DEF SetBack, ledgerVars, histVars
<1>11. CASE UNCHANGED vars
  BY <1>0, <1>11, SurroundingsStep, SMTT(40) DEF vars
<1> QED
  BY <1>1, <1>2, <1>3, <1>4, <1>5, <1>6, <1>7, <1>8, <1>9, <1>10, <1>11 DEF Next

\* Whatever handlers, write failures, restarts and clock changes interleave, an
\* episode gets one automatic launch (Ledger::reserve and the write before the
\* answer).
THEOREM AutomaticLaunchOnce == Spec => []AutomaticOnce
<1>1. PortalInv => AutomaticOnce
  BY DEF PortalInv
<1> QED
  BY PortalStarts, PortalSteps, <1>1, PTL DEF Spec

\* A launch is claimed once, and one launch is outstanding while the clock runs
\* forwards (Ledger::claim's phase check, Ledger::reserve's busy check).
THEOREM OneLaunchAtATime == Spec => []LaunchesSerial
<1>1. PortalInv => LaunchesSerial
  BY DEF PortalInv, Remembers, LaunchesSerial
<1> QED
  BY PortalStarts, PortalSteps, <1>1, PTL DEF Spec

\* The file a restart finds never exceeds the limit it is read with
\* (Ledger::reserve against Ledger::open).
THEOREM LedgerAlwaysReopens == Spec => []LedgerReopens
<1>1. PortalInv => LedgerReopens
  BY DEF PortalInv, Remembers, LedgerReopens, Known
<1> QED
  BY PortalStarts, PortalSteps, <1>1, PTL DEF Spec

-----------------------------------------------------------------------------
\* The delta chain and the statistics refresh.

Chain == [epoch : Nat \ {0}, revision : Nat, started : BOOLEAN, last : Collections]
Copy == [epoch : Nat, revision : Nat, sound : BOOLEAN,
         entries : SUBSET [key : Keys, value : Values]]

\* The last collection and the copy are collections, an epoch is never reused,
\* and a copy of the running chain is never ahead of it.
ChainInv ==
  /\ updates \in Chain
  /\ ~updates.started => updates.last = {}
  /\ mirror \in Copy
  /\ mirror.epoch <= updates.epoch
  /\ mirror.epoch = updates.epoch => updates.started /\ mirror.revision <= updates.revision
  /\ MirrorFaithful

\* The watchers a scope's registry counts, and the one that turns its refresh off.
Holds(v, s) == v.step \in {"sampling", "leaving"} /\ v.scope = s
Closes(v, s) == v.step = "disabling" /\ v.scope = s
Holders(s) == {w \in Watchers : Holds(watch[w], s)}
Closers(s) == {w \in Watchers : Closes(watch[w], s)}

Watch == [step : {"idle", "starting", "sampling", "leaving", "disabling"},
          scope : 0..MaxOwners, cancelled : BOOLEAN]

RefreshType ==
  /\ owner \in 1..MaxOwners
  /\ rate \in [1..MaxOwners -> Nat]
  /\ registry \in [1..MaxOwners -> [watchers : Nat, rate : Nat]]
  /\ guard \in [1..MaxOwners -> SUBSET Watchers]
  /\ watch \in [Watchers -> Watch]

\* A scope's registry counts its holders; the rate it records is the rate that
\* is set and suits them all; its lock is held exactly by the one watcher
\* turning the refresh off, with no holder left; and a scope nobody holds or locks has
\* its refresh off, unless turning it off failed.
ScopeInv(s) ==
  /\ registry[s].watchers = Cardinality(Holders(s))
  /\ \A w \in Holders(s) : rate[s] = registry[s].rate /\ 0 < rate[s] /\ rate[s] <= Interval[w]
  /\ guard[s] = Closers(s)
  /\ \A v, w \in guard[s] : v = w
  /\ guard[s] # {} => Holders(s) = {}
  /\ Holders(s) = {} /\ guard[s] = {} /\ s \notin stuck => rate[s] = 0

RefreshInv ==
  /\ RefreshType
  /\ \A w \in Watchers : watch[w].step # "idle" => watch[w].scope \in 1..owner
  /\ \A s \in 1..MaxOwners : ScopeInv(s)

-----------------------------------------------------------------------------
\* A delta applied to the collection it was computed against gives the new one,
\* ages aside (network_delta).
Applied(entries, d) ==
  {x \in entries : x.key \notin Keyed(d.removed) \union Keyed(d.changed)}
    \union Stable(d.added) \union Stable(d.changed)

LEMMA DeltaApplies ==
  ASSUME NEW u, u.last \in Collections, NEW current \in Collections,
         NEW d, d = Delta(u, current)
  PROVE  Applied(Stable(u.last), d) = Stable(current)
<1> DEFINE kept == {x \in Stable(u.last) : x.key \notin Keyed(d.removed) \union Keyed(d.changed)}
<1>d. /\ d.added = {x \in current : x.key \notin Keyed(u.last)}
      /\ d.removed = {x \in u.last : x.key \notin Keyed(current)}
      /\ d.changed = {x \in current : \E y \in u.last : y.key = x.key /\ y.value # x.value}
  BY DEF Delta
<1>c. /\ \A x, y \in u.last : x.key = y.key => x = y
      /\ \A x, y \in current : x.key = y.key => x = y
  BY DEF Collections
<1>1. ASSUME NEW x \in kept PROVE x \in Stable(current)
  <2>1. PICK z \in u.last : x = [key |-> z.key, value |-> z.value]
    BY DEF Stable
  <2>2. x.key = z.key /\ x.value = z.value
    BY <2>1
  <2>3. z \notin d.removed
    BY <2>2 DEF Keyed
  <2>4. PICK y \in current : y.key = z.key
    BY <1>d, <2>3 DEF Keyed
  <2>5. y \notin d.changed
    BY <2>2, <2>4 DEF Keyed
  <2>6. y.value = z.value
    BY <1>d, <2>4, <2>5
  <2> QED
    BY <2>1, <2>4, <2>6 DEF Stable
<1>2. Stable(d.added) \subseteq Stable(current) /\ Stable(d.changed) \subseteq Stable(current)
  BY <1>d DEF Stable
<1>3. ASSUME NEW x \in Stable(current)
      PROVE  x \in kept \/ x \in Stable(d.added) \/ x \in Stable(d.changed)
  <2>1. PICK y \in current : x = [key |-> y.key, value |-> y.value]
    BY <1>3 DEF Stable
  <2>2. CASE y \in d.added
    BY <2>1, <2>2 DEF Stable
  <2>3. CASE y \in d.changed
    BY <2>1, <2>3 DEF Stable
  <2>4. CASE y \notin d.added /\ y \notin d.changed
    <3>1. PICK z \in u.last : z.key = y.key
      BY <1>d, <2>4 DEF Keyed
    <3>2. z.value = y.value
      BY <1>d, <2>4, <3>1
    <3>3. x \in Stable(u.last) /\ x.key = y.key
      BY <2>1, <3>1, <3>2 DEF Stable
    <3>4. ASSUME NEW v \in d.removed PROVE v.key # y.key
      BY <1>d DEF Keyed
    <3>5. ASSUME NEW v \in d.changed PROVE v.key # y.key
      BY <1>c, <1>d, <2>4
    <3> QED
      BY <3>3, <3>4, <3>5 DEF Keyed
  <2> QED
    BY <2>2, <2>3, <2>4
<1> QED
  BY <1>1, <1>2, <1>3 DEF Applied

LEMMA ChainInitial ==
  FeedInit => ChainInv
<1> SUFFICES ASSUME FeedInit PROVE ChainInv
  OBVIOUS
<1>1. {} \in Collections
  BY DEF Collections
<1>2. updates = [epoch |-> 1, revision |-> 0, started |-> FALSE, last |-> {}]
  BY DEF FeedInit, NoUpdates
<1>3. mirror = [epoch |-> 0, revision |-> 0, sound |-> FALSE, entries |-> {}]
  BY DEF FeedInit
<1> QED
  BY <1>1, <1>2, <1>3, SMTT(40) DEF ChainInv, MirrorFaithful, Chain, Copy

\* What a delta says (network_delta).
LEMMA DeltaFields ==
  ASSUME NEW u, NEW current, NEW d, d = Delta(u, current)
  PROVE  /\ d.initial = ~u.started /\ d.epoch = u.epoch
         /\ d.base = u.revision /\ d.revision = u.revision + 1
         /\ d.added = {x \in current : x.key \notin Keyed(u.last)}
         /\ d.added \subseteq current /\ d.changed \subseteq current
BY DEF Delta

LEMMA ChainStep ==
  ChainInv /\ [DeltaNext]_feedVars => ChainInv'
<1> SUFFICES ASSUME ChainInv, [DeltaNext]_feedVars PROVE ChainInv'
  OBVIOUS
<1>1. CASE UNCHANGED feedVars
  BY <1>1 DEF ChainInv, MirrorFaithful, feedVars
<1>2. CASE DeltaNext
  <2>1. PICK current \in Collections, delivered \in BOOLEAN : Project(current, delivered)
    BY <1>2 DEF DeltaNext
  <2> DEFINE u == IF updates.revision = MaxRevision THEN Restarted(updates) ELSE updates
             d == Delta(u, current)
  <2>2. IF Unchanged(u, d)
        THEN updates' = u /\ mirror' = mirror
        ELSE /\ updates' = Advanced(u, d, current, delivered)
             /\ mirror' = IF delivered THEN Received(mirror, d) ELSE mirror
    BY <2>1 DEF Project
  <2>e. {} \in Collections
    BY DEF Collections
  <2>3. /\ u \in Chain
        /\ ~u.started => u.last = {}
        /\ u.started => u = updates
        /\ u = updates \/ (updates.epoch < u.epoch /\ ~u.started)
    BY <2>e, SMTT(40) DEF ChainInv, Restarted, NoUpdates, Chain
  <2>4. /\ d.initial = ~u.started /\ d.epoch = u.epoch
        /\ d.base = u.revision /\ d.revision = u.revision + 1
        /\ d.added = {x \in current : x.key \notin Keyed(u.last)}
        /\ d.added \subseteq current /\ d.changed \subseteq current
    <3> HIDE DEF u
    <3> QED
      BY DeltaFields
  <2>u. Unchanged(u, d) => u.started
    BY DEF Unchanged
  <2>a. Applied(Stable(u.last), d) = Stable(current)
    <3>1. u.last \in Collections
      BY <2>3 DEF Chain
    <3>2. HIDE DEF u, d
    <3>3. d = Delta(u, current)
      BY DEF d
    <3> QED
      BY <3>1, <3>3, DeltaApplies
  <2> HIDE DEF u, d
  <2>5. CASE Unchanged(u, d)
    <3>1. updates' = updates /\ mirror' = mirror
      BY <2>2, <2>3, <2>5, <2>u
    <3> QED
      BY <3>1 DEF ChainInv, MirrorFaithful
  <2>6. CASE ~Unchanged(u, d)
    <3>1. updates' = [u EXCEPT !.revision = d.revision, !.started = TRUE, !.last = current]
      BY <2>2, <2>6 DEF Advanced
    <3>n. u.epoch \in Nat \ {0} /\ u.revision \in Nat /\ u.revision + 1 \in Nat
      BY <2>3, SMTT(40) DEF Chain
    <3>e. updates' = [epoch |-> u.epoch, revision |-> u.revision + 1, started |-> TRUE,
                      last |-> current]
      BY <2>3, <2>4, <3>1 DEF Chain
    <3>2. /\ updates' \in Chain
          /\ updates'.epoch = u.epoch /\ updates'.revision = u.revision + 1
          /\ updates'.started /\ updates'.last = current
      BY <3>n, <3>e DEF Chain
    <3>m. /\ mirror.epoch \in Nat /\ mirror.revision \in Nat /\ updates.epoch \in Nat
          /\ updates.revision \in Nat /\ mirror.epoch <= updates.epoch
          /\ mirror.epoch = updates.epoch
               => updates.started /\ mirror.revision <= updates.revision
          /\ u.epoch \in Nat /\ u.revision \in Nat
      BY <2>3, SMTT(40) DEF ChainInv, Chain, Copy
    <3>3. /\ mirror.epoch <= u.epoch
          /\ mirror.epoch = u.epoch => u = updates /\ mirror.revision <= u.revision
      BY <2>3, <3>m, SMTT(40)
    <3>4. CASE mirror' = mirror \/ mirror' = [mirror EXCEPT !.sound = FALSE]
      <4>1. /\ mirror' \in Copy
            /\ mirror'.epoch = mirror.epoch /\ mirror'.revision = mirror.revision
        <5>1. CASE mirror' = mirror
          BY <5>1 DEF ChainInv
        <5>2. CASE mirror' = [mirror EXCEPT !.sound = FALSE]
          BY <5>2 DEF ChainInv, Copy
        <5> QED
          BY <3>4, <5>1, <5>2
      <4>2. /\ mirror'.epoch <= updates'.epoch
            /\ mirror'.epoch = updates'.epoch => mirror'.revision < updates'.revision
        BY <3>2, <3>3, <3>m, <4>1, SMTT(40)
      <4>3. mirror'.revision \in Nat /\ updates'.revision \in Nat
        BY <3>2, <3>m, <4>1, SMTT(40)
      <4> QED
        BY <3>2, <4>1, <4>2, <4>3, SMTT(40) DEF ChainInv, MirrorFaithful
    <3>5. CASE d.initial /\ mirror' = Received(mirror, d)
      <4>1. mirror' = [epoch |-> d.epoch, revision |-> d.revision, sound |-> TRUE,
                       entries |-> Stable(d.added)]
        BY <3>5 DEF Received
      <4>2. d.added = current
        BY <2>3, <2>4, <3>5 DEF Keyed
      <4>3. Stable(current) \subseteq [key : Keys, value : Values]
        BY SMTT(40) DEF Stable, Collections
      <4>4. mirror'.epoch = updates'.epoch /\ mirror'.revision = updates'.revision
              /\ mirror'.entries = Stable(updates'.last)
        BY <2>4, <3>2, <4>1, <4>2
      <4>5. mirror' \in Copy
        <5>1. d.epoch \in Nat /\ d.revision \in Nat
          BY <2>4, <3>n
        <5> QED
          BY <4>1, <4>2, <4>3, <5>1 DEF Copy
      <4>6. mirror'.epoch <= updates'.epoch /\ mirror'.revision <= updates'.revision
        BY <2>4, <3>2, <3>m, <4>4, SMTT(40)
      <4> QED
        BY <3>2, <4>4, <4>5, <4>6 DEF ChainInv, MirrorFaithful
    <3>6. CASE /\ ~d.initial /\ mirror.sound /\ mirror.epoch = d.epoch
               /\ mirror.revision = d.base /\ mirror' = Received(mirror, d)
      <4> DEFINE rest == Applied(mirror.entries, d)
      <4>1. mirror' = [mirror EXCEPT !.revision = d.revision, !.entries = rest]
        BY <3>6 DEF Received, Applied
      <4>2. u = updates
        BY <2>4, <3>3, <3>6
      <4>3. mirror.entries = Stable(u.last)
        BY <2>4, <3>6, <4>2 DEF ChainInv, MirrorFaithful
      <4>4. rest = Stable(current)
        BY <2>a, <4>3
      <4>5. Stable(current) \subseteq [key : Keys, value : Values]
        BY SMTT(40) DEF Stable, Collections
      <4> HIDE DEF rest
      <4>6. mirror'.epoch = updates'.epoch /\ mirror'.revision = updates'.revision
              /\ mirror'.entries = Stable(updates'.last)
              /\ mirror' \in Copy
        <5>1. d.revision \in Nat /\ d.revision = updates'.revision
          BY <2>4, <3>2, <3>n
        <5>2. /\ mirror' = [mirror EXCEPT !.revision = d.revision, !.entries = Stable(current)]
              /\ mirror \in Copy
          BY <4>1, <4>4 DEF ChainInv
        <5>3. mirror'.epoch = mirror.epoch /\ mirror'.revision = d.revision
                /\ mirror'.entries = Stable(current)
          BY <5>2 DEF Copy
        <5>4. mirror' \in Copy
          BY <4>5, <5>1, <5>2 DEF Copy
        <5> QED
          BY <2>4, <3>2, <3>6, <5>1, <5>3, <5>4
      <4>7. mirror'.epoch <= updates'.epoch /\ mirror'.revision <= updates'.revision
        BY <2>4, <3>2, <3>m, <4>6, SMTT(40)
      <4> QED
        BY <3>2, <4>6, <4>7 DEF ChainInv, MirrorFaithful
    <3> QED
      <4>1. mirror' = mirror \/ mirror' = Received(mirror, d)
        BY <2>2, <2>6
      <4>2. \/ d.initial
            \/ ~d.initial /\ mirror.sound /\ mirror.epoch = d.epoch /\ mirror.revision = d.base
            \/ Received(mirror, d) = [mirror EXCEPT !.sound = FALSE]
        BY DEF Received
      <4> QED
        BY <3>4, <3>5, <3>6, <4>1, <4>2
  <2> QED
    BY <2>5, <2>6
<1> QED
  BY <1>1, <1>2


\* A step of one watcher moves it in and out of the sets of its scope.
LEMMA WatchMoves ==
  ASSUME RefreshType, NEW w \in Watchers, NEW c \in Watch, watch' = [watch EXCEPT ![w] = c]
  PROVE  /\ watch' \in [Watchers -> Watch]
         /\ watch'[w] = c /\ \A v \in Watchers \ {w} : watch'[v] = watch[v]
         /\ \A s : Holds(c, s) => Holders(s)' = Holders(s) \union {w}
         /\ \A s : ~Holds(c, s) => Holders(s)' = Holders(s) \ {w}
         /\ \A s : Closes(c, s) => Closers(s)' = Closers(s) \union {w}
         /\ \A s : ~Closes(c, s) => Closers(s)' = Closers(s) \ {w}
<1>1. watch' \in [Watchers -> Watch] /\ watch'[w] = c
        /\ \A v \in Watchers \ {w} : watch'[v] = watch[v]
  BY DEF RefreshType
<1> QED
  BY <1>1 DEF Holders, Closers

\* Counting the holders of a scope.
LEMMA HoldersCounted ==
  ASSUME NEW s
  PROVE  /\ Cardinality(Holders(s)) \in Nat
         /\ Cardinality(Holders(s)) = 0 <=> Holders(s) = {}
         /\ \A w \in Watchers \ Holders(s) :
              Cardinality(Holders(s) \union {w}) = Cardinality(Holders(s)) + 1
         /\ \A w \in Holders(s) : Cardinality(Holders(s) \ {w}) = Cardinality(Holders(s)) - 1
<1>1. Holders(s) \in SUBSET Watchers
  BY DEF Holders
<1>2. IsFiniteSet(Holders(s))
  BY <1>1, FeedBounds, FS_Subset
<1> QED
  BY <1>2, FS_CardinalityType, FS_EmptySet, FS_AddElement, FS_RemoveElement

LEMMA RefreshInitial ==
  FeedInit => RefreshInv
<1> SUFFICES ASSUME FeedInit PROVE RefreshInv
  OBVIOUS
<1>1. Idle \in Watch /\ Idle.step = "idle"
  BY FeedBounds, SMTT(40) DEF Idle, Watch
<1>2. watch = [w \in Watchers |-> Idle]
  BY DEF FeedInit
<1>3. watch \in [Watchers -> Watch] /\ \A w \in Watchers : watch[w].step = "idle"
  BY <1>1, <1>2
<1>4. \A s : Holders(s) = {} /\ Closers(s) = {}
  BY <1>3 DEF Holders, Closers, Holds, Closes
<1>5. RefreshType
  BY <1>3, FeedBounds, SMTT(40) DEF FeedInit, RefreshType
<1>6. \A s \in 1..MaxOwners : registry[s].watchers = 0 /\ guard[s] = {} /\ rate[s] = 0
  BY DEF FeedInit
<1>7. Cardinality({}) = 0
  BY FS_EmptySet
<1>8. \A s \in 1..MaxOwners : ScopeInv(s)
  BY <1>4, <1>6, <1>7 DEF ScopeInv
<1> QED
  BY <1>3, <1>5, <1>8 DEF RefreshInv

\* A watcher that neither holds nor closes anything, before and after.
LEMMA IdleMove ==
  ASSUME RefreshInv, NEW w \in Watchers, NEW c \in Watch, watch' = [watch EXCEPT ![w] = c],
         UNCHANGED <<owner, rate, registry, guard, stuck>>,
         c.step # "idle" => c.scope \in 1..owner,
         \A s : (Holds(c, s) <=> Holds(watch[w], s)) /\ (Closes(c, s) <=> Closes(watch[w], s))
  PROVE  RefreshInv'
<1>1. RefreshType
  BY DEF RefreshInv
<1>2. /\ watch' \in [Watchers -> Watch]
      /\ watch'[w] = c /\ \A v \in Watchers \ {w} : watch'[v] = watch[v]
  BY <1>1, WatchMoves
<1>3. ASSUME NEW s, NEW v \in Watchers
      PROVE  /\ Holds(watch'[v], s) <=> Holds(watch[v], s)
             /\ Closes(watch'[v], s) <=> Closes(watch[v], s)
  BY <1>2
<1>4. ASSUME NEW s PROVE Holders(s)' = Holders(s) /\ Closers(s)' = Closers(s)
  BY <1>3 DEF Holders, Closers
<1>5. RefreshType'
  BY <1>1, <1>2 DEF RefreshType
<1>6. \A v \in Watchers : watch'[v].step # "idle" => watch'[v].scope \in 1..owner'
  BY <1>2 DEF RefreshInv
<1>7. ASSUME NEW s \in 1..MaxOwners PROVE ScopeInv(s)'
  <2>1. ScopeInv(s) /\ Holders(s)' = Holders(s) /\ Closers(s)' = Closers(s)
    BY <1>4 DEF RefreshInv
  <2> QED
    BY <2>1 DEF ScopeInv
<1> QED
  BY <1>5, <1>6, <1>7 DEF RefreshInv


LEMMA InstanceReplaced ==
  ASSUME RefreshInv, ReplaceInstance PROVE RefreshInv'
<1>1. /\ owner \in Nat /\ owner' = owner + 1 /\ owner < MaxOwners
      /\ UNCHANGED <<rate, registry, guard, watch, stuck>>
  BY SMTT(40) DEF ReplaceInstance, RefreshInv, RefreshType
<1>2. owner' \in 1..MaxOwners /\ \A k \in 1..owner : k \in 1..owner'
  BY <1>1, FeedBounds, SMTT(40)
<1>3. RefreshType'
  BY <1>1, <1>2 DEF RefreshInv, RefreshType
<1>4. ASSUME NEW s \in 1..MaxOwners PROVE ScopeInv(s)'
  <2>1. ScopeInv(s) /\ Holders(s)' = Holders(s) /\ Closers(s)' = Closers(s)
    BY <1>1 DEF RefreshInv, Holders, Closers
  <2> QED
    BY <1>1, <2>1 DEF ScopeInv
<1> QED
  BY <1>1, <1>2, <1>3, <1>4 DEF RefreshInv

\* Starting, cancelling and leaving neither add nor remove a holder.
LEMMA WatchSteps ==
  ASSUME RefreshInv, NEW w \in Watchers,
         StartWatch(w) \/ CancelWatch(w) \/ LeaveSampling(w)
  PROVE  RefreshInv'
<1>1. watch[w] \in Watch /\ watch \in [Watchers -> Watch] /\ owner \in 1..MaxOwners
        /\ (watch[w].step # "idle" => watch[w].scope \in 1..owner)
  BY DEF RefreshInv, RefreshType
<1>2. CASE StartWatch(w)
  <2> DEFINE c == [Idle EXCEPT !.step = "starting", !.scope = owner]
  <2>1. watch' = [watch EXCEPT ![w] = c] /\ watch[w].step = "idle"
    BY <1>2 DEF StartWatch
  <2>2. c \in Watch /\ c.step = "starting" /\ c.scope \in 1..owner
    <3>1. Idle \in Watch /\ owner \in 0..MaxOwners /\ owner \in 1..owner
      BY <1>1, FeedBounds, SMTT(40) DEF Idle, Watch
    <3> QED
      BY <3>1 DEF Watch
  <2> HIDE DEF c
  <2>3. \A s : ~Holds(c, s) /\ ~Holds(watch[w], s) /\ ~Closes(c, s) /\ ~Closes(watch[w], s)
    BY <2>1, <2>2 DEF Holds, Closes
  <2> QED
    BY <1>2, <2>1, <2>2, <2>3, IdleMove DEF StartWatch
<1>3. CASE CancelWatch(w)
  <2> DEFINE c == [watch[w] EXCEPT !.cancelled = TRUE]
  <2>1. watch' = [watch EXCEPT ![w] = c]
    BY <1>3 DEF CancelWatch
  <2>2. c \in Watch /\ c.step = watch[w].step /\ c.scope = watch[w].scope
    BY <1>1 DEF Watch
  <2> HIDE DEF c
  <2>3. \A s : (Holds(c, s) <=> Holds(watch[w], s)) /\ (Closes(c, s) <=> Closes(watch[w], s))
    BY <2>2 DEF Holds, Closes
  <2> QED
    BY <1>1, <1>3, <2>1, <2>2, <2>3, IdleMove DEF CancelWatch
<1>4. CASE LeaveSampling(w)
  <2> DEFINE c == [watch[w] EXCEPT !.step = "leaving"]
  <2>1. watch' = [watch EXCEPT ![w] = c] /\ watch[w].step = "sampling"
    BY <1>4 DEF LeaveSampling
  <2>2. c \in Watch /\ c.step = "leaving" /\ c.scope = watch[w].scope
    BY <1>1 DEF Watch
  <2> HIDE DEF c
  <2>3. \A s : (Holds(c, s) <=> Holds(watch[w], s)) /\ (Closes(c, s) <=> Closes(watch[w], s))
    BY <2>1, <2>2 DEF Holds, Closes
  <2> QED
    BY <1>1, <1>4, <2>1, <2>2, <2>3, IdleMove DEF LeaveSampling
<1> QED
  BY <1>2, <1>3, <1>4

\* A step of one watcher of scope k: the other scopes are as they were.
LEMMA OtherScopes ==
  ASSUME RefreshInv, NEW w \in Watchers, NEW c \in Watch, NEW k, k = watch[w].scope,
         watch' = [watch EXCEPT ![w] = c], c.scope \in {0, k}, NEW s \in 1..MaxOwners, s # k,
         rate'[s] = rate[s], registry'[s] = registry[s], guard'[s] = guard[s],
         s \in stuck' <=> s \in stuck
  PROVE  ScopeInv(s)'
<1>1. s # 0
  BY SMTT(40)
<1>2. watch'[w] = c /\ \A v \in Watchers \ {w} : watch'[v] = watch[v]
  BY WatchMoves DEF RefreshInv
<1>3. ~Holds(c, s) /\ ~Holds(watch[w], s) /\ ~Closes(c, s) /\ ~Closes(watch[w], s)
  BY <1>1 DEF Holds, Closes
<1>4. Holders(s)' = Holders(s) /\ Closers(s)' = Closers(s)
  BY <1>2, <1>3 DEF Holders, Closers
<1>5. ScopeInv(s)
  BY DEF RefreshInv
<1> QED
  BY <1>4, <1>5 DEF ScopeInv


\* What is left to show for a step of one watcher is its own scope.
LEMMA OwnScope ==
  ASSUME RefreshInv, NEW w \in Watchers, NEW c \in Watch, NEW k, k = watch[w].scope,
         watch' = [watch EXCEPT ![w] = c], c.scope \in {0, k}, UNCHANGED owner,
         c.step # "idle" => c.scope \in 1..owner, RefreshType',
         \A s \in 1..MaxOwners : s # k =>
           /\ rate'[s] = rate[s] /\ registry'[s] = registry[s] /\ guard'[s] = guard[s]
           /\ s \in stuck' <=> s \in stuck,
         k \in 1..MaxOwners => ScopeInv(k)'
  PROVE  RefreshInv'
<1>1. watch'[w] = c /\ \A v \in Watchers \ {w} : watch'[v] = watch[v]
  BY WatchMoves DEF RefreshInv
<1>2. \A v \in Watchers : watch'[v].step # "idle" => watch'[v].scope \in 1..owner'
  BY <1>1 DEF RefreshInv
<1>3. ASSUME NEW s \in 1..MaxOwners PROVE ScopeInv(s)'
  BY OtherScopes
<1> QED
  BY <1>2, <1>3 DEF RefreshInv

LEMMA Acquires ==
  ASSUME RefreshInv, NEW w \in Watchers, AcquireRefresh(w) PROVE RefreshInv'
<1>k. PICK k : k = watch[w].scope
  OBVIOUS
<1> DEFINE effective == IF registry[k].watchers = 0 THEN Interval[w]
                        ELSE IF registry[k].rate < Interval[w] THEN registry[k].rate
                             ELSE Interval[w]
<1>1. /\ watch[w].step = "starting" /\ guard[k] = {}
      /\ UNCHANGED <<owner, guard, stuck>>
      /\ \/ /\ k = owner
            /\ rate' = [rate EXCEPT ![k] = effective]
            /\ registry' = [registry EXCEPT ![k] = [watchers |-> registry[k].watchers + 1,
                                                    rate |-> effective]]
            /\ watch' = [watch EXCEPT ![w].step = "sampling"]
         \/ watch' = [watch EXCEPT ![w] = Idle] /\ UNCHANGED <<rate, registry>>
  BY <1>k DEF AcquireRefresh, Reaches
<1>2. /\ watch[w] \in Watch /\ watch \in [Watchers -> Watch] /\ owner \in 1..MaxOwners
      /\ k \in 1..owner /\ RefreshType
  BY <1>1, <1>k DEF RefreshInv, RefreshType
<1>3. \A s : ~Holds(watch[w], s) /\ ~Closes(watch[w], s)
  BY <1>1 DEF Holds, Closes
<1>4. CASE watch' = [watch EXCEPT ![w] = Idle] /\ UNCHANGED <<rate, registry>>
  <2>1. Idle \in Watch /\ Idle.step = "idle"
    BY FeedBounds, SMTT(40) DEF Idle, Watch
  <2>2. \A s : ~Holds(Idle, s) /\ ~Closes(Idle, s)
    BY <2>1 DEF Holds, Closes
  <2> QED
    BY <1>1, <1>3, <1>4, <2>1, <2>2, IdleMove
<1>5. CASE /\ k = owner
           /\ rate' = [rate EXCEPT ![k] = effective]
           /\ registry' = [registry EXCEPT ![k] = [watchers |-> registry[k].watchers + 1,
                                                   rate |-> effective]]
           /\ watch' = [watch EXCEPT ![w].step = "sampling"]
  <2> DEFINE c == [watch[w] EXCEPT !.step = "sampling"]
  <2>1. watch' = [watch EXCEPT ![w] = c]
    BY <1>5
  <2>2. c \in Watch /\ c.step = "sampling" /\ c.scope = k
    BY <1>2, <1>k DEF Watch
  <2>3. /\ k \in 1..MaxOwners /\ registry[k] \in [watchers : Nat, rate : Nat]
        /\ Interval[w] \in Nat \ {0}
    BY <1>2, <1>5, FeedBounds DEF RefreshType
  <2>s. ScopeInv(k)
    BY <2>3 DEF RefreshInv
  <2> HIDE DEF c
  <2>4. /\ Cardinality(Holders(k)) \in Nat
        /\ Cardinality(Holders(k)) = 0 <=> Holders(k) = {}
        /\ Cardinality(Holders(k) \union {w}) = Cardinality(Holders(k)) + 1
    <3>1. w \notin Holders(k)
      BY <1>3 DEF Holders
    <3> QED
      BY <3>1, HoldersCounted
  <2>5. /\ effective \in Nat /\ 0 < effective /\ effective <= Interval[w]
        /\ \A v \in Holders(k) : effective <= Interval[v]
    <3>1. \A v \in Holders(k) : Interval[v] \in Nat
      BY FeedBounds DEF Holders
    <3>2. CASE Holders(k) = {}
      <4>1. registry[k].watchers = 0
        BY <2>4, <2>s, <3>2 DEF ScopeInv
      <4> QED
        BY <2>3, <3>2, <4>1, SMTT(40)
    <3>3. CASE Holders(k) # {}
      <4>1. registry[k].watchers # 0
        BY <2>4, <2>s, <3>3 DEF ScopeInv
      <4>2. /\ registry[k].rate \in Nat /\ 0 < registry[k].rate
            /\ \A v \in Holders(k) : registry[k].rate <= Interval[v]
        BY <2>3, <2>s, <3>3 DEF ScopeInv
      <4> QED
        BY <2>3, <3>1, <4>1, <4>2, SMTT(40)
    <3> QED
      BY <3>2, <3>3
  <2> HIDE DEF effective
  <2>6. /\ rate' \in [1..MaxOwners -> Nat] /\ rate'[k] = effective
        /\ \A s \in 1..MaxOwners : s # k => rate'[s] = rate[s]
    BY <1>2, <1>5, <2>3, <2>5 DEF RefreshType
  <2>7. /\ registry' \in [1..MaxOwners -> [watchers : Nat, rate : Nat]]
        /\ registry'[k].watchers = registry[k].watchers + 1 /\ registry'[k].rate = effective
        /\ \A s \in 1..MaxOwners : s # k => registry'[s] = registry[s]
    <3> DEFINE n == [watchers |-> registry[k].watchers + 1, rate |-> effective]
    <3>1. n \in [watchers : Nat, rate : Nat] /\ n.watchers = registry[k].watchers + 1
            /\ n.rate = effective
      BY <2>3, <2>5, SMTT(40)
    <3>2. registry' = [registry EXCEPT ![k] = n]
      BY <1>5
    <3> HIDE DEF n
    <3> QED
      BY <1>2, <2>3, <3>1, <3>2 DEF RefreshType
  <2>8. /\ watch' \in [Watchers -> Watch]
        /\ Holders(k)' = Holders(k) \union {w} /\ Closers(k)' = Closers(k) \ {w}
    <3>1. Holds(c, k) /\ ~Closes(c, k)
      BY <2>2 DEF Holds, Closes
    <3> QED
      BY <1>2, <2>1, <2>2, <3>1, WatchMoves
  <2>9. RefreshType'
    BY <1>1, <1>2, <2>6, <2>7, <2>8 DEF RefreshType
  <2>10. ScopeInv(k)'
    <3>1. registry'[k].watchers = Cardinality(Holders(k)')
      BY <2>4, <2>7, <2>8, <2>s DEF ScopeInv
    <3>2. \A v \in Holders(k)' : rate'[k] = registry'[k].rate /\ 0 < rate'[k]
                                   /\ rate'[k] <= Interval[v]
      BY <2>5, <2>6, <2>7, <2>8
    <3>3. guard'[k] = {} /\ Closers(k)' = {} /\ Holders(k)' # {}
      <4>1. guard[k] = Closers(k)
        BY <2>s DEF ScopeInv
      <4> QED
        BY <1>1, <2>8, <4>1
    <3> QED
      BY <3>1, <3>2, <3>3 DEF ScopeInv
  <2> QED
    <3>1. \A s \in 1..MaxOwners : s # k =>
            /\ rate'[s] = rate[s] /\ registry'[s] = registry[s] /\ guard'[s] = guard[s]
            /\ s \in stuck' <=> s \in stuck
      BY <1>1, <2>6, <2>7
    <3>2. owner' = owner /\ c.scope \in 1..owner /\ c.scope \in {0, k}
      BY <1>1, <1>2, <2>2
    <3> QED
      BY <1>k, <2>1, <2>2, <2>9, <2>10, <3>1, <3>2, OwnScope
<1> QED
  BY <1>1, <1>4, <1>5

LEMMA Releases ==
  ASSUME RefreshInv, NEW w \in Watchers, ReleaseRefresh(w) PROVE RefreshInv'
<1>k. PICK k : k = watch[w].scope
  OBVIOUS
<1>1. /\ watch[w].step = "leaving" /\ guard[k] = {}
      /\ registry' = [registry EXCEPT ![k].watchers = @ - 1]
      /\ UNCHANGED <<owner, rate, stuck>>
      /\ IF registry[k].watchers > 1
         THEN watch' = [watch EXCEPT ![w] = Idle] /\ guard' = guard
         ELSE /\ watch' = [watch EXCEPT ![w].step = "disabling"]
              /\ guard' = [guard EXCEPT ![k] = {w}]
  BY <1>k DEF ReleaseRefresh, HeldForDisable
<1>2. /\ watch[w] \in Watch /\ watch \in [Watchers -> Watch] /\ owner \in 1..MaxOwners
      /\ k \in 1..owner /\ RefreshType
  BY <1>1, <1>k DEF RefreshInv, RefreshType
<1>3. k \in 1..MaxOwners /\ registry[k] \in [watchers : Nat, rate : Nat]
  <2>1. k \in 1..MaxOwners
    BY <1>2, FeedBounds, SMTT(40)
  <2> QED
    BY <1>2, <2>1 DEF RefreshType
<1>s. ScopeInv(k)
  BY <1>3 DEF RefreshInv
<1>h. w \in Holders(k)
  BY <1>1, <1>k DEF Holders, Holds
<1>n. /\ registry[k].watchers = Cardinality(Holders(k)) /\ registry[k].watchers \in Nat
      /\ registry[k].watchers # 0
      /\ Cardinality(Holders(k) \ {w}) = registry[k].watchers - 1
      /\ guard[k] = Closers(k)
  BY <1>s, <1>h, HoldersCounted DEF ScopeInv
<1>p. registry[k].watchers - 1 \in Nat
  BY <1>n, SMTT(40)
<1>4. /\ registry' \in [1..MaxOwners -> [watchers : Nat, rate : Nat]]
      /\ registry'[k].watchers = registry[k].watchers - 1 /\ registry'[k].rate = registry[k].rate
      /\ \A s \in 1..MaxOwners : s # k => registry'[s] = registry[s]
  <2> DEFINE n == [registry[k] EXCEPT !.watchers = registry[k].watchers - 1]
  <2>1. n \in [watchers : Nat, rate : Nat] /\ n.watchers = registry[k].watchers - 1
          /\ n.rate = registry[k].rate
    BY <1>3, <1>p
  <2>2. registry' = [registry EXCEPT ![k] = n]
    BY <1>1
  <2> HIDE DEF n
  <2> QED
    BY <1>2, <1>3, <2>1, <2>2 DEF RefreshType
\* What the two branches have in common.
<1>5. ASSUME NEW c \in Watch, watch' = [watch EXCEPT ![w] = c], ~Holds(c, k), c.scope \in {0, k},
             guard' \in [1..MaxOwners -> SUBSET Watchers],
             \A s \in 1..MaxOwners : s # k => guard'[s] = guard[s],
             c.step # "idle" => c.scope = k,
             guard'[k] = Closers(k)', \A v, u \in guard'[k] : v = u,
             guard'[k] # {} => Holders(k) \ {w} = {},
             guard'[k] = {} => Holders(k) \ {w} # {}
      PROVE  RefreshInv'
  <2>1. watch' \in [Watchers -> Watch] /\ Holders(k)' = Holders(k) \ {w}
    BY <1>2, <1>5, WatchMoves
  <2>2. RefreshType'
    BY <1>1, <1>2, <1>4, <1>5, <2>1 DEF RefreshType
  <2>3. ScopeInv(k)'
    <3>1. registry'[k].watchers = Cardinality(Holders(k)')
      BY <1>4, <1>n, <2>1
    <3>2. \A v \in Holders(k)' : rate'[k] = registry'[k].rate /\ 0 < rate'[k]
                                   /\ rate'[k] <= Interval[v]
      BY <1>1, <1>4, <1>s, <2>1 DEF ScopeInv
    <3> QED
      BY <1>5, <2>1, <3>1, <3>2 DEF ScopeInv
  <2>4. \A s \in 1..MaxOwners : s # k =>
          /\ rate'[s] = rate[s] /\ registry'[s] = registry[s] /\ guard'[s] = guard[s]
          /\ s \in stuck' <=> s \in stuck
    BY <1>1, <1>4, <1>5
  <2>5. owner' = owner /\ (c.step # "idle" => c.scope \in 1..owner)
    BY <1>1, <1>2, <1>5
  <2> QED
    BY <1>k, <1>5, <2>2, <2>3, <2>4, <2>5, OwnScope
<1>6. CASE registry[k].watchers > 1
  <2>1. watch' = [watch EXCEPT ![w] = Idle] /\ guard' = guard
    BY <1>1, <1>6
  <2>2. Idle \in Watch /\ Idle.step = "idle" /\ Idle.scope = 0
    BY FeedBounds, SMTT(40) DEF Idle, Watch
  <2>3. ~Holds(Idle, k) /\ ~Closes(Idle, k)
    BY <2>2 DEF Holds, Closes
  <2>4. Closers(k)' = {}
    <3>1. Closers(k)' = Closers(k) \ {w}
      BY <1>2, <2>1, <2>2, <2>3, WatchMoves
    <3> QED
      BY <1>1, <1>n, <3>1
  <2>5. Cardinality(Holders(k) \ {w}) # 0
    BY <1>6, <1>n, SMTT(40)
  <2>6. Holders(k) \ {w} # {}
    BY <2>5, FS_EmptySet
  <2>7. guard' \in [1..MaxOwners -> SUBSET Watchers] /\ guard'[k] = {}
    BY <1>1, <1>2, <2>1 DEF RefreshType
  <2> QED
    BY <1>5, <2>1, <2>2, <2>3, <2>4, <2>6, <2>7
<1>7. CASE ~(registry[k].watchers > 1)
  <2> DEFINE c == [watch[w] EXCEPT !.step = "disabling"]
  <2>1. watch' = [watch EXCEPT ![w] = c] /\ guard' = [guard EXCEPT ![k] = {w}]
    BY <1>1, <1>7
  <2>2. c \in Watch /\ c.step = "disabling" /\ c.scope = k
    BY <1>2, <1>k DEF Watch
  <2> HIDE DEF c
  <2>3. ~Holds(c, k) /\ Closes(c, k)
    BY <2>2 DEF Holds, Closes
  <2>4. Closers(k)' = {w}
    <3>1. Closers(k)' = Closers(k) \union {w}
      BY <1>2, <2>1, <2>2, <2>3, WatchMoves
    <3> QED
      BY <1>1, <1>n, <3>1
  <2>5. Cardinality(Holders(k) \ {w}) = 0
    BY <1>7, <1>n, SMTT(40)
  <2>6. Holders(k) \ {w} = {}
    <3>1. Holders(k) \ {w} \in SUBSET Watchers
      BY DEF Holders
    <3>2. IsFiniteSet(Holders(k) \ {w})
      BY <3>1, FeedBounds, FS_Subset
    <3> QED
      BY <2>5, <3>2, FS_EmptySet
  <2>7. /\ guard' \in [1..MaxOwners -> SUBSET Watchers] /\ guard'[k] = {w}
        /\ \A s \in 1..MaxOwners : s # k => guard'[s] = guard[s]
    BY <1>2, <1>3, <2>1 DEF RefreshType
  <2> QED
    BY <1>5, <2>1, <2>2, <2>3, <2>4, <2>6, <2>7
<1> QED
  BY <1>6, <1>7

LEMMA Disables ==
  ASSUME RefreshInv, NEW w \in Watchers, DisableRefresh(w) PROVE RefreshInv'
<1>k. PICK k : k = watch[w].scope
  OBVIOUS
<1>1. /\ watch[w].step = "disabling"
      /\ \/ k = owner /\ rate' = [rate EXCEPT ![k] = 0] /\ stuck' = stuck
         \/ stuck' = stuck \union {k} /\ rate' = rate
      /\ guard' = [guard EXCEPT ![k] = {}]
      /\ watch' = [watch EXCEPT ![w] = Idle]
      /\ UNCHANGED <<owner, registry>>
  BY <1>k DEF DisableRefresh, Reaches
<1>2. /\ watch[w] \in Watch /\ watch \in [Watchers -> Watch] /\ owner \in 1..MaxOwners
      /\ k \in 1..owner /\ RefreshType
  BY <1>1, <1>k DEF RefreshInv, RefreshType
<1>3. k \in 1..MaxOwners /\ 0 \in Nat
  BY <1>2, FeedBounds, SMTT(40)
<1>s. ScopeInv(k)
  BY <1>3 DEF RefreshInv
<1>4. w \in Closers(k)
  BY <1>1, <1>k DEF Closers, Closes
<1>5. Closers(k) = {w} /\ Holders(k) = {} /\ registry[k].watchers = Cardinality({})
  BY <1>4, <1>s DEF ScopeInv
<1>6. Idle \in Watch /\ Idle.step = "idle" /\ Idle.scope = 0
  BY FeedBounds, SMTT(40) DEF Idle, Watch
<1>7. ~Holds(Idle, k) /\ ~Closes(Idle, k)
  BY <1>6 DEF Holds, Closes
<1>8. watch' \in [Watchers -> Watch] /\ Closers(k)' = {} /\ Holders(k)' = {}
  <2>1. /\ watch' \in [Watchers -> Watch]
        /\ Closers(k)' = Closers(k) \ {w} /\ Holders(k)' = Holders(k) \ {w}
    BY <1>1, <1>2, <1>6, <1>7, WatchMoves
  <2> QED
    BY <1>5, <2>1
<1>9. /\ rate' \in [1..MaxOwners -> Nat] /\ guard' \in [1..MaxOwners -> SUBSET Watchers]
      /\ guard'[k] = {} /\ (k \in stuck' \/ rate'[k] = 0)
      /\ \A s \in 1..MaxOwners : s # k =>
           rate'[s] = rate[s] /\ guard'[s] = guard[s] /\ (s \in stuck' <=> s \in stuck)
  BY <1>1, <1>2, <1>3 DEF RefreshType
<1>10. RefreshType'
  BY <1>1, <1>2, <1>8, <1>9 DEF RefreshType
<1>11. ScopeInv(k)'
  BY <1>1, <1>5, <1>8, <1>9 DEF ScopeInv
<1>12. \A s \in 1..MaxOwners : s # k =>
         /\ rate'[s] = rate[s] /\ registry'[s] = registry[s] /\ guard'[s] = guard[s]
         /\ s \in stuck' <=> s \in stuck
  BY <1>1, <1>9
<1> QED
  BY <1>1, <1>k, <1>6, <1>10, <1>11, <1>12, OwnScope

LEMMA RefreshRests ==
  ASSUME RefreshInv, UNCHANGED <<owner, rate, registry, guard, watch, stuck>>
  PROVE  RefreshInv'
<1>1. \A s : Holders(s)' = Holders(s) /\ Closers(s)' = Closers(s)
  BY DEF Holders, Closers
<1>2. ASSUME NEW s \in 1..MaxOwners PROVE ScopeInv(s)'
  <2>1. ScopeInv(s) /\ Holders(s)' = Holders(s) /\ Closers(s)' = Closers(s)
    BY <1>1 DEF RefreshInv
  <2> QED
    BY <2>1 DEF ScopeInv
<1> QED
  BY <1>2 DEF RefreshInv, RefreshType

LEMMA RefreshStep ==
  ASSUME RefreshInv, StatNext PROVE RefreshInv'
BY InstanceReplaced, WatchSteps, Acquires, Releases, Disables DEF StatNext

\* The inductive invariants of the two feeds.
THEOREM FeedsInductive ==
  FeedSpec => [](ChainInv /\ RefreshInv)
<1>1. FeedInit => ChainInv /\ RefreshInv
  BY ChainInitial, RefreshInitial
<1>2. ChainInv /\ RefreshInv /\ [DeltaNext \/ StatNext]_feedVars => (ChainInv /\ RefreshInv)'
  <2> SUFFICES ASSUME ChainInv, RefreshInv, [DeltaNext \/ StatNext]_feedVars
               PROVE  ChainInv' /\ RefreshInv'
    OBVIOUS
  <2>1. CASE [DeltaNext]_feedVars
    <3>1. UNCHANGED feedVars \/ UNCHANGED statVars
      BY <2>1 DEF DeltaNext, Project
    <3>2. RefreshInv'
      <4>1. UNCHANGED <<owner, rate, registry, guard, watch, stuck>>
        BY <3>1 DEF feedVars, statVars
      <4> QED
        BY <4>1, RefreshRests
    <3> QED
      BY <2>1, <3>2, ChainStep
  <2>2. CASE StatNext
    <3>1. UNCHANGED <<updates, mirror>>
      BY <2>2 DEF StatNext, ReplaceInstance, StartWatch, AcquireRefresh, CancelWatch,
                  LeaveSampling, ReleaseRefresh, DisableRefresh
    <3>2. ChainInv'
      BY <3>1 DEF ChainInv, MirrorFaithful
    <3> QED
      BY <2>2, <3>2, RefreshStep
  <2> QED
    BY <2>1, <2>2
<1> QED
  BY <1>1, <1>2, PTL DEF FeedSpec

\* A subscriber in step with its subscription holds the networks last projected
\* (MirrorFaithful), for any networks and any bound on revisions.
THEOREM CopiesAreFaithful ==
  FeedSpec => []MirrorFaithful
<1>1. ChainInv => MirrorFaithful
  BY DEF ChainInv
<1> QED
  BY <1>1, FeedsInductive, PTL

\* The statistics refresh serves every watcher of the running instance and is
\* off when nobody watches (RefreshServes), for any watchers and intervals.
THEOREM RefreshServesWatchers ==
  FeedSpec => []RefreshServes
<1>1. RefreshInv => RefreshServes
  <2> SUFFICES ASSUME RefreshInv PROVE RefreshServes
    OBVIOUS
  <2>1. ScopeInv(owner)
    BY DEF RefreshInv, RefreshType
  <2>2. Holders(owner) = {w \in Watchers : watch[w].step \in {"sampling", "leaving"}
                                             /\ watch[w].scope = owner}
    BY DEF Holders, Holds
  <2> QED
    BY <2>1, <2>2 DEF RefreshServes, ScopeInv
<1> QED
  BY <1>1, FeedsInductive, PTL
=============================================================================
