---------------------------- MODULE PortalLedger ----------------------------
(***************************************************************************)
(* Captive-portal launch intents (src/portal.rs, src/portal/ledger.rs).    *)
(*                                                                         *)
(* A client prepares a launch, claims it just before it opens a browser,   *)
(* and reports how that went.  The ledger of episodes is written to disk   *)
(* before a reservation or a claim is answered, and survives a restart of  *)
(* the daemon.  Handlers run concurrently: each reads NetworkManager       *)
(* first and takes the ledger's mutex afterwards.                          *)
(*                                                                         *)
(* An episode is NetworkManager's bus owner and the active connection      *)
(* (object path and UUID).  URLs are left out: no decision depends on      *)
(* them, except for the place in the fallback rotation.                    *)
(***************************************************************************)
EXTENDS Integers, FiniteSets

CONSTANTS
    Handler,        \* concurrent requests of clients
    Owner,          \* transport owners
    Result,         \* Outcome: opened, failed, uncertain
    Limit,          \* LIMIT: episodes the ledger holds
    Fallbacks,      \* how many FALLBACKS there are
    Lifetime,       \* ticks until an intent expires
    MaxLaunch,      \* bound: launch ids
    MaxNm,          \* bound: NetworkManager instances
    MaxConn,        \* bound: activations of one instance
    MaxNow,         \* bound: clock
    MaxBack,        \* bound: times the wall clock is set back
    MaxRestart      \* bound: restarts of the daemon

ASSUME PortalAssumption ==
    /\ "none" \notin Result
    /\ Limit \in Nat \ {0} /\ Fallbacks \in Nat \ {0} /\ Lifetime \in Nat \ {0}
    /\ MaxLaunch \in Nat /\ MaxNm \in Nat \ {0} /\ MaxConn \in Nat \ {0}
    /\ MaxNow \in Nat /\ MaxBack \in Nat /\ MaxRestart \in Nat

VARIABLES
    nm,             \* the present NetworkManager instance
    conn,           \* its primary connection; paths are numbered per instance
    captive,        \* its connectivity verdict
    now,            \* the wall clock (now_ms)
    proof,          \* each owner's retained successful connect: its episode
    mem,            \* Ledger.state
    disk,           \* portal.json
    poisoned,       \* Ledger.poisoned
    call,           \* what each handler is doing
    nextId,         \* launch ids are never used twice (random_uuid_v4)
    back, restarts, \* bounds used up
    granted,        \* history: reservations answered with "launch"
    claims          \* history: successful answers to the claims of each launch

envVars == <<nm, conn, captive, now, proof, back>>
ledgerVars == <<mem, disk, poisoned>>
histVars == <<granted, claims>>
vars == <<nm, conn, captive, now, proof, mem, disk, poisoned, call, nextId,
          back, restarts, granted, claims>>

Episode == [nm : 1..MaxNm, conn : 1..MaxConn]
Mode == {"automatic", "manual"}
Id == 1..MaxLaunch

NoEpisode == [nm |-> 0, conn |-> 0]
NoLaunch == [id |-> 0, owner |-> "none", reason |-> "none", expires |-> 0,
             phase |-> "none", outcome |-> "none"]
Launch == [id : Id, owner : Owner, reason : Mode, expires : Nat,
           phase : {"reserved", "claimed", "complete"},
           outcome : Result \union {"none"}]
NoEntry == [known |-> FALSE, auto |-> FALSE, fallback |-> 0, launch |-> NoLaunch]
Entry == [known : BOOLEAN, auto : BOOLEAN, fallback : 0..Fallbacks - 1,
          launch : Launch \union {NoLaunch}]
Ledger == [Episode -> Entry]

\* A handler that is preparing holds its request, and later its snapshot.
NoCall == [at |-> "idle", owner |-> "none", mode |-> "none", fallback |-> FALSE,
           proof |-> NoEpisode, id |-> 0, episode |-> NoEpisode,
           captive |-> FALSE, now |-> 0]

TypeOK ==
    /\ nm \in 1..MaxNm /\ conn \in 1..MaxConn /\ captive \in BOOLEAN
    /\ now \in 0..MaxNow
    /\ proof \in [Owner -> Episode \union {NoEpisode}]
    /\ mem \in Ledger /\ disk \in Ledger /\ poisoned \in BOOLEAN
    /\ DOMAIN call = Handler
    /\ \A h \in Handler :
          call[h].at \in {"idle", "prepare", "reserve", "claim"}
    /\ nextId \in 1..MaxLaunch + 1
    /\ back \in 0..MaxBack /\ restarts \in 0..MaxRestart
    /\ granted \in SUBSET [id : Id, episode : Episode, reason : Mode,
                           proven : BOOLEAN]
    /\ claims \in [Id -> Nat]

Init ==
    /\ nm = 1 /\ conn = 1 /\ captive = TRUE /\ now = 0
    /\ proof = [o \in Owner |-> NoEpisode]
    /\ mem = [e \in Episode |-> NoEntry]
    /\ disk = mem
    /\ poisoned = FALSE
    /\ call = [h \in Handler |-> NoCall]
    /\ nextId = 1 /\ back = 0 /\ restarts = 0
    /\ granted = {}
    /\ claims = [i \in Id |-> 0]

Current == [nm |-> nm, conn |-> conn]

\* The handler of h answers with an error; nothing is recorded.
Refuse(h) ==
    /\ call' = [call EXCEPT ![h] = NoCall]
    /\ UNCHANGED <<envVars, ledgerVars, nextId, restarts, histVars>>

-----------------------------------------------------------------------------
(* Writing the ledger.                                                     *)

\* Ledger::persist of the changed state.  A failed write may have reached the
\* disk; the ledger refuses everything from then on.
Persist(state, answered) ==
    /\ mem' = state
    /\ \/ answered /\ disk' = state /\ UNCHANGED poisoned
       \/ ~answered /\ disk' \in {disk, state} /\ poisoned' = TRUE

-----------------------------------------------------------------------------
(* network.portalPrepare.                                                  *)

\* prepare of an automatic launch reads the proof first: request_status of the
\* owner's connect.  (With a fallback requested it is refused in any case.)
StartAutomatic(h, o) ==
    /\ call[h] = NoCall
    /\ call' = [call EXCEPT ![h] =
                  [NoCall EXCEPT !.at = "prepare", !.owner = o, !.mode = "automatic",
                                 !.proof = proof[o]]]
    /\ UNCHANGED <<envVars, ledgerVars, nextId, restarts, histVars>>

\* validate of an automatic launch, for the proof the handler of h has read
\* and the present snapshot.
Valid(h) ==
    /\ captive
    /\ call[h].proof # NoEpisode
    /\ call[h].proof.conn = conn

\* portal_snapshot, validate and the clock.
Snapshot(h) ==
    /\ call[h].at = "prepare"
    /\ Valid(h)
    /\ call' = [call EXCEPT ![h] =
                  [@ EXCEPT !.at = "reserve", !.episode = Current, !.now = now]]
    /\ UNCHANGED <<envVars, ledgerVars, nextId, restarts, histVars>>

Invalid(h) ==
    /\ call[h].at = "prepare"
    /\ ~Valid(h)
    /\ Refuse(h)

\* A manual launch needs no proof and no captive verdict.
StartManual(h, o, f) ==
    /\ call[h] = NoCall
    /\ call' = [call EXCEPT ![h] =
                  [NoCall EXCEPT !.at = "reserve", !.owner = o, !.mode = "manual",
                                 !.fallback = f, !.episode = Current, !.now = now]]
    /\ UNCHANGED <<envVars, ledgerVars, nextId, restarts, histVars>>

\* A launch that keeps others from being reserved.
Outstanding(entry, time) ==
    entry.launch # NoLaunch /\ entry.launch.phase # "complete"
        /\ entry.launch.expires > time

\* Mutant: an attempt that was never reported back does not count.
AttemptedReported(h) ==
    /\ call[h].mode = "automatic" /\ mem[call[h].episode].auto
    /\ mem[call[h].episode].launch.phase = "complete"

\* The episode has had its automatic attempt: the launch is suppressed.
Attempted(h) == call[h].mode = "automatic" /\ mem[call[h].episode].auto

\* The ledger after a reservation: the launch replaces the episode's last one.
Reserved(h) ==
    LET e == call[h].episode
        f == mem[e].fallback
    IN  [mem EXCEPT ![e] =
           [known |-> TRUE,
            auto |-> @.auto \/ call[h].mode = "automatic",
            fallback |-> IF call[h].fallback THEN ((f % Fallbacks) + 1) % Fallbacks ELSE f,
            launch |-> [id |-> nextId, owner |-> call[h].owner,
                        reason |-> call[h].mode,
                        expires |-> call[h].now + Lifetime,
                        phase |-> "reserved", outcome |-> "none"]]]

\* Mutant: the limit is off by one.
MayReserveOneMore(h) ==
    /\ ~poisoned /\ ~Attempted(h)
    /\ \A e \in Episode : ~Outstanding(mem[e], call[h].now)
    /\ \/ mem[call[h].episode].known
       \/ Cardinality({e \in Episode : mem[e].known}) <= Limit

\* The checks of Ledger::reserve.
MayReserve(h) ==
    /\ ~poisoned /\ ~Attempted(h)
    /\ \A e \in Episode : ~Outstanding(mem[e], call[h].now)
    /\ \/ mem[call[h].episode].known
       \/ Cardinality({e \in Episode : mem[e].known}) < Limit

Reserve(h) ==
    /\ call[h].at = "reserve"
    /\ MayReserve(h)
    /\ nextId \in Id
    /\ nextId' = nextId + 1
    /\ \E answered \in BOOLEAN :
          /\ Persist(Reserved(h), answered)
          /\ granted' = granted \union
                (IF answered THEN {[id |-> nextId, episode |-> call[h].episode,
                                    reason |-> call[h].mode,
                                    proven |-> call[h].proof = call[h].episode]}
                             ELSE {})
    /\ call' = [call EXCEPT ![h] = NoCall]
    /\ UNCHANGED <<envVars, restarts, claims>>

\* Poisoned, suppressed, busy, or at the episode limit.
RefuseReserve(h) ==
    /\ call[h].at = "reserve"
    /\ ~MayReserve(h)
    /\ Refuse(h)

-----------------------------------------------------------------------------
(* network.portalClaim and network.portalComplete.                         *)

\* claim starts with portal_snapshot.
StartClaim(h, o, i) ==
    /\ call[h] = NoCall
    /\ call' = [call EXCEPT ![h] =
                  [NoCall EXCEPT !.at = "claim", !.owner = o, !.id = i,
                                 !.episode = Current, !.captive = captive]]
    /\ UNCHANGED <<envVars, ledgerVars, nextId, restarts, histVars>>

\* Ledger::launch: the launch of this id, for its owner only.
Found(e, i, o) == mem[e].launch.id = i /\ mem[e].launch.owner = o

\* Mutant: the phase is not checked.
ClaimableAgain(e, h) ==
    LET launch == mem[e].launch
    IN  /\ ~poisoned /\ Found(e, call[h].id, call[h].owner)
        /\ launch.expires > now
        /\ e = call[h].episode
        /\ launch.reason = "manual" \/ call[h].captive

\* The checks of Ledger::claim, against the snapshot taken before.
Claimable(e, h) ==
    LET launch == mem[e].launch
    IN  /\ ~poisoned /\ Found(e, call[h].id, call[h].owner)
        /\ launch.phase = "reserved" /\ launch.expires > now
        /\ e = call[h].episode
        /\ launch.reason = "manual" \/ call[h].captive

Claim(h) ==
    /\ call[h].at = "claim"
    /\ \E e \in Episode, answered \in BOOLEAN :
          /\ Claimable(e, h)
          /\ Persist([mem EXCEPT ![e].launch.phase = "claimed"], answered)
          /\ claims' = [claims EXCEPT ![call[h].id] = IF answered THEN @ + 1 ELSE @]
    /\ call' = [call EXCEPT ![h] = NoCall]
    /\ UNCHANGED <<envVars, nextId, restarts, granted>>

RefuseClaim(h) ==
    /\ call[h].at = "claim"
    /\ \A e \in Episode : ~Claimable(e, h)
    /\ Refuse(h)

\* The checks of Ledger::complete.
Completable(e, i, o, result) ==
    /\ ~poisoned /\ Found(e, i, o)
    /\ \/ mem[e].launch.phase = "claimed"
       \/ mem[e].launch.phase = "complete" /\ mem[e].launch.outcome = result

Complete(e, i, o, result) ==
    /\ Completable(e, i, o, result)
    /\ \E answered \in BOOLEAN :
          Persist([mem EXCEPT ![e].launch =
                     [@ EXCEPT !.phase = "complete", !.outcome = result]], answered)
    /\ UNCHANGED <<envVars, call, nextId, restarts, granted, claims>>

-----------------------------------------------------------------------------
(* The daemon and its surroundings.                                        *)

\* The daemon is stopped or dies, at any point, and starts again: handlers and
\* retained results are gone, Ledger::open reads the file.
Restart ==
    /\ restarts < MaxRestart
    /\ restarts' = restarts + 1
    /\ mem' = disk /\ poisoned' = FALSE
    /\ call' = [h \in Handler |-> NoCall]
    /\ proof' = [o \in Owner |-> NoEpisode]
    /\ UNCHANGED <<nm, conn, captive, now, back, disk, nextId, histVars>>

\* A connect request of o succeeds and suggests to open the portal.
ConnectSucceeded(o) ==
    /\ captive
    /\ proof[o] # Current
    /\ proof' = [proof EXCEPT ![o] = Current]
    /\ UNCHANGED <<nm, conn, captive, now, back, ledgerVars, call, nextId,
                   restarts, histVars>>

\* A new activation: its path was never used by this instance.
Reactivate ==
    /\ conn < MaxConn
    /\ conn' = conn + 1
    /\ UNCHANGED <<nm, captive, now, proof, back, ledgerVars, call, nextId,
                   restarts, histVars>>

\* NetworkManager restarts under a new bus name and numbers its paths anew.
ReplaceNm ==
    /\ nm < MaxNm
    /\ nm' = nm + 1 /\ conn' = 1
    /\ UNCHANGED <<captive, now, proof, back, ledgerVars, call, nextId,
                   restarts, histVars>>

ChangeVerdict ==
    /\ captive' = ~captive
    /\ UNCHANGED <<nm, conn, now, proof, back, ledgerVars, call, nextId,
                   restarts, histVars>>

Tick ==
    /\ now < MaxNow
    /\ now' = now + 1
    /\ UNCHANGED <<nm, conn, captive, proof, back, ledgerVars, call, nextId,
                   restarts, histVars>>

\* SystemTime is not monotonic: somebody sets the clock back.
SetBack ==
    /\ back < MaxBack /\ now > 0
    /\ back' = back + 1 /\ now' = now - 1
    /\ UNCHANGED <<nm, conn, captive, proof, ledgerVars, call, nextId,
                   restarts, histVars>>

Prepare(h) ==
    \/ \E o \in Owner : StartAutomatic(h, o)
    \/ \E o \in Owner, f \in {x \in BOOLEAN : x => Fallbacks > 1} : StartManual(h, o, f)
    \/ Snapshot(h) \/ Invalid(h) \/ Reserve(h) \/ RefuseReserve(h)

ClaimLaunch(h) ==
    \/ \E o \in Owner, i \in 1..nextId - 1 : StartClaim(h, o, i)
    \/ Claim(h) \/ RefuseClaim(h)

Next ==
    \/ \E h \in Handler : Prepare(h)
    \/ \E h \in Handler : ClaimLaunch(h)
    \/ \E e \in Episode, i \in 1..nextId - 1, o \in Owner, result \in Result :
          Complete(e, i, o, result)
    \/ \E o \in Owner : ConnectSucceeded(o)
    \/ Restart \/ Reactivate \/ ReplaceNm \/ ChangeVerdict \/ Tick \/ SetBack

Spec == Init /\ [][Next]_vars

-----------------------------------------------------------------------------
(* Properties.                                                             *)

\* An episode gets at most one automatic launch in a login session, across
\* concurrent prepares, lost writes, restarts and clock changes (reserve's
\* check, the poisoned flag, the write before the answer).
AutomaticOnce ==
    \A g1, g2 \in granted :
        /\ g1.reason = "automatic" /\ g2.reason = "automatic"
        /\ g1.episode = g2.episode
        => g1.id = g2.id

\* One browser at a time: a launch is claimed successfully at most once, across
\* concurrent claims, failed writes and restarts (claim's phase check and the
\* write before the answer), and at most one launch is outstanding, across
\* callers and episodes, as long as the clock is not set back (reserve's busy
\* check).
LaunchesSerial ==
    /\ \A i \in Id : claims[i] <= 1
    /\ back = 0 => \A e1, e2 \in Episode :
          Outstanding(mem[e1], now) /\ Outstanding(mem[e2], now) => e1 = e2

\* Whatever the sequence of writes, failures and restarts, the file on disk is
\* one Ledger::open accepts, so that no restart disables portal launches
\* (reserve's limit against the one in open).
LedgerReopens == Cardinality({e \in Episode : disk[e].known}) <= Limit

\* docs/portal-intents.md: an automatic launch needs a successful connect of
\* the caller for the current primary connection.  (The proof's path and UUID
\* are compared, not the NetworkManager instance they belong to.)
AutomaticProven ==
    \A g \in granted : g.reason = "automatic" => g.proven
=============================================================================
