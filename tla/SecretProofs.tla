---------------------------- MODULE SecretProofs ----------------------------
(***************************************************************************)
(* The SecretAgent, for every set of requests, profiles, settings and      *)
(* frontends and whatever NetworkManager does: prompts and deliveries are  *)
(* shown in order, staged values are handed over once, and no save that    *)
(* was overtaken is reported as stored.                                    *)
(***************************************************************************)
EXTENDS SecretAgent, TLAPS

\* Most steps are first-order; the ones that need arithmetic name SMT;
\* the limits leave room for a loaded machine.
USE ZenonT(60)

Pcs == {"idle", "authorized", "lookup", "decide", "publish", "receive", "reply",
        "dispatch", "done", "failed"}
Call == [pc : Pcs, key : Keys \cup {NONE}, owner : Nat, new : BOOLEAN,
         interact : BOOLEAN, policy : Policies \cup {NONE},
         act : Activations \cup {NONE}, cancelled : BOOLEAN, late : BOOLEAN,
         source : Nat, save : BOOLEAN, gone : BOOLEAN]
Message == [kind : {"none", "open", "closed", "cancel", "values", "partial"}, save : BOOLEAN]
Entry == [owner : Nat, path : Paths, settings : SUBSET Settings, stamp : Nat]
Event == {"requested", "cancelled", "delivered", "stored", "failed"}

SecretType ==
    /\ busOwner \in Nat /\ born \in Nat /\ nmOwner \in Nat
    /\ req \in [Requests -> Call]
    /\ inflight \in [Keys -> Requests \cup {NONE}]
    /\ pending \in [Requests -> (SUBSET Frontends) \cup {NONE}]
    /\ channel \in [Requests -> Message]
    /\ session \subseteq Entry /\ staged \in Nat
    /\ staging = NONE \/ staging \in [owner : Nat, path : Paths, settings : SUBSET Settings]
    /\ ticket \in [Requests -> {"none", "held", "cancelled"}]
    /\ save \in [Requests -> {"none", "queued", "writing", "over"}]
    /\ writer \in Requests \cup {NONE}
    /\ shown \in [Requests -> SUBSET Event]

\* A registered request is in flight under its key unless it was cancelled,
\* what is in flight belongs to the present owner, and prompts are current.
Waiting == {"lookup", "decide", "publish", "receive"}

RegistryInv ==
    /\ \A r \in Requests :
          /\ req[r].pc \notin {"idle", "failed"} => req[r].key \in Keys
          /\ req[r].pc \in Waiting /\ ~req[r].cancelled => inflight[req[r].key] = r
          /\ req[r].pc \in {"idle", "authorized", "reply", "dispatch", "done"}
                => ~req[r].cancelled
    /\ \A k \in Keys, r \in Requests : inflight[k] = r =>
          req[r].key = k /\ req[r].owner = nmOwner /\ req[r].pc \in Waiting
    /\ PromptsAreCurrent

\* Nothing is shown before the prompt, a cancellation is only shown for a
\* request that is cancelled or over, and the rest after the reply.
EventsInv ==
    \A r \in Requests :
        /\ req[r].pc \in {"idle", "authorized", "lookup", "decide"} => shown[r] = {}
        /\ req[r].pc = "publish" /\ pending[r] # NONE => shown[r] = {}
        /\ "cancelled" \in shown[r] => req[r].cancelled \/ req[r].pc = "failed"
        /\ shown[r] \cap {"delivered", "stored", "failed"} # {} => req[r].pc = "done"

\* Stamps are fresh, and a setting that was handed over is no longer staged
\* under the same stamp.
HandoffInv ==
    /\ \A e \in session : e.stamp \in 1..staged
    /\ \A e, f \in session : e.stamp = f.stamp => e = f
    /\ \A r \in Requests :
          /\ req[r].source <= staged
          /\ req[r].pc \in {"idle", "authorized", "lookup"} => req[r].source = 0
    /\ \A r \in Requests, e \in session :
          req[r].source = e.stamp => Setting(r) \notin e.settings

\* A held ticket belongs to a save that was not overtaken, and a save that is
\* queued or written has been delivered and has not been decided.
SaveInv ==
    /\ \A r \in Requests :
          /\ ticket[r] = "held" => req[r].pc \in {"dispatch", "done"} /\ ~req[r].gone
          /\ req[r].pc \notin {"dispatch", "done"} => ~req[r].gone
          /\ save[r] # "none" => req[r].pc = "done"
          /\ save[r] \in {"queued", "writing"} =>
                /\ "delivered" \in shown[r] /\ req[r].save
                /\ "stored" \notin shown[r] /\ "failed" \notin shown[r]
          /\ "stored" \in shown[r] => save[r] = "over"
    /\ SavesAreCurrent

-----------------------------------------------------------------------------
\* What the operators on requests do, field by field.

Keeps(r) == \A q \in Requests \ {r} : req'[q] = req[q]

\* The fields the invariants speak of, but for the program counter.
SameData(r) ==
    /\ req'[r].key = req[r].key /\ req'[r].owner = req[r].owner
    /\ req'[r].cancelled = req[r].cancelled /\ req'[r].source = req[r].source
    /\ req'[r].save = req[r].save /\ req'[r].gone = req[r].gone

Goes(r, pc) == Keeps(r) /\ req'[r].pc = pc /\ SameData(r)

Fails(r) ==
    /\ Keeps(r)
    /\ req'[r].pc = "failed" /\ req'[r].key = req[r].key /\ req'[r].source = req[r].source
    /\ ~req'[r].gone

LEMMA IdleTyped == Idle \in Call
BY DEF Idle, Call, Pcs

LEMMA FailedMoves ==
  ASSUME req \in [Requests -> Call], NEW r \in Requests, Step(r, "failed")
  PROVE  req' \in [Requests -> Call] /\ Fails(r)
<1> DEFINE c == [Idle EXCEPT !.pc = "failed", !.key = req[r].key, !.source = req[r].source]
<1>1. req[r] \in Call
  OBVIOUS
<1>2. c \in Call /\ c.pc = "failed" /\ c.key = req[r].key /\ c.source = req[r].source /\ ~c.gone
  BY <1>1 DEF Idle, Call, Pcs
<1>3. req' = [req EXCEPT ![r] = c]
  BY DEF Step, Ended
<1> HIDE DEF c
<1>4. QED
  BY <1>2, <1>3 DEF Fails, Keeps

LEMMA StepMoves ==
  ASSUME req \in [Requests -> Call], NEW r \in Requests, NEW pc \in Pcs \ {"failed"}, Step(r, pc)
  PROVE  req' \in [Requests -> Call] /\ Goes(r, pc)
<1>1. req[r] \in Call
  OBVIOUS
<1>2. CASE pc = "done"
  <2> DEFINE c == [req[r] EXCEPT !.pc = pc, !.new = FALSE, !.act = NONE, !.policy = NONE,
                                 !.late = FALSE]
  <2>1. /\ c \in Call /\ c.pc = pc /\ c.key = req[r].key /\ c.owner = req[r].owner
        /\ c.cancelled = req[r].cancelled /\ c.source = req[r].source
        /\ c.save = req[r].save /\ c.gone = req[r].gone
    BY <1>1, <1>2 DEF Call, Pcs
  <2>2. req' = [req EXCEPT ![r] = c]
    BY <1>2 DEF Step, Ended
  <2> HIDE DEF c
  <2>3. QED
    BY <2>1, <2>2 DEF Goes, Keeps, SameData
<1>3. CASE pc # "done"
  <2> DEFINE c == [req[r] EXCEPT !.pc = pc]
  <2>1. /\ c \in Call /\ c.pc = pc /\ c.key = req[r].key /\ c.owner = req[r].owner
        /\ c.cancelled = req[r].cancelled /\ c.source = req[r].source
        /\ c.save = req[r].save /\ c.gone = req[r].gone
    BY <1>1, <1>3 DEF Call, Pcs
  <2>2. req' = [req EXCEPT ![r] = c]
    BY <1>3 DEF Step
  <2> HIDE DEF c
  <2>3. QED
    BY <2>1, <2>2 DEF Goes, Keeps, SameData
<1>4. QED
  BY <1>2, <1>3

LEMMA FlaggedMoves ==
  ASSUME req \in [Requests -> Call], NEW rs
  PROVE  /\ Flagged(rs) \in [Requests -> Call]
         /\ \A q \in Requests :
               /\ q \notin rs => Flagged(rs)[q] = req[q]
               /\ q \in rs => Flagged(rs)[q].cancelled
               /\ Flagged(rs)[q].pc = req[q].pc /\ Flagged(rs)[q].key = req[q].key
               /\ Flagged(rs)[q].owner = req[q].owner /\ Flagged(rs)[q].source = req[q].source
               /\ Flagged(rs)[q].save = req[q].save /\ Flagged(rs)[q].gone = req[q].gone
<1>1. ASSUME NEW q \in Requests
      PROVE  LET c == [req[q] EXCEPT !.cancelled = TRUE] IN
             /\ c \in Call /\ c.cancelled /\ c.pc = req[q].pc /\ c.key = req[q].key
             /\ c.owner = req[q].owner /\ c.source = req[q].source
             /\ c.save = req[q].save /\ c.gone = req[q].gone
  <2>1. req[q] \in Call
    OBVIOUS
  <2>2. QED
    BY <2>1 DEF Call
<1>2. QED
  BY <1>1 DEF Flagged

LEMMA SupersededMoves ==
  ASSUME NEW rs \in [Requests -> Call], NEW p
  PROVE  /\ Superseded(rs, p) \in [Requests -> Call]
         /\ \A q \in Requests : LET c == Superseded(rs, p)[q] IN
               /\ c.pc = rs[q].pc /\ c.key = rs[q].key /\ c.owner = rs[q].owner
               /\ c.cancelled = rs[q].cancelled /\ c.source = rs[q].source
               /\ c.save = rs[q].save
               /\ c.gone => \/ rs[q].gone
                            \/ /\ rs[q].pc \in {"dispatch", "done"} /\ rs[q].save
                               /\ rs[q].key[1] = p /\ "stored" \notin shown[q]
<1> DEFINE O(q) == /\ rs[q].pc \in {"dispatch", "done"} /\ rs[q].save
                   /\ rs[q].key[1] = p /\ "stored" \notin shown[q]
           c(q) == [rs[q] EXCEPT !.gone = rs[q].gone \/ O(q)]
<1>1. ASSUME NEW q \in Requests
      PROVE  /\ c(q) \in Call /\ c(q).pc = rs[q].pc /\ c(q).key = rs[q].key
             /\ c(q).owner = rs[q].owner /\ c(q).cancelled = rs[q].cancelled
             /\ c(q).source = rs[q].source /\ c(q).save = rs[q].save
             /\ c(q).gone => rs[q].gone \/ O(q)
  <2>1. rs[q] \in Call /\ (rs[q].gone \/ O(q)) \in BOOLEAN
    BY DEF Call
  <2> HIDE DEF O
  <2>2. QED
    BY <2>1 DEF Call
<1>2. Superseded(rs, p) = [q \in Requests |-> c(q)]
  BY DEF Superseded
<1> HIDE DEF c
<1>3. QED
  BY <1>1, <1>2, SMTT(40) DEF O

-----------------------------------------------------------------------------
\* What the actions do to the requests.

\* NetworkManager turns to profile p: rs are cancelled, and saves that have
\* been replied to and not been stored are overtaken.
Turned(rs, p) ==
    \A q \in Requests :
        /\ req'[q].pc = req[q].pc /\ req'[q].key = req[q].key /\ req'[q].owner = req[q].owner
        /\ req'[q].source = req[q].source /\ req'[q].save = req[q].save
        /\ q \in rs => req'[q].cancelled
        /\ q \notin rs => req'[q].cancelled = req[q].cancelled
        /\ req'[q].gone => \/ req[q].gone
                           \/ /\ req[q].pc \in {"dispatch", "done"} /\ Path(q) = p
                              /\ "stored" \notin shown[q]

\* A new request for the key k.
Called(r, k) ==
    /\ req'[r].pc = "authorized" /\ req'[r].key = k /\ ~req'[r].cancelled
    /\ req'[r].source = 0 /\ ~req'[r].gone
    /\ \A q \in Requests \ {r} :
          /\ req'[q].pc = req[q].pc /\ req'[q].key = req[q].key /\ req'[q].owner = req[q].owner
          /\ req'[q].source = req[q].source /\ req'[q].save = req[q].save
          /\ req'[q].cancelled = req[q].cancelled
          /\ req'[q].gone => \/ req[q].gone
                             \/ /\ req[q].pc \in {"dispatch", "done"} /\ Path(q) = k[1]
                                /\ "stored" \notin shown[q]

Typed == req' \in [Requests -> Call]

LEMMA GetSecretsMoves ==
  ASSUME SecretType, NEW r \in Requests, GetSecrets(r)
  PROVE  /\ Typed /\ req[r].pc = "idle"
         /\ \/ Fails(r) /\ UNCHANGED ticket
            \/ \E k \in Keys : Called(r, k) /\ ticket' = Invalidated(k[1])
<1>t. req \in [Requests -> Call] /\ born \in Nat
  BY DEF SecretType
<1>1. PICK k \in Keys, o \in 1..born, flags \in scenario.flags, policy \in Policies :
         IF o = busOwner /\ nmOwner = o
         THEN /\ req' = [Superseded(req, k[1]) EXCEPT ![r] =
                    [Idle EXCEPT !.pc = "authorized", !.key = k, !.owner = o, !.new = "new" \in flags,
                                 !.interact = "interact" \in flags, !.policy = policy,
                                 !.act = Find(o, k[1])]]
              /\ ticket' = Invalidated(k[1])
         ELSE Step(r, "failed") /\ UNCHANGED ticket
  BY DEF GetSecrets
<1>2. req[r].pc = "idle"
  BY DEF GetSecrets
<1>3. CASE Step(r, "failed") /\ UNCHANGED ticket
  BY <1>2, <1>3, <1>t, FailedMoves DEF Typed
<1>4. CASE o = busOwner /\ nmOwner = o
  <2> DEFINE n == "new" \in flags
             i == "interact" \in flags
             a == Find(o, k[1])
             c == [Idle EXCEPT !.pc = "authorized", !.key = k, !.owner = o, !.new = n,
                               !.interact = i, !.policy = policy, !.act = a]
             S == Superseded(req, k[1])
  <2>1. a \in Activations \cup {NONE} /\ o \in Nat /\ n \in BOOLEAN /\ i \in BOOLEAN
    BY <1>t, SMTT(40) DEF Find
  <2> HIDE DEF n, i, a
  <2>2. c \in Call /\ c.pc = "authorized" /\ c.key = k /\ ~c.cancelled /\ c.source = 0 /\ ~c.gone
    BY <2>1 DEF Idle, Call, Pcs
  <2>3. req' = [S EXCEPT ![r] = c] /\ ticket' = Invalidated(k[1])
    BY <1>1, <1>4 DEF n, i, a
  <2> HIDE DEF c
  <2>4. /\ S \in [Requests -> Call]
        /\ \A q \in Requests :
               /\ S[q].pc = req[q].pc /\ S[q].key = req[q].key /\ S[q].owner = req[q].owner
               /\ S[q].cancelled = req[q].cancelled /\ S[q].source = req[q].source
               /\ S[q].save = req[q].save
               /\ S[q].gone => \/ req[q].gone
                               \/ /\ req[q].pc \in {"dispatch", "done"} /\ req[q].save
                                  /\ req[q].key[1] = k[1] /\ "stored" \notin shown[q]
    BY <1>t, SupersededMoves
  <2> HIDE DEF S
  <2>5. req'[r] = c /\ (\A q \in Requests \ {r} : req'[q] = S[q]) /\ Typed
    BY <2>2, <2>3, <2>4 DEF Typed
  <2>6. Called(r, k)
    BY <2>2, <2>4, <2>5, SMTT(40) DEF Called, Path
  <2>7. QED
    BY <1>2, <2>3, <2>5, <2>6
<1>5. QED
  BY <1>1, <1>3, <1>4

\* A request is registered and the one it displaces cancelled.
Displaces(r) ==
    \A q \in Requests :
        /\ req'[q].pc = IF q = r THEN "lookup" ELSE req[q].pc
        /\ req'[q].key = req[q].key /\ req'[q].owner = req[q].owner
        /\ req'[q].source = req[q].source /\ req'[q].save = req[q].save
        /\ req'[q].gone = req[q].gone
        /\ inflight[req[r].key] = q => req'[q].cancelled
        /\ inflight[req[r].key] # q => req'[q].cancelled = req[q].cancelled

LEMMA BeginMoves ==
  ASSUME SecretType, NEW r \in Requests, Begin(r)
  PROVE  Typed /\ Displaces(r)
<1> DEFINE D == {q \in Requests : inflight[req[r].key] = q}
           F == Flagged(D)
           c == [F[r] EXCEPT !.pc = "lookup"]
<1>t. req \in [Requests -> Call]
  BY DEF SecretType
<1>1. req' = [F EXCEPT ![r].pc = "lookup"]
  BY DEF Begin
<1>2. /\ F \in [Requests -> Call]
      /\ \A q \in Requests :
               /\ q \notin D => F[q] = req[q]
               /\ q \in D => F[q].cancelled
               /\ F[q].pc = req[q].pc /\ F[q].key = req[q].key
               /\ F[q].owner = req[q].owner /\ F[q].source = req[q].source
               /\ F[q].save = req[q].save /\ F[q].gone = req[q].gone
  BY <1>t, FlaggedMoves
<1> HIDE DEF F
<1>3. req' = [F EXCEPT ![r] = c]
  BY <1>1, <1>2
<1>4. /\ c \in Call /\ c.pc = "lookup" /\ c.key = F[r].key /\ c.owner = F[r].owner
      /\ c.cancelled = F[r].cancelled /\ c.source = F[r].source
      /\ c.save = F[r].save /\ c.gone = F[r].gone
  <2>1. F[r] \in Call
    BY <1>2
  <2>2. QED
    BY <2>1 DEF Call, Pcs
<1> HIDE DEF c
<1>5. QED
  BY <1>2, <1>3, <1>4, SMTT(40) DEF Typed, Displaces

LEMMA TurnedMoves ==
  ASSUME SecretType, NEW rs, NEW p, req' = Superseded(Flagged(rs), p)
  PROVE  Typed /\ Turned(rs, p)
<1> DEFINE F == Flagged(rs)
<1>t. req \in [Requests -> Call]
  BY DEF SecretType
<1>1. /\ F \in [Requests -> Call]
      /\ \A q \in Requests :
               /\ q \notin rs => F[q] = req[q]
               /\ q \in rs => F[q].cancelled
               /\ F[q].pc = req[q].pc /\ F[q].key = req[q].key
               /\ F[q].owner = req[q].owner /\ F[q].source = req[q].source
               /\ F[q].save = req[q].save /\ F[q].gone = req[q].gone
  BY <1>t, FlaggedMoves
<1>2. req' = Superseded(F, p)
  OBVIOUS
<1> HIDE DEF F
<1>3. /\ req' \in [Requests -> Call]
      /\ \A q \in Requests :
               /\ req'[q].pc = F[q].pc /\ req'[q].key = F[q].key /\ req'[q].owner = F[q].owner
               /\ req'[q].cancelled = F[q].cancelled /\ req'[q].source = F[q].source
               /\ req'[q].save = F[q].save
               /\ req'[q].gone => \/ F[q].gone
                                  \/ /\ F[q].pc \in {"dispatch", "done"} /\ F[q].save
                                     /\ F[q].key[1] = p /\ "stored" \notin shown[q]
  BY <1>1, <1>2, SupersededMoves, SMTT(40)
<1>4. QED
  BY <1>1, <1>3, SMTT(40) DEF Typed, Turned, Path

\* The lookup takes staged values, or none.
Takes(r, stamp) ==
    /\ Keeps(r) /\ req'[r].pc = "decide" /\ req'[r].source = stamp
    /\ req'[r].key = req[r].key /\ req'[r].owner = req[r].owner
    /\ req'[r].cancelled = req[r].cancelled /\ req'[r].save = req[r].save
    /\ req'[r].gone = req[r].gone

LEMMA LookupMoves ==
  ASSUME SecretType, NEW r \in Requests, Lookup(r)
  PROVE  /\ Typed
         /\ \/ /\ Goes(r, "decide")
               /\ session' = {e \in session : e.path # Path(r)}
            \/ /\ session' = (session \ Matching(r))
                               \cup UNION {Emptied(e, Setting(r)) : e \in Matching(r)}
               /\ Matching(r) = {} => Takes(r, 0)
               /\ Matching(r) # {} => \E e \in Matching(r) : Takes(r, e.stamp)
<1>t. req \in [Requests -> Call] /\ session \subseteq Entry
  BY DEF SecretType
<1>1. CASE req[r].new
  BY <1>1, <1>t, StepMoves DEF Lookup, Typed, Pcs
<1>2. CASE ~req[r].new
  <2> DEFINE stamp == IF Matching(r) = {} THEN 0 ELSE (CHOOSE e \in Matching(r) : TRUE).stamp
             c == [req[r] EXCEPT !.pc = "decide", !.source = stamp]
  <2>1. /\ session' = (session \ Matching(r))
                        \cup UNION {Emptied(e, Setting(r)) : e \in Matching(r)}
        /\ req' = [req EXCEPT ![r].pc = "decide", ![r].source = stamp]
    BY <1>2 DEF Lookup
  <2>2. req' = [req EXCEPT ![r] = c]
    BY <2>1, <1>t
  <2>3. /\ Matching(r) = {} => stamp = 0
        /\ Matching(r) # {} => \E e \in Matching(r) : stamp = e.stamp
        /\ stamp \in Nat
    BY <1>t DEF Matching, Entry
  <2> HIDE DEF stamp
  <2>4. /\ c \in Call /\ c.pc = "decide" /\ c.source = stamp /\ c.key = req[r].key
        /\ c.owner = req[r].owner /\ c.cancelled = req[r].cancelled
        /\ c.save = req[r].save /\ c.gone = req[r].gone
    <3>1. req[r] \in Call
      BY <1>t
    <3>2. QED
      BY <3>1, <2>3 DEF Call, Pcs
  <2> HIDE DEF c
  <2>5. Typed /\ Takes(r, stamp)
    BY <1>t, <2>2, <2>4 DEF Typed, Takes, Keeps
  <2>6. QED
    BY <2>1, <2>3, <2>5
<1>3. QED
  BY <1>1, <1>2

LEMMA DecideMoves ==
  ASSUME SecretType, NEW r \in Requests, Decide(r)
  PROVE  /\ Typed
         /\ \/ /\ Goes(r, "reply") /\ UNCHANGED <<pending, channel>>
               /\ inflight' = [k \in Keys |-> IF inflight[k] = r THEN NONE ELSE inflight[k]]
            \/ Fails(r) /\ DropGuards(r) /\ UNCHANGED channel
            \/ /\ Goes(r, "publish") /\ UNCHANGED inflight
               /\ \E owners \in SUBSET Frontends :
                     pending' = [Removed(AtKey(req[r].key)) EXCEPT ![r] = owners]
               /\ channel' = [Sent(AtKey(req[r].key), CancelMsg) EXCEPT ![r] = Signal("open")]
<1>t. req \in [Requests -> Call]
  BY DEF SecretType
<1>1. CASE Complete(r)
  BY <1>1, <1>t, StepMoves DEF Complete, Typed, Pcs
<1>2. CASE Step(r, "failed") /\ DropGuards(r) /\ UNCHANGED channel
  BY <1>2, <1>t, FailedMoves DEF Typed
<1>3. ASSUME NEW owners \in SUBSET Frontends, Interact(r, owners), owners # {}
      PROVE  /\ Typed /\ Goes(r, "publish") /\ UNCHANGED inflight
             /\ pending' = [Removed(AtKey(req[r].key)) EXCEPT ![r] = owners]
             /\ channel' = [Sent(AtKey(req[r].key), CancelMsg) EXCEPT ![r] = Signal("open")]
  <2> DEFINE c == [req[r] EXCEPT !.pc = "publish", !.interact = FALSE, !.new = FALSE]
  <2>1. /\ req' = [req EXCEPT ![r].pc = "publish", ![r].interact = FALSE, ![r].new = FALSE]
        /\ UNCHANGED inflight
        /\ pending' = [Removed(AtKey(req[r].key)) EXCEPT ![r] = owners]
        /\ channel' = [Sent(AtKey(req[r].key), CancelMsg) EXCEPT ![r] = Signal("open")]
    BY <1>3 DEF Interact
  <2>2. req' = [req EXCEPT ![r] = c]
    BY <2>1, <1>t
  <2>3. /\ c \in Call /\ c.pc = "publish" /\ c.source = req[r].source /\ c.key = req[r].key
        /\ c.owner = req[r].owner /\ c.cancelled = req[r].cancelled
        /\ c.save = req[r].save /\ c.gone = req[r].gone
    <3>1. req[r] \in Call
      BY <1>t
    <3>2. QED
      BY <3>1 DEF Call, Pcs
  <2> HIDE DEF c
  <2>4. QED
    BY <1>t, <2>1, <2>2, <2>3 DEF Typed, Goes, Keeps, SameData
<1>4. QED
  BY <1>1, <1>2, <1>3 DEF Decide, Interact

\* An answer with values, to be saved or not.
Answered(r) ==
    /\ Keeps(r) /\ req'[r].pc = "reply" /\ req'[r].source = req[r].source
    /\ req'[r].key = req[r].key /\ req'[r].owner = req[r].owner
    /\ req'[r].cancelled = req[r].cancelled /\ req'[r].gone = req[r].gone

LEMMA ReceiveMoves ==
  ASSUME SecretType, NEW r \in Requests, Receive(r)
  PROVE  Typed /\ (Answered(r) \/ Fails(r))
<1>t. req \in [Requests -> Call] /\ channel \in [Requests -> Message]
  BY DEF SecretType
<1>1. CASE Step(r, "failed")
  BY <1>1, <1>t, FailedMoves DEF Typed
<1>2. CASE req' = [req EXCEPT ![r].pc = "reply", ![r].save = channel[r].save]
  <2> DEFINE c == [req[r] EXCEPT !.pc = "reply", !.save = channel[r].save]
  <2>1. req' = [req EXCEPT ![r] = c]
    BY <1>2, <1>t
  <2>2. /\ c \in Call /\ c.pc = "reply" /\ c.source = req[r].source /\ c.key = req[r].key
        /\ c.owner = req[r].owner /\ c.cancelled = req[r].cancelled /\ c.gone = req[r].gone
    <3>1. req[r] \in Call /\ channel[r].save \in BOOLEAN
      BY <1>t DEF Message
    <3>2. QED
      BY <3>1 DEF Call, Pcs
  <2> HIDE DEF c
  <2>3. QED
    BY <1>t, <2>1, <2>2 DEF Typed, Answered, Keeps
<1>3. QED
  BY <1>1, <1>2 DEF Receive

LEMMA TimeMoves ==
  ASSUME SecretType, NEW r \in Requests, RequestTime(r)
  PROVE  Typed /\ Goes(r, req[r].pc)
<1>t. req \in [Requests -> Call]
  BY DEF SecretType
<1> DEFINE c == [req[r] EXCEPT !.late = TRUE]
<1>1. req' = [req EXCEPT ![r] = c]
  BY <1>t DEF RequestTime
<1>2. /\ c \in Call /\ c.pc = req[r].pc /\ c.source = req[r].source /\ c.key = req[r].key
      /\ c.owner = req[r].owner /\ c.cancelled = req[r].cancelled /\ c.gone = req[r].gone
      /\ c.save = req[r].save
  <2>1. req[r] \in Call
    BY <1>t
  <2>2. QED
    BY <2>1 DEF Call
<1> HIDE DEF c
<1>3. QED
  BY <1>t, <1>1, <1>2 DEF Typed, Goes, Keeps, SameData

-----------------------------------------------------------------------------
\* The steps, the ones that touch none of this state taken together.
Quiet ==
    UNCHANGED <<nmOwner, req, inflight, pending, channel, session, staging, staged, ticket,
                save, writer, shown>>

OwnerStep(o) == ChangeOwner(o) /\ UNCHANGED <<staging, staged, ticket, save, writer>>

SecretStep ==
    \/ Quiet
    \/ \E r \in Requests : GetSecrets(r) \/ RequestStep(r) \/ SaveStep(r) \/ RequestTime(r)
    \/ \E f \in Frontends, r \in Requests : Provide(f, r)
    \/ Stage \/ ExpireHandoff \/ SaveSecrets \/ CancelGetSecrets \/ DeleteSecrets
    \/ \E o \in {busOwner, 0} : OwnerStep(o)

LEMMA SecretMoves == [Next]_vars => SecretStep
<1> SUFFICES ASSUME [Next]_vars PROVE SecretStep
  OBVIOUS
<1>1. CASE UNCHANGED vars
  BY <1>1 DEF vars, handoff, saves, Quiet, SecretStep
<1>2. ASSUME NEW a \in Activations, VerifierCheck(a) \/ ActivationTime(a) \/ StartActivation(a)
                                    \/ ActivationError(a) \/ FinishActivation(a)
      PROVE  SecretStep
  BY <1>2 DEF VerifierCheck, ActivationTime, StartActivation, ActivationError,
                     FinishActivation, handoff, saves, Quiet, SecretStep
<1>3. CASE RegistrationFinished \/ RetryRegistration \/ ReplaceNm
  BY <1>3 DEF RegistrationFinished, RetryRegistration, ReplaceNm, handoff, saves, Quiet,
                     SecretStep
<1>4. CASE WatchChange
  BY <1>4 DEF WatchChange, OwnerStep, saves, SecretStep
<1>5. CASE WatchInterrupted
  BY <1>5 DEF WatchInterrupted, OwnerStep, saves, SecretStep
<1>6. CASE Internal
  BY <1>2, <1>3, <1>4, <1>6 DEF Internal, WatchStep, SecretStep
<1>7. CASE Move
  BY <1>2, <1>3, <1>5, <1>7 DEF Move, SecretStep
<1>8. QED
  BY <1>1, <1>6, <1>7 DEF Next

LEMMA OwnersTyped ==
  ASSUME SecretType, [Next]_vars PROVE busOwner' \in Nat /\ born' \in Nat /\ nmOwner' \in Nat
<1>t. busOwner \in Nat /\ born \in Nat /\ nmOwner \in Nat
  BY DEF SecretType
<1>1. CASE UNCHANGED <<busOwner, born>>
  <2>1. nmOwner' \in {nmOwner, busOwner, 0}
    BY SecretMoves
       DEF SecretStep, Quiet, OwnerStep, ChangeOwner, GetSecrets, RequestStep,
       SaveStep, RequestTime, Provide, Stage, ExpireHandoff, SaveSecrets, CancelGetSecrets,
       DeleteSecrets, Begin, BeginRefused, Lookup, Decide, Publish, PublishRefused, Receive, Retire,
       Abandon, Leave, Reply, Dispatch, Write, WriteExpired, Written
  <2>2. QED
    BY <1>1, <1>t, <2>1, SMTT(40)
<1>2. CASE ReplaceNm
  BY <1>2, <1>t, SMTT(40) DEF ReplaceNm
<1>3. QED
  BY <1>1, <1>2
     DEF Next, Internal, Move, WatchStep, vars, bus, GetSecrets, RequestStep,
         SaveStep, RequestTime, Provide, Stage, ExpireHandoff, SaveSecrets, CancelGetSecrets,
         DeleteSecrets, Begin, BeginRefused, Lookup, Decide, Publish, PublishRefused, Receive, Retire,
         Abandon, Leave, Reply, Dispatch, Write, WriteExpired, Written, VerifierCheck, ActivationTime,
         StartActivation, ActivationError, FinishActivation, RegistrationFinished, RetryRegistration,
         WatchChange, WatchInterrupted

\* The requests, whoever moves.
LEMMA RequestsTyped == ASSUME SecretType, SecretStep PROVE Typed
<1>t. req \in [Requests -> Call]
  BY DEF SecretType
<1>1. CASE UNCHANGED req
  BY <1>1, <1>t DEF Typed
<1>2. ASSUME NEW r \in Requests, GetSecrets(r) \/ RequestTime(r) PROVE Typed
  BY <1>2, GetSecretsMoves, TimeMoves
<1>3. ASSUME NEW r \in Requests, Begin(r) \/ Lookup(r) \/ Decide(r) \/ Receive(r) PROVE Typed
  BY <1>3, BeginMoves, LookupMoves, DecideMoves, ReceiveMoves
<1>4. ASSUME NEW r \in Requests, NEW pc \in {"receive", "dispatch", "done", "failed"}, Step(r, pc)
      PROVE  Typed
  BY <1>4, <1>t, StepMoves, FailedMoves DEF Typed, Pcs
<1>5. ASSUME NEW r \in Requests, BeginRefused(r) \/ Publish(r) \/ PublishRefused(r) \/ Retire(r)
                                 \/ Abandon(r) \/ Reply(r) \/ Dispatch(r)
      PROVE  Typed
  <2>1. \E pc \in {"receive", "dispatch", "done", "failed"} : Step(r, pc)
    BY <1>5 DEF BeginRefused, Publish, PublishRefused, Retire, Abandon, Leave, Reply, Dispatch
  <2>2. QED
    BY <2>1, <1>4
<1>6. CASE CancelGetSecrets \/ DeleteSecrets
  BY <1>6, TurnedMoves DEF CancelGetSecrets, DeleteSecrets
<1>7. ASSUME NEW o, OwnerStep(o) PROVE Typed
  BY <1>7, <1>t, FlaggedMoves DEF OwnerStep, ChangeOwner, Typed
<1>8. QED
  BY <1>1, <1>2, <1>3, <1>5, <1>6, <1>7
     DEF SecretStep, Quiet, RequestStep, SaveStep, Write, WriteExpired, Written, Provide, Stage,
         ExpireHandoff, SaveSecrets

LEMMA RemovedTyped ==
  ASSUME SecretType, NEW rs, NEW m \in Message
  PROVE  /\ Removed(rs) \in [Requests -> (SUBSET Frontends) \cup {NONE}]
         /\ Sent(rs, m) \in [Requests -> Message]
         /\ \A q \in Requests : /\ q \in rs => Removed(rs)[q] = NONE
                                /\ q \notin rs => Removed(rs)[q] = pending[q]
BY DEF SecretType, Removed, Sent

LEMMA SignalsTyped ==
  /\ CancelMsg \in Message /\ Answers \subseteq Message
  /\ Signal("none") \in Message /\ Signal("open") \in Message /\ Signal("closed") \in Message
<1>1. CancelMsg \in Message /\ Signal("none") \in Message /\ Signal("open") \in Message
      /\ Signal("closed") \in Message
  BY DEF Signal, CancelMsg, Message
<1>2. [kind : {"values", "partial"}, save : BOOLEAN] \subseteq Message
  BY DEF Message
<1>3. QED
  BY <1>1, <1>2 DEF Answers

RegistryTyped ==
    /\ inflight' \in [Keys -> Requests \cup {NONE}]
    /\ pending' \in [Requests -> (SUBSET Frontends) \cup {NONE}]
    /\ channel' \in [Requests -> Message]

LEMMA RegistryTypes == ASSUME SecretType, SecretStep PROVE RegistryTyped
<1>t. /\ inflight \in [Keys -> Requests \cup {NONE}]
      /\ pending \in [Requests -> (SUBSET Frontends) \cup {NONE}]
      /\ channel \in [Requests -> Message]
  BY DEF SecretType
<1>1. CASE UNCHANGED <<inflight, pending, channel>>
  BY <1>1, <1>t DEF RegistryTyped
<1>2. ASSUME NEW r \in Requests, DropGuards(r), channel' = Sent({r}, Signal("none")) \/ UNCHANGED channel
      PROVE  RegistryTyped
  <2>1. inflight' \in [Keys -> Requests \cup {NONE}]
    BY <1>2, <1>t DEF DropGuards
  <2>2. pending' = Removed({r})
    BY <1>2 DEF DropGuards
  <2>3. /\ Removed({r}) \in [Requests -> (SUBSET Frontends) \cup {NONE}]
        /\ Sent({r}, Signal("none")) \in [Requests -> Message]
    BY RemovedTyped, SignalsTyped
  <2>4. QED
    BY <1>2, <1>t, <2>1, <2>2, <2>3 DEF RegistryTyped
<1>3. ASSUME NEW r \in Requests, Begin(r) PROVE RegistryTyped
  <2>1. /\ inflight' = [inflight EXCEPT ![req[r].key] = r]
        /\ pending' = Removed(AtKey(req[r].key))
        /\ channel' = Sent(AtKey(req[r].key), CancelMsg)
    BY <1>3 DEF Begin
  <2>2. inflight' \in [Keys -> Requests \cup {NONE}]
    BY <1>t, <2>1
  <2>3. QED
    BY <2>1, <2>2, RemovedTyped, SignalsTyped DEF RegistryTyped
<1>4. ASSUME NEW r \in Requests, Decide(r) PROVE RegistryTyped
  <2>1. CASE DropGuards(r) /\ UNCHANGED channel
    BY <2>1, <1>2
  <2>2. CASE UNCHANGED <<pending, channel>>
             /\ inflight' = [k \in Keys |-> IF inflight[k] = r THEN NONE ELSE inflight[k]]
    BY <2>2, <1>t DEF RegistryTyped
  <2>3. ASSUME NEW owners \in SUBSET Frontends, UNCHANGED inflight,
               pending' = [Removed(AtKey(req[r].key)) EXCEPT ![r] = owners],
               channel' = [Sent(AtKey(req[r].key), CancelMsg) EXCEPT ![r] = Signal("open")]
        PROVE  RegistryTyped
    <3>1. /\ Removed(AtKey(req[r].key)) \in [Requests -> (SUBSET Frontends) \cup {NONE}]
          /\ Sent(AtKey(req[r].key), CancelMsg) \in [Requests -> Message]
      BY RemovedTyped, SignalsTyped
    <3>2. QED
      BY <2>3, <3>1, <1>t, SignalsTyped DEF RegistryTyped
  <2>4. \/ UNCHANGED <<pending, channel>>
           /\ inflight' = [k \in Keys |-> IF inflight[k] = r THEN NONE ELSE inflight[k]]
        \/ DropGuards(r) /\ UNCHANGED channel
        \/ /\ UNCHANGED inflight
           /\ \E owners \in SUBSET Frontends :
                 pending' = [Removed(AtKey(req[r].key)) EXCEPT ![r] = owners]
           /\ channel' = [Sent(AtKey(req[r].key), CancelMsg) EXCEPT ![r] = Signal("open")]
    BY <1>4, DecideMoves
  <2>5. QED
    BY <2>1, <2>2, <2>3, <2>4
<1>5. ASSUME NEW r \in Requests, PublishRefused(r) \/ Receive(r) \/ Retire(r) \/ Abandon(r)
      PROVE  RegistryTyped
  BY <1>5, <1>2 DEF PublishRefused, Receive, Retire, Abandon, Leave
<1>6. ASSUME NEW rs, UNCHANGED inflight, pending' = Removed(rs), channel' = Sent(rs, CancelMsg)
      PROVE  RegistryTyped
  BY <1>6, <1>t, RemovedTyped, SignalsTyped DEF RegistryTyped
<1>7. CASE CancelGetSecrets \/ DeleteSecrets
  BY <1>6, <1>7 DEF CancelGetSecrets, DeleteSecrets
<1>8. ASSUME NEW o, OwnerStep(o) PROVE RegistryTyped
  <2>1. inflight' \in [Keys -> Requests \cup {NONE}]
    BY <1>8 DEF OwnerStep, ChangeOwner
  <2>2. pending' = Removed(Pending) /\ channel' = Sent(Pending, CancelMsg)
    BY <1>8 DEF OwnerStep, ChangeOwner
  <2>3. QED
    BY <2>1, <2>2, RemovedTyped, SignalsTyped DEF RegistryTyped
<1>9. ASSUME NEW r \in Requests, NEW f \in Frontends, Provide(f, r) PROVE RegistryTyped
  <2>1. \E m \in Message : UNCHANGED inflight /\ pending' = Removed({r}) /\ channel' = Sent({r}, m)
    BY <1>9, SignalsTyped DEF Provide
  <2>2. QED
    BY <1>t, <2>1, RemovedTyped, SMTT(40) DEF RegistryTyped
<1>10. QED
  BY <1>1, <1>3, <1>4, <1>5, <1>7, <1>8, <1>9
     DEF SecretStep, Quiet, GetSecrets, RequestStep, SaveStep, RequestTime, BeginRefused, Lookup,
         Publish, Reply, Dispatch, Write, WriteExpired, Written, Stage, ExpireHandoff, SaveSecrets

HandoffTyped ==
    /\ session' \subseteq Entry /\ staged' \in Nat
    /\ staging' = NONE \/ staging' \in [owner : Nat, path : Paths, settings : SUBSET Settings]

LEMMA HandoffTypes == ASSUME SecretType, SecretStep PROVE HandoffTyped
<1>t. /\ session \subseteq Entry /\ staged \in Nat /\ busOwner \in Nat
      /\ staging = NONE \/ staging \in [owner : Nat, path : Paths, settings : SUBSET Settings]
  BY DEF SecretType
<1>1. CASE session' \subseteq session /\ UNCHANGED <<staging, staged>>
  BY <1>1, <1>t DEF HandoffTyped
<1>2. ASSUME NEW r \in Requests, Lookup(r) PROVE HandoffTyped
  <2>1. UNCHANGED <<staging, staged>>
    BY <1>2 DEF Lookup
  <2>2. CASE session' = {e \in session : e.path # Path(r)}
    BY <1>1, <2>1, <2>2
  <2>3. CASE session' = (session \ Matching(r))
                          \cup UNION {Emptied(e, Setting(r)) : e \in Matching(r)}
    <3>1. ASSUME NEW e \in Matching(r) PROVE Emptied(e, Setting(r)) \subseteq Entry
      <4>1. e \in Entry
        BY <1>t DEF Matching
      <4>2. QED
        BY <4>1 DEF Emptied, Entry
    <3>2. session' \subseteq Entry
      BY <2>3, <3>1, <1>t
    <3>3. QED
      BY <2>1, <3>2, <1>t DEF HandoffTyped
  <2>4. QED
    BY <1>2, <2>2, <2>3, LookupMoves
<1>3. CASE SaveSecrets
  <2>1. staging' \in [owner : Nat, path : Paths, settings : SUBSET Settings]
    BY <1>3, <1>t, SMTT(40) DEF SaveSecrets
  <2>2. QED
    BY <1>3, <1>t, <2>1 DEF SaveSecrets, HandoffTyped
<1>4. CASE Stage
  <2> DEFINE kept == {e \in session : e.path # staging.path}
             new == [owner |-> staging.owner, path |-> staging.path,
                     settings |-> staging.settings, stamp |-> staged + 1]
  <2>1. new \in Entry
    BY <1>4, <1>t, SMTT(40) DEF Stage, Entry
  <2>2. Evicted(kept) \subseteq kept /\ kept \subseteq session
    BY DEF Evicted
  <2>3. session' \subseteq Evicted(kept) \cup kept \cup {new} /\ staged' = staged + 1 /\ staging' = NONE
    BY <1>4 DEF Stage
  <2> HIDE DEF new, kept
  <2>4. QED
    BY <1>t, <2>1, <2>2, <2>3, SMTT(40) DEF HandoffTyped
<1>5. CASE ExpireHandoff \/ CancelGetSecrets \/ DeleteSecrets
  BY <1>1, <1>5 DEF ExpireHandoff, CancelGetSecrets, DeleteSecrets
<1>6. ASSUME NEW o, OwnerStep(o) PROVE HandoffTyped
  BY <1>1, <1>6 DEF OwnerStep, ChangeOwner
<1>7. CASE UNCHANGED <<session, staging, staged>>
  BY <1>1, <1>7
<1>8. QED
  BY <1>2, <1>3, <1>4, <1>5, <1>6, <1>7
     DEF SecretStep, Quiet, GetSecrets, RequestStep, SaveStep, RequestTime, Begin, BeginRefused,
         Decide, Publish, PublishRefused, Receive, Retire, Abandon, Leave, Reply, Dispatch, Write,
         WriteExpired, Written, Provide, handoff

SavesTyped ==
    /\ ticket' \in [Requests -> {"none", "held", "cancelled"}]
    /\ save' \in [Requests -> {"none", "queued", "writing", "over"}]
    /\ writer' \in Requests \cup {NONE}
    /\ shown' \in [Requests -> SUBSET Event]

LEMMA EmitTyped ==
  ASSUME SecretType, NEW rs, NEW e \in Event, Emit(rs, e) PROVE shown' \in [Requests -> SUBSET Event]
BY DEF SecretType, Emit

LEMMA SavesTypes == ASSUME SecretType, SecretStep PROVE SavesTyped
<1>t. /\ ticket \in [Requests -> {"none", "held", "cancelled"}]
      /\ save \in [Requests -> {"none", "queued", "writing", "over"}]
      /\ writer \in Requests \cup {NONE}
      /\ shown \in [Requests -> SUBSET Event]
  BY DEF SecretType
<1>e. {"requested", "cancelled", "delivered", "stored", "failed"} = Event
  BY DEF Event
<1>1. CASE UNCHANGED saves /\ (UNCHANGED shown \/ \E e \in Event, rs \in SUBSET Requests : Emit(rs, e))
  BY <1>1, <1>t, EmitTyped DEF SavesTyped, saves
<1>2. ASSUME NEW p, ticket' = Invalidated(p), UNCHANGED <<save, writer>>,
             UNCHANGED shown \/ \E e \in Event, rs \in SUBSET Requests : Emit(rs, e)
      PROVE  SavesTyped
  <2>1. ticket' \in [Requests -> {"none", "held", "cancelled"}]
    BY <1>2, <1>t DEF Invalidated
  <2>2. QED
    BY <1>2, <1>t, <2>1, EmitTyped DEF SavesTyped
<1>3. ASSUME NEW r \in Requests, NEW e \in {"stored", "failed"}, Over(r, e),
             writer' \in Requests \cup {NONE}
      PROVE  SavesTyped
  BY <1>3, <1>t, <1>e, EmitTyped DEF Over, SavesTyped
<1>4. ASSUME NEW r \in Requests, SaveStep(r) PROVE SavesTyped
  <2>1. CASE Write(r)
    BY <2>1, <1>3, <1>t DEF Write, SavesTyped
  <2>2. CASE WriteExpired(r)
    BY <2>2, <1>3, <1>t DEF WriteExpired
  <2>3. CASE Written(r)
    BY <2>3, <1>3 DEF Written
  <2>4. QED
    BY <1>4, <2>1, <2>2, <2>3 DEF SaveStep
<1>5. ASSUME NEW r \in Requests, Dispatch(r) PROVE SavesTyped
  <2>1. ticket' \in [Requests -> {"none", "held", "cancelled"}] /\ writer' = writer
    BY <1>5, <1>t, SMTT(40) DEF Dispatch
  <2>2. save' \in [Requests -> {"none", "queued", "writing", "over"}]
    BY <1>5, <1>t DEF Dispatch
  <2>3. \E es \in SUBSET Event : shown' = [shown EXCEPT ![r] = @ \cup es]
    <3>1. CASE req[r].owner # nmOwner
      BY <1>5, <3>1, <1>t, SMTT(40) DEF Dispatch
    <3>2. CASE req[r].owner = nmOwner
      <4> DEFINE es == {"delivered"} \cup
                       (IF req[r].save /\ Cardinality(Saving) >= Capacity THEN {"failed"} ELSE {})
      <4>1. es \in SUBSET Event
        BY <1>e
      <4>2. shown' = [shown EXCEPT ![r] = @ \cup es]
        BY <1>5, <3>2, <1>t, SMTT(40) DEF Dispatch
      <4>3. QED
        BY <4>1, <4>2
    <3>3. QED
      BY <3>1, <3>2
  <2>4. shown' \in [Requests -> SUBSET Event]
    BY <1>t, <2>3
  <2>5. QED
    BY <1>t, <2>1, <2>2, <2>4 DEF SavesTyped
<1>6. ASSUME NEW r \in Requests, Reply(r) PROVE SavesTyped
  <2>1. ticket' \in [Requests -> {"none", "held", "cancelled"}] /\ UNCHANGED <<save, writer>>
    BY <1>6, <1>t DEF Reply
  <2>2. UNCHANGED shown \/ Emit({r}, "cancelled")
    BY <1>6 DEF Reply
  <2>3. shown' \in [Requests -> SUBSET Event]
    BY <2>2, <1>t, <1>e, EmitTyped
  <2>4. QED
    BY <1>t, <2>1, <2>3 DEF SavesTyped
<1>7. ASSUME NEW r \in Requests, GetSecrets(r) PROVE SavesTyped
  BY <1>7, <1>1, <1>2, GetSecretsMoves DEF GetSecrets, saves
<1>8. CASE CancelGetSecrets \/ DeleteSecrets
  <2>1. \E p : ticket' = Invalidated(p)
    BY <1>8 DEF CancelGetSecrets, DeleteSecrets
  <2>2. \E e \in Event, rs \in SUBSET Requests : Emit(rs, e)
    <3>1. \E rs \in SUBSET Requests : Emit(rs, "cancelled")
      BY <1>8 DEF CancelGetSecrets, DeleteSecrets, AtKey, AtPath, Pending
    <3>2. QED
      BY <3>1, <1>e
  <2>3. UNCHANGED <<save, writer>>
    BY <1>8 DEF CancelGetSecrets, DeleteSecrets
  <2>4. QED
    BY <1>2, <2>1, <2>2, <2>3
<1>9. ASSUME NEW o, OwnerStep(o) PROVE SavesTyped
  BY <1>9, <1>1, <1>e DEF OwnerStep, ChangeOwner, saves, Pending
<1>10. ASSUME NEW r \in Requests, Begin(r) PROVE SavesTyped
  BY <1>10, <1>1, <1>e DEF Begin, AtKey, Pending
<1>11. ASSUME NEW r \in Requests, Publish(r) \/ Retire(r) PROVE SavesTyped
  BY <1>11, <1>1, <1>e DEF Publish, Retire, Leave
<1>12. CASE UNCHANGED saves /\ UNCHANGED shown
  BY <1>1, <1>12
<1>13. QED
  BY <1>4, <1>5, <1>6, <1>7, <1>8, <1>9, <1>10, <1>11, <1>12
     DEF SecretStep, Quiet, RequestStep, RequestTime, BeginRefused, Lookup, Decide, PublishRefused,
         Receive, Abandon, Leave, Provide, Stage, ExpireHandoff, SaveSecrets, saves

-----------------------------------------------------------------------------
\* The registry.

SameIds(q) ==
    /\ req'[q].pc = req[q].pc /\ req'[q].key = req[q].key
    /\ req'[q].owner = req[q].owner /\ req'[q].cancelled = req[q].cancelled

LEMMA DeliverableMeans ==
  ASSUME NEW r \in Requests, Deliverable(r) PROVE ~req[r].cancelled /\ req[r].owner = nmOwner
<1>1. ASSUME req[r].cancelled PROVE FALSE
  <2>1. Verdict(r) = "cancelled"
    BY <1>1 DEF Verdict
  <2>2. QED
    BY <2>1 DEF Deliverable
<1>2. ASSUME ~req[r].cancelled, req[r].owner # nmOwner PROVE FALSE
  <2>1. Verdict(r) = "stale"
    BY <1>2 DEF Verdict
  <2>2. QED
    BY <2>1 DEF Deliverable
<1>3. QED
  BY <1>1, <1>2

\* A request outside of the registry moves outside of it.
LEMMA OutsideMoves ==
  ASSUME RegistryInv, NEW r \in Requests, UNCHANGED <<inflight, pending, nmOwner>>,
         \A q \in Requests \ {r} : SameIds(q),
         req[r].pc \notin Waiting, req'[r].pc \notin Waiting,
         req'[r].pc \notin {"idle", "failed"} => req'[r].key \in Keys /\ ~req'[r].cancelled,
         req'[r].pc # "idle"
  PROVE  RegistryInv'
<1>1. pending[r] = NONE /\ \A k \in Keys : inflight[k] # r
  BY DEF RegistryInv, PromptsAreCurrent, Pending, Waiting
<1>2. QED
  BY <1>1, SMTT(40) DEF RegistryInv, PromptsAreCurrent, Pending, Waiting, SameIds

\* A request inside moves inside.
LEMMA InsideMoves ==
  ASSUME RegistryInv, NEW r \in Requests, UNCHANGED <<inflight, pending, nmOwner>>,
         \A q \in Requests \ {r} : SameIds(q),
         req'[r].key = req[r].key, req'[r].owner = req[r].owner,
         req'[r].cancelled = req[r].cancelled,
         req[r].pc \in Waiting, req'[r].pc \in Waiting,
         req[r].pc \in {"publish", "receive"} => req'[r].pc \in {"publish", "receive"}
  PROVE  RegistryInv'
BY SMTT(40) DEF RegistryInv, PromptsAreCurrent, Pending, Waiting, SameIds

\* A request leaves the registry with its guards.
Leaves(r) ==
    /\ \A k \in Keys : inflight'[k] = IF inflight[k] = r THEN NONE ELSE inflight[k]
    /\ pending'[r] = NONE
    /\ \A q \in Requests \ {r} : pending'[q] = pending[q]

LEMMA GuardsLeave ==
  ASSUME SecretType, RegistryInv, NEW r \in Requests, DropGuards(r) PROVE Leaves(r)
<1>1. NONE # r
  BY SecretBounds
<1>2. \A k \in Keys : inflight[k] = r => k = req[r].key
  BY DEF RegistryInv
<1>3. \A k \in Keys : inflight'[k] = IF k = req[r].key /\ inflight[k] = r THEN NONE ELSE inflight[k]
  BY DEF DropGuards
<1>4. \A q \in Requests : pending'[q] = IF q = r THEN NONE ELSE pending[q]
  BY DEF DropGuards, Removed
<1>5. QED
  BY <1>1, <1>2, <1>3, <1>4 DEF Leaves

LEMMA LeaveMoves ==
  ASSUME SecretType, RegistryInv, NEW r \in Requests, Leaves(r), UNCHANGED nmOwner,
         \A q \in Requests \ {r} : SameIds(q),
         \/ req'[r].pc = "failed"
         \/ req'[r].pc = "reply" /\ req'[r].key \in Keys /\ ~req'[r].cancelled
  PROVE  RegistryInv'
<1>1. \A q \in Requests \ {r} : \A k \in Keys : (inflight'[k] = q) <=> (inflight[k] = q)
  BY SecretBounds DEF Leaves
<1>2. \A q \in Requests : req'[q].pc \notin {"idle", "failed"} => req'[q].key \in Keys
  BY DEF RegistryInv, SameIds
<1>3. \A q \in Requests : req'[q].pc \in Waiting /\ ~req'[q].cancelled => inflight'[req'[q].key] = q
  BY <1>1, <1>2, SMTT(40) DEF RegistryInv, SameIds, Waiting
<1>4. \A q \in Requests : req'[q].pc \in {"idle", "authorized", "reply", "dispatch", "done"}
                             => ~req'[q].cancelled
  BY DEF RegistryInv, SameIds
<1>5. \A k \in Keys, q \in Requests : inflight'[k] = q =>
          req'[q].key = k /\ req'[q].owner = nmOwner' /\ req'[q].pc \in Waiting
  BY <1>1, SecretBounds, SMTT(40) DEF RegistryInv, SameIds, Leaves
<1>6. PromptsAreCurrent'
  <2> SUFFICES ASSUME NEW q \in Requests, pending'[q] # NONE
               PROVE  /\ inflight'[req'[q].key] = q /\ ~req'[q].cancelled
                      /\ req'[q].owner = nmOwner' /\ req'[q].pc \in {"publish", "receive"}
    BY DEF PromptsAreCurrent, Pending
  <2>1. q # r /\ pending[q] # NONE
    BY DEF Leaves
  <2>2. req[q].key \in Keys
    BY <2>1 DEF RegistryInv, PromptsAreCurrent, Pending
  <2>3. QED
    BY <1>1, <2>1, <2>2, SMTT(40) DEF RegistryInv, PromptsAreCurrent, Pending, SameIds
<1>7. QED
  BY <1>2, <1>3, <1>4, <1>5, <1>6 DEF RegistryInv

\* Prompts of rs are withdrawn, and every request in rs or in fs is cancelled.
LEMMA WithdrawMoves ==
  ASSUME SecretType, RegistryInv, NEW rs \in SUBSET Requests, NEW fs,
         UNCHANGED <<inflight, nmOwner>>, pending' = Removed(rs),
         \A q \in Requests :
            /\ req'[q].pc = req[q].pc /\ req'[q].key = req[q].key
            /\ req'[q].owner = req[q].owner
            /\ q \in fs => req'[q].cancelled
            /\ q \notin fs => req'[q].cancelled = req[q].cancelled,
         \A q \in fs : \E k \in Keys : inflight[k] = q,
         \A q \in fs \cap Pending : q \in rs
  PROVE  RegistryInv'
<1>1. \A q \in Requests : (q \in rs => pending'[q] = NONE) /\ (q \notin rs => pending'[q] = pending[q])
  BY DEF Removed
<1>2. \A q \in fs \cap Requests : req[q].pc \in Waiting
  BY SMTT(40) DEF RegistryInv
<1>3. \A q \in Requests : pending'[q] # NONE => q \in Pending /\ q \notin fs
  BY <1>1 DEF Pending
<1>4. PromptsAreCurrent'
  BY <1>3, SMTT(40) DEF PromptsAreCurrent, Pending, RegistryInv
<1>5. QED
  BY <1>2, <1>4, SMTT(40) DEF RegistryInv, Waiting

LEMMA RegistryStep ==
  ASSUME SecretType, SecretType', RegistryInv, SecretStep PROVE RegistryInv'
<1>t. req \in [Requests -> Call] /\ inflight \in [Keys -> Requests \cup {NONE}]
  BY DEF SecretType
<1>k. \A r \in Requests : req[r].pc \notin {"idle", "failed"} => req[r].key \in Keys
  BY DEF RegistryInv
<1>1. CASE UNCHANGED <<req, inflight, pending, nmOwner>>
  BY <1>1, SMTT(40) DEF RegistryInv, PromptsAreCurrent, Pending
<1>2. ASSUME NEW r \in Requests, GetSecrets(r) PROVE RegistryInv'
  <2>1. req[r].pc = "idle" /\ UNCHANGED <<inflight, pending, nmOwner>>
    BY <1>2 DEF GetSecrets
  <2>2. CASE Fails(r)
    BY <2>1, <2>2, OutsideMoves DEF Fails, Keeps, SameIds, Waiting
  <2>3. ASSUME NEW k \in Keys, Called(r, k) PROVE RegistryInv'
    BY <2>1, <2>3, OutsideMoves, SMTT(40) DEF Called, SameIds, Waiting
  <2>4. QED
    BY <1>2, <2>2, <2>3, GetSecretsMoves
<1>3. ASSUME NEW r \in Requests, Begin(r) PROVE RegistryInv'
  <2> DEFINE k == req[r].key
  <2>1. /\ req[r].pc = "authorized" /\ req[r].owner = nmOwner /\ k \in Keys
        /\ inflight' = [inflight EXCEPT ![k] = r] /\ nmOwner' = nmOwner
        /\ pending' = Removed(AtKey(k)) /\ Displaces(r) /\ ~req[r].cancelled
    BY <1>3, <1>k, BeginMoves DEF Begin, RegistryInv
  <2>2. \A q \in Requests : pending'[q] # NONE => pending[q] # NONE /\ req[q].key # k
    BY <2>1 DEF Removed, AtKey, Pending
  <2>3. inflight[k] # r /\ \A j \in Keys : inflight[j] # r
    BY <2>1 DEF RegistryInv, Waiting
  <2>4. inflight'[k] = r /\ \A j \in Keys : j # k => inflight'[j] = inflight[j]
    BY <2>1, <1>t
  <2>5. /\ req'[r].pc = "lookup" /\ req'[r].key = k /\ req'[r].owner = nmOwner
        /\ ~req'[r].cancelled
    BY <2>1, <2>3 DEF Displaces
  <2>6. ASSUME NEW q \in Requests, q # r
        PROVE  /\ req'[q].pc = req[q].pc /\ req'[q].key = req[q].key /\ req'[q].owner = req[q].owner
               /\ inflight[k] = q => req'[q].cancelled
               /\ inflight[k] # q => req'[q].cancelled = req[q].cancelled
    BY <2>1, <2>6 DEF Displaces
  <2> HIDE DEF k
  <2>7. PromptsAreCurrent'
    <3> SUFFICES ASSUME NEW q \in Requests, pending'[q] # NONE
                 PROVE  /\ inflight'[req'[q].key] = q /\ ~req'[q].cancelled
                        /\ req'[q].owner = nmOwner' /\ req'[q].pc \in {"publish", "receive"}
      BY DEF PromptsAreCurrent, Pending
    <3>1. /\ inflight[req[q].key] = q /\ ~req[q].cancelled /\ req[q].owner = nmOwner
          /\ req[q].pc \in {"publish", "receive"} /\ req[q].key # k /\ req[q].key \in Keys
      BY <2>2, <1>k DEF RegistryInv, PromptsAreCurrent, Pending
    <3>2. q # r /\ inflight[k] # q
      BY <2>1, <3>1 DEF RegistryInv
    <3>3. QED
      BY <2>1, <2>4, <2>6, <3>1, <3>2
  <2>8. \A q \in Requests : req'[q].pc \in Waiting /\ ~req'[q].cancelled => inflight'[req'[q].key] = q
    <3> SUFFICES ASSUME NEW q \in Requests, q # r, req'[q].pc \in Waiting, ~req'[q].cancelled
                 PROVE  inflight'[req'[q].key] = q
      BY <2>4, <2>5, SMTT(40)
    <3>1. inflight[req[q].key] = q /\ inflight[k] # q /\ req[q].key \in Keys
      BY <2>6, <1>k DEF RegistryInv, Waiting
    <3>2. QED
      BY <2>4, <2>6, <3>1
  <2>9. \A j \in Keys, q \in Requests : inflight'[j] = q =>
          req'[q].key = j /\ req'[q].owner = nmOwner' /\ req'[q].pc \in Waiting
    <3> SUFFICES ASSUME NEW j \in Keys, NEW q \in Requests, inflight'[j] = q
                 PROVE  req'[q].key = j /\ req'[q].owner = nmOwner' /\ req'[q].pc \in Waiting
      OBVIOUS
    <3>1. CASE j = k
      BY <2>1, <2>4, <2>5, <3>1 DEF Waiting
    <3>2. CASE j # k
      <4>1. inflight[j] = q /\ q # r
        BY <2>3, <2>4, <3>2
      <4>2. QED
        BY <2>1, <2>6, <4>1, SMTT(40) DEF RegistryInv
    <3>3. QED
      BY <3>1, <3>2
  <2>10. \A q \in Requests :
            /\ req'[q].pc \notin {"idle", "failed"} => req'[q].key \in Keys
            /\ req'[q].pc \in {"idle", "authorized", "reply", "dispatch", "done"} => ~req'[q].cancelled
    <3> SUFFICES ASSUME NEW q \in Requests, q # r
                 PROVE /\ req'[q].pc \notin {"idle", "failed"} => req'[q].key \in Keys
                       /\ req'[q].pc \in {"idle", "authorized", "reply", "dispatch", "done"}
                              => ~req'[q].cancelled
      BY <2>1, <2>5
    <3>1. inflight[k] = q => req[q].pc \in Waiting
      BY <2>1 DEF RegistryInv
    <3>2. QED
      BY <1>k, <2>6, <3>1 DEF RegistryInv, Waiting
  <2>11. QED
    BY <2>7, <2>8, <2>9, <2>10 DEF RegistryInv
<1>4. ASSUME NEW r \in Requests, Lookup(r) \/ Publish(r) \/ RequestTime(r) PROVE RegistryInv'
  <2>1. UNCHANGED <<inflight, pending, nmOwner>>
    BY <1>4 DEF Lookup, Publish, RequestTime
  <2>2. CASE Lookup(r)
    <3>1. req[r].pc = "lookup" /\ (Goes(r, "decide") \/ \E s : Takes(r, s))
      BY <2>2, LookupMoves DEF Lookup
    <3>2. QED
      BY <2>1, <3>1, InsideMoves DEF Goes, Takes, Keeps, SameData, SameIds, Waiting
  <2>3. CASE Publish(r)
    <3>1. req[r].pc = "publish" /\ Goes(r, "receive")
      BY <2>3, <1>t, StepMoves DEF Publish, Pcs
    <3>2. QED
      BY <2>1, <3>1, InsideMoves DEF Goes, Keeps, SameData, SameIds, Waiting
  <2>4. CASE RequestTime(r)
    <3>1. Goes(r, req[r].pc)
      BY <2>4, TimeMoves
    <3>2. \A q \in Requests : SameIds(q)
      BY <3>1 DEF Goes, Keeps, SameData, SameIds
    <3>3. QED
      BY <2>1, <3>2, SMTT(40) DEF RegistryInv, PromptsAreCurrent, Pending, SameIds
  <2>5. QED
    BY <1>4, <2>2, <2>3, <2>4
<1>5. ASSUME NEW r \in Requests, Decide(r) PROVE RegistryInv'
  <2>1. /\ req[r].pc = "decide" /\ ~req[r].cancelled /\ req[r].owner = nmOwner
        /\ nmOwner' = nmOwner /\ req[r].key \in Keys
    BY <1>5, <1>k, DeliverableMeans DEF Decide
  <2>2. inflight[req[r].key] = r /\ pending[r] = NONE
    BY <2>1 DEF RegistryInv, PromptsAreCurrent, Pending, Waiting
  <2>3. CASE Fails(r) /\ DropGuards(r)
    BY <2>1, <2>3, GuardsLeave, LeaveMoves DEF Fails, Keeps, SameIds
  <2>4. CASE /\ Goes(r, "reply") /\ UNCHANGED <<pending, channel>>
             /\ inflight' = [k \in Keys |-> IF inflight[k] = r THEN NONE ELSE inflight[k]]
    <3>1. Leaves(r)
      BY <2>2, <2>4 DEF Leaves
    <3>2. QED
      BY <2>1, <2>4, <3>1, LeaveMoves DEF Goes, Keeps, SameData, SameIds
  <2>5. ASSUME Goes(r, "publish"), UNCHANGED inflight, NEW owners \in SUBSET Frontends,
               pending' = [Removed(AtKey(req[r].key)) EXCEPT ![r] = owners]
        PROVE  RegistryInv'
    <3>1. \A q \in Requests \ {r} : SameIds(q) /\ (pending'[q] # NONE => pending[q] # NONE)
      BY <2>5 DEF Goes, Keeps, SameIds, Removed
    <3>2. /\ req'[r].pc = "publish" /\ req'[r].key = req[r].key /\ req'[r].owner = nmOwner'
          /\ ~req'[r].cancelled
      BY <2>1, <2>5 DEF Goes, SameData
    <3>3. QED
      BY <2>1, <2>2, <2>5, <3>1, <3>2, SMTT(40) DEF RegistryInv, PromptsAreCurrent, Pending, SameIds, Waiting
  <2>6. QED
    BY <1>5, <2>3, <2>4, <2>5, DecideMoves
<1>6. ASSUME NEW r \in Requests, PublishRefused(r) \/ Retire(r) \/ Abandon(r) PROVE RegistryInv'
  <2>1. DropGuards(r) /\ Step(r, "failed") /\ nmOwner' = nmOwner
    BY <1>6 DEF PublishRefused, Retire, Abandon, Leave
  <2>2. Fails(r)
    BY <2>1, <1>t, FailedMoves
  <2>3. QED
    BY <2>1, <2>2, GuardsLeave, LeaveMoves DEF Fails, Keeps, SameIds
<1>7. ASSUME NEW r \in Requests, Receive(r) PROVE RegistryInv'
  <2>1. DropGuards(r) /\ nmOwner' = nmOwner /\ ~req[r].cancelled /\ req[r].key \in Keys
    BY <1>7, <1>k, DeliverableMeans DEF Receive
  <2>2. Answered(r) \/ Fails(r)
    BY <1>7, ReceiveMoves
  <2>3. QED
    BY <2>1, <2>2, GuardsLeave, LeaveMoves DEF Fails, Answered, Keeps, SameIds
<1>8. ASSUME NEW r \in Requests, BeginRefused(r) \/ Reply(r) \/ Dispatch(r) PROVE RegistryInv'
  <2>1. /\ req[r].pc \in {"authorized", "reply", "dispatch"}
        /\ UNCHANGED <<inflight, pending, nmOwner>>
    BY <1>8 DEF BeginRefused, Reply, Dispatch
  <2>2. Step(r, "failed") \/ Step(r, "dispatch") \/ Step(r, "done")
    BY <1>8 DEF BeginRefused, Reply, Dispatch
  <2>3. Fails(r) \/ Goes(r, "dispatch") \/ Goes(r, "done")
    BY <2>2, <1>t, FailedMoves, StepMoves DEF Pcs
  <2>4. req[r].key \in Keys /\ ~req[r].cancelled
    BY <2>1, <1>k DEF RegistryInv
  <2>5. QED
    BY <2>1, <2>3, <2>4, OutsideMoves DEF Fails, Goes, Keeps, SameData, SameIds, Waiting
<1>9. CASE CancelGetSecrets
  <2>1. PICK k \in Keys :
          /\ req' = Superseded(Flagged({q \in Requests : inflight[k] = q}), k[1])
          /\ pending' = Removed(AtKey(k)) /\ UNCHANGED <<inflight, nmOwner>>
    BY <1>9 DEF CancelGetSecrets
  <2> DEFINE F == {q \in Requests : inflight[k] = q}
  <2>2. Turned(F, k[1])
    BY <2>1, TurnedMoves
  <2>3. \A q \in F \cap Pending : q \in AtKey(k)
    BY DEF RegistryInv, AtKey
  <2>4. AtKey(k) \in SUBSET Requests /\ \A q \in F : \E j \in Keys : inflight[j] = q
    BY DEF AtKey, Pending
  <2>5. \A q \in Requests :
            /\ req'[q].pc = req[q].pc /\ req'[q].key = req[q].key
            /\ req'[q].owner = req[q].owner
            /\ q \in F => req'[q].cancelled
            /\ q \notin F => req'[q].cancelled = req[q].cancelled
    BY <2>2 DEF Turned
  <2> HIDE DEF F
  <2>6. QED
    BY <2>1, <2>3, <2>4, <2>5, WithdrawMoves
<1>10. CASE DeleteSecrets
  <2>1. PICK p \in Paths :
          /\ req' = Superseded(Flagged({q \in Requests : \E k \in Keys : k[1] = p /\ inflight[k] = q}), p)
          /\ pending' = Removed(AtPath(p)) /\ UNCHANGED <<inflight, nmOwner>>
    BY <1>10 DEF DeleteSecrets
  <2> DEFINE F == {q \in Requests : \E k \in Keys : k[1] = p /\ inflight[k] = q}
  <2>2. Turned(F, p)
    BY <2>1, TurnedMoves
  <2>3. \A q \in F \cap Pending : q \in AtPath(p)
    BY DEF RegistryInv, AtPath, Path
  <2>4. AtPath(p) \in SUBSET Requests /\ \A q \in F : \E k \in Keys : inflight[k] = q
    BY DEF AtPath, Pending
  <2>5. \A q \in Requests :
            /\ req'[q].pc = req[q].pc /\ req'[q].key = req[q].key
            /\ req'[q].owner = req[q].owner
            /\ q \in F => req'[q].cancelled
            /\ q \notin F => req'[q].cancelled = req[q].cancelled
    BY <2>2 DEF Turned
  <2> HIDE DEF F
  <2>6. QED
    BY <2>1, <2>3, <2>4, <2>5, WithdrawMoves
<1>11. ASSUME NEW o, OwnerStep(o) PROVE RegistryInv'
  <2> DEFINE F == {q \in Requests : \E k \in Keys : inflight[k] = q}
  <2>1. /\ req' = Flagged(F) /\ inflight' = [k \in Keys |-> NONE] /\ pending' = Removed(Pending)
    BY <1>11 DEF OwnerStep, ChangeOwner
  <2>2. \A q \in Requests :
           /\ q \notin F => req'[q] = req[q]
           /\ q \in F => req'[q].cancelled
           /\ req'[q].pc = req[q].pc /\ req'[q].key = req[q].key
    BY <1>t, <2>1, FlaggedMoves, SMTT(40)
  <2>3. \A q \in Requests : pending'[q] = NONE
    BY <2>1 DEF Removed, Pending
  <2>4. \A q \in Requests : req[q].pc \in Waiting => q \in F \/ req[q].cancelled
    BY <1>k DEF RegistryInv, Waiting
  <2>5. \A q \in F : req[q].pc \in Waiting
    BY DEF RegistryInv
  <2> HIDE DEF F
  <2>6. \A k \in Keys : inflight'[k] \notin Requests
    BY <2>1, SecretBounds
  <2>7. \A q \in Requests : /\ req'[q].pc \in Waiting => req'[q].cancelled
                            /\ req'[q].pc \notin Waiting => req'[q] = req[q]
    BY <2>2, <2>4, <2>5
  <2>8. QED
    BY <2>2, <2>3, <2>6, <2>7, SMTT(40) DEF RegistryInv, PromptsAreCurrent, Pending, Waiting
<1>12. ASSUME NEW r \in Requests, NEW f \in Frontends, Provide(f, r) PROVE RegistryInv'
  <2>1. UNCHANGED <<req, inflight, nmOwner>> /\ pending' = Removed({r})
    BY <1>12 DEF Provide
  <2>2. \A q \in Requests : pending'[q] # NONE => pending[q] # NONE
    BY <2>1 DEF Removed
  <2>3. QED
    BY <2>1, <2>2, SMTT(40) DEF RegistryInv, PromptsAreCurrent, Pending
<1>13. QED
  BY <1>1, <1>2, <1>3, <1>4, <1>5, <1>6, <1>7, <1>8, <1>9, <1>10, <1>11, <1>12
     DEF SecretStep, Quiet, RequestStep, SaveStep, Write, WriteExpired, Written, Stage,
         ExpireHandoff, SaveSecrets

-----------------------------------------------------------------------------
\* The events of one request, and what a step may add to them.
EventsOf(r) ==
    /\ req[r].pc \in {"idle", "authorized", "lookup", "decide"} => shown[r] = {}
    /\ req[r].pc = "publish" /\ pending[r] # NONE => shown[r] = {}
    /\ "cancelled" \in shown[r] => req[r].cancelled \/ req[r].pc = "failed"
    /\ shown[r] \cap {"delivered", "stored", "failed"} # {} => req[r].pc = "done"

OrderOf(r) ==
    /\ "requested" \in shown'[r] \ shown[r] => shown[r] = {}
    /\ "delivered" \in shown'[r] \ shown[r] =>
         "cancelled" \notin shown[r] /\ req[r].owner = nmOwner
    /\ "cancelled" \in shown'[r] \ shown[r] => "delivered" \notin shown[r]

Untold(q) ==
    /\ shown'[q] = shown[q] /\ req'[q].pc = req[q].pc
    /\ req[q].cancelled => req'[q].cancelled
    /\ pending'[q] # NONE => pending[q] # NONE

LEMMA UntoldFrame ==
  ASSUME NEW q \in Requests, EventsOf(q), Untold(q) PROVE EventsOf(q)' /\ OrderOf(q)
BY DEF EventsOf, OrderOf, Untold

\* The prompts of rs are withdrawn and their cancellations shown.
LEMMA WithdrawEvents ==
  ASSUME SecretType, RegistryInv, EventsInv, NEW rs \in SUBSET Pending,
         pending' = Removed(rs), Emit(rs, "cancelled"),
         \A q \in Requests :
            /\ req'[q].pc = req[q].pc
            /\ req[q].cancelled => req'[q].cancelled
            /\ q \in rs => req'[q].cancelled
  PROVE  \A q \in Requests : EventsOf(q)' /\ OrderOf(q)
<1> SUFFICES ASSUME NEW q \in Requests PROVE EventsOf(q)' /\ OrderOf(q)
  OBVIOUS
<1>0. EventsOf(q)
  BY DEF EventsInv, EventsOf
<1>1. CASE q \in rs
  <2>1. shown'[q] = shown[q] \cup {"cancelled"} /\ pending'[q] = NONE
    BY <1>1 DEF Emit, Removed
  <2>2. req[q].pc \in {"publish", "receive"}
    BY <1>1 DEF RegistryInv, PromptsAreCurrent
  <2>3. QED
    BY <1>0, <1>1, <2>1, <2>2 DEF EventsOf, OrderOf
<1>2. CASE q \notin rs
  <2>1. Untold(q)
    BY <1>2 DEF Emit, Removed, Untold
  <2>2. QED
    BY <1>0, <2>1, UntoldFrame
<1>3. QED
  BY <1>1, <1>2

LEMMA EventsStep ==
  ASSUME SecretType, RegistryInv, EventsInv, SaveInv, SecretStep
  PROVE  \A q \in Requests : EventsOf(q)' /\ OrderOf(q)
<1> DEFINE Good == \A q \in Requests : EventsOf(q)' /\ OrderOf(q)
<1> SUFFICES Good
  OBVIOUS
<1>t. req \in [Requests -> Call] /\ shown \in [Requests -> SUBSET Event]
  BY DEF SecretType
<1>e. \A q \in Requests : EventsOf(q)
  BY DEF EventsInv, EventsOf
<1>f. ASSUME NEW r \in Requests, \A q \in Requests \ {r} : Untold(q), EventsOf(r)' /\ OrderOf(r)
      PROVE  Good
  BY <1>e, <1>f, UntoldFrame
<1>u. ASSUME \A q \in Requests : Untold(q) PROVE Good
  BY <1>e, <1>u, UntoldFrame
<1> HIDE DEF Good
<1>1. CASE UNCHANGED <<req, pending, shown>>
  BY <1>1, <1>u DEF Untold
<1>2. ASSUME NEW r \in Requests, GetSecrets(r) PROVE Good
  <2>1. req[r].pc = "idle" /\ UNCHANGED <<pending, shown>>
    BY <1>2 DEF GetSecrets
  <2>2. CASE Fails(r)
    <3>1. \A q \in Requests \ {r} : Untold(q)
      BY <2>1, <2>2 DEF Fails, Keeps, Untold
    <3>2. EventsOf(r)' /\ OrderOf(r)
      BY <1>e, <2>1, <2>2 DEF Fails, EventsOf, OrderOf
    <3>3. QED
      BY <1>f, <3>1, <3>2
  <2>3. ASSUME NEW k \in Keys, Called(r, k) PROVE Good
    <3>1. \A q \in Requests \ {r} : Untold(q)
      BY <2>1, <2>3 DEF Called, Untold
    <3>2. EventsOf(r)' /\ OrderOf(r)
      BY <1>e, <2>1, <2>3 DEF Called, EventsOf, OrderOf
    <3>3. QED
      BY <1>f, <3>1, <3>2
  <2>4. QED
    BY <1>2, <2>2, <2>3, GetSecretsMoves
<1>3. ASSUME NEW r \in Requests, Begin(r) PROVE Good
  <2> DEFINE k == req[r].key
  <2>1. /\ req[r].pc = "authorized" /\ Displaces(r)
        /\ pending' = Removed(AtKey(k)) /\ Emit(AtKey(k), "cancelled")
    BY <1>3, BeginMoves DEF Begin
  <2>2. AtKey(k) \subseteq Pending /\ r \notin AtKey(k)
    BY <2>1 DEF AtKey, RegistryInv, PromptsAreCurrent
  <2>3. \A q \in AtKey(k) : inflight[k] = q /\ q \in Requests
                             /\ req[q].pc \in {"publish", "receive"}
    BY DEF AtKey, Pending, RegistryInv, PromptsAreCurrent
  <2>4. \A q \in Requests : /\ q # r => req'[q].pc = req[q].pc
                            /\ q \in AtKey(k) => req'[q].cancelled
                            /\ req[q].cancelled => req'[q].cancelled
    BY <2>1, <2>3 DEF Displaces
  <2>5. req'[r].pc = "lookup" /\ shown'[r] = shown[r]
    BY <2>1, <2>2 DEF Displaces, Emit
  <2>6. EventsOf(r)' /\ OrderOf(r)
    BY <1>e, <2>1, <2>5 DEF EventsOf, OrderOf
  <2> HIDE DEF k
  <2>7. ASSUME NEW q \in Requests \ {r}, q \in AtKey(k) PROVE EventsOf(q)' /\ OrderOf(q)
    <3>1. shown'[q] = shown[q] \cup {"cancelled"} /\ pending'[q] = NONE
      BY <2>1, <2>7 DEF Emit, Removed
    <3>2. QED
      BY <1>e, <2>3, <2>4, <2>7, <3>1 DEF EventsOf, OrderOf
  <2>8. ASSUME NEW q \in Requests \ {r}, q \notin AtKey(k) PROVE EventsOf(q)' /\ OrderOf(q)
    <3>1. Untold(q)
      BY <2>1, <2>4, <2>8 DEF Emit, Removed, Untold
    <3>2. QED
      BY <1>e, <3>1, UntoldFrame
  <2>9. QED
    BY <2>6, <2>7, <2>8 DEF Good
<1>4. ASSUME NEW r \in Requests, Lookup(r) \/ Decide(r) PROVE Good
  <2>1. req[r].pc \in {"lookup", "decide"} /\ shown' = shown /\ shown[r] = {}
    BY <1>4, <1>e DEF Lookup, Decide, EventsOf
  <2>2. Keeps(r)
    BY <1>4, LookupMoves, DecideMoves DEF Takes, Goes, Fails
  <2>3. \A q \in Requests \ {r} : pending'[q] # NONE => pending[q] # NONE
    <3>1. CASE Lookup(r)
      BY <3>1 DEF Lookup
    <3>2. CASE Decide(r)
      <4>1. CASE UNCHANGED pending
        BY <4>1
      <4>2. CASE pending' = Removed({r})
        BY <4>2 DEF Removed
      <4>3. ASSUME NEW owners, pending' = [Removed(AtKey(req[r].key)) EXCEPT ![r] = owners]
            PROVE  \A q \in Requests \ {r} : pending'[q] # NONE => pending[q] # NONE
        BY <4>3 DEF Removed
      <4>4. QED
        BY <3>2, <4>1, <4>2, <4>3, DecideMoves DEF DropGuards
    <3>3. QED
      BY <1>4, <3>1, <3>2
  <2>4. \A q \in Requests \ {r} : Untold(q)
    BY <2>1, <2>2, <2>3 DEF Keeps, Untold
  <2>5. EventsOf(r)' /\ OrderOf(r)
    BY <2>1 DEF EventsOf, OrderOf
  <2>6. QED
    BY <1>f, <2>4, <2>5
<1>5. ASSUME NEW r \in Requests, Publish(r) PROVE Good
  <2>1. /\ req[r].pc = "publish" /\ pending[r] # NONE /\ UNCHANGED pending
        /\ Goes(r, "receive") /\ Emit({r}, "requested")
    BY <1>5, <1>t, StepMoves DEF Publish, Pcs
  <2>2. \A q \in Requests \ {r} : Untold(q)
    BY <2>1 DEF Goes, Keeps, Emit, Untold
  <2>3. shown[r] = {} /\ shown'[r] = {"requested"}
    BY <1>e, <2>1 DEF EventsOf, Emit
  <2>4. EventsOf(r)' /\ OrderOf(r)
    BY <2>1, <2>3 DEF EventsOf, OrderOf, Goes
  <2>5. QED
    BY <1>f, <2>2, <2>4
<1>6. ASSUME NEW r \in Requests,
             PublishRefused(r) \/ Abandon(r) \/ BeginRefused(r) \/ Retire(r)
      PROVE  Good
  <2>1. /\ req[r].pc \in {"authorized", "lookup", "decide", "publish", "receive"}
        /\ Step(r, "failed") /\ (shown' = shown \/ Emit({r}, "cancelled"))
        /\ pending' = pending \/ pending' = Removed({r})
    BY <1>6 DEF PublishRefused, Abandon, BeginRefused, Retire, Leave, DropGuards
  <2>2. Fails(r)
    BY <1>t, <2>1, FailedMoves
  <2>3. \A q \in Requests \ {r} : Untold(q)
    BY <2>1, <2>2 DEF Fails, Keeps, Emit, Removed, Untold
  <2>4. shown'[r] = shown[r] \/ shown'[r] = shown[r] \cup {"cancelled"}
    BY <2>1 DEF Emit
  <2>5. EventsOf(r)' /\ OrderOf(r)
    BY <1>e, <2>1, <2>2, <2>4 DEF EventsOf, OrderOf, Fails
  <2>6. QED
    BY <1>f, <2>3, <2>5
<1>7. ASSUME NEW r \in Requests, Receive(r) PROVE Good
  <2>1. /\ req[r].pc = "receive" /\ shown' = shown /\ pending' = Removed({r})
        /\ Answered(r) \/ Fails(r)
    BY <1>7, ReceiveMoves DEF Receive, DropGuards
  <2>2. \A q \in Requests \ {r} : Untold(q)
    BY <2>1 DEF Fails, Answered, Keeps, Removed, Untold
  <2>3. EventsOf(r)' /\ OrderOf(r)
    BY <1>e, <2>1 DEF EventsOf, OrderOf, Fails, Answered
  <2>4. QED
    BY <1>f, <2>2, <2>3
<1>8. ASSUME NEW r \in Requests, Reply(r) PROVE Good
  <2>1. /\ req[r].pc = "reply" /\ pending' = pending
        /\ \/ Step(r, "dispatch") /\ shown' = shown
           \/ Step(r, "failed") /\ Emit({r}, "cancelled")
    BY <1>8 DEF Reply
  <2>2. \/ Goes(r, "dispatch") /\ shown' = shown
        \/ Fails(r) /\ Emit({r}, "cancelled")
    BY <1>t, <2>1, StepMoves, FailedMoves DEF Pcs
  <2>3. \A q \in Requests \ {r} : Untold(q)
    BY <2>1, <2>2 DEF Fails, Goes, Keeps, Emit, Untold
  <2>4. shown'[r] = shown[r] \/ shown'[r] = shown[r] \cup {"cancelled"}
    BY <2>2 DEF Emit
  <2>5. EventsOf(r)' /\ OrderOf(r)
    BY <1>e, <2>1, <2>2, <2>4 DEF EventsOf, OrderOf, Fails, Goes, SameData, Emit
  <2>6. QED
    BY <1>f, <2>3, <2>5
<1>9. ASSUME NEW r \in Requests, Dispatch(r) PROVE Good
  <2>1. /\ req[r].pc = "dispatch" /\ pending' = pending /\ Goes(r, "done")
    BY <1>9, <1>t, StepMoves DEF Dispatch, Pcs
  <2>2. \/ shown' = shown
        \/ /\ req[r].owner = nmOwner
           /\ shown' = [shown EXCEPT ![r] = @ \cup {"delivered"}
                     \cup (IF req[r].save /\ Cardinality(Saving) >= Capacity THEN {"failed"} ELSE {})]
    BY <1>9 DEF Dispatch
  <2>3. \A q \in Requests \ {r} : Untold(q)
    BY <1>t, <2>1, <2>2 DEF Goes, Keeps, Untold
  <2>4. /\ shown'[r] \subseteq shown[r] \cup {"delivered", "failed"}
        /\ shown'[r] # shown[r] => req[r].owner = nmOwner
    BY <1>t, <2>2, SMTT(40)
  <2>5. "cancelled" \notin shown[r]
    BY <1>e, <2>1 DEF EventsOf, RegistryInv
  <2>6. EventsOf(r)' /\ OrderOf(r)
    BY <2>1, <2>4, <2>5 DEF EventsOf, OrderOf, Goes
  <2>7. QED
    BY <1>f, <2>3, <2>6
<1>10. ASSUME NEW r \in Requests, SaveStep(r) PROVE Good
  <2>1. /\ save[r] \in {"queued", "writing"} /\ UNCHANGED <<req, pending>>
        /\ shown' = shown \/ Emit({r}, "failed") \/ Emit({r}, "stored")
    BY <1>10 DEF SaveStep, Write, WriteExpired, Written, Over
  <2>2. req[r].pc = "done"
    BY <2>1 DEF SaveInv
  <2>3. \A q \in Requests \ {r} : Untold(q)
    BY <2>1 DEF Emit, Untold
  <2>4. shown'[r] \subseteq shown[r] \cup {"failed", "stored"}
    BY <2>1 DEF Emit
  <2>5. EventsOf(r)' /\ OrderOf(r)
    BY <1>e, <2>1, <2>2, <2>4 DEF EventsOf, OrderOf
  <2>6. QED
    BY <1>f, <2>3, <2>5
<1>11. ASSUME NEW r \in Requests, RequestTime(r) PROVE Good
  <2>1. Goes(r, req[r].pc) /\ UNCHANGED <<pending, shown>>
    BY <1>11, TimeMoves DEF RequestTime
  <2>2. QED
    BY <2>1, <1>u DEF Goes, Keeps, SameData, Untold
<1>12. CASE CancelGetSecrets
  <2>1. PICK k \in Keys :
          /\ req' = Superseded(Flagged({q \in Requests : inflight[k] = q}), k[1])
          /\ pending' = Removed(AtKey(k)) /\ Emit(AtKey(k), "cancelled")
    BY <1>12 DEF CancelGetSecrets
  <2>2. Turned({q \in Requests : inflight[k] = q}, k[1])
    BY <2>1, TurnedMoves
  <2>3. AtKey(k) \in SUBSET Pending /\ \A q \in AtKey(k) : inflight[k] = q
    BY DEF AtKey, RegistryInv, PromptsAreCurrent
  <2>4. \A q \in Requests :
            /\ req'[q].pc = req[q].pc
            /\ req[q].cancelled => req'[q].cancelled
            /\ q \in AtKey(k) => req'[q].cancelled
    BY <2>2, <2>3 DEF Turned
  <2>5. QED
    BY <2>1, <2>3, <2>4, WithdrawEvents DEF Good
<1>13. CASE DeleteSecrets
  <2>1. PICK p \in Paths :
          /\ req' = Superseded(Flagged({q \in Requests : \E k \in Keys : k[1] = p /\ inflight[k] = q}), p)
          /\ pending' = Removed(AtPath(p)) /\ Emit(AtPath(p), "cancelled")
    BY <1>13 DEF DeleteSecrets
  <2> DEFINE F == {q \in Requests : \E k \in Keys : k[1] = p /\ inflight[k] = q}
  <2>2. Turned(F, p)
    BY <2>1, TurnedMoves
  <2>3. AtPath(p) \in SUBSET Pending /\ \A q \in AtPath(p) : q \in F
    BY DEF AtPath, Path, Pending, RegistryInv, PromptsAreCurrent
  <2> HIDE DEF F
  <2>4. \A q \in Requests :
            /\ req'[q].pc = req[q].pc
            /\ req[q].cancelled => req'[q].cancelled
            /\ q \in AtPath(p) => req'[q].cancelled
    BY <2>2, <2>3 DEF Turned
  <2>5. QED
    BY <2>1, <2>3, <2>4, WithdrawEvents DEF Good
<1>14. ASSUME NEW o, OwnerStep(o) PROVE Good
  <2> DEFINE F == {q \in Requests : \E k \in Keys : inflight[k] = q}
  <2>1. req' = Flagged(F) /\ pending' = Removed(Pending) /\ Emit(Pending, "cancelled")
    BY <1>14 DEF OwnerStep, ChangeOwner
  <2>2. \A q \in Requests :
           /\ q \notin F => req'[q] = req[q]
           /\ q \in F => req'[q].cancelled
           /\ req'[q].pc = req[q].pc
    BY <1>t, <2>1, FlaggedMoves, SMTT(40)
  <2>3. Pending \in SUBSET Pending /\ \A q \in Pending : q \in F
    BY DEF Pending, RegistryInv, PromptsAreCurrent
  <2> HIDE DEF F
  <2>4. \A q \in Requests :
            /\ req'[q].pc = req[q].pc
            /\ req[q].cancelled => req'[q].cancelled
            /\ q \in Pending => req'[q].cancelled
    BY <2>2, <2>3
  <2>5. QED
    BY <2>1, <2>3, <2>4, WithdrawEvents DEF Good
<1>15. ASSUME NEW r \in Requests, NEW f \in Frontends, Provide(f, r) PROVE Good
  <2>1. UNCHANGED <<req, shown>> /\ pending' = Removed({r})
    BY <1>15 DEF Provide
  <2>2. QED
    BY <2>1, <1>u DEF Removed, Untold
<1>16. QED
  BY <1>1, <1>2, <1>3, <1>4, <1>5, <1>6, <1>7, <1>8, <1>9, <1>10, <1>11, <1>12, <1>13, <1>14,
     <1>15
     DEF SecretStep, Quiet, RequestStep, Stage, ExpireHandoff, SaveSecrets

-----------------------------------------------------------------------------
\* The handoff.
Early == {"idle", "authorized", "lookup"}

SameHandoff(q) ==
    /\ req'[q].source = req[q].source
    /\ req'[q].key = req[q].key \/ req[q].source = 0
    /\ req'[q].pc \in Early => req[q].pc \in Early

\* What a lookup changes about a request.
HandedOver(r) ==
    /\ \E e \in session : e.stamp = req'[r].source /\ e.owner = req[r].owner
                          /\ e.path = Path(r) /\ Setting(r) \in e.settings
    /\ \A e \in session' : e.stamp = req'[r].source => Setting(r) \notin e.settings
    /\ \A q \in Requests \ {r} : req[q].source = req'[r].source => Setting(q) # Setting(r)

HandoffGood == HandoffInv' /\ \A r \in Requests : req'[r].source # req[r].source => HandedOver(r)

LEMMA HandoffFrame ==
  ASSUME SecretType, HandoffInv, session' \subseteq session, staged' = staged,
         \A q \in Requests : SameHandoff(q)
  PROVE  HandoffGood
<1>1. \A e \in session : e.stamp \in 1..staged /\ e.stamp # 0
  BY SMTT(40) DEF HandoffInv
<1>2. \A q \in Requests, e \in session' : req'[q].source = e.stamp => Setting(q)' \notin e.settings
  BY <1>1 DEF HandoffInv, SameHandoff, Setting
<1>3. \A q \in Requests : /\ req'[q].source <= staged'
                          /\ req'[q].pc \in Early => req'[q].source = 0
  BY DEF HandoffInv, SameHandoff, Early
<1>4. QED
  BY <1>1, <1>2, <1>3 DEF HandoffInv, HandoffGood, SameHandoff, Early

LEMMA StageHandoff ==
  ASSUME SecretType, HandoffInv, Stage PROVE HandoffGood
<1> DEFINE kept == {e \in session : e.path # staging.path}
           new == [owner |-> staging.owner, path |-> staging.path,
                   settings |-> staging.settings, stamp |-> staged + 1]
<1>1. /\ staged' = staged + 1 /\ req' = req /\ staged \in Nat /\ req \in [Requests -> Call]
      /\ session' = kept \/ session' = Evicted(kept) \cup {new}
  BY DEF Stage, SecretType
<1>2. Evicted(kept) \subseteq kept
  BY DEF Evicted
<1>3. new.stamp = staged + 1
  OBVIOUS
<1>4. kept \subseteq session
  OBVIOUS
<1> HIDE DEF kept, new
<1>5. session' \subseteq session \cup {new}
  BY <1>1, <1>2, <1>4
<1>6. \A e \in session : e.stamp \in 1..staged /\ e.stamp # staged + 1
  BY <1>1, SMTT(40) DEF HandoffInv
<1>7. \A e, f \in session' : e.stamp = f.stamp => e = f
  BY <1>3, <1>5, <1>6 DEF HandoffInv
<1>8. \A e \in session' : e.stamp \in 1..staged'
  BY <1>1, <1>3, <1>5, <1>6, SMTT(40)
<1>9. \A r \in Requests : req[r].source \in Nat /\ req[r].source <= staged
  BY <1>1 DEF HandoffInv, Call
<1>10. \A r \in Requests : req[r].source <= staged' /\ req[r].source # staged + 1
  BY <1>1, <1>9, SMTT(40)
<1>11. \A r \in Requests, e \in session' : req[r].source = e.stamp => Setting(r) \notin e.settings
  BY <1>3, <1>5, <1>10 DEF HandoffInv
<1>12. QED
  BY <1>1, <1>7, <1>8, <1>10, <1>11 DEF HandoffInv, HandoffGood, Setting

LEMMA TakenHandoff ==
  ASSUME SecretType, HandoffInv, NEW r \in Requests, req[r].pc = "lookup", staged' = staged,
         session' = (session \ Matching(r)) \cup UNION {Emptied(e, Setting(r)) : e \in Matching(r)},
         Matching(r) # {}, NEW m \in Matching(r), Takes(r, m.stamp)
  PROVE  HandoffGood
<1> DEFINE s == Setting(r)
<1>1. m \in session /\ m.owner = req[r].owner /\ m.path = Path(r) /\ s \in m.settings
  BY DEF Matching
<1>2. \A f \in Matching(r) : \A e \in Emptied(f, s) : e = [f EXCEPT !.settings = @ \ {s}]
  BY DEF Emptied
<1>3. \A f \in session : [f EXCEPT !.settings = @ \ {s}].stamp = f.stamp
                         /\ [f EXCEPT !.settings = @ \ {s}].settings = f.settings \ {s}
  BY DEF SecretType, Entry
<1>4. ASSUME NEW e \in session'
      PROVE  \E f \in session : /\ e.stamp = f.stamp
                                /\ \/ e = f /\ f \notin Matching(r)
                                   \/ e = [f EXCEPT !.settings = @ \ {s}] /\ f \in Matching(r)
  <2>1. CASE e \in session \ Matching(r)
    BY <2>1
  <2>2. ASSUME NEW f \in Matching(r), e \in Emptied(f, s)
        PROVE  /\ f \in session /\ e.stamp = f.stamp
               /\ e = [f EXCEPT !.settings = @ \ {s}] /\ f \in Matching(r)
    BY <1>2, <1>3, <2>2 DEF Matching
  <2>3. QED
    BY <2>1, <2>2
<1>5. \A f, g \in session : f.stamp = g.stamp => f = g
  BY DEF HandoffInv
<1>6. ASSUME NEW e \in session', NEW f \in session', e.stamp = f.stamp PROVE e = f
  <2>1. PICK g \in session : /\ e.stamp = g.stamp
                             /\ \/ e = g /\ g \notin Matching(r)
                                \/ e = [g EXCEPT !.settings = @ \ {s}] /\ g \in Matching(r)
    BY <1>4
  <2>2. PICK h \in session : /\ f.stamp = h.stamp
                             /\ \/ f = h /\ h \notin Matching(r)
                                \/ f = [h EXCEPT !.settings = @ \ {s}] /\ h \in Matching(r)
    BY <1>4
  <2>3. g = h
    BY <1>5, <1>6, <2>1, <2>2
  <2>4. QED
    BY <2>1, <2>2, <2>3
<1>7. \A e \in session' : e.stamp \in 1..staged' 
  BY <1>4 DEF HandoffInv
<1>8. \A e \in session' : \E f \in session :
         e.stamp = f.stamp /\ e.settings \subseteq f.settings /\ (f \in Matching(r) => s \notin e.settings)
  BY <1>3, <1>4
<1>9. \A e \in session' : e.stamp = m.stamp => s \notin e.settings
  BY <1>1, <1>5, <1>8, SMTT(40)
<1>10. \A q \in Requests \ {r} : req'[q] = req[q]
  BY DEF Takes, Keeps
<1>11. req'[r].source = m.stamp /\ req'[r].key = req[r].key /\ req'[r].pc = "decide"
  BY DEF Takes
<1>12. \A q \in Requests, e \in session' : req'[q].source = e.stamp => req'[q].key[2] \notin e.settings
  <2>1. ASSUME NEW q \in Requests \ {r}, NEW e \in session', req[q].source = e.stamp
        PROVE  req[q].key[2] \notin e.settings
    BY <1>8, <2>1, SMTT(40) DEF HandoffInv, Setting
  <2>2. ASSUME NEW e \in session', req'[r].source = e.stamp PROVE req'[r].key[2] \notin e.settings
    BY <1>9, <1>11, <2>2 DEF Setting
  <2>3. QED
    BY <1>10, <2>1, <2>2
<1>13. m.stamp <= staged
  <2>1. m.stamp \in 1..staged
    BY <1>1 DEF HandoffInv
  <2>2. staged \in Nat
    BY DEF SecretType
  <2>3. QED
    BY <2>1, <2>2, SMTT(40)
<1>14. \A q \in Requests : req'[q].source <= staged'
                           /\ (req'[q].pc \in {"idle", "authorized", "lookup"} => req'[q].source = 0)
  BY <1>10, <1>11, <1>13 DEF HandoffInv
<1>15. HandoffInv'
  BY <1>6, <1>7, <1>12, <1>14 DEF HandoffInv, Setting
<1>16. \A q \in Requests \ {r} : req[q].source = m.stamp => Setting(q) # s
  BY <1>1 DEF HandoffInv
<1>17. HandedOver(r)
  BY <1>1, <1>9, <1>11, <1>16 DEF HandedOver
<1>18. QED
  BY <1>10, <1>15, <1>17 DEF HandoffGood

LEMMA HandoffStep ==
  ASSUME SecretType, HandoffInv, SecretStep PROVE HandoffGood
<1>t. req \in [Requests -> Call]
  BY DEF SecretType
<1>z. \A q \in Requests : req[q].pc \in Early => req[q].source = 0
  BY DEF HandoffInv, Early
<1>1. CASE UNCHANGED <<req, staged>> /\ session' \subseteq session
  BY <1>1, HandoffFrame DEF SameHandoff
<1>2. ASSUME NEW r \in Requests, GetSecrets(r) PROVE HandoffGood
  <2>1. req[r].pc = "idle" /\ UNCHANGED <<session, staged>>
    BY <1>2 DEF GetSecrets, handoff
  <2>2. CASE Fails(r)
    BY <2>1, <2>2, HandoffFrame DEF Fails, Keeps, SameHandoff, Early
  <2>3. ASSUME NEW k \in Keys, Called(r, k) PROVE HandoffGood
    BY <1>z, <2>1, <2>3, HandoffFrame DEF Called, SameHandoff, Early
  <2>4. QED
    BY <1>2, <2>2, <2>3, GetSecretsMoves
<1>3. ASSUME NEW r \in Requests, Begin(r) PROVE HandoffGood
  <2>1. req[r].pc = "authorized" /\ UNCHANGED <<session, staged>> /\ Displaces(r)
    BY <1>3, BeginMoves DEF Begin, handoff
  <2>2. QED
    BY <2>1, HandoffFrame DEF Displaces, SameHandoff, Early
<1>4. ASSUME NEW r \in Requests, Lookup(r) PROVE HandoffGood
  <2>1. req[r].pc = "lookup" /\ staged' = staged
    BY <1>4 DEF Lookup
  <2>2. CASE Goes(r, "decide") /\ session' = {e \in session : e.path # Path(r)}
    BY <2>1, <2>2, HandoffFrame DEF Goes, Keeps, SameData, SameHandoff, Early
  <2> DEFINE S == (session \ Matching(r)) \cup UNION {Emptied(e, Setting(r)) : e \in Matching(r)}
  <2>3. CASE session' = S /\ Matching(r) = {} /\ Takes(r, 0)
    <3>1. session' = session
      BY <2>3
    <3>2. QED
      BY <1>z, <2>1, <2>3, <3>1, HandoffFrame DEF Takes, Keeps, SameHandoff, Early
  <2>4. CASE session' = S /\ Matching(r) # {} /\ \E e \in Matching(r) : Takes(r, e.stamp)
    BY <2>1, <2>4, TakenHandoff
  <2>5. QED
    BY <1>4, <2>2, <2>3, <2>4, LookupMoves
<1>5. ASSUME NEW r \in Requests, NEW pc \in Pcs \ Early, Goes(r, pc), UNCHANGED <<session, staged>>
      PROVE  HandoffGood
  BY <1>5, HandoffFrame DEF Goes, Keeps, SameData, SameHandoff
<1>6. ASSUME NEW r \in Requests, Fails(r), UNCHANGED <<session, staged>> PROVE HandoffGood
  BY <1>6, HandoffFrame DEF Fails, Keeps, SameHandoff, Early
<1>7. ASSUME NEW r \in Requests, Decide(r) PROVE HandoffGood
  <2>1. UNCHANGED <<session, staged>> /\ (Goes(r, "reply") \/ Fails(r) \/ Goes(r, "publish"))
    BY <1>7, DecideMoves DEF Decide, handoff
  <2>2. QED
    BY <1>5, <1>6, <2>1 DEF Pcs, Early
<1>8. ASSUME NEW r \in Requests, PublishRefused(r) \/ Retire(r) \/ Abandon(r) \/ BeginRefused(r)
      PROVE  HandoffGood
  <2>1. UNCHANGED <<session, staged>> /\ Step(r, "failed")
    BY <1>8 DEF PublishRefused, Retire, Abandon, BeginRefused, Leave, handoff
  <2>2. QED
    BY <1>t, <1>6, <2>1, FailedMoves
<1>9. ASSUME NEW r \in Requests, Publish(r) \/ Reply(r) \/ Dispatch(r) PROVE HandoffGood
  <2>1. /\ UNCHANGED <<session, staged>>
        /\ Step(r, "receive") \/ Step(r, "dispatch") \/ Step(r, "failed") \/ Step(r, "done")
    BY <1>9 DEF Publish, Reply, Dispatch, handoff
  <2>2. Goes(r, "receive") \/ Goes(r, "dispatch") \/ Fails(r) \/ Goes(r, "done")
    BY <1>t, <2>1, FailedMoves, StepMoves DEF Pcs
  <2>3. QED
    BY <1>5, <1>6, <2>1, <2>2 DEF Pcs, Early
<1>10. ASSUME NEW r \in Requests, Receive(r) PROVE HandoffGood
  <2>1. UNCHANGED <<session, staged>> /\ (Answered(r) \/ Fails(r))
    BY <1>10, ReceiveMoves DEF Receive, handoff
  <2>2. QED
    BY <1>6, <2>1, HandoffFrame DEF Answered, Keeps, SameHandoff, Early
<1>11. ASSUME NEW r \in Requests, RequestTime(r) PROVE HandoffGood
  <2>1. UNCHANGED <<session, staged>> /\ Goes(r, req[r].pc)
    BY <1>11, TimeMoves DEF RequestTime, handoff
  <2>2. QED
    BY <2>1, HandoffFrame DEF Goes, Keeps, SameData, SameHandoff
<1>12. CASE CancelGetSecrets
  <2>1. PICK k \in Keys :
          /\ req' = Superseded(Flagged({q \in Requests : inflight[k] = q}), k[1])
          /\ session' = {e \in session : e.path # k[1]} /\ staged' = staged
    BY <1>12 DEF CancelGetSecrets
  <2>2. Turned({q \in Requests : inflight[k] = q}, k[1])
    BY <2>1, TurnedMoves
  <2>3. QED
    BY <2>1, <2>2, HandoffFrame DEF Turned, SameHandoff
<1>13. CASE DeleteSecrets
  <2>1. PICK p \in Paths :
          /\ req' = Superseded(Flagged({q \in Requests : \E k \in Keys : k[1] = p /\ inflight[k] = q}), p)
          /\ session' = {e \in session : e.path # p} /\ staged' = staged
    BY <1>13 DEF DeleteSecrets
  <2> DEFINE F == {q \in Requests : \E k \in Keys : k[1] = p /\ inflight[k] = q}
  <2>2. Turned(F, p)
    BY <2>1, TurnedMoves
  <2> HIDE DEF F
  <2>3. QED
    BY <2>1, <2>2, HandoffFrame DEF Turned, SameHandoff
<1>14. ASSUME NEW o, OwnerStep(o) PROVE HandoffGood
  <2> DEFINE F == {q \in Requests : \E k \in Keys : inflight[k] = q}
  <2>1. req' = Flagged(F) /\ session' = {} /\ staged' = staged
    BY <1>14 DEF OwnerStep, ChangeOwner
  <2>2. \A q \in Requests :
           /\ req'[q].pc = req[q].pc /\ req'[q].key = req[q].key
           /\ req'[q].source = req[q].source
    BY <1>t, <2>1, FlaggedMoves, SMTT(40)
  <2>3. QED
    BY <2>1, <2>2, HandoffFrame DEF SameHandoff
<1>15. QED
  BY <1>1, <1>2, <1>3, <1>4, <1>7, <1>8, <1>9, <1>10, <1>11, <1>12, <1>13, <1>14, StageHandoff,
     Zenon, SMTT(40)
     DEF SecretStep, Quiet, RequestStep, SaveStep, Write, WriteExpired, Written, ExpireHandoff,
         SaveSecrets, Provide, handoff

-----------------------------------------------------------------------------
\* The durable saves, request by request.
SaveOf(r) ==
    /\ ticket[r] = "held" => req[r].pc \in {"dispatch", "done"} /\ ~req[r].gone
    /\ req[r].pc \notin {"dispatch", "done"} => ~req[r].gone
    /\ save[r] # "none" => req[r].pc = "done"
    /\ save[r] \in {"queued", "writing"} =>
          /\ "delivered" \in shown[r] /\ req[r].save
          /\ "stored" \notin shown[r] /\ "failed" \notin shown[r]
    /\ "stored" \in shown[r] =>
          /\ save[r] = "over" /\ "delivered" \in shown[r] /\ "failed" \notin shown[r]
          /\ req[r].save /\ ~req[r].gone
    /\ save[r] = "writing" <=> writer = r

LEMMA SaveParts == SaveInv <=> (\A r \in Requests : SaveOf(r)) /\ Cardinality(Saving) <= Capacity
BY DEF SaveInv, SavesAreCurrent, SaveOf

\* Nothing about the save of q is decided or told.
SameQueue(q) ==
    /\ save'[q] = save[q] /\ (writer' = q <=> writer = q)
    /\ \A v \in {"delivered", "stored", "failed"} : v \in shown'[q] <=> v \in shown[q]

\* Only NetworkManager turns to its profile, which cancels the ticket.
SameSave(q) ==
    /\ SameQueue(q)
    /\ req'[q].pc = req[q].pc /\ req'[q].save = req[q].save
    /\ ticket'[q] \in {ticket[q], "cancelled"}
    /\ req'[q].gone => \/ req[q].gone
                       \/ /\ req[q].pc \in {"dispatch", "done"} /\ "stored" \notin shown[q]
                          /\ ticket'[q] # "held"

\* The request is on this side of its reply.
BeforeReply(q) ==
    /\ SameQueue(q)
    /\ req[q].pc \notin {"dispatch", "done"} /\ req'[q].pc \notin {"dispatch", "done"}
    /\ ~req'[q].gone /\ ticket'[q] \in {ticket[q], "cancelled"}

LEMMA SaveFrame ==
  ASSUME SecretType, NEW q \in Requests, SaveOf(q), SameSave(q) \/ BeforeReply(q) PROVE SaveOf(q)'
<1>1. ticket[q] \in {"none", "held", "cancelled"}
  BY DEF SecretType
<1>2. CASE SameSave(q)
  BY <1>1, <1>2 DEF SaveOf, SameSave, SameQueue
<1>3. CASE BeforeReply(q)
  BY <1>1, <1>3 DEF SaveOf, BeforeReply, SameQueue
<1>4. QED
  BY <1>2, <1>3

\* The arithmetic of the queue's bound, shown below for finitely many requests.
QueueRule ==
    /\ \/ Saving' \subseteq Saving
       \/ Cardinality(Saving) < Capacity /\ \E r \in Requests : Saving' \subseteq Saving \cup {r}
       => (Cardinality(Saving) <= Capacity => (Cardinality(Saving) <= Capacity)')
    /\ Cardinality(Saving) >= Capacity \/ Cardinality(Saving) < Capacity

\* Every ticket of the profile p is cancelled when NetworkManager turns to it.
LEMMA InvalidatedTickets ==
  ASSUME NEW p, ticket' = Invalidated(p), NEW q \in Requests
  PROVE  ticket'[q] \in {ticket[q], "cancelled"} /\ (Path(q) = p => ticket'[q] # "held")
BY DEF Invalidated

LEMMA SaveSteps ==
  ASSUME SecretType, SaveInv, QueueRule, NEW r \in Requests, SaveStep(r) PROVE SaveInv'
<1>t. /\ save \in [Requests -> {"none", "queued", "writing", "over"}]
      /\ ticket \in [Requests -> {"none", "held", "cancelled"}]
      /\ shown \in [Requests -> SUBSET Event] /\ r # NONE
  BY SecretBounds DEF SecretType
<1>s. (\A q \in Requests : SaveOf(q)) /\ Cardinality(Saving) <= Capacity
  BY SaveParts
<1>1. req' = req /\ save[r] \in {"queued", "writing"}
  BY DEF SaveStep, Write, WriteExpired, Written
<1>2. ASSUME Over(r, "failed") PROVE SaveOf(r)' \/ writer' = r
  <2>1. save'[r] = "over" /\ ticket'[r] = "none" /\ shown'[r] = shown[r] \cup {"failed"}
    BY <1>t, <1>2 DEF Over, Emit
  <2>2. SaveOf(r)
    BY <1>s
  <2>3. QED
    BY <1>1, <2>1, <2>2 DEF SaveOf
<1>3. ASSUME NEW v \in {"failed", "stored"}, Over(r, v), NEW q \in Requests \ {r},
             writer' = q <=> writer = q
      PROVE  SaveOf(q)'
  <2>1. save'[q] = save[q] /\ ticket'[q] = ticket[q] /\ shown'[q] = shown[q]
    BY <1>t, <1>3 DEF Over, Emit
  <2>2. SaveOf(q)
    BY <1>s
  <2>3. QED
    BY <1>1, <1>3, <2>1, <2>2 DEF SaveOf
<1>4. ASSUME NEW v \in {"failed", "stored"}, Over(r, v) PROVE (Cardinality(Saving) <= Capacity)'
  <2>1. Saving' \subseteq Saving
    BY <1>t, <1>4 DEF Over, Saving
  <2>2. QED
    BY <1>s, <2>1 DEF QueueRule
<1>5. ASSUME Over(r, "failed"), writer' # r, \A q \in Requests \ {r} : writer' = q <=> writer = q
      PROVE  SaveInv'
  <2>1. \A q \in Requests : SaveOf(q)'
    BY <1>2, <1>3, <1>5
  <2>2. (Cardinality(Saving) <= Capacity)'
    BY <1>4, <1>5
  <2>3. QED
    BY <2>1, <2>2 DEF SaveInv, SavesAreCurrent, SaveOf
<1>6. CASE WriteExpired(r)
  <2>1. Over(r, "failed") /\ writer' = writer /\ save[r] = "queued"
    BY <1>6 DEF WriteExpired
  <2>2. writer # r
    BY <1>s, <2>1 DEF SaveOf
  <2>3. QED
    BY <1>5, <2>1, <2>2
<1>7. CASE Write(r) /\ (ticket[r] = "cancelled" \/ req[r].owner # nmOwner)
  <2>1. Over(r, "failed") /\ writer' = writer /\ writer = NONE
    BY <1>7 DEF Write
  <2>2. QED
    BY <1>t, <1>5, <2>1
<1>8. CASE Write(r) /\ ~(ticket[r] = "cancelled" \/ req[r].owner # nmOwner)
  <2>1. /\ save' = [save EXCEPT ![r] = "writing"] /\ writer' = r /\ writer = NONE
        /\ UNCHANGED <<ticket, shown>> /\ save[r] = "queued"
    BY <1>8 DEF Write
  <2>2. save'[r] = "writing" /\ \A q \in Requests \ {r} : save'[q] = save[q] /\ save[q] # "writing"
    BY <1>s, <1>t, <2>1, SecretBounds DEF SaveOf
  <2>3. SaveOf(r)'
    BY <1>1, <1>s, <2>1, <2>2 DEF SaveOf
  <2>4. \A q \in Requests \ {r} : SaveOf(q)'
    BY <1>1, <1>s, <2>1, <2>2 DEF SaveOf
  <2>5. Saving' \subseteq Saving
    BY <1>t, <2>1 DEF Saving
  <2>6. (Cardinality(Saving) <= Capacity)'
    BY <1>s, <2>5 DEF QueueRule
  <2>7. QED
    BY <2>3, <2>4, <2>6 DEF SaveInv, SavesAreCurrent, SaveOf
<1>9. CASE Written(r)
  <2>1. save[r] = "writing" /\ writer' = NONE /\ writer = r
    BY <1>9, <1>s DEF Written, SaveOf
  <2>2. \A q \in Requests \ {r} : writer' = q <=> writer = q
    BY <2>1, SecretBounds
  <2>3. Over(r, "failed") \/ (Over(r, "stored") /\ ticket[r] = "held")
    BY <1>9 DEF Written
  <2>4. CASE Over(r, "failed")
    BY <1>5, <1>t, <2>1, <2>2, <2>4
  <2>5. CASE Over(r, "stored") /\ ticket[r] = "held"
    <3>1. \A q \in Requests \ {r} : SaveOf(q)'
      BY <1>3, <2>2, <2>5
    <3>2. save'[r] = "over" /\ ticket'[r] = "none" /\ shown'[r] = shown[r] \cup {"stored"}
      BY <1>t, <2>5 DEF Over, Emit
    <3>3. SaveOf(r)
      BY <1>s
    <3>4. SaveOf(r)'
      BY <1>1, <1>t, <2>1, <2>5, <3>2, <3>3 DEF SaveOf
    <3>5. (Cardinality(Saving) <= Capacity)'
      BY <1>4, <2>5
    <3>6. QED
      BY <3>1, <3>4, <3>5 DEF SaveInv, SavesAreCurrent, SaveOf
  <2>6. QED
    BY <2>3, <2>4, <2>5
<1>10. QED
  BY <1>6, <1>7, <1>8, <1>9 DEF SaveStep

LEMMA SavesStep ==
  ASSUME SecretType, EventsInv, SaveInv, QueueRule, SecretStep PROVE SaveInv'
<1>t. /\ req \in [Requests -> Call] /\ save \in [Requests -> {"none", "queued", "writing", "over"}]
      /\ ticket \in [Requests -> {"none", "held", "cancelled"}]
      /\ shown \in [Requests -> SUBSET Event]
  BY DEF SecretType
<1>s. (\A q \in Requests : SaveOf(q)) /\ Cardinality(Saving) <= Capacity
  BY SaveParts
<1>f. ASSUME \A q \in Requests : SaveOf(q)', Saving' \subseteq Saving PROVE SaveInv'
  <2>1. (Cardinality(Saving) <= Capacity)'
    BY <1>f, <1>s DEF QueueRule
  <2>2. QED
    BY <1>f, <2>1 DEF SaveInv, SavesAreCurrent, SaveOf
<1>g. ASSUME \A q \in Requests : SameSave(q) \/ BeforeReply(q), save' = save PROVE SaveInv'
  <2>1. \A q \in Requests : SaveOf(q)'
    BY <1>g, <1>s, SaveFrame
  <2>2. Saving' \subseteq Saving
    BY <1>g DEF Saving
  <2>3. QED
    BY <1>f, <2>1, <2>2
<1>h. ASSUME NEW r \in Requests, Keeps(r), UNCHANGED <<ticket, save, writer>>,
             req[r].pc \notin {"dispatch", "done"}, req'[r].pc \notin {"dispatch", "done"},
             ~req'[r].gone,
             \A q \in Requests : SameQueue(q)
      PROVE  SaveInv'
  BY <1>g, <1>h DEF Keeps, SameSave, BeforeReply
<1>q. ASSUME NEW rs, NEW v \in {"requested", "cancelled"}, Emit(rs, v) \/ shown' = shown,
             UNCHANGED <<save, writer>>
      PROVE  \A q \in Requests : SameQueue(q)
  BY <1>q DEF Emit, SameQueue
<1>1. CASE UNCHANGED <<req, ticket, save, writer, shown>>
  BY <1>1, <1>g DEF SameSave, SameQueue
<1>2. ASSUME NEW r \in Requests, GetSecrets(r) PROVE SaveInv'
  <2>1. req[r].pc = "idle" /\ UNCHANGED <<save, writer, shown>>
    BY <1>2 DEF GetSecrets
  <2>2. CASE Fails(r) /\ UNCHANGED ticket
    BY <2>1, <2>2, <1>h DEF Fails, SameQueue
  <2>3. ASSUME NEW k \in Keys, Called(r, k), ticket' = Invalidated(k[1]) PROVE SaveInv'
    <3>1. BeforeReply(r)
      BY <2>1, <2>3, InvalidatedTickets DEF Called, BeforeReply, SameQueue
    <3>2. \A q \in Requests \ {r} : SameSave(q)
      BY <2>1, <2>3, InvalidatedTickets DEF Called, SameSave, SameQueue
    <3>3. QED
      BY <1>g, <2>1, <3>1, <3>2
  <2>4. QED
    BY <1>2, <2>2, <2>3, GetSecretsMoves
<1>3. ASSUME NEW r \in Requests, Begin(r) PROVE SaveInv'
  <2>1. /\ req[r].pc = "authorized" /\ Emit(AtKey(req[r].key), "cancelled") /\ Displaces(r)
        /\ UNCHANGED <<ticket, save, writer>>
    BY <1>3, BeginMoves DEF Begin, saves
  <2>2. \A q \in Requests : SameQueue(q)
    BY <1>q, <2>1
  <2>3. ~req[r].gone
    BY <1>s, <2>1 DEF SaveOf
  <2>4. BeforeReply(r)
    BY <2>1, <2>2, <2>3 DEF Displaces, BeforeReply
  <2>5. \A q \in Requests \ {r} : SameSave(q)
    BY <2>1, <2>2 DEF Displaces, SameSave
  <2>6. QED
    BY <1>g, <2>1, <2>4, <2>5
<1>4. ASSUME NEW r \in Requests, Lookup(r) \/ Decide(r) \/ Receive(r) PROVE SaveInv'
  <2>1. /\ req[r].pc \in {"lookup", "decide", "receive"} /\ UNCHANGED <<ticket, save, writer, shown>>
    BY <1>4 DEF Lookup, Decide, Receive, saves
  <2>2. ~req[r].gone
    BY <1>s, <2>1 DEF SaveOf
  <2>3. \/ Goes(r, "decide") \/ (\E s : Takes(r, s)) \/ Goes(r, "reply") \/ Goes(r, "publish")
        \/ Fails(r) \/ Answered(r)
    BY <1>4, LookupMoves, DecideMoves, ReceiveMoves
  <2>4. \A q \in Requests : SameQueue(q)
    BY <2>1 DEF SameQueue
  <2>5. QED
    BY <1>h, <2>1, <2>2, <2>3, <2>4 DEF Goes, Takes, Fails, Answered, SameData
<1>5. ASSUME NEW r \in Requests,
             PublishRefused(r) \/ Retire(r) \/ Abandon(r) \/ BeginRefused(r) \/ Publish(r)
      PROVE  SaveInv'
  <2>1. /\ req[r].pc \in {"publish", "receive", "lookup", "decide", "authorized"}
        /\ UNCHANGED <<ticket, save, writer>>
        /\ Step(r, "failed") \/ Step(r, "receive")
        /\ shown' = shown \/ Emit({r}, "cancelled") \/ Emit({r}, "requested")
    BY <1>5 DEF PublishRefused, Retire, Abandon, BeginRefused, Publish, Leave, saves
  <2>2. Fails(r) \/ Goes(r, "receive")
    BY <1>t, <2>1, FailedMoves, StepMoves DEF Pcs
  <2>3. ~req[r].gone
    BY <1>s, <2>1 DEF SaveOf
  <2>4. \A q \in Requests : SameQueue(q)
    BY <1>q, <2>1
  <2>5. QED
    BY <1>h, <2>1, <2>2, <2>3, <2>4 DEF Goes, Fails, SameData
<1>6. ASSUME NEW r \in Requests, RequestTime(r) PROVE SaveInv'
  <2>1. UNCHANGED <<ticket, save, writer, shown>> /\ Goes(r, req[r].pc)
    BY <1>6, TimeMoves DEF RequestTime, saves
  <2>2. QED
    BY <1>g, <2>1 DEF Goes, Keeps, SameData, SameSave, SameQueue
<1>7. ASSUME NEW r \in Requests, Reply(r) PROVE SaveInv'
  <2>1. req[r].pc = "reply" /\ UNCHANGED <<save, writer>>
    BY <1>7 DEF Reply
  <2>2. ~req[r].gone /\ save[r] = "none" /\ "stored" \notin shown[r] /\ writer # r
    BY <1>s, <2>1 DEF SaveOf
  <2>3. CASE Step(r, "failed") /\ Emit({r}, "cancelled") /\ UNCHANGED ticket
    <3>1. Fails(r)
      BY <1>t, <2>3, FailedMoves
    <3>2. \A q \in Requests : SameQueue(q)
      BY <1>q, <2>1, <2>3
    <3>3. QED
      BY <1>h, <2>1, <2>3, <3>1, <3>2 DEF Fails
  <2>4. CASE /\ Step(r, "dispatch") /\ UNCHANGED shown
             /\ ticket' = [ticket EXCEPT ![r] = IF req[r].save THEN "held" ELSE @]
    <3>1. Goes(r, "dispatch")
      BY <1>t, <2>4, StepMoves DEF Pcs
    <3>2. SaveOf(r)'
      BY <2>1, <2>2, <2>4, <3>1 DEF Goes, SameData, SaveOf
    <3>3. \A q \in Requests \ {r} : SameSave(q)
      BY <1>t, <2>1, <2>4, <3>1 DEF Goes, Keeps, SameSave, SameQueue
    <3>4. \A q \in Requests : SaveOf(q)'
      BY <1>s, <3>2, <3>3, SaveFrame
    <3>5. Saving' \subseteq Saving
      BY <2>1 DEF Saving
    <3>6. QED
      BY <1>f, <3>4, <3>5
  <2>5. QED
    BY <1>7, <2>3, <2>4 DEF Reply
<1>8. ASSUME NEW r \in Requests, Dispatch(r) PROVE SaveInv'
  <2> DEFINE full == Cardinality(Saving) >= Capacity
  <2>1. req[r].pc = "dispatch" /\ writer' = writer /\ Goes(r, "done")
    BY <1>8, <1>t, StepMoves DEF Dispatch, Pcs
  <2>2. save[r] = "none" /\ writer # r /\ "stored" \notin shown[r]
    BY <1>s, <2>1 DEF SaveOf
  <2>3. "failed" \notin shown[r]
    BY <2>1 DEF EventsInv
  <2>4. CASE /\ ticket' = [ticket EXCEPT ![r] = "none"] /\ UNCHANGED <<shown, save>>
    <3>1. SaveOf(r)'
      BY <1>t, <2>1, <2>2, <2>4 DEF Goes, SaveOf
    <3>2. \A q \in Requests \ {r} : SameSave(q)
      BY <1>t, <2>1, <2>4 DEF Goes, Keeps, SameSave, SameQueue
    <3>3. \A q \in Requests : SaveOf(q)'
      BY <1>s, <3>1, <3>2, SaveFrame
    <3>4. Saving' \subseteq Saving
      BY <2>4 DEF Saving
    <3>5. QED
      BY <1>f, <3>3, <3>4
  <2>5. CASE /\ shown' = [shown EXCEPT ![r] = @ \cup {"delivered"}
                               \cup (IF req[r].save /\ full THEN {"failed"} ELSE {})]
             /\ save' = [save EXCEPT ![r] = IF ~req[r].save THEN @
                                            ELSE IF full THEN "over" ELSE "queued"]
             /\ ticket' = [ticket EXCEPT ![r] = IF full THEN "none" ELSE @]
    <3> HIDE DEF full
    <3>1. /\ ticket'[r] \in {ticket[r], "none"} /\ save'[r] \in {"none", "over", "queued"}
          /\ save'[r] = "queued" => req[r].save /\ ~full
          /\ "delivered" \in shown'[r] /\ "stored" \notin shown'[r]
          /\ ("failed" \in shown'[r] => full)
      BY <1>t, <2>2, <2>3, <2>5
    <3>2. SaveOf(r)'
      BY <1>s, <2>1, <2>2, <3>1 DEF Goes, SameData, SaveOf
    <3>3. \A q \in Requests \ {r} : save'[q] = save[q] /\ ticket'[q] = ticket[q] /\ shown'[q] = shown[q]
      BY <1>t, <2>5
    <3>4. \A q \in Requests \ {r} : SameSave(q)
      BY <2>1, <3>3 DEF Goes, Keeps, SameSave, SameQueue
    <3>5. \A q \in Requests : SaveOf(q)'
      BY <1>s, <3>2, <3>4, SaveFrame
    <3>6. \/ Saving' \subseteq Saving
          \/ ~full /\ Saving' \subseteq Saving \cup {r}
      BY <3>1, <3>3 DEF Saving
    <3>7. ~full => Cardinality(Saving) < Capacity
      BY DEF QueueRule, full
    <3>8. (Cardinality(Saving) <= Capacity)'
      BY <1>s, <3>6, <3>7 DEF QueueRule
    <3>9. QED
      BY <3>5, <3>8 DEF SaveInv, SavesAreCurrent, SaveOf
  <2>6. QED
    BY <1>8, <2>4, <2>5 DEF Dispatch
<1>9. CASE CancelGetSecrets
  <2>1. PICK k \in Keys :
          /\ req' = Superseded(Flagged({q \in Requests : inflight[k] = q}), k[1])
          /\ ticket' = Invalidated(k[1]) /\ Emit(AtKey(k), "cancelled") /\ UNCHANGED <<save, writer>>
    BY <1>9 DEF CancelGetSecrets
  <2>2. Turned({q \in Requests : inflight[k] = q}, k[1])
    BY <2>1, TurnedMoves
  <2>3. \A q \in Requests : SameQueue(q)
    BY <1>q, <2>1
  <2>4. \A q \in Requests : SameSave(q)
    BY <2>1, <2>2, <2>3, InvalidatedTickets DEF Turned, SameSave
  <2>5. QED
    BY <1>g, <2>1, <2>4
<1>10. CASE DeleteSecrets
  <2>1. PICK p \in Paths :
          /\ req' = Superseded(Flagged({q \in Requests : \E k \in Keys : k[1] = p /\ inflight[k] = q}), p)
          /\ ticket' = Invalidated(p) /\ Emit(AtPath(p), "cancelled") /\ UNCHANGED <<save, writer>>
    BY <1>10 DEF DeleteSecrets
  <2> DEFINE F == {q \in Requests : \E k \in Keys : k[1] = p /\ inflight[k] = q}
  <2>2. Turned(F, p)
    BY <2>1, TurnedMoves
  <2> HIDE DEF F
  <2>3. \A q \in Requests : SameQueue(q)
    BY <1>q, <2>1
  <2>4. \A q \in Requests : SameSave(q)
    BY <2>1, <2>2, <2>3, InvalidatedTickets DEF Turned, SameSave
  <2>5. QED
    BY <1>g, <2>1, <2>4
<1>11. ASSUME NEW o, OwnerStep(o) PROVE SaveInv'
  <2> DEFINE F == {q \in Requests : \E k \in Keys : inflight[k] = q}
  <2>1. req' = Flagged(F) /\ Emit(Pending, "cancelled") /\ UNCHANGED <<ticket, save, writer>>
    BY <1>11 DEF OwnerStep, ChangeOwner
  <2>2. \A q \in Requests :
           /\ req'[q].pc = req[q].pc /\ req'[q].save = req[q].save /\ req'[q].gone = req[q].gone
    BY <1>t, <2>1, FlaggedMoves, SMTT(40)
  <2>3. \A q \in Requests : SameQueue(q)
    BY <1>q, <2>1
  <2>4. QED
    BY <1>g, <2>1, <2>2, <2>3 DEF SameSave
<1>12. QED
  BY <1>1, <1>2, <1>3, <1>4, <1>5, <1>6, <1>7, <1>8, <1>9, <1>10, <1>11, SaveSteps
     DEF SecretStep, Quiet, RequestStep, Stage, ExpireHandoff, SaveSecrets, Provide, saves

-----------------------------------------------------------------------------
INSTANCE FiniteSetTheorems

LEMMA QueueBound ==
  ASSUME Cardinality(Saving) <= Capacity,
         \/ Saving' \subseteq Saving
         \/ Cardinality(Saving) < Capacity /\ \E r \in Requests : Saving' \subseteq Saving \cup {r}
  PROVE  (Cardinality(Saving) <= Capacity)'
<1>1. IsFiniteSet(Saving)
  BY SecretBounds, FS_Subset DEF Saving
<1>2. Cardinality(Saving) \in Nat /\ Capacity \in Nat
  BY <1>1, FS_CardinalityType, SecretBounds
<1>3. CASE Saving' \subseteq Saving
  <2>1. Cardinality(Saving') <= Cardinality(Saving) /\ IsFiniteSet(Saving')
    BY <1>1, <1>3, FS_Subset
  <2>2. Cardinality(Saving') \in Nat
    BY <2>1, FS_CardinalityType
  <2>3. QED
    BY <1>2, <2>1, <2>2, SMTT(40)
<1>4. ASSUME Cardinality(Saving) < Capacity, NEW r \in Requests, Saving' \subseteq Saving \cup {r}
      PROVE  (Cardinality(Saving) <= Capacity)'
  <2>1. /\ IsFiniteSet(Saving \cup {r})
        /\ Cardinality(Saving \cup {r}) = Cardinality(Saving)
           \/ Cardinality(Saving \cup {r}) = Cardinality(Saving) + 1
    BY <1>1, FS_AddElement
  <2>2. Cardinality(Saving') <= Cardinality(Saving \cup {r}) /\ IsFiniteSet(Saving')
    BY <1>4, <2>1, FS_Subset
  <2>3. Cardinality(Saving') \in Nat
    BY <2>2, FS_CardinalityType
  <2>4. QED
    BY <1>2, <1>4, <2>1, <2>2, <2>3, SMTT(40)
<1>5. QED
  BY <1>3, <1>4

LEMMA QueueKept == QueueRule
<1>1. IsFiniteSet(Saving)
  BY SecretBounds, FS_Subset DEF Saving
<1>2. Cardinality(Saving) \in Nat /\ Capacity \in Nat
  BY <1>1, FS_CardinalityType, SecretBounds
<1>3. Cardinality(Saving) >= Capacity \/ Cardinality(Saving) < Capacity
  BY <1>2, SMTT(40)
<1>4. QED
  BY <1>3, QueueBound DEF QueueRule

SecretInv == SecretType /\ RegistryInv /\ EventsInv /\ HandoffInv /\ SaveInv

LEMMA SecretInit == Init => SecretInv
<1> SUFFICES ASSUME Init PROVE SecretInv
  OBVIOUS
<1>1. \A r \in Requests : /\ req[r] = Idle /\ pending[r] = NONE /\ ticket[r] = "none"
                          /\ save[r] = "none" /\ shown[r] = {} /\ channel[r] = Signal("none")
  BY DEF Init
<1>2. session = {} /\ staged = 0 /\ staging = NONE /\ writer = NONE /\ \A k \in Keys : inflight[k] = NONE
  BY DEF Init
<1>3. Idle.pc = "idle" /\ ~Idle.cancelled /\ Idle.source = 0 /\ ~Idle.gone
  BY DEF Idle
<1>4. SecretType
  <2>1. req \in [Requests -> Call] /\ inflight \in [Keys -> Requests \cup {NONE}]
    BY IdleTyped DEF Init
  <2>2. channel \in [Requests -> Message] /\ pending \in [Requests -> (SUBSET Frontends) \cup {NONE}]
    BY DEF Init, Signal, Message
  <2>3. /\ ticket \in [Requests -> {"none", "held", "cancelled"}]
        /\ save \in [Requests -> {"none", "queued", "writing", "over"}]
        /\ shown \in [Requests -> SUBSET Event]
    BY DEF Init
  <2>4. busOwner \in Nat /\ born \in Nat /\ nmOwner \in Nat
    BY DEF Init
  <2>5. session \subseteq Entry /\ staged \in Nat /\ staging = NONE /\ writer \in Requests \cup {NONE}
    BY <1>2
  <2>6. QED
    BY <2>1, <2>2, <2>3, <2>4, <2>5 DEF SecretType
<1>5. RegistryInv
  BY <1>1, <1>2, <1>3, SecretBounds
     DEF RegistryInv, PromptsAreCurrent, Pending, Waiting
<1>6. EventsInv
  BY <1>1 DEF EventsInv
<1>7. HandoffInv
  BY <1>1, <1>2, <1>3, SMTT(40) DEF HandoffInv
<1>8. SaveInv
  <2>1. \A r \in Requests : SaveOf(r)
    BY <1>1, <1>2, <1>3, SecretBounds DEF SaveOf
  <2>2. Saving = {}
    BY <1>1 DEF Saving
  <2>3. Cardinality(Saving) <= Capacity
    BY <2>2, FS_EmptySet, SecretBounds, SMTT(40)
  <2>4. QED
    BY <2>1, <2>3, SaveParts
<1>9. QED
  BY <1>4, <1>5, <1>6, <1>7, <1>8 DEF SecretInv

\* What every step does: the invariant stays, events are shown in order and
\* staged values are handed over once.
LEMMA SecretStepKeeps ==
  ASSUME SecretInv, [Next]_vars
  PROVE  SecretInv' /\ (\A q \in Requests : OrderOf(q)) /\ HandoffGood
<1>0. SecretType /\ RegistryInv /\ EventsInv /\ HandoffInv /\ SaveInv /\ SecretStep
  BY SecretMoves DEF SecretInv
<1>1. SecretType'
  BY <1>0, OwnersTyped, RequestsTyped, RegistryTypes, HandoffTypes, SavesTypes
     DEF SecretType, Typed, RegistryTyped, HandoffTyped, SavesTyped
<1>2. RegistryInv'
  BY <1>0, <1>1, RegistryStep
<1>3. \A q \in Requests : EventsOf(q)' /\ OrderOf(q)
  BY <1>0, EventsStep
<1>4. EventsInv'
  BY <1>3 DEF EventsInv, EventsOf
<1>5. HandoffGood
  BY <1>0, HandoffStep
<1>6. SaveInv'
  BY <1>0, QueueKept, SavesStep
<1>7. QED
  BY <1>1, <1>2, <1>3, <1>4, <1>5, <1>6 DEF SecretInv, HandoffGood

\* The registry, the events, the handoff and the saves stay consistent with one
\* another under every step of the agent, of NetworkManager and of frontends.
THEOREM SecretInductive == Spec => []SecretInv
<1>1. SecretInv /\ [Next]_vars => SecretInv'
  BY SecretStepKeeps
<1>2. QED
  BY <1>1, SecretInit, PTL DEF Spec

\* Every prompt in the registry is the current one of its key and owner, and
\* frontends never see a prompt after its cancellation nor a delivery after a
\* cancellation or a newer owner, whatever requests, cancellations, answers and
\* owners do in between (daemon_secret.rs, PendingRegistry).
THEOREM PromptsStayInOrder == Spec => PromptsInOrder
<1>1. SecretInv /\ [Next]_vars =>
        [/\ PromptsAreCurrent'
         /\ \A r \in Requests :
              /\ "requested" \in shown'[r] \ shown[r] => shown[r] = {}
              /\ "delivered" \in shown'[r] \ shown[r] =>
                   "cancelled" \notin shown[r] /\ req[r].owner = nmOwner
              /\ "cancelled" \in shown'[r] \ shown[r] => "delivered" \notin shown[r]]_vars
  BY SecretStepKeeps DEF SecretInv, RegistryInv, OrderOf
<1>2. QED
  BY <1>1, SecretInductive, PTL DEF Spec, PromptsInOrder

\* A staged secret goes at most once per setting to the owner and profile it
\* was staged for, although staging may finish after the owner changed
\* (session.rs, save_secrets).
THEOREM SecretsAreHandedOverOnce == Spec => HandoffOnce
<1>1. SecretInv /\ [Next]_vars =>
        [\A r \in Requests : req'[r].source # req[r].source =>
           /\ \E e \in session : e.stamp = req'[r].source /\ e.owner = req[r].owner
                                 /\ e.path = Path(r) /\ Setting(r) \in e.settings
           /\ \A e \in session' : e.stamp = req'[r].source => Setting(r) \notin e.settings
           /\ \A q \in Requests \ {r} : req[q].source = req'[r].source => Setting(q) # Setting(r)]_vars
  BY SecretStepKeeps DEF HandoffGood, HandedOver
<1>2. QED
  BY <1>1, SecretInductive, PTL DEF Spec, HandoffOnce

\* A save reported as stored was delivered and not overtaken, the queue keeps
\* its bound and one save at a time holds the writer lock (persistence.rs).
THEOREM SavesStayCurrent == Spec => []SavesAreCurrent
<1>1. SecretInv => SavesAreCurrent
  BY DEF SecretInv, SaveInv
<1>2. QED
  BY <1>1, SecretInductive, PTL
=============================================================================
