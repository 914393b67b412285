--------------------------- MODULE ServicesProofs ---------------------------
(***************************************************************************)
(* The daemon's services, for every value of their constants: the front    *)
(* end that forwards commands (Front), the radios with airplane mode       *)
(* (Radios), hotspots and VPN links (Links).                               *)
(***************************************************************************)
EXTENDS Front, Radios, Links, TLAPS

\* Most steps are first-order; the ones that need arithmetic name SMT;
\* the limits leave room for a loaded machine.
USE ZenonT(60)

-----------------------------------------------------------------------------
\* The front end.

Caller ==
  [pc : {"start", "direct", "reply", "events", "recover", "done"},
   kind : Kinds \cup {None}, srv : Nat, id : Nat,
   out : Results \cup {None, "direct", "unknown", "refused"},
   mail : Results \cup {None, "garbled"}, truth : Results \cup {None, "lost"},
   alive : BOOLEAN]
Call == [client : Clients, kind : Kinds \cup {None}, ran : BOOLEAN, id : Nat, ok : BOOLEAN]
Operation == [client : Clients, id : Nat, kind : Kinds \cup {None}, stop : BOOLEAN,
              phase : {"queued", "running"}, early : BOOLEAN]
Retained == [id : Nat, client : Clients, result : Results]

FrontType ==
  /\ inst \in Nat /\ nextId \in Nat
  /\ cl \in [Clients -> Caller]
  /\ calls \subseteq Call /\ ops \subseteq Operation /\ kept \subseteq Retained
  /\ effects \in [Clients -> Nat]

\* A caller has one call in flight and one operation at most.
Single ==
  /\ \A k1, k2 \in calls : k1.client = k2.client => k1 = k2
  /\ \A o1, o2 \in ops : o1.client = o2.client => o1 = o2

\* Nothing can take effect for the caller any more, or only what already has.
Settled(c) ==
  /\ \A k \in calls : k.client = c => k.ran
  /\ \A o \in ops : o.client # c

\* Whatever was never sent, dispatched or begun has had no effect.
Unspent ==
  /\ \A c \in Clients : cl[c].pc \in {"start", "direct"} =>
       /\ effects[c] = 0 /\ cl[c].out = None /\ cl[c].mail = None
       /\ \A k \in calls : k.client # c
       /\ \A o \in ops : o.client # c
       /\ \A r \in kept : r.client # c
  /\ \A k \in calls :
       /\ k.kind = cl[k.client].kind
       /\ ~k.ran \/ ~k.ok => effects[k.client] = 0 /\ \A o \in ops : o.client # k.client
  /\ \A o \in ops : o.phase = "queued" => effects[o.client] = 0

\* The caller was told how its request ended.
Told(caller) ==
  \/ caller.out \in {"refused", "direct"}
  \/ caller.out \in Results /\ caller.kind # "immediate"

\* What a caller may still read is true, and final.
TruthKept ==
  /\ \A c \in Clients : cl[c].mail \in Results => cl[c].mail = cl[c].truth /\ Settled(c)
  /\ \A r \in kept : r.result = cl[r.client].truth /\ Settled(r.client)
  /\ \A c \in Clients : Told(cl[c]) => Settled(c)

FrontInv == FrontType /\ Single /\ Unspent /\ TruthKept /\ AtMostOnce /\ OutcomeTrue

-----------------------------------------------------------------------------
(* What the updates of a caller's record leave.                            *)

LEMMA EndedFields ==
  ASSUME FrontType, NEW c \in Clients,
         NEW out \in Results \cup {None, "direct", "unknown", "refused"}
  PROVE  /\ Ended(c, out) \in [Clients -> Caller]
         /\ \A d \in Clients \ {c} : Ended(c, out)[d] = cl[d]
         /\ Ended(c, out)[c].pc = "done" /\ Ended(c, out)[c].out = out
         /\ Ended(c, out)[c].mail = None /\ Ended(c, out)[c].truth = cl[c].truth
         /\ Ended(c, out)[c].kind = cl[c].kind
<1> DEFINE new == [cl[c] EXCEPT !.pc = "done", !.out = out, !.srv = 0, !.id = 0,
                                !.mail = None]
<1>1. cl \in [Clients -> Caller] /\ cl[c] \in Caller
  BY DEF FrontType
<1>2. /\ new \in Caller
      /\ new.pc = "done" /\ new.out = out /\ new.mail = None
      /\ new.truth = cl[c].truth /\ new.kind = cl[c].kind
  BY <1>1 DEF Caller
<1>3. Ended(c, out) = [cl EXCEPT ![c] = new]
  BY DEF Ended
<1> HIDE DEF new
<1> QED
  BY <1>1, <1>2, <1>3

LEMMA ToFields ==
  ASSUME FrontType, NEW c \in Clients, NEW pc \in {"direct", "recover"}
  PROVE  /\ To(c, pc) \in [Clients -> Caller]
         /\ \A d \in Clients \ {c} : To(c, pc)[d] = cl[d]
         /\ To(c, pc)[c].pc = pc /\ To(c, pc)[c].out = cl[c].out
         /\ To(c, pc)[c].mail = cl[c].mail /\ To(c, pc)[c].truth = cl[c].truth
         /\ To(c, pc)[c].kind = cl[c].kind
BY SMTT(40) DEF FrontType, To, Caller

LEMMA DroppedFields ==
  ASSUME FrontType, Single, NEW owners
  PROVE  /\ Dropped(ops, owners) \subseteq Operation
         /\ \A p \in Dropped(ops, owners) : \E o \in ops : o.client = p.client /\ o.phase = p.phase
         /\ \A p, q \in Dropped(ops, owners) : p.client = q.client => p = q
<1> DEFINE Image(o) == [o EXCEPT !.stop = o.stop \/ o.client \in owners]
<1>1. ASSUME NEW o \in ops
      PROVE  Image(o) \in Operation /\ Image(o).client = o.client /\ Image(o).phase = o.phase
  BY DEF FrontType, Operation
<1>2. \A p \in Dropped(ops, owners) : \E o \in ops : p = Image(o)
  BY DEF Dropped
<1> HIDE DEF Image
<1> QED
  BY <1>1, <1>2, SMTT(40) DEF Single

-----------------------------------------------------------------------------
(* Steps that begin nothing: calls, operations and retained results only   *)
(* go away, and a caller learns at most what is settled.                   *)

Concludes(c) ==
  Told(cl'[c]) =>
    /\ Settled(c)
    /\ cl'[c].out \in Results => cl'[c].out = cl[c].truth
    /\ cl'[c].out = "refused" => effects[c] = 0
    /\ cl'[c].out # "direct"

Harmless(c) ==
  /\ cl'[c].kind = cl[c].kind /\ cl'[c].truth = cl[c].truth
  /\ cl'[c].mail \in {None, cl[c].mail}
  /\ cl'[c].pc \in {"start", "direct"} =>
       cl[c].pc \in {"start", "direct"} /\ cl'[c].out = cl[c].out
  /\ cl'[c].out = cl[c].out \/ Concludes(c)

OpsShrink ==
  /\ \A p \in ops' : \E o \in ops : o.client = p.client /\ o.phase = p.phase
  /\ \A p, q \in ops' : p.client = q.client => p = q

LEMMA Shrinks ==
  ASSUME FrontInv, FrontType', calls' \subseteq calls, kept' \subseteq kept,
         effects' = effects, OpsShrink, \A c \in Clients : Harmless(c)
  PROVE  FrontInv'
<1> USE DEF FrontInv
<1>0. \A k \in calls' : k \in calls /\ k.client \in Clients
  BY DEF FrontType, Call
<1>r. \A r \in kept' : r \in kept /\ r.client \in Clients
  BY DEF FrontType, Retained
<1>o. \A p \in ops' : p.client \in Clients
  BY DEF FrontType, Operation
<1>1. Single'
  BY <1>0 DEF Single, OpsShrink
<1>2. \A c \in Clients : Settled(c) => Settled(c)'
  BY <1>0, SMTT(40) DEF Settled, OpsShrink
<1>3. Unspent'
  <2>1. ASSUME NEW c \in Clients, cl'[c].pc \in {"start", "direct"}
        PROVE /\ effects'[c] = 0 /\ cl'[c].out = None /\ cl'[c].mail = None
              /\ \A k \in calls' : k.client # c
              /\ \A o \in ops' : o.client # c
              /\ \A r \in kept' : r.client # c
    BY <2>1, <1>0, <1>r, SMTT(40) DEF Unspent, Harmless, OpsShrink
  <2>2. ASSUME NEW k \in calls'
        PROVE /\ k.kind = cl'[k.client].kind
              /\ ~k.ran \/ ~k.ok => effects'[k.client] = 0 /\ \A o \in ops' : o.client # k.client
    BY <1>0, SMTT(40) DEF Unspent, Harmless, OpsShrink
  <2>3. ASSUME NEW o \in ops', o.phase = "queued" PROVE effects'[o.client] = 0
    BY <2>3, SMTT(40) DEF Unspent, OpsShrink
  <2> QED BY <2>1, <2>2, <2>3 DEF Unspent
<1>4. TruthKept'
  <2>1. ASSUME NEW c \in Clients, cl'[c].mail \in Results
        PROVE cl'[c].mail = cl'[c].truth /\ Settled(c)'
    BY <2>1, <1>2, FrontBounds DEF TruthKept, Harmless
  <2>2. ASSUME NEW r \in kept' PROVE r.result = cl'[r.client].truth /\ Settled(r.client)'
    BY <1>2, <1>r DEF TruthKept, Harmless
  <2>3. ASSUME NEW c \in Clients, Told(cl'[c]) PROVE Settled(c)'
    <3>1. cl'[c].out = cl[c].out /\ cl'[c].kind = cl[c].kind => Told(cl[c])
      BY <2>3 DEF Told
    <3> QED
      BY <2>3, <3>1, <1>2 DEF TruthKept, Harmless, Concludes
  <2> QED BY <2>1, <2>2, <2>3 DEF TruthKept
<1>5. AtMostOnce'
  BY DEF AtMostOnce
<1>6. OutcomeTrue'
  <2> SUFFICES ASSUME NEW c \in Clients
               PROVE /\ cl'[c].out \in Results /\ cl'[c].kind # "immediate" => cl'[c].out = cl'[c].truth
                     /\ cl'[c].out = "refused" => effects'[c] = 0
                     /\ cl'[c].out = "direct" => effects'[c] = 1
    BY DEF OutcomeTrue
  <2> QED BY FrontBounds DEF OutcomeTrue, Harmless, Concludes, Told, Results
<1> QED BY <1>1, <1>3, <1>4, <1>5, <1>6

LEMMA Unmoved ==
  ASSUME cl' = cl PROVE \A c \in Clients : Harmless(c)
BY DEF Harmless

LEMMA SameOps ==
  ASSUME Single, ops' \subseteq ops PROVE OpsShrink
BY DEF OpsShrink, Single

\* A caller that ends with what is settled, or without knowing.
LEMMA Ends ==
  ASSUME FrontInv, NEW c \in Clients,
         NEW out \in Results \cup {"unknown", "refused"},
         cl' = Ended(c, out), UNCHANGED <<inst, nextId, calls, ops, kept, effects>>,
         out \in Results => Settled(c) /\ out = cl[c].truth,
         out = "refused" => Settled(c) /\ effects[c] = 0
  PROVE  FrontInv'
<1>0. FrontType /\ Single
  BY DEF FrontInv
<1>1. /\ cl' \in [Clients -> Caller]
      /\ \A d \in Clients \ {c} : cl'[d] = cl[d]
      /\ cl'[c].pc = "done" /\ cl'[c].out = out /\ cl'[c].mail = None
      /\ cl'[c].truth = cl[c].truth /\ cl'[c].kind = cl[c].kind
  BY <1>0, EndedFields, SMTT(40)
<1>2. FrontType'
  BY <1>0, <1>1 DEF FrontType
<1>3. Harmless(c)
  BY <1>1 DEF Harmless, Concludes, Told, Results
<1>4. \A d \in Clients : Harmless(d)
  BY <1>1, <1>3 DEF Harmless
<1> QED
  BY <1>0, <1>2, <1>4, SameOps, Shrinks

LEMMA UnreachableStep ==
  ASSUME FrontInv, NEW c \in Clients, cl[c].pc = "start", cl' = To(c, "direct"),
         UNCHANGED <<inst, nextId, calls, ops, kept, effects>>
  PROVE  FrontInv'
<1>0. FrontType /\ Single
  BY DEF FrontInv
<1>1. /\ cl' \in [Clients -> Caller]
      /\ \A d \in Clients \ {c} : cl'[d] = cl[d]
      /\ cl'[c].out = cl[c].out /\ cl'[c].mail = cl[c].mail
      /\ cl'[c].truth = cl[c].truth /\ cl'[c].kind = cl[c].kind
  BY <1>0, ToFields
<1>2. FrontType'
  BY <1>0, <1>1 DEF FrontType
<1>3. \A d \in Clients : Harmless(d)
  BY <1>1 DEF Harmless
<1> QED
  BY <1>0, <1>2, <1>3, SameOps, Shrinks

\* The call goes out: the caller had nothing before it.
LEMMA SendStep ==
  ASSUME FrontInv, NEW c \in Clients, Send(c)
  PROVE  FrontInv'
<1>0. FrontType /\ Single /\ Unspent /\ TruthKept /\ AtMostOnce /\ OutcomeTrue
  BY DEF FrontInv
<1>1. cl[c].pc = "start" /\ UNCHANGED <<inst, nextId, ops, kept, effects>>
  BY DEF Send, daemonVars
<1>2. Settled(c) /\ effects[c] = 0 /\ cl[c].out = None /\ cl[c].mail = None
  BY <1>0, <1>1 DEF Unspent, Settled
<1>3. CASE cl' = To(c, "direct") /\ calls' = calls
  BY <1>1, <1>3, UnreachableStep
<1>4. CASE cl' = Ended(c, "unknown") /\ calls' = calls
  BY <1>1, <1>4, Ends DEF Results
<1>5. CASE cl' = Ended(c, "refused") /\ calls' = calls
  BY <1>1, <1>2, <1>5, Ends DEF Results
<1>6. CASE /\ cl' = [cl EXCEPT ![c] = [@ EXCEPT !.pc = "reply", !.srv = inst]]
           /\ calls' = calls \cup {[client |-> c, kind |-> cl[c].kind,
                                    ran |-> FALSE, id |-> 0, ok |-> FALSE]}
  <2> DEFINE new == [client |-> c, kind |-> cl[c].kind, ran |-> FALSE, id |-> 0, ok |-> FALSE]
  <2>1. /\ cl' \in [Clients -> Caller]
        /\ \A d \in Clients \ {c} : cl'[d] = cl[d]
        /\ cl'[c].pc = "reply" /\ cl'[c].out = cl[c].out /\ cl'[c].mail = cl[c].mail
        /\ cl'[c].truth = cl[c].truth /\ cl'[c].kind = cl[c].kind
    <3> DEFINE caller == [cl[c] EXCEPT !.pc = "reply", !.srv = inst]
    <3>1. /\ caller \in Caller
          /\ caller.pc = "reply" /\ caller.out = cl[c].out /\ caller.mail = cl[c].mail
          /\ caller.truth = cl[c].truth /\ caller.kind = cl[c].kind
      BY <1>0 DEF FrontType, Caller
    <3>2. cl' = [cl EXCEPT ![c] = caller] /\ cl \in [Clients -> Caller]
      BY <1>0, <1>6 DEF FrontType
    <3> HIDE DEF caller
    <3> QED
      BY <3>1, <3>2
  <2>2. new \in Call /\ new.client = c /\ new.kind = cl[c].kind /\ ~new.ran
    BY <1>0 DEF FrontType, Call, Caller
  <2>3. calls' = calls \cup {new} /\ \A k \in calls : k \in Call /\ k.client \in Clients
    BY <1>0, <1>6 DEF FrontType, Call
  <2>n. (\A k \in calls : k.client # c) /\ (\A o \in ops : o.client # c)
        /\ (\A r \in kept : r.client # c)
    BY <1>0, <1>1 DEF Unspent
  <2> HIDE DEF new
  <2>4. FrontType'
    BY <1>0, <1>1, <2>1, <2>2, <2>3 DEF FrontType
  <2>5. Single'
    BY <1>0, <1>1, <2>2, <2>3, <2>n DEF Single
  <2>6. Unspent'
    BY <1>0, <1>1, <1>2, <2>1, <2>2, <2>3, <2>n, SMTT(40) DEF Unspent
  <2>7. \A d \in Clients : d # c /\ Settled(d) => Settled(d)'
    BY <1>1, <2>2, <2>3 DEF Settled
  <2>8. TruthKept'
    <3>1. \A r \in kept : r.client \in Clients /\ r.client # c
      BY <1>0, <2>n DEF FrontType, Retained
    <3> QED
      BY <1>0, <1>1, <1>2, <2>1, <2>7, <3>1, FrontBounds, SMTT(40) DEF TruthKept, Told
  <2>9. AtMostOnce' /\ OutcomeTrue'
    BY <1>0, <1>1, <1>2, <2>1, SMTT(40) DEF AtMostOnce, OutcomeTrue
  <2> QED
    BY <2>4, <2>5, <2>6, <2>8, <2>9 DEF FrontInv
<1> QED
  BY <1>3, <1>4, <1>5, <1>6 DEF Send

LEMMA RunDirectStep ==
  ASSUME FrontInv, NEW c \in Clients, RunDirect(c)
  PROVE  FrontInv'
<1>0. FrontType /\ Single /\ Unspent /\ TruthKept /\ AtMostOnce /\ OutcomeTrue
  BY DEF FrontInv
<1>1. /\ cl[c].pc = "direct" /\ cl' = Ended(c, "direct")
      /\ effects' = [effects EXCEPT ![c] = @ + 1]
      /\ UNCHANGED <<inst, nextId, calls, ops, kept>>
  BY DEF RunDirect, daemonVars
<1>2. /\ cl' \in [Clients -> Caller]
      /\ \A d \in Clients \ {c} : cl'[d] = cl[d]
      /\ cl'[c].pc = "done" /\ cl'[c].out = "direct" /\ cl'[c].mail = None
      /\ cl'[c].truth = cl[c].truth /\ cl'[c].kind = cl[c].kind
  BY <1>0, <1>1, EndedFields
<1>3. /\ effects[c] = 0
      /\ \A k \in calls : k.client # c
      /\ \A o \in ops : o.client # c
      /\ \A r \in kept : r.client # c
  BY <1>0, <1>1 DEF Unspent
<1>4. /\ effects' \in [Clients -> Nat] /\ effects'[c] = 1
      /\ \A d \in Clients \ {c} : effects'[d] = effects[d]
  BY <1>0, <1>1, <1>3, SMTT(40) DEF FrontType
<1>c. /\ \A k \in calls : k.client \in Clients
      /\ \A o \in ops : o.client \in Clients
      /\ \A r \in kept : r.client \in Clients
  BY <1>0 DEF FrontType, Call, Operation, Retained
<1>5. FrontType'
  BY <1>0, <1>1, <1>2, <1>4 DEF FrontType
<1>6. Single'
  BY <1>0, <1>1 DEF Single
<1>7. Unspent'
  BY <1>0, <1>1, <1>2, <1>3, <1>4, <1>c, SMTT(40) DEF Unspent
<1>8. \A d \in Clients : Settled(d)' <=> Settled(d)
  BY <1>1 DEF Settled
<1>9. Settled(c)
  BY <1>3 DEF Settled
<1>10. TruthKept'
  BY <1>0, <1>1, <1>2, <1>3, <1>8, <1>9, <1>c, FrontBounds DEF TruthKept
<1>11. AtMostOnce' /\ OutcomeTrue'
  BY <1>0, <1>2, <1>4, SMTT(40) DEF AtMostOnce, OutcomeTrue, Results
<1> QED
  BY <1>5, <1>6, <1>7, <1>10, <1>11 DEF FrontInv

-----------------------------------------------------------------------------
(* The daemon's handlers.                                                  *)

\* A handler has run: the call is replaced by its answered self.
LEMMA RanFields ==
  ASSUME FrontInv, NEW call \in calls, NEW id \in Nat, NEW ok \in BOOLEAN,
         Ran(call, id, ok)
  PROVE  /\ calls' \subseteq Call
         /\ \A k1, k2 \in calls' : k1.client = k2.client => k1 = k2
         /\ \A k \in calls' : k.client # call.client => k \in calls
         /\ \A k \in calls' : k.client = call.client => k.ran /\ k.ok = ok /\ k.kind = call.kind
<1> DEFINE new == [call EXCEPT !.ran = TRUE, !.id = id, !.ok = ok]
<1>0. calls \subseteq Call /\ \A k1, k2 \in calls : k1.client = k2.client => k1 = k2
  BY DEF FrontInv, FrontType, Single
<1>1. /\ new \in Call /\ new.client = call.client /\ new.ran /\ new.ok = ok
      /\ new.kind = call.kind
  BY <1>0 DEF Call
<1>2. calls' = (calls \ {call}) \cup {new}
  BY DEF Ran
<1> HIDE DEF new
<1> QED
  BY <1>0, <1>1, <1>2, SMTT(40)

LEMMA RejectsStep ==
  ASSUME FrontInv, NEW call \in calls, ~call.ran, Rejects(call),
         UNCHANGED <<inst, cl, kept>>
  PROVE  FrontInv'
<1>0. FrontType /\ Single /\ Unspent /\ TruthKept /\ AtMostOnce /\ OutcomeTrue
  BY DEF FrontInv
<1>1. Ran(call, 0, FALSE) /\ UNCHANGED <<ops, nextId, effects>>
  BY DEF Rejects
<1>2. /\ calls' \subseteq Call
      /\ \A k1, k2 \in calls' : k1.client = k2.client => k1 = k2
      /\ \A k \in calls' : k.client # call.client => k \in calls
      /\ \A k \in calls' : k.client = call.client => k.ran /\ k.kind = call.kind
  BY <1>1, RanFields
<1>3. \A k \in calls' : \E j \in calls : j.client = k.client /\ j.kind = k.kind
                                      /\ (j = k \/ ~j.ran) /\ (j.ran => k.ran)
  BY <1>2
<1>4. FrontType' /\ Single'
  BY <1>0, <1>1, <1>2 DEF FrontType, Single
<1>5. Unspent'
  <2>1. ASSUME NEW c \in Clients, cl[c].pc \in {"start", "direct"}
        PROVE \A k \in calls' : k.client # c
    BY <1>0, <1>3, <2>1, SMTT(40) DEF Unspent
  <2>2. ASSUME NEW k \in calls'
        PROVE /\ k.kind = cl[k.client].kind
              /\ ~k.ran \/ ~k.ok => effects[k.client] = 0 /\ \A o \in ops : o.client # k.client
    BY <1>0, <1>3, SMTT(40) DEF Unspent
  <2> QED
    BY <1>0, <1>1, <2>1, <2>2 DEF Unspent
<1>6. \A d \in Clients : Settled(d) => Settled(d)'
  BY <1>1, <1>3 DEF Settled
<1>7. TruthKept'
  <2>1. \A r \in kept : r.client \in Clients
    BY <1>0 DEF FrontType, Retained
  <2> QED
    BY <1>0, <1>6, <2>1 DEF TruthKept
<1>8. AtMostOnce' /\ OutcomeTrue'
  BY <1>0, <1>1 DEF AtMostOnce, OutcomeTrue
<1> QED
  BY <1>4, <1>5, <1>7, <1>8 DEF FrontInv

LEMMA RunsNowStep ==
  ASSUME FrontInv, NEW call \in calls, ~call.ran, RunsNow(call),
         UNCHANGED <<inst, cl, kept>>
  PROVE  FrontInv'
<1> DEFINE c == call.client
<1>0. FrontType /\ Single /\ Unspent /\ TruthKept /\ AtMostOnce /\ OutcomeTrue
  BY DEF FrontInv
<1>1. /\ Ran(call, 0, TRUE) /\ UNCHANGED <<ops, nextId>>
      /\ effects' = [effects EXCEPT ![c] = @ + 1]
  BY DEF RunsNow
<1>2. /\ calls' \subseteq Call
      /\ \A k1, k2 \in calls' : k1.client = k2.client => k1 = k2
      /\ \A k \in calls' : k.client # c => k \in calls
      /\ \A k \in calls' : k.client = c => k.ran /\ k.ok /\ k.kind = call.kind
  BY <1>1, RanFields
<1>c. /\ c \in Clients /\ \A k \in calls' : k.client \in Clients
      /\ \A o \in ops : o.client \in Clients
      /\ \A r \in kept : r.client \in Clients
  BY <1>0, <1>2 DEF FrontType, Call, Operation, Retained
<1>n. /\ effects[c] = 0 /\ call.kind = cl[c].kind /\ cl[c].pc \notin {"start", "direct"}
      /\ \A o \in ops : o.client # c
      /\ ~Settled(c)
  BY <1>0, <1>c DEF Unspent, Settled
<1> HIDE DEF c
<1>3. /\ effects' \in [Clients -> Nat] /\ effects'[c] = 1
      /\ \A d \in Clients \ {c} : effects'[d] = effects[d]
  BY <1>0, <1>1, <1>c, <1>n, SMTT(40) DEF FrontType
<1>4. FrontType' /\ Single'
  BY <1>0, <1>1, <1>2, <1>3 DEF FrontType, Single
<1>5. Unspent'
  <2>1. ASSUME NEW d \in Clients, cl[d].pc \in {"start", "direct"}
        PROVE effects'[d] = 0 /\ \A k \in calls' : k.client # d
    <3>1. d # c
      BY <1>n, <2>1
    <3> QED
      BY <1>0, <1>2, <1>3, <2>1, <3>1, SMTT(40) DEF Unspent
  <2>2. ASSUME NEW k \in calls'
        PROVE /\ k.kind = cl[k.client].kind
              /\ ~k.ran \/ ~k.ok => effects'[k.client] = 0 /\ \A o \in ops : o.client # k.client
    BY <1>0, <1>2, <1>3, <1>n, <1>c, SMTT(40) DEF Unspent
  <2>3. ASSUME NEW o \in ops, o.phase = "queued" PROVE effects'[o.client] = 0
    BY <1>0, <1>3, <1>n, <1>c, <2>3 DEF Unspent
  <2> QED
    BY <1>0, <1>1, <2>1, <2>2, <2>3 DEF Unspent
<1>6. \A d \in Clients : Settled(d) => Settled(d)'
  BY <1>1, <1>2 DEF Settled
<1>7. TruthKept'
  BY <1>0, <1>6, <1>c DEF TruthKept
<1>8. AtMostOnce'
  BY <1>0, <1>3, SMTT(40) DEF AtMostOnce
<1>9. OutcomeTrue'
  <2>1. cl[c].out \notin {"refused", "direct"}
    BY <1>0, <1>c, <1>n DEF TruthKept, Told
  <2> QED
    BY <1>0, <1>3, <2>1 DEF OutcomeTrue
<1> QED
  BY <1>4, <1>5, <1>7, <1>8, <1>9 DEF FrontInv

LEMMA RegistersStep ==
  ASSUME FrontInv, NEW call \in calls, ~call.ran, Ran(call, nextId, TRUE),
         ops' = ops \cup {Registered(call)}, nextId' = nextId + 1,
         UNCHANGED <<inst, cl, kept, effects>>
  PROVE  FrontInv'
<1> DEFINE c == call.client
           new == Registered(call)
<1>0. FrontType /\ Single /\ Unspent /\ TruthKept /\ AtMostOnce /\ OutcomeTrue
  BY DEF FrontInv
<1>1. nextId \in Nat /\ nextId' \in Nat /\ cl \in [Clients -> Caller]
  BY <1>0, SMTT(40) DEF FrontType
<1>2. /\ calls' \subseteq Call
      /\ \A k1, k2 \in calls' : k1.client = k2.client => k1 = k2
      /\ \A k \in calls' : k.client # c => k \in calls
      /\ \A k \in calls' : k.client = c => k.ran /\ k.ok /\ k.kind = call.kind
  BY <1>1, RanFields
<1>c. /\ c \in Clients
      /\ \A k \in calls' : k.client \in Clients
      /\ \A o \in ops : o.client \in Clients
      /\ \A r \in kept : r.client \in Clients
  BY <1>0, <1>2 DEF FrontType, Call, Operation, Retained
<1>n. /\ effects[c] = 0 /\ call.kind = cl[c].kind /\ cl[c].pc \notin {"start", "direct"}
      /\ \A o \in ops : o.client # c
      /\ ~Settled(c)
  BY <1>0, <1>c DEF Unspent, Settled
<1>3. new \in Operation /\ new.client = c /\ new.phase = "queued"
  BY <1>0, <1>1, <1>c DEF Registered, Operation, FrontType, Call, Caller
<1>4. ops' = ops \cup {new}
  OBVIOUS
<1> HIDE DEF c, new
<1>5. FrontType' /\ Single'
  BY <1>0, <1>1, <1>2, <1>3, <1>4, <1>n DEF FrontType, Single
<1>6. Unspent'
  <2>1. ASSUME NEW d \in Clients, cl[d].pc \in {"start", "direct"}
        PROVE (\A k \in calls' : k.client # d) /\ (\A o \in ops' : o.client # d)
    <3>1. d # c
      BY <1>n, <2>1
    <3> QED
      BY <1>0, <1>2, <1>3, <1>4, <2>1, <3>1, SMTT(40) DEF Unspent
  <2>2. ASSUME NEW k \in calls'
        PROVE /\ k.kind = cl[k.client].kind
              /\ ~k.ran \/ ~k.ok => effects[k.client] = 0 /\ \A o \in ops' : o.client # k.client
    BY <1>0, <1>2, <1>3, <1>4, <1>n DEF Unspent
  <2>3. ASSUME NEW o \in ops', o.phase = "queued" PROVE effects[o.client] = 0
    BY <1>0, <1>3, <1>4, <1>n, <2>3 DEF Unspent
  <2> QED
    BY <1>0, <2>1, <2>2, <2>3 DEF Unspent
<1>7. \A d \in Clients : Settled(d) => Settled(d)'
  BY <1>2, <1>3, <1>4, <1>n DEF Settled
<1>8. TruthKept'
  BY <1>0, <1>7, <1>c DEF TruthKept
<1>9. AtMostOnce' /\ OutcomeTrue'
  BY <1>0 DEF AtMostOnce, OutcomeTrue
<1> QED
  BY <1>5, <1>6, <1>8, <1>9 DEF FrontInv

LEMMA DispatchStep ==
  ASSUME FrontInv, NEW call \in calls, Dispatch(call)
  PROVE  FrontInv'
<1>1. ~call.ran /\ UNCHANGED <<inst, cl, kept>>
  BY DEF Dispatch
<1>2. CASE Rejects(call)
  BY <1>1, <1>2, RejectsStep
<1>3. CASE RunsNow(call)
  BY <1>1, <1>3, RunsNowStep
<1>4. CASE Accepts(call) \/ Watches(call)
  <2>1. /\ Ran(call, nextId, TRUE) /\ ops' = ops \cup {Registered(call)}
        /\ nextId' = nextId + 1 /\ UNCHANGED effects
    BY <1>4 DEF Accepts, Watches
  <2> QED
    BY <1>1, <2>1, RegistersStep
<1> QED
  BY <1>2, <1>3, <1>4 DEF Dispatch

-----------------------------------------------------------------------------
(* Accepted work.                                                          *)

LEMMA BeginStep ==
  ASSUME FrontInv, NEW o \in ops, o.phase = "queued",
         ops' = With(o, [o EXCEPT !.phase = "running"]),
         effects' = [effects EXCEPT ![o.client] = @ + 1],
         UNCHANGED <<inst, nextId, calls, cl, kept>>
  PROVE  FrontInv'
<1> DEFINE c == o.client
           new == [o EXCEPT !.phase = "running"]
<1>0. FrontType /\ Single /\ Unspent /\ TruthKept /\ AtMostOnce /\ OutcomeTrue
  BY DEF FrontInv
<1>1. /\ c \in Clients
      /\ \A k \in calls : k.client \in Clients
      /\ \A p \in ops : p.client \in Clients
      /\ \A r \in kept : r.client \in Clients
  BY <1>0 DEF FrontType, Call, Operation, Retained
<1>2. new \in Operation /\ new.client = c /\ new.phase = "running"
  BY <1>0 DEF FrontType, Operation
<1>3. ops' = (ops \ {o}) \cup {new}
  BY DEF With
<1>n. /\ effects[c] = 0 /\ cl[c].pc \notin {"start", "direct"}
      /\ \A k \in calls : k.client = c => k.ran /\ k.ok
      /\ \A p \in ops : p.client = c => p = o
      /\ ~Settled(c)
  BY <1>0, <1>1 DEF Unspent, Settled, Single
<1>4. /\ effects' \in [Clients -> Nat] /\ effects'[c] = 1
      /\ \A d \in Clients \ {c} : effects'[d] = effects[d]
  BY <1>0, <1>1, <1>n, SMTT(40) DEF FrontType
<1>e. \A p \in ops' : p = new \/ (p \in ops /\ p.client # c)
  BY <1>3, <1>n
<1>o. o.client = c
  OBVIOUS
<1> HIDE DEF c, new
<1>5. FrontType' /\ Single'
  BY <1>0, <1>2, <1>4, <1>e DEF FrontType, Single
<1>6. Unspent'
  <2>1. ASSUME NEW d \in Clients, cl[d].pc \in {"start", "direct"}
        PROVE effects'[d] = 0 /\ \A p \in ops' : p.client # d
    <3>1. d # c
      BY <1>n, <2>1
    <3> QED
      BY <1>0, <1>2, <1>4, <1>e, <2>1, <3>1, SMTT(40) DEF Unspent
  <2>2. ASSUME NEW k \in calls, ~k.ran \/ ~k.ok
        PROVE effects'[k.client] = 0 /\ \A p \in ops' : p.client # k.client
    BY <1>0, <1>1, <1>2, <1>4, <1>e, <1>n, <2>2, SMTT(40) DEF Unspent
  <2>3. ASSUME NEW p \in ops', p.phase = "queued" PROVE effects'[p.client] = 0
    BY <1>0, <1>1, <1>2, <1>4, <1>e, <2>3 DEF Unspent
  <2> QED
    BY <1>0, <2>1, <2>2, <2>3 DEF Unspent
<1>7. \A d \in Clients : Settled(d) => Settled(d)'
  BY <1>2, <1>e, <1>n DEF Settled
<1>8. TruthKept'
  BY <1>0, <1>7, <1>1 DEF TruthKept
<1>9. AtMostOnce'
  BY <1>0, <1>4, SMTT(40) DEF AtMostOnce
<1>10. OutcomeTrue'
  <2>1. cl[c].out \notin {"refused", "direct"}
    BY <1>0, <1>1, <1>n DEF TruthKept, Told
  <2> QED
    BY <1>0, <1>4, <2>1 DEF OutcomeTrue
<1> QED
  BY <1>5, <1>6, <1>8, <1>9, <1>10 DEF FrontInv

\* Work ends: only now is anything settled, so nothing older contradicts it.
LEMMA CloseStep ==
  ASSUME FrontInv, NEW o \in ops, ops' = ops \ {o},
         NEW caller \in Caller, cl' = [cl EXCEPT ![o.client] = caller],
         caller.pc = cl[o.client].pc, caller.kind = cl[o.client].kind,
         caller.out = cl[o.client].out,
         caller.mail \in {caller.truth, "garbled", cl[o.client].mail},
         kept' \subseteq Retained,
         \A r \in kept' : r \in kept \/ (r.client = o.client /\ r.result = caller.truth),
         UNCHANGED <<inst, nextId, calls, effects>>
  PROVE  FrontInv'
<1> DEFINE c == o.client
<1>0. FrontType /\ Single /\ Unspent /\ TruthKept /\ AtMostOnce /\ OutcomeTrue
  BY DEF FrontInv
<1>1. /\ c \in Clients
      /\ \A k \in calls : k.client \in Clients
      /\ \A p \in ops : p.client \in Clients
      /\ \A r \in kept' : r.client \in Clients
  BY <1>0 DEF FrontType, Call, Operation, Retained
<1>2. /\ cl' \in [Clients -> Caller] /\ cl'[c] = caller
      /\ \A d \in Clients \ {c} : cl'[d] = cl[d]
  BY <1>0, <1>1 DEF FrontType
<1>n. /\ cl[c].pc \notin {"start", "direct"}
      /\ \A k \in calls : k.client = c => k.ran /\ k.ok
      /\ \A p \in ops : p.client = c => p = o
      /\ ~Settled(c)
  BY <1>0, <1>1, SMTT(40) DEF Unspent, Settled, Single
<1>3. /\ cl[c].mail \notin Results
      /\ ~Told(cl[c])
      /\ \A r \in kept : r.client # c
  BY <1>0, <1>1, <1>n DEF TruthKept
<1>4. /\ caller.pc = cl[c].pc /\ caller.kind = cl[c].kind /\ caller.out = cl[c].out
      /\ caller.mail \in Results => caller.mail = caller.truth
      /\ \A r \in kept' : r \in kept \/ (r.client = c /\ r.result = caller.truth)
  BY <1>3 DEF Results
<1> HIDE DEF c
<1>5. FrontType' /\ Single'
  BY <1>0, <1>2 DEF FrontType, Single
<1>6. Unspent'
  <2>1. ASSUME NEW d \in Clients, cl'[d].pc \in {"start", "direct"}
        PROVE /\ effects[d] = 0 /\ cl'[d].out = None /\ cl'[d].mail = None
              /\ \A k \in calls : k.client # d
              /\ \A p \in ops' : p.client # d
              /\ \A r \in kept' : r.client # d
    <3>1. d # c
      BY <1>2, <1>4, <1>n, <2>1
    <3> QED
      BY <1>0, <1>2, <1>4, <2>1, <3>1 DEF Unspent
  <2>2. ASSUME NEW k \in calls
        PROVE /\ k.kind = cl'[k.client].kind
              /\ ~k.ran \/ ~k.ok => effects[k.client] = 0 /\ \A p \in ops' : p.client # k.client
    BY <1>0, <1>1, <1>2, <1>4, SMTT(40) DEF Unspent
  <2> QED
    BY <1>0, <2>1, <2>2 DEF Unspent
<1>7. Settled(c)' /\ \A d \in Clients : Settled(d) => Settled(d)'
  BY <1>n DEF Settled
<1>8. TruthKept'
  <2>1. ASSUME NEW d \in Clients, cl'[d].mail \in Results
        PROVE cl'[d].mail = cl'[d].truth /\ Settled(d)'
    BY <1>0, <1>2, <1>4, <1>7, <2>1 DEF TruthKept
  <2>2. ASSUME NEW r \in kept' PROVE r.result = cl'[r.client].truth /\ Settled(r.client)'
    BY <1>0, <1>1, <1>2, <1>3, <1>4, <1>7 DEF TruthKept
  <2>3. ASSUME NEW d \in Clients, Told(cl'[d])
        PROVE Settled(d)'
    BY <1>0, <1>2, <1>4, <1>7, <2>3 DEF TruthKept, Told
  <2> QED
    BY <2>1, <2>2, <2>3 DEF TruthKept
<1>9. AtMostOnce' /\ OutcomeTrue'
  BY <1>0, <1>2, <1>3, <1>4 DEF AtMostOnce, OutcomeTrue, Told
<1> QED
  BY <1>5, <1>6, <1>8, <1>9 DEF FrontInv

LEMMA FinishStep ==
  ASSUME FrontInv, NEW o \in ops, NEW r \in Results, Finish(o, r),
         UNCHANGED <<inst, nextId, calls, effects>>
  PROVE  FrontInv'
<1> DEFINE c == o.client
           caller(m) == [cl[c] EXCEPT !.truth = r,
                                      !.mail = IF cl[c].alive /\ phase = "up"
                                               THEN m ELSE cl[c].mail]
<1>1. /\ o \in Operation /\ c \in Clients /\ cl[c] \in Caller /\ kept \subseteq Retained
  BY DEF FrontInv, FrontType, Operation
<1>2. PICK m \in {r, "garbled"} : cl' = [cl EXCEPT ![c] = caller(m)]
  BY DEF Finish, Emit
<1>3. /\ caller(m) \in Caller /\ caller(m).pc = cl[c].pc /\ caller(m).kind = cl[c].kind
      /\ caller(m).out = cl[c].out /\ caller(m).truth = r
      /\ caller(m).mail \in {r, "garbled", cl[c].mail}
  BY <1>1 DEF Caller
<1>4. /\ kept' \subseteq Retained
      /\ \A k \in kept' : k \in kept \/ (k.client = c /\ k.result = r)
  BY <1>1, SMTT(40) DEF Finish, Retained, Operation
<1>5. ops' = ops \ {o}
  BY DEF Finish
<1> HIDE DEF caller
<1> QED
  BY <1>2, <1>3, <1>4, <1>5, CloseStep

LEMMA DoWorkStep ==
  ASSUME FrontInv, NEW o \in ops, DoWork(o)
  PROVE  FrontInv'
<1>1. UNCHANGED <<inst, nextId, calls>> /\ Work(o)
  BY DEF DoWork, daemonVars
<1>2. CASE /\ o.phase = "queued" /\ ops' = With(o, [o EXCEPT !.phase = "running"])
           /\ effects' = [effects EXCEPT ![o.client] = @ + 1] /\ UNCHANGED <<cl, kept>>
  BY <1>1, <1>2, BeginStep
<1>3. ASSUME NEW r \in Results, Finish(o, r), UNCHANGED effects PROVE FrontInv'
  BY <1>1, <1>3, FinishStep
<1> QED
  BY <1>1, <1>2, <1>3 DEF Work, Results

LEMMA PanicStep ==
  ASSUME FrontInv, NEW o \in ops, Panic(o)
  PROVE  FrontInv'
<1> DEFINE caller == [cl[o.client] EXCEPT !.truth = "lost"]
<1>1. o.client \in Clients /\ cl[o.client] \in Caller /\ kept \subseteq Retained
  BY DEF FrontInv, FrontType, Operation
<1>2. /\ caller \in Caller /\ caller.pc = cl[o.client].pc /\ caller.kind = cl[o.client].kind
      /\ caller.out = cl[o.client].out /\ caller.mail = cl[o.client].mail
  BY <1>1 DEF Caller
<1>3. /\ ops' = ops \ {o} /\ cl' = [cl EXCEPT ![o.client] = caller]
      /\ UNCHANGED <<inst, nextId, calls, kept, effects>>
  BY DEF Panic, daemonVars
<1> HIDE DEF caller
<1> QED
  BY <1>1, <1>2, <1>3, CloseStep

-----------------------------------------------------------------------------
(* The answer, and the end of the caller or of the daemon.                 *)

LEMMA ReplyStep ==
  ASSUME FrontInv, NEW call \in calls, Reply(call)
  PROVE  FrontInv'
<1> DEFINE c == call.client
           listening == [cl[c] EXCEPT !.pc = "events", !.id = call.id]
<1>0. FrontType /\ Single /\ Unspent
  BY DEF FrontInv
<1>1. /\ call \in Call /\ c \in Clients /\ cl \in [Clients -> Caller] /\ cl[c] \in Caller
      /\ call.kind = cl[c].kind
  BY <1>0 DEF FrontType, Call, Unspent
<1>2. /\ call.ran /\ calls' = calls \ {call}
      /\ ops' = ops \/ ops' = Dropped(ops, {c})
      /\ UNCHANGED <<inst, nextId, kept, effects>>
  BY DEF Reply, daemonVars
<1>3. \/ cl' = cl
      \/ ~call.ok /\ cl' = Ended(c, "refused")
      \/ call.kind = "immediate" /\ cl' = Ended(c, "succeeded")
      \/ cl' = [cl EXCEPT ![c] = listening]
  BY DEF Reply
<1>4. ~call.ok => Settled(c) /\ effects[c] = 0
  BY <1>0, <1>2 DEF Unspent, Single, Settled
<1>5. /\ listening \in Caller /\ listening.pc = "events" /\ listening.out = cl[c].out
      /\ listening.mail = cl[c].mail /\ listening.truth = cl[c].truth
      /\ listening.kind = cl[c].kind
  BY <1>1 DEF Caller, Call
<1>6. OpsShrink /\ ops' \subseteq Operation
  <2>1. CASE ops' = ops
    BY <1>0, <2>1, SameOps DEF FrontType
  <2>2. CASE ops' = Dropped(ops, {c})
    BY <1>0, <2>2, DroppedFields DEF OpsShrink
  <2> QED BY <1>2, <2>1, <2>2
<1> HIDE DEF c, listening
<1>7. cl' \in [Clients -> Caller] /\ \A d \in Clients : Harmless(d)
  <2>1. CASE cl' = cl
    BY <1>1, <2>1, Unmoved
  <2>2. CASE ~call.ok /\ cl' = Ended(c, "refused")
    <3>1. /\ cl' \in [Clients -> Caller] /\ \A d \in Clients \ {c} : cl'[d] = cl[d]
          /\ cl'[c].pc = "done" /\ cl'[c].out = "refused" /\ cl'[c].mail = None
          /\ cl'[c].truth = cl[c].truth /\ cl'[c].kind = cl[c].kind
      BY <1>0, <1>1, <2>2, EndedFields, SMTT(40)
    <3>2. Harmless(c)
      BY <1>4, <2>2, <3>1 DEF Harmless, Concludes, Results
    <3> QED BY <3>1, <3>2 DEF Harmless
  <2>3. CASE call.kind = "immediate" /\ cl' = Ended(c, "succeeded")
    <3>1. /\ cl' \in [Clients -> Caller] /\ \A d \in Clients \ {c} : cl'[d] = cl[d]
          /\ cl'[c].pc = "done" /\ cl'[c].out = "succeeded" /\ cl'[c].mail = None
          /\ cl'[c].truth = cl[c].truth /\ cl'[c].kind = cl[c].kind
      <4>1. "succeeded" \in Results \cup {None, "direct", "unknown", "refused"}
        BY DEF Results
      <4> QED BY <1>0, <1>1, <2>3, <4>1, EndedFields
    <3>2. Harmless(c)
      BY <1>1, <2>3, <3>1 DEF Harmless, Concludes, Told
    <3> QED BY <3>1, <3>2 DEF Harmless
  <2>4. CASE cl' = [cl EXCEPT ![c] = listening]
    <3>1. /\ cl' \in [Clients -> Caller] /\ cl'[c] = listening
          /\ \A d \in Clients \ {c} : cl'[d] = cl[d]
      BY <1>1, <1>5, <2>4
    <3> QED BY <1>5, <3>1 DEF Harmless
  <2> QED BY <1>3, <2>1, <2>2, <2>3, <2>4
<1>8. FrontType'
  BY <1>0, <1>2, <1>6, <1>7 DEF FrontType
<1> QED
  BY <1>2, <1>6, <1>7, <1>8, Shrinks

LEMMA ReadEventStep ==
  ASSUME FrontInv, NEW c \in Clients, ReadEvent(c)
  PROVE  FrontInv'
<1> DEFINE m == cl[c].mail
<1>0. FrontType /\ Single /\ TruthKept
  BY DEF FrontInv
<1>1. m # None /\ UNCHANGED <<inst, nextId, calls, ops, kept, effects>>
  BY DEF ReadEvent, daemonVars
<1>2. m \in Results \cup {None, "garbled"}
  BY <1>0 DEF FrontType, Caller
<1>3. CASE m # "garbled" /\ cl' = Ended(c, m)
  <2>1. m \in Results
    BY <1>1, <1>2, <1>3
  <2>2. m = cl[c].truth /\ Settled(c)
    BY <1>0, <2>1 DEF TruthKept
  <2>3. m # "refused"
    BY <2>1 DEF Results
  <2> QED BY <1>1, <1>3, <2>1, <2>2, <2>3, Ends
<1>4. CASE cl' = Ended(c, "unknown")
  BY <1>1, <1>4, Ends DEF Results
<1>5. CASE cl' = To(c, "recover")
  <2>1. /\ cl' \in [Clients -> Caller]
        /\ \A d \in Clients \ {c} : cl'[d] = cl[d]
        /\ cl'[c].pc = "recover" /\ cl'[c].out = cl[c].out /\ cl'[c].mail = cl[c].mail
        /\ cl'[c].truth = cl[c].truth /\ cl'[c].kind = cl[c].kind
    BY <1>0, <1>5, ToFields
  <2>2. FrontType'
    BY <1>0, <1>1, <2>1 DEF FrontType
  <2>3. \A d \in Clients : Harmless(d)
    BY <2>1 DEF Harmless
  <2> QED BY <1>0, <1>1, <2>2, <2>3, SameOps, Shrinks
<1> QED
  BY <1>3, <1>4, <1>5 DEF ReadEvent

LEMMA RecoverStep ==
  ASSUME FrontInv, NEW c \in Clients, Recover(c)
  PROVE  FrontInv'
<1> DEFINE record == CHOOSE k \in Finished(c) : TRUE
<1>1. UNCHANGED <<inst, nextId, calls, ops, kept, effects>>
  BY DEF Recover, daemonVars
<1>2. CASE cl' = Ended(c, "unknown")
  BY <1>1, <1>2, Ends DEF Results
<1>3. CASE Finished(c) # {} /\ cl' = Ended(c, record.result)
  <2>1. record \in Finished(c)
    BY <1>3
  <2>2. record \in kept /\ record.client = c /\ record \in Retained
    BY <2>1 DEF Finished, FrontInv, FrontType
  <2> HIDE DEF record
  <2>3. record.result \in Results /\ record.result = cl[c].truth /\ Settled(c)
    BY <2>2 DEF FrontInv, TruthKept, Retained
  <2>4. record.result # "refused"
    BY <2>3 DEF Results
  <2> QED BY <1>1, <1>3, <2>3, <2>4, Ends
<1> QED
  BY <1>2, <1>3 DEF Recover

LEMMA LeaveStep ==
  ASSUME FrontInv, NEW c \in Clients, Leave(c)
  PROVE  FrontInv'
<1> DEFINE ended == Ended(c, "unknown")
           gone == [ended[c] EXCEPT !.alive = FALSE]
<1>0. FrontType /\ Single
  BY DEF FrontInv
<1>1. /\ cl' = [ended EXCEPT ![c] = gone]
      /\ UNCHANGED <<inst, nextId, calls, ops, kept, effects>>
  BY DEF Leave, daemonVars
<1>2. /\ ended \in [Clients -> Caller]
      /\ \A d \in Clients \ {c} : ended[d] = cl[d]
      /\ ended[c].pc = "done" /\ ended[c].out = "unknown" /\ ended[c].mail = None
      /\ ended[c].truth = cl[c].truth /\ ended[c].kind = cl[c].kind
  BY <1>0, EndedFields, SMTT(40)
<1> HIDE DEF ended
<1>3. ended[c] \in Caller
  BY <1>2
<1>4. /\ gone \in Caller /\ gone.pc = "done" /\ gone.out = "unknown" /\ gone.mail = None
      /\ gone.truth = cl[c].truth /\ gone.kind = cl[c].kind
  BY <1>2, <1>3 DEF Caller
<1> HIDE DEF gone
<1>5. /\ cl' \in [Clients -> Caller] /\ cl'[c] = gone
      /\ \A d \in Clients \ {c} : cl'[d] = cl[d]
  BY <1>1, <1>2, <1>4
<1>6. FrontType'
  BY <1>0, <1>1, <1>5 DEF FrontType
<1>7. \A d \in Clients : Harmless(d)
  BY <1>4, <1>5 DEF Harmless, Concludes, Told, Results
<1> QED
  BY <1>0, <1>1, <1>6, <1>7, SameOps, Shrinks

LEMMA CancelOwnStep ==
  ASSUME FrontInv, NEW c \in Clients, CancelOwn(c)
  PROVE  FrontInv'
<1>0. FrontType /\ Single
  BY DEF FrontInv
<1>1. UNCHANGED <<inst, nextId, cl, calls, kept, effects>>
  BY DEF CancelOwn, daemonVars
<1>2. PICK o \in ops : ops' = With(o, [o EXCEPT !.stop = TRUE])
  BY DEF CancelOwn
<1> DEFINE new == [o EXCEPT !.stop = TRUE]
<1>3. new \in Operation /\ new.client = o.client /\ new.phase = o.phase
  BY <1>0 DEF FrontType, Operation
<1>4. ops' = (ops \ {o}) \cup {new}
  BY <1>2 DEF With
<1> HIDE DEF new
<1>5. OpsShrink /\ ops' \subseteq Operation
  BY <1>0, <1>3, <1>4, SMTT(40) DEF OpsShrink, Single, FrontType
<1>6. FrontType'
  BY <1>0, <1>1, <1>5 DEF FrontType
<1> QED
  BY <1>1, <1>5, <1>6, Unmoved, Shrinks

\* Owners that are gone lose their work, whoever noticed.
LEMMA DropStep ==
  ASSUME FrontInv, NEW owners, ops' = Dropped(ops, owners),
         UNCHANGED <<inst, nextId, cl, calls, kept, effects>>
  PROVE  FrontInv'
<1>0. FrontType /\ Single
  BY DEF FrontInv
<1>1. OpsShrink /\ ops' \subseteq Operation
  BY <1>0, DroppedFields DEF OpsShrink
<1>2. FrontType'
  BY <1>0, <1>1 DEF FrontType
<1> QED
  BY <1>1, <1>2, Unmoved, Shrinks

\* The daemon and its watcher come and go, with what the process kept.
LEMMA ProcessStep ==
  ASSUME FrontInv, inst' \in Nat, nextId' \in Nat, UNCHANGED <<cl, effects>>,
         calls' \subseteq calls, ops' \subseteq ops, kept' \subseteq kept
  PROVE  FrontInv'
<1>0. FrontType /\ Single
  BY DEF FrontInv
<1>1. FrontType'
  BY <1>0 DEF FrontType
<1> QED
  BY <1>0, <1>1, Unmoved, SameOps, Shrinks

-----------------------------------------------------------------------------
LEMMA FrontStarts == FrontInit => FrontInv
<1> SUFFICES ASSUME FrontInit PROVE FrontInv
  OBVIOUS
<1>1. PICK cast \in FrontCasts :
        cl = [c \in Clients |->
               IF c \in DOMAIN cast
               THEN [Fresh EXCEPT !.pc = "start", !.kind = cast[c]] ELSE Fresh]
  BY DEF FrontInit
<1>2. /\ Fresh \in Caller /\ Fresh.out = None /\ Fresh.mail = None
      /\ \A k \in Kinds :
           /\ [Fresh EXCEPT !.pc = "start", !.kind = k] \in Caller
           /\ [Fresh EXCEPT !.pc = "start", !.kind = k].out = None
           /\ [Fresh EXCEPT !.pc = "start", !.kind = k].mail = None
  BY DEF Fresh, Caller
<1>3. /\ cl \in [Clients -> Caller]
      /\ \A c \in Clients : cl[c].out = None /\ cl[c].mail = None
  BY <1>1, <1>2, FrontBounds
<1>4. /\ inst \in Nat /\ nextId \in Nat /\ calls = {} /\ ops = {} /\ kept = {}
      /\ effects \in [Clients -> Nat] /\ \A c \in Clients : effects[c] = 0
  BY DEF FrontInit
<1>5. FrontType /\ Single
  BY <1>3, <1>4 DEF FrontType, Single
<1>6. Unspent /\ TruthKept
  BY <1>3, <1>4, FrontBounds DEF Unspent, TruthKept, Told
<1>7. AtMostOnce /\ OutcomeTrue
  BY <1>3, <1>4, FrontBounds, SMTT(40) DEF AtMostOnce, OutcomeTrue
<1> QED
  BY <1>5, <1>6, <1>7 DEF FrontInv

LEMMA FrontSteps == FrontInv /\ [FrontNext]_frontVars => FrontInv'
<1> SUFFICES ASSUME FrontInv, [FrontNext]_frontVars PROVE FrontInv'
  OBVIOUS
<1>n. inst \in Nat /\ nextId \in Nat
  BY DEF FrontInv, FrontType
<1>1. ASSUME NEW c \in Clients, Unreachable(c) PROVE FrontInv'
  BY <1>1, UnreachableStep DEF Unreachable, daemonVars
<1>2. ASSUME NEW c \in Clients, Send(c) \/ RunDirect(c) PROVE FrontInv'
  BY <1>2, SendStep, RunDirectStep
<1>3. ASSUME NEW c \in Clients, ReplyLost(c) PROVE FrontInv'
  <2>1. cl' = Ended(c, "unknown") /\ UNCHANGED <<inst, nextId, calls, ops, kept, effects>>
    BY <1>3 DEF ReplyLost, daemonVars
  <2> QED BY <2>1, Ends DEF Results
<1>4. ASSUME NEW c \in Clients, ReadEvent(c) \/ Recover(c) \/ Leave(c) \/ CancelOwn(c)
      PROVE FrontInv'
  BY <1>4, ReadEventStep, RecoverStep, LeaveStep, CancelOwnStep
<1>5. ASSUME NEW c \in Clients, HandleLoss(c) PROVE FrontInv'
  BY <1>5, DropStep DEF HandleLoss, daemonVars
<1>6. ASSUME NEW call \in calls, Dispatch(call) \/ Reply(call) PROVE FrontInv'
  BY <1>6, DispatchStep, ReplyStep
<1>7. ASSUME NEW o \in ops, DoWork(o) \/ Panic(o) PROVE FrontInv'
  BY <1>7, DoWorkStep, PanicStep
<1>8. CASE Reconcile \/ WatchFails \/ StopWork
  BY <1>8, DropStep DEF Reconcile, WatchFails, StopWork, daemonVars
<1>9. CASE Lag \/ Subscribe \/ Start \/ Shutdown \/ Exit
  BY <1>9, <1>n, ProcessStep, SMTT(40) DEF Lag, Subscribe, Start, Shutdown, Exit
<1>10. CASE UNCHANGED frontVars
  BY <1>10, <1>n, ProcessStep DEF frontVars
<1> QED
  BY <1>1, <1>2, <1>3, <1>4, <1>5, <1>6, <1>7, <1>8, <1>9, <1>10 DEF FrontNext

\* For any callers, daemon processes, losses and faults, a command takes effect
\* at most once (safety::call, try_forward and the request lane).
THEOREM CommandsRunOnce == FrontSpec => []AtMostOnce
<1>1. FrontInv => AtMostOnce
  BY DEF FrontInv
<1> QED
  BY FrontStarts, FrontSteps, <1>1, PTL DEF FrontSpec

\* For any of them, a result a command prints is its own request's, a refused
\* one had no effect and a direct one had exactly one (finish_operation_event,
\* recover_terminal).
THEOREM OutcomesAreTrue == FrontSpec => []OutcomeTrue
<1>1. FrontInv => OutcomeTrue
  BY DEF FrontInv
<1> QED
  BY FrontStarts, FrontSteps, <1>1, PTL DEF FrontSpec

-----------------------------------------------------------------------------
\* The radios.

Stages == {"start", "record", "wireless", "wwan", "status", "judge"}
Locked == {"record", "wireless", "wwan"}
Switches == [Radio -> BOOLEAN]

RadioType ==
  /\ switch \in Switches /\ restore \in Switches /\ before \in Switches
  /\ airplane \in BOOLEAN /\ touched \in BOOLEAN
  /\ queue \in [Threads -> Seq(RadioRequest)]
  /\ stage \in [Threads -> Stages]
  /\ noted \in [Threads -> Switches]

\* The lock is held by exactly the thread that is in the middle of a change.
LockHeld ==
  /\ \A t \in Threads : stage[t] \in Locked => held = {t}
  /\ \A t \in held : t \in Threads /\ stage[t] \in Locked

\* What a thread in the middle of an airplane change has read and written.
Midway(t) ==
  stage[t] \in {"wireless", "wwan"} =>
    /\ Serving(t, "airplane")
    /\ ~airplane => Request(t).on
    /\ ~touched =>
         /\ restore = before \/ ~airplane
         /\ noted[t] = IF airplane THEN AllOff ELSE before
         /\ stage[t] = "wireless" => switch = noted[t]
         /\ stage[t] = "wwan" =>
              /\ switch["wireless"] = Target(t)["wireless"]
              /\ switch["wwan"] = noted[t]["wwan"]

\* A thread in the middle of a request has one.
Occupied == \A t \in Threads : stage[t] # "start" => queue[t] # <<>>

RadioInv ==
  RadioType /\ LockHeld /\ Occupied /\ AirplaneHolds /\ \A t \in Threads : Midway(t)

-----------------------------------------------------------------------------
LEMMA RadioStarts == RadioInit => RadioInv
<1> SUFFICES ASSUME RadioInit PROVE RadioInv
  OBVIOUS
<1>1. AllOff \in Switches
  BY DEF AllOff, Switches
<1>2. RadioType
  BY <1>1, RadioBounds DEF RadioInit, RadioType, Switches, Stages
<1>3. LockHeld /\ Occupied /\ \A t \in Threads : Midway(t)
  BY DEF RadioInit, LockHeld, Locked, Occupied, Midway
<1>4. AirplaneHolds
  BY DEF RadioInit, AirplaneHolds
<1> QED BY <1>2, <1>3, <1>4 DEF RadioInv

(* Serving a request to its end, and moving on, keep the types. *)
LEMMA ServedTypes ==
  ASSUME RadioType, NEW t \in Threads, queue[t] # <<>>, Served(t)
  PROVE  /\ queue' \in [Threads -> Seq(RadioRequest)]
         /\ stage' \in [Threads -> Stages]
         /\ noted' \in [Threads -> Switches]
         /\ stage'[t] = "start"
         /\ \A u \in Threads \ {t} : /\ queue'[u] = queue[u] /\ stage'[u] = stage[u]
                                     /\ noted'[u] = noted[u]
<1>1. Tail(queue[t]) \in Seq(RadioRequest)
  BY SMTT(40) DEF RadioType
<1>2. AllOff \in Switches
  BY DEF AllOff, Switches
<1> QED
  BY <1>1, <1>2 DEF RadioType, Served, Stages

LEMMA RequestType ==
  ASSUME RadioType, NEW t \in Threads, queue[t] # <<>>
  PROVE  Request(t) \in RadioRequest
BY SMTT(40) DEF RadioType, Request

LEMMA RadioStep ==
  ASSUME RadioInv, RadioNext
  PROVE  RadioInv'
<1> USE DEF RadioInv
<1>0. AllOff \in Switches
  BY DEF AllOff, Switches
<1>B. Occupied'
  <2>1. ASSUME NEW t \in Threads, queue[t] # <<>>, Served(t) PROVE Occupied'
    BY <2>1, ServedTypes DEF Occupied
  <2>2. ASSUME NEW t \in Threads, queue[t] # <<>>, NEW s, Move(t, s), UNCHANGED queue PROVE Occupied'
    BY <2>2 DEF Move, Occupied, RadioType
  <2>3. UNCHANGED <<stage, queue>> => Occupied'
    BY DEF Occupied
  <2> QED
    BY <2>1, <2>2, <2>3 DEF RadioNext, SetRadio, RecordChange, ReadSwitches, ApplyWireless, ApplyWwan, ReadStatus,
       JudgeStatus, ExternalSwitch, Serving, Occupied
<1>1. ASSUME NEW t \in Threads, SetRadio(t) PROVE RadioInv'
  <2>1. Request(t) \in RadioRequest
    BY <1>1, RequestType DEF SetRadio, Serving
  <2>2. CASE Declined /\ Served(t) /\ UNCHANGED <<switch, held>>
    <3>1. RadioType'
      BY <1>1, <2>2, ServedTypes DEF SetRadio, Serving, RadioType
    <3>2. LockHeld'
      BY <1>1, <2>2, ServedTypes DEF SetRadio, Serving, LockHeld, Locked
    <3>3. AirplaneHolds'
      BY <1>1, <2>2 DEF SetRadio, AirplaneHolds
    <3>4. ASSUME NEW u \in Threads PROVE Midway(u)'
      BY <1>1, <2>2, <3>2, ServedTypes DEF SetRadio, Serving, LockHeld, Locked, Midway, Target, Request
    <3> QED BY <1>B, <3>1, <3>2, <3>3, <3>4
  <2>3. CASE /\ switch' = [switch EXCEPT ![Request(t).radio] = Request(t).on]
             /\ held' = {t} /\ Move(t, "record") /\ UNCHANGED <<queue, noted, refusals>>
    <3>1. RadioType'
      BY <1>1, <2>1, <2>3 DEF SetRadio, RadioType, Move, Stages, Switches, RadioRequest
    <3>2. LockHeld'
      BY <1>1, <2>3 DEF SetRadio, RadioType, LockHeld, Locked, Move
    <3>3. AirplaneHolds'
      BY <2>3 DEF AirplaneHolds
    <3>4. ASSUME NEW u \in Threads PROVE Midway(u)'
      BY <1>1, <2>3, <3>2 DEF SetRadio, RadioType, LockHeld, Locked, Midway, Move
    <3> QED BY <1>B, <3>1, <3>2, <3>3, <3>4
  <2> QED BY <1>1, <2>2, <2>3 DEF SetRadio
<1>2. ASSUME NEW t \in Threads, RecordChange(t) PROVE RadioInv'
  <2>1. Request(t) \in RadioRequest
    BY <1>2, RequestType DEF RecordChange, Serving
  <2>2. held = {t} /\ \A u \in Threads \ {t} : stage[u] \notin Locked
    BY <1>2 DEF RecordChange, LockHeld, Locked
  <2>a. /\ queue' \in [Threads -> Seq(RadioRequest)] /\ noted' \in [Threads -> Switches]
        /\ stage' \in [Threads -> Stages] /\ stage'[t] \notin Locked
        /\ \A u \in Threads \ {t} : stage'[u] = stage[u]
    <3>1. CASE Served(t)
      BY <1>2, <3>1, ServedTypes DEF RecordChange, Serving, Locked
    <3>2. CASE Move(t, "status") /\ UNCHANGED <<queue, noted>>
      BY <3>2 DEF RadioType, Move, Stages, Locked
    <3> QED BY <1>2, <3>1, <3>2 DEF RecordChange
  <2>3. RadioType'
    BY <1>2, <2>1, <2>a DEF RecordChange, RadioType, Switches, RadioRequest
  <2>4. LockHeld'
    BY <1>2, <2>2, <2>a DEF RecordChange, LockHeld
  <2>5. AirplaneHolds'
    BY <1>2 DEF RecordChange, AirplaneHolds
  <2>6. ASSUME NEW u \in Threads PROVE Midway(u)'
    BY <1>2, <2>4 DEF RecordChange, LockHeld, Locked, Midway
  <2> QED BY <1>B, <2>3, <2>4, <2>5, <2>6
<1>3. ASSUME NEW t \in Threads, ReadSwitches(t) PROVE RadioInv'
  <2>0. CASE Declined /\ Served(t) /\ UNCHANGED <<held, before, touched>>
    <3>1. RadioType'
      BY <1>3, <2>0, ServedTypes DEF ReadSwitches, Serving, RadioType
    <3>2. LockHeld'
      BY <1>3, <2>0, ServedTypes DEF ReadSwitches, Serving, LockHeld, Locked
    <3>3. AirplaneHolds'
      BY <1>3, <2>0 DEF ReadSwitches, AirplaneHolds
    <3>4. ASSUME NEW u \in Threads PROVE Midway(u)'
      BY <1>3, <2>0, <3>2 DEF ReadSwitches, LockHeld, Locked, Midway
    <3> QED BY <1>B, <3>1, <3>2, <3>3, <3>4
  <2>1. CASE Move(t, "status") /\ UNCHANGED <<held, queue, noted, before, touched, refusals>>
    <3>1. RadioType'
      BY <1>3, <2>1 DEF ReadSwitches, RadioType, Move, Stages
    <3>2. LockHeld'
      BY <1>3, <2>1 DEF ReadSwitches, RadioType, LockHeld, Locked, Move
    <3>3. AirplaneHolds'
      BY <1>3, <2>1 DEF ReadSwitches, AirplaneHolds
    <3>4. ASSUME NEW u \in Threads PROVE Midway(u)'
      BY <1>3, <2>1, <3>2 DEF ReadSwitches, LockHeld, Locked, Midway
    <3> QED BY <1>B, <3>1, <3>2, <3>3, <3>4
  <2>2. CASE /\ Request(t).on \/ airplane
             /\ held' = {t} /\ noted' = [noted EXCEPT ![t] = switch]
             /\ before' = (IF airplane THEN before ELSE switch)
             /\ touched' = (airplane /\ touched)
             /\ Move(t, "wireless") /\ UNCHANGED <<queue, refusals>>
    <3>1. RadioType'
      BY <1>3, <2>2 DEF ReadSwitches, RadioType, Move, Stages
    <3>2. LockHeld'
      BY <1>3, <2>2 DEF ReadSwitches, RadioType, LockHeld, Locked, Move
    <3>3. AirplaneHolds'
      BY <2>2 DEF AirplaneHolds
    <3>4. ASSUME NEW u \in Threads PROVE Midway(u)'
      <4>1. CASE u = t
        BY <1>3, <2>2, <4>1 DEF ReadSwitches, RadioType, Move, Midway, Serving, Request, AirplaneHolds
      <4>2. CASE u # t
        BY <1>3, <2>2, <3>2, <4>2 DEF ReadSwitches, LockHeld, Locked, Midway
      <4> QED BY <4>1, <4>2
    <3> QED BY <1>B, <3>1, <3>2, <3>3, <3>4
  <2> QED BY <1>3, <2>0, <2>1, <2>2 DEF ReadSwitches
<1>4. ASSUME NEW t \in Threads, ApplyWireless(t) PROVE RadioInv'
  <2>1. held = {t} /\ \A u \in Threads \ {t} : stage[u] \notin Locked
    BY <1>4 DEF ApplyWireless, LockHeld, Locked
  <2>2. CASE Declined /\ Served(t) /\ held' = {} /\ UNCHANGED switch
    <3>1. RadioType'
      BY <1>4, <2>2, ServedTypes DEF ApplyWireless, Serving, RadioType
    <3>2. LockHeld'
      BY <1>4, <2>1, <2>2, ServedTypes
         DEF ApplyWireless, Serving, LockHeld, Locked
    <3>3. AirplaneHolds'
      <4>1. UNCHANGED <<airplane, restore, before, touched, switch>> /\ stage[t] = "wireless"
        BY <1>4, <2>2 DEF ApplyWireless
      <4>2. ASSUME airplane, ~touched PROVE switch = AllOff /\ restore = before
        <5>1. Midway(t)
          OBVIOUS
        <5>2. /\ restore = before \/ ~airplane
              /\ noted[t] = IF airplane THEN AllOff ELSE before
              /\ switch = noted[t]
          BY <4>1, <4>2, <5>1 DEF Midway
        <5> QED
          BY <4>2, <5>2
      <4> QED
        BY <4>1, <4>2 DEF AirplaneHolds
    <3>4. ASSUME NEW u \in Threads PROVE Midway(u)'
      BY <2>2, <3>2 DEF LockHeld, Locked, Midway
    <3> QED BY <1>B, <3>1, <3>2, <3>3, <3>4
  <2>3. CASE /\ switch' = [switch EXCEPT !["wireless"] = Target(t)["wireless"]]
             /\ Move(t, "wwan") /\ UNCHANGED <<held, queue, noted, refusals>>
    <3>1. RadioType'
      BY <1>0, <1>4, <2>3 DEF ApplyWireless, RadioType, Move, Stages, Target, Switches, Radio
    <3>2. LockHeld'
      BY <1>4, <2>1, <2>3 DEF RadioType, LockHeld, Locked, Move
    <3>3. AirplaneHolds'
      BY <2>1, <2>3 DEF AirplaneHolds
    <3>4. ASSUME NEW u \in Threads PROVE Midway(u)'
      <4>1. CASE u = t
        <5>1. switch'["wireless"] = Target(t)["wireless"] /\ switch'["wwan"] = switch["wwan"]
          BY <2>3 DEF RadioType, Switches, Radio
        <5> QED
          BY <1>4, <2>3, <4>1, <5>1 DEF ApplyWireless, RadioType, Move, Midway, Serving, Request, Target
      <4>2. CASE u # t
        BY <2>1, <2>3, <3>2, <4>2 DEF LockHeld, Locked, Midway
      <4> QED BY <4>1, <4>2
    <3> QED BY <1>B, <3>1, <3>2, <3>3, <3>4
  <2> QED BY <1>4, <2>2, <2>3 DEF ApplyWireless
<1>5. ASSUME NEW t \in Threads, ApplyWwan(t) PROVE RadioInv'
  <2>1. held = {t} /\ \A u \in Threads \ {t} : stage[u] \notin Locked
    BY <1>5 DEF ApplyWwan, LockHeld, Locked
  <2>2. CASE /\ Declined /\ Served(t)
             /\ switch' = [switch EXCEPT !["wireless"] = noted[t]["wireless"]]
             /\ UNCHANGED <<airplane, restore, touched>>
    <3>1. RadioType'
      BY <1>5, <2>2, ServedTypes, SMTT(40) DEF ApplyWwan, Serving, RadioType, Switches, Radio
    <3>2. LockHeld'
      BY <1>5, <2>1, <2>2, ServedTypes DEF ApplyWwan, Serving, LockHeld, Locked
    <3>3. ASSUME airplane, ~touched PROVE switch' = AllOff
      <4>1. noted[t] = AllOff /\ switch["wwan"] = noted[t]["wwan"]
        BY <1>5, <3>3 DEF ApplyWwan, Midway
      <4> QED BY <2>2, <4>1 DEF RadioType, Switches, Radio, AllOff
    <3>4. AirplaneHolds'
      BY <1>5, <2>2, <3>3 DEF ApplyWwan, Midway, AirplaneHolds
    <3>5. ASSUME NEW u \in Threads PROVE Midway(u)'
      BY <1>5, <3>2 DEF ApplyWwan, LockHeld, Locked, Midway
    <3> QED BY <1>B, <3>1, <3>2, <3>4, <3>5
  <2>3. CASE /\ switch' = [switch EXCEPT !["wwan"] = Target(t)["wwan"]]
             /\ restore' = Remembered(t) /\ airplane' = Request(t).on
             /\ Move(t, "status") /\ UNCHANGED <<queue, noted, touched, refusals>>
    <3>0. Request(t) \in RadioRequest
      BY <1>5, RequestType DEF ApplyWwan, Serving
    <3>1. RadioType'
      BY <1>0, <1>5, <2>3, <3>0 DEF ApplyWwan, RadioType, Move, Stages, Target, Remembered, Switches,
         Radio, RadioRequest
    <3>2. LockHeld'
      BY <1>5, <2>1, <2>3 DEF ApplyWwan, RadioType, LockHeld, Locked, Move
    <3>3. ASSUME Request(t).on, ~touched PROVE switch' = AllOff
      <4>1. Target(t) = AllOff /\ switch["wireless"] = Target(t)["wireless"]
        BY <1>5, <3>3 DEF ApplyWwan, Midway, Target
      <4> QED BY <2>3, <4>1 DEF RadioType, Switches, Radio, AllOff
    <3>4. AirplaneHolds'
      BY <1>5, <2>3, <3>3 DEF ApplyWwan, Midway, AirplaneHolds, Remembered
    <3>5. ASSUME NEW u \in Threads PROVE Midway(u)'
      BY <1>5, <3>2 DEF ApplyWwan, LockHeld, Locked, Midway
    <3> QED BY <1>B, <3>1, <3>2, <3>4, <3>5
  <2>4. CASE Served(t) /\ touched' = TRUE /\ UNCHANGED <<switch, airplane, restore>>
    <3>1. RadioType'
      BY <1>5, <2>4, ServedTypes DEF ApplyWwan, Serving, RadioType
    <3>2. LockHeld'
      BY <1>5, <2>1, <2>4, ServedTypes DEF ApplyWwan, Serving, LockHeld, Locked
    <3>3. ASSUME NEW u \in Threads PROVE Midway(u)'
      BY <1>5, <3>2 DEF ApplyWwan, LockHeld, Locked, Midway
    <3> QED BY <1>B, <2>4, <3>1, <3>2, <3>3 DEF AirplaneHolds
  <2> QED BY <1>5, <2>2, <2>3, <2>4 DEF ApplyWwan
<1>6. ASSUME NEW t \in Threads, ReadStatus(t) PROVE RadioInv'
  <2>1. stage[t] \notin Locked
    BY <1>6 DEF ReadStatus, Locked
  <2>a. /\ queue' \in [Threads -> Seq(RadioRequest)] /\ noted' \in [Threads -> Switches]
        /\ stage' \in [Threads -> Stages] /\ stage'[t] \notin Locked
        /\ \A u \in Threads \ {t} : /\ stage'[u] = stage[u] /\ noted'[u] = noted[u]
                                   /\ queue'[u] = queue[u]
    <3>1. CASE Served(t)
      BY <1>6, <3>1, ServedTypes DEF ReadStatus, Locked
    <3>2. CASE Move(t, "judge") /\ UNCHANGED queue
      <4>1. [switch EXCEPT !["wwan"] = FALSE] \in Switches
        BY DEF RadioType, Switches
      <4> QED BY <1>6, <3>1, <3>2, <4>1 DEF ReadStatus, RadioType, Move, Stages, Locked
    <3> QED BY <1>6, <3>1, <3>2 DEF ReadStatus
  <2>2. RadioType'
    BY <1>6, <2>a DEF ReadStatus, RadioType
  <2>3. LockHeld'
    BY <1>6, <2>1, <2>a DEF ReadStatus, LockHeld
  <2>4. AirplaneHolds'
    BY <1>6 DEF ReadStatus, AirplaneHolds
  <2>5. ASSUME NEW u \in Threads PROVE Midway(u)'
    BY <1>6, <2>a DEF ReadStatus, Locked, Midway, Serving, Request, Target
  <2> QED BY <1>B, <2>2, <2>3, <2>4, <2>5
<1>7. ASSUME NEW t \in Threads, JudgeStatus(t) PROVE RadioInv'
  <2>1. queue[t] # <<>>
    BY <1>7 DEF JudgeStatus, Occupied
  <2>2. RadioType' /\ LockHeld'
    BY <1>7, <2>1, ServedTypes DEF JudgeStatus, RadioType, LockHeld, Locked
  <2>3. AirplaneHolds'
    BY <1>7 DEF JudgeStatus, AirplaneHolds
  <2>4. ASSUME NEW u \in Threads PROVE Midway(u)'
    BY <1>7, <2>2 DEF JudgeStatus, LockHeld, Locked, Midway
  <2> QED BY <1>B, <2>2, <2>3, <2>4
<1>8. ASSUME NEW r \in Radio, ExternalSwitch(r) PROVE RadioInv'
  <2>1. RadioType'
    BY <1>8 DEF ExternalSwitch, RadioType, Switches
  <2>2. LockHeld' /\ AirplaneHolds'
    BY <1>8 DEF ExternalSwitch, LockHeld, AirplaneHolds
  <2>3. ASSUME NEW u \in Threads PROVE Midway(u)'
    BY <1>8 DEF ExternalSwitch, Midway, Serving, Request
  <2> QED BY <1>B, <2>1, <2>2, <2>3
<1> QED
  BY <1>1, <1>2, <1>3, <1>4, <1>5, <1>6, <1>7, <1>8 DEF RadioNext

(* Between changes, airplane mode keeps both radios off and remembers what  *)
(* was on when it was entered, until a switch is changed by other means or  *)
(* a roll-back is refused (set_airplane_mode, commit_airplane,              *)
(* apply_radio_switches).                                                   *)
THEOREM AirplaneModeHolds == RadioSpec => []AirplaneHolds
<1>1. RadioInv /\ UNCHANGED radioVars => RadioInv'
  BY SMTT(40) DEF RadioInv, RadioType, LockHeld, Occupied, AirplaneHolds, Midway, Serving, Request, Target, radioVars
<1>2. RadioInv => AirplaneHolds
  BY DEF RadioInv
<1> QED
  BY <1>1, <1>2, RadioStarts, RadioStep, PTL DEF RadioSpec

-----------------------------------------------------------------------------
\* Hotspots and VPN links.

LinkPlaces ==
    {"begin", "add", "activate", "await", "owner", "report", "fail", "rollback", "remove",
     "removed", "lookup", "deactivate", "delete", "done"}

LinkType ==
    /\ task \in [LinkWorkers -> Tasks] /\ at \in [LinkWorkers -> LinkPlaces]
    /\ flag \in [LinkWorkers -> BOOLEAN]
    /\ outcome \in [LinkWorkers -> {"none", "succeeded", "failed", "cancelled"}]
    /\ link \in [Activations -> {"none", "activating", "activated", "down"}]
    /\ target \in [LinkWorkers -> SUBSET Activations]
    /\ chosen = [w \in LinkWorkers |-> chosen[w]]

\* Where a worker can be, and that its terminal event is its last step.
Placed(w) ==
    /\ Stopping(w) => at[w] \in {"lookup", "deactivate", "delete", "done"}
    /\ at[w] = "add" => task[w] = "hotspot-start"
    /\ at[w] = "activate" => task[w] = "vpn-connect"
    /\ at[w] \in {"done", "removed"} \/ outcome[w] = "none"

\* One hotspot and one activation of the VPN profile at a time.
SoloInv ==
    \A a, b \in Activations :
        link[a] \in Up /\ link[b] \in Up /\ (Hotspot(a) <=> Hotspot(b)) => a = b

\* Between its check and its activation a hotspot start is alone.
AddInv ==
    \A w \in LinkWorkers : at[w] = "add" =>
        txn = {w} /\ \A v \in LinkWorkers : v \notin Running(TRUE)

\* A start's link is down wherever it ends without success, and on the way there.
Swept(w) ==
    /\ w \notin scope => link[w] \notin Up /\ w \notin volatile
    /\ at[w] \in {"begin", "add", "activate", "fail", "delete"} /\ ~Stopping(w) => link[w] \notin Up
    /\ at[w] = "remove" /\ w \notin unswept => link[w] \notin Up
    /\ at[w] = "deactivate" /\ ~Stopping(w) => link[w] \notin Up \/ w \in target[w]
    /\ at[w] \in {"done", "removed"} /\ ~Stopping(w) /\ outcome[w] # "succeeded" /\ w \notin unswept =>
         link[w] \notin Up
    /\ at[w] = "removed" /\ w \notin unswept => w \notin volatile

LinkInv ==
    /\ LinkType /\ SoloInv /\ AddInv
    /\ \A w \in LinkWorkers : Placed(w) /\ Swept(w) /\ \A c \in chosen[w] : HotspotFits(c)
\* A worker nothing happens to, while links only go down.
LEMMA LinkCalm ==
    ASSUME NEW w \in LinkWorkers, Placed(w), Swept(w), task' = task, at'[w] = at[w],
           outcome'[w] = outcome[w], target'[w] = target[w],
           link'[w] \in Up => link[w] \in Up, w \in volatile' => w \in volatile,
           w \in unswept => w \in unswept',
           w \notin scope' => w \notin scope \/ (link'[w] \notin Up /\ w \notin volatile')
    PROVE  Placed(w)' /\ Swept(w)'
BY DEF Placed, Swept, Stopping

\* A step of one worker.  Of the other activations none comes up; what the
\* worker itself has come to is shown of each step.
LEMMA LinkMoved ==
    ASSUME LinkInv, NEW w \in LinkWorkers, LinkType', SoloInv', task' = task,
           \A v \in LinkWorkers \ {w} :
              /\ at'[v] = at[v] /\ outcome'[v] = outcome[v] /\ target'[v] = target[v]
              /\ chosen'[v] = chosen[v]
              /\ link'[v] \in Up => link[v] \in Up
              /\ v \in volatile' => v \in volatile
              /\ v \in unswept => v \in unswept'
              /\ txn = {v} => txn' = {v},
           scope' = scope,
           link'[w] \in Up => link[w] \in Up \/ ~Hotspot(w) \/ txn = {w},
           at'[w] = "add" => txn' = {w} /\ \A v \in LinkWorkers : v \notin Running(TRUE)',
           Placed(w)', Swept(w)', \A c \in chosen'[w] : HotspotFits(c)
    PROVE  LinkInv'
<1>1. \A v \in LinkWorkers : Placed(v) /\ Swept(v) /\ \A c \in chosen[v] : HotspotFits(c)
  BY DEF LinkInv
<1>2. \A v \in LinkWorkers : Placed(v)' /\ Swept(v)' /\ \A c \in chosen'[v] : HotspotFits(c)
  <2> SUFFICES ASSUME NEW v \in LinkWorkers \ {w}
               PROVE  Placed(v)' /\ Swept(v)' /\ \A c \in chosen'[v] : HotspotFits(c)
    OBVIOUS
  <2>1. Placed(v) /\ Swept(v) /\ \A c \in chosen[v] : HotspotFits(c)
    BY <1>1
  <2>2. Placed(v)' /\ Swept(v)'
    BY <2>1, LinkCalm
  <2> QED BY <2>1, <2>2
<1>3. AddInv'
  <2> SUFFICES ASSUME NEW v \in LinkWorkers \ {w}, at[v] = "add"
               PROVE  txn' = {v} /\ \A u \in LinkWorkers : u \notin Running(TRUE)'
    BY DEF AddInv
  <2>1. txn = {v} /\ \A u \in LinkWorkers : u \notin Running(TRUE)
    BY DEF LinkInv, AddInv
  <2>2. txn' = {v} /\ txn # {w}
    BY <2>1
  <2>3. ASSUME NEW u \in LinkWorkers, u \in Running(TRUE)' PROVE FALSE
    <3>1. link'[u] \in Up /\ Hotspot(u)
      BY <2>3 DEF Running, Hotspot
    <3>2. link[u] \in Up
      BY <2>2, <3>1
    <3>3. u \in Running(TRUE)
      BY <3>1, <3>2 DEF Running, Activations
    <3> QED BY <2>1, <3>3
  <2> QED BY <2>2, <2>3
<1> QED BY <1>2, <1>3 DEF LinkInv

\* A step of the environment.
LEMMA LinkOutside ==
    ASSUME LinkInv, LinkType', SoloInv',
           UNCHANGED <<task, at, outcome, target, chosen, txn, unswept>>,
           \A v \in LinkWorkers :
              /\ link'[v] \in Up => link[v] \in Up
              /\ v \in volatile' => v \in volatile
              /\ v \notin scope' => v \notin scope \/ (link'[v] \notin Up /\ v \notin volatile')
    PROVE  LinkInv'
<1>1. ASSUME NEW v \in LinkWorkers PROVE Placed(v)' /\ Swept(v)'
  BY LinkCalm DEF LinkInv
<1>2. AddInv'
  <2> SUFFICES ASSUME NEW v \in LinkWorkers, at[v] = "add"
               PROVE  txn = {v} /\ \A u \in LinkWorkers : u \notin Running(TRUE)'
    BY DEF AddInv
  <2>1. txn = {v} /\ \A u \in LinkWorkers : u \notin Running(TRUE)
    BY DEF LinkInv, AddInv
  <2>2. ASSUME NEW u \in LinkWorkers, u \in Running(TRUE)' PROVE FALSE
    BY <2>1, <2>2 DEF Running, Hotspot
  <2> QED BY <2>1, <2>2
<1> QED BY <1>1, <1>2 DEF LinkInv

\* When no activation comes up, there is still one of a kind.
LEMMA SoloKept ==
    ASSUME SoloInv, task' = task, \A a \in Activations : link'[a] \in Up => link[a] \in Up
    PROVE  SoloInv'
BY DEF SoloInv, Hotspot

\* An activation that comes up displaces the others of its kind.
LEMMA SoloRaised ==
    ASSUME SoloInv, task' = task, NEW w \in Activations, NEW hot \in BOOLEAN, Hotspot(w) <=> hot,
           \A a \in Activations \ {w} : link'[a] \in Up => link[a] \in Up /\ a \notin Running(hot)
    PROVE  SoloInv'
<1> SUFFICES ASSUME NEW a \in Activations, NEW b \in Activations,
                    link'[a] \in Up, link'[b] \in Up, Hotspot(a) <=> Hotspot(b)
             PROVE  a = b
  BY DEF SoloInv, Hotspot
<1>1. CASE a # w /\ b # w
  BY <1>1 DEF SoloInv
<1>2. ASSUME NEW c \in Activations \ {w}, link'[c] \in Up, Hotspot(c) <=> hot PROVE FALSE
  BY <1>2 DEF Running
<1> QED BY <1>1, <1>2

LEMMA LinkInitial ==
    ASSUME LinkInit PROVE LinkInv
<1>1. task \in [LinkWorkers -> Tasks]
  BY LinkAssumption DEF LinkInit
<1>2. LinkType
  BY <1>1 DEF LinkInit, LinkType, LinkPlaces
<1>3. \A a \in Activations : link[a] \notin Up
  BY DEF LinkInit, Up
<1>4. \A w \in LinkWorkers :
        /\ at[w] = IF task[w] \in {"hotspot-start", "vpn-connect"} THEN "begin" ELSE "lookup"
        /\ outcome[w] = "none" /\ chosen[w] = {} /\ link[w] \notin Up /\ w \in scope
  BY <1>3 DEF LinkInit, Activations
<1>5. \A w \in LinkWorkers : Placed(w) /\ Swept(w)
  BY <1>4 DEF Placed, Swept, Stopping
<1> QED BY <1>2, <1>3, <1>4, <1>5 DEF LinkInv, SoloInv, AddInv
\* The end of a worker.
LEMMA LinkEnded ==
    ASSUME LinkInv, NEW w \in LinkWorkers, NEW p \in {"done", "removed"},
           NEW o \in {"succeeded", "failed", "cancelled"}, EndAt(w, p, o)
    PROVE  /\ at' = [at EXCEPT ![w] = p] /\ at'[w] = p
           /\ outcome' = [outcome EXCEPT ![w] = o] /\ outcome'[w] = o
           /\ \A v \in LinkWorkers \ {w} : txn = {v} => txn' = {v}
BY DEF EndAt, Goto, LinkInv, LinkType

\* A step that raises no link and chooses no hotspot.
LEMMA LinkPasses ==
    ASSUME LinkInv, NEW w \in LinkWorkers, NEW p \in LinkPlaces \ {"add"},
           at' = [at EXCEPT ![w] = p], NEW o, outcome' = [outcome EXCEPT ![w] = o],
           o \in {"none", "succeeded", "failed", "cancelled"},
           link' \in [Activations -> {"none", "activating", "activated", "down"}],
           \A a \in Activations : link'[a] \in Up => link[a] \in Up,
           NEW t \in SUBSET Activations, target' = [target EXCEPT ![w] = t],
           \A v \in LinkWorkers \ {w} :
              /\ v \in volatile' => v \in volatile
              /\ v \in unswept => v \in unswept'
              /\ txn = {v} => txn' = {v},
           chosen' = chosen \/ chosen' = [chosen EXCEPT ![w] = {}],
           UNCHANGED <<task, flag, scope>>,
           Placed(w)', Swept(w)'
    PROVE  LinkInv'
<1>1. LinkType'
  BY DEF LinkInv, LinkType
<1>2. SoloInv'
  BY SoloKept DEF LinkInv
<1>3. /\ at'[w] = p
      /\ \A v \in LinkWorkers \ {w} :
           /\ at'[v] = at[v] /\ outcome'[v] = outcome[v] /\ target'[v] = target[v]
           /\ chosen'[v] = chosen[v]
  BY DEF LinkInv, LinkType
<1>4. \A v \in LinkWorkers : link'[v] \in Up => link[v] \in Up
  BY DEF Activations
<1>5. \A c \in chosen'[w] : HotspotFits(c)
  BY DEF LinkInv, LinkType
<1> QED BY <1>1, <1>2, <1>3, <1>4, <1>5, LinkMoved

\* The same when only the worker's place changes.
LEMMA LinkGoes ==
    ASSUME LinkInv, NEW w \in LinkWorkers, NEW p \in LinkPlaces \ {"add"}, Goto(w, p),
           \A v \in LinkWorkers \ {w} : txn = {v} => txn' = {v},
           chosen' = chosen \/ chosen' = [chosen EXCEPT ![w] = {}],
           UNCHANGED <<task, flag, target, link, volatile, scope, outcome, unswept>>,
           Placed(w)', Swept(w)'
    PROVE  LinkInv'
<1>1. at' = [at EXCEPT ![w] = p]
  BY DEF Goto
<1>2. outcome' = [outcome EXCEPT ![w] = outcome[w]] /\ target' = [target EXCEPT ![w] = target[w]]
  BY DEF LinkInv, LinkType
<1>3. /\ outcome[w] \in {"none", "succeeded", "failed", "cancelled"}
      /\ target[w] \in SUBSET Activations
      /\ link' \in [Activations -> {"none", "activating", "activated", "down"}]
  BY DEF LinkInv, LinkType
<1> QED BY <1>1, <1>2, <1>3, LinkPasses

\* A hotspot that is resolved fits.
LEMMA ResolvedFits ==
    ASSUME NEW in, NEW i \in Resolution(in)
    PROVE  HotspotFits([in |-> in, dev |-> i])
<1>1. i \in Selected(in) /\ ~Unavailable(in) /\ ResolvesBand(in, in.devices[i])
  BY DEF Resolution
<1>2. in.radio
  BY <1>1 DEF Unavailable
<1>3. in.devices[i].ap /\ (in.devices[i].busy => in.device = i)
  BY <1>1 DEF Selected, Usable
<1>4. in.band \in {"auto"} \cup (in.devices[i].bands \ {"6"})
  BY <1>1 DEF ResolvesBand, BandsOf
<1>5. /\ in.band # "auto" => HotspotReadBack(HotspotProfile(in)).band = {in.band}
      /\ HotspotReadBack(HotspotProfile(in)).hidden = in.hidden
      /\ HotspotReadBack(HotspotProfile(in)).security = in.security
  BY DEF HotspotReadBack, HotspotProfile
<1> QED BY <1>2, <1>3, <1>4, <1>5 DEF HotspotFits

LEMMA HotspotBegins ==
    ASSUME LinkInv, NEW w \in LinkWorkers, HotspotBegin(w)
    PROVE  LinkInv'
<1>1. /\ at[w] = "begin" /\ task[w] = "hotspot-start" /\ txn = {} /\ txn' = {w}
      /\ UNCHANGED <<task, flag, target, link, volatile, scope, outcome, unswept>>
  BY DEF HotspotBegin, TakeTransaction
<1>2. Placed(w) /\ Swept(w) /\ outcome[w] = "none" /\ link[w] \notin Up /\ ~Stopping(w)
  BY <1>1 DEF LinkInv, Placed, Swept, Stopping
<1>3. \A v \in LinkWorkers \ {w} : txn # {v}
  BY <1>1
<1>4. CASE Goto(w, "fail") /\ UNCHANGED chosen
  <2>1. at'[w] = "fail"
    BY <1>4 DEF Goto, LinkInv, LinkType
  <2>2. Placed(w)' /\ Swept(w)'
    BY <1>1, <1>2, <2>1 DEF Placed, Swept, Stopping
  <2>3. "fail" \in LinkPlaces \ {"add"}
    BY DEF LinkPlaces
  <2> QED BY <1>1, <1>3, <1>4, <2>2, <2>3, LinkGoes
<1>5. ASSUME NEW in \in HotspotInputs, NEW i \in Resolution(in), Running(TRUE) = {}, Goto(w, "add"),
             chosen' = [chosen EXCEPT ![w] = {[in |-> in, dev |-> i]}]
      PROVE  LinkInv'
  <2>1. at'[w] = "add" /\ at' \in [LinkWorkers -> LinkPlaces] /\ at' = [at EXCEPT ![w] = "add"]
    BY <1>5 DEF Goto, LinkInv, LinkType, LinkPlaces
  <2>2. chosen'[w] = {[in |-> in, dev |-> i]} /\ chosen' = [v \in LinkWorkers |-> chosen'[v]]
    BY <1>5 DEF LinkInv, LinkType
  <2>3. LinkType' /\ SoloInv'
    <3>1. LinkType'
      BY <1>1, <2>1, <2>2 DEF LinkInv, LinkType
    <3> QED BY <1>1, <3>1, SoloKept DEF LinkInv
  <2>4. Placed(w)' /\ Swept(w)'
    BY <1>1, <1>2, <2>1 DEF Placed, Swept, Stopping
  <2>5. \A c \in chosen'[w] : HotspotFits(c)
    BY <2>2, ResolvedFits
  <2>6. \A v \in LinkWorkers : v \notin Running(TRUE)'
    BY <1>1, <1>5 DEF Running, Hotspot
  <2>7. \A v \in LinkWorkers \ {w} : at'[v] = at[v] /\ chosen'[v] = chosen[v]
    BY <1>5, <2>1 DEF LinkInv, LinkType
  <2> QED BY <1>1, <1>3, <2>1, <2>3, <2>4, <2>5, <2>6, <2>7, LinkMoved
<1>6. PICK in \in HotspotInputs :
        IF w \in scope /\ Running(TRUE) = {} /\ Resolution(in) # {} /\ ~flag[w]
        THEN /\ \E i \in Resolution(in) : chosen' = [chosen EXCEPT ![w] = {[in |-> in, dev |-> i]}]
             /\ Goto(w, "add")
        ELSE Goto(w, "fail") /\ UNCHANGED chosen
  BY DEF HotspotBegin
<1> QED BY <1>4, <1>5, <1>6

LEMMA LinkRaised ==
    ASSUME LinkInv, NEW w \in LinkWorkers, HotspotAdd(w) \/ VpnActivate(w)
    PROVE  LinkInv'
<1>0. /\ at[w] \in {"add", "activate"} /\ w \in scope /\ w \in Activations
      /\ at' = [at EXCEPT ![w] = "await"]
      /\ chosen' = chosen \/ chosen' = [chosen EXCEPT ![w] = {}]
      /\ UNCHANGED <<task, flag, target, txn, scope, outcome, unswept>>
  BY DEF HotspotAdd, VpnActivate, Goto, Activations
<1>1. PICK hot \in BOOLEAN :
        /\ link' = [a \in Activations |->
                      IF a = w THEN "activating" ELSE IF a \in Running(hot) THEN "down" ELSE link[a]]
        /\ hot = (at[w] = "add")
        /\ hot => volatile' = volatile \cup {w}
        /\ ~hot => volatile' = volatile
  <2>1. CASE HotspotAdd(w)
    BY <2>1 DEF HotspotAdd
  <2>2. CASE VpnActivate(w)
    BY <2>2 DEF VpnActivate
  <2> QED BY <2>1, <2>2
<1>2. Hotspot(w) <=> hot
  BY <1>0, <1>1, LinkAssumption DEF LinkInv, Placed, Hotspot
<1>3. /\ at'[w] = "await" /\ \A v \in LinkWorkers \ {w} : at'[v] = at[v] /\ chosen'[v] = chosen[v]
      /\ at' \in [LinkWorkers -> LinkPlaces] /\ chosen' = [v \in LinkWorkers |-> chosen'[v]]
  BY <1>0 DEF LinkInv, LinkType, LinkPlaces
<1>4. \A a \in Activations \ {w} : link'[a] \in Up => link[a] \in Up /\ a \notin Running(hot)
  BY <1>1 DEF Up
<1>5. SoloInv'
  BY <1>0, <1>2, <1>4, SoloRaised DEF LinkInv
<1>6. LinkType'
  <2>1. link' \in [Activations -> {"none", "activating", "activated", "down"}]
    BY <1>1 DEF LinkInv, LinkType
  <2> QED BY <1>0, <1>3, <2>1 DEF LinkInv, LinkType
<1>7. Placed(w)' /\ Swept(w)'
  BY <1>0, <1>3 DEF LinkInv, Placed, Swept, Stopping
<1>8. \A c \in chosen'[w] : HotspotFits(c)
  BY <1>0 DEF LinkInv, LinkType
<1>9. hot => txn = {w}
  BY <1>1 DEF LinkInv, AddInv
<1>10. \A v \in LinkWorkers \ {w} :
         /\ link'[v] \in Up => link[v] \in Up
         /\ v \in volatile' => v \in volatile
  BY <1>1, <1>4 DEF Activations
<1> QED BY <1>0, <1>2, <1>3, <1>5, <1>6, <1>7, <1>8, <1>9, <1>10, LinkMoved
LEMMA LinkWaits ==
    ASSUME LinkInv, NEW w \in LinkWorkers,
           AddRefused(w) \/ VpnSelect(w) \/ AwaitStops(w) \/ AwaitSucceeds(w) \/ CheckOwner(w)
    PROVE  LinkInv'
<1>1. Placed(w) /\ Swept(w)
  BY DEF LinkInv
<1>2. PICK p \in {"fail", "activate", "rollback", "owner", "report"} :
        /\ Goto(w, p)
        /\ p = "activate" => at[w] = "begin" /\ task[w] = "vpn-connect"
        /\ p = "fail" => at[w] \in {"begin", "add", "activate"} \/ (at[w] = "owner" /\ w \notin scope)
  BY DEF AddRefused, VpnSelect, AwaitStops, AwaitSucceeds, CheckOwner
<1>3. /\ at[w] \in {"begin", "add", "activate", "await", "owner"}
      /\ UNCHANGED <<task, flag, target, link, volatile, scope, outcome, unswept>>
      /\ chosen' = chosen \/ chosen' = [chosen EXCEPT ![w] = {}]
      /\ \A v \in LinkWorkers \ {w} : txn = {v} => txn' = {v}
  BY DEF AddRefused, VpnSelect, AwaitStops, AwaitSucceeds, CheckOwner
<1>4. at'[w] = p /\ p \in LinkPlaces \ {"add"}
  BY <1>2 DEF Goto, LinkInv, LinkType, LinkPlaces
<1>5. Placed(w)'
  BY <1>1, <1>2, <1>3, <1>4 DEF Placed, Stopping
<1>6. Swept(w)'
  BY <1>1, <1>2, <1>3, <1>4 DEF Swept, Stopping
<1> QED BY <1>2, <1>3, <1>4, <1>5, <1>6, LinkGoes

LEMMA LinkReports ==
    ASSUME LinkInv, NEW w \in LinkWorkers, LinkFail(w) \/ Report(w) \/ DeleteFound(w)
    PROVE  LinkInv'
<1>1. Placed(w) /\ Swept(w)
  BY DEF LinkInv
<1>2. CASE Goto(w, "lookup") /\ Report(w) /\ UNCHANGED <<outcome, txn>>
  <2>1. at'[w] = "lookup" /\ "lookup" \in LinkPlaces \ {"add"}
    BY <1>2 DEF Goto, LinkInv, LinkType, LinkPlaces
  <2>2. /\ at[w] = "report"
        /\ UNCHANGED <<task, chosen, flag, target, link, volatile, scope, unswept, outcome, txn>>
    BY <1>2 DEF Report, Reported
  <2>3. Placed(w)' /\ Swept(w)'
    BY <1>1, <2>1, <2>2 DEF Placed, Swept, Stopping
  <2> QED BY <1>2, <2>1, <2>2, <2>3, LinkGoes
<1>3. ASSUME NEW o \in {"succeeded", "failed", "cancelled"}, EndAt(w, "done", o),
             o = "succeeded" \/ at[w] \in {"fail", "delete"},
             UNCHANGED <<task, chosen, flag, target, link, scope, unswept>>,
             \A v \in LinkWorkers : v \in volatile' => v \in volatile
      PROVE  LinkInv'
  <2>1. /\ at' = [at EXCEPT ![w] = "done"] /\ at'[w] = "done"
        /\ outcome' = [outcome EXCEPT ![w] = o] /\ outcome'[w] = o
        /\ \A v \in LinkWorkers \ {w} : txn = {v} => txn' = {v}
    BY <1>3, LinkEnded
  <2>2. /\ "done" \in LinkPlaces \ {"add"} /\ target' = [target EXCEPT ![w] = target[w]]
        /\ target[w] \in SUBSET Activations
        /\ link' \in [Activations -> {"none", "activating", "activated", "down"}]
    BY <1>3 DEF LinkInv, LinkType, LinkPlaces
  <2>3. Placed(w)' /\ Swept(w)'
    BY <1>1, <1>3, <2>1 DEF Placed, Swept, Stopping
  <2> QED BY <1>3, <2>1, <2>2, <2>3, LinkPasses
<1>4. CASE LinkFail(w)
  BY <1>3, <1>4 DEF LinkFail, End
<1>5. CASE Report(w)
  BY <1>2, <1>3, <1>5 DEF Report, Reported, End
<1>6. CASE DeleteFound(w)
  BY <1>3, <1>6 DEF DeleteFound, End, Stopped
<1> QED BY <1>4, <1>5, <1>6

\* roll_back_hotspot, deactivate_quietly and remove_hotspot_profile.
LEMMA LinkRollsBack ==
    ASSUME LinkInv, NEW w \in LinkWorkers, RollBack(w) \/ RemoveProfile(w)
    PROVE  LinkInv'
<1>1. Placed(w) /\ Swept(w) /\ w \in Activations
  BY DEF LinkInv, Activations
<1>2. CASE RollBack(w)
  <2>1. /\ link' = [link EXCEPT ![w] = "down"] \/ link' = link
        /\ w \notin unswept' =>
             \/ w \in scope /\ link' = [link EXCEPT ![w] = "down"]
             \/ w \notin scope /\ link' = link
        /\ unswept \subseteq unswept'
        /\ UNCHANGED <<task, chosen, flag, target, volatile, scope>> /\ at[w] = "rollback"
    BY <1>2 DEF RollBack
  <2>2. /\ link' \in [Activations -> {"none", "activating", "activated", "down"}]
        /\ \A a \in Activations : link'[a] \in Up => link[a] \in Up
        /\ w \notin unswept' => link'[w] \notin Up
        /\ w \notin scope => link'[w] \notin Up
    <3>1. "down" \notin Up
      BY DEF Up
    <3>2. w \notin scope => link[w] \notin Up
      BY <1>1 DEF Swept
    <3> QED BY <1>1, <2>1, <3>1, <3>2 DEF LinkInv, LinkType
  <2>3. target' = [target EXCEPT ![w] = target[w]] /\ target[w] \in SUBSET Activations
    BY <2>1 DEF LinkInv, LinkType
  <2>4. PICK p \in {"remove", "done"}, o \in {"none", "failed"} :
          /\ at' = [at EXCEPT ![w] = p] /\ at'[w] = p
          /\ outcome' = [outcome EXCEPT ![w] = o] /\ outcome'[w] = o
          /\ p = "remove" => o = "none"
          /\ \A v \in LinkWorkers \ {w} : txn = {v} => txn' = {v}
    <3>1. CASE task[w] = "hotspot-start"
      <4>1. Goto(w, "remove") /\ UNCHANGED <<outcome, txn>>
        BY <1>2, <3>1 DEF RollBack
      <4>2. outcome[w] = "none"
        BY <1>1, <2>1 DEF Placed
      <4>3. at' = [at EXCEPT ![w] = "remove"] /\ at'[w] = "remove"
        BY <4>1 DEF Goto, LinkInv, LinkType
      <4>4. outcome' = [outcome EXCEPT ![w] = "none"] /\ outcome'[w] = "none"
        BY <4>1, <4>2 DEF LinkInv, LinkType
      <4> QED BY <4>1, <4>3, <4>4
    <3>2. CASE task[w] # "hotspot-start"
      <4>1. EndAt(w, "done", "failed")
        BY <1>2, <3>2 DEF RollBack, End
      <4> QED BY <4>1, LinkEnded
    <3> QED BY <3>1, <3>2
  <2>5. Placed(w)'
    BY <1>1, <2>1, <2>4 DEF Placed, Stopping
  <2>6. Swept(w)'
    BY <1>1, <2>1, <2>2, <2>4 DEF Swept, Stopping
  <2>7. p \in LinkPlaces \ {"add"}
    BY DEF LinkPlaces
  <2> QED BY <2>1, <2>2, <2>3, <2>4, <2>5, <2>6, <2>7, LinkPasses
<1>3. CASE RemoveProfile(w)
  <2>1. /\ w \notin unswept' /\ w \in scope => w \notin volatile'
        /\ unswept \subseteq unswept' /\ volatile' \subseteq volatile
        /\ UNCHANGED <<task, chosen, flag, target, link, scope>> /\ at[w] = "remove"
        /\ EndAt(w, "removed", "failed")
    BY <1>3 DEF RemoveProfile
  <2>2. /\ at' = [at EXCEPT ![w] = "removed"] /\ at'[w] = "removed"
        /\ outcome' = [outcome EXCEPT ![w] = "failed"] /\ outcome'[w] = "failed"
        /\ \A v \in LinkWorkers \ {w} : txn = {v} => txn' = {v}
    BY <2>1, LinkEnded
  <2>3. /\ "removed" \in LinkPlaces \ {"add"} /\ target' = [target EXCEPT ![w] = target[w]]
        /\ target[w] \in SUBSET Activations
        /\ link' \in [Activations -> {"none", "activating", "activated", "down"}]
    BY <2>1 DEF LinkInv, LinkType, LinkPlaces
  <2>4. Placed(w)'
    BY <1>1, <2>1, <2>2 DEF Placed, Stopping
  <2>5. Swept(w)'
    BY <1>1, <2>1, <2>2 DEF Swept, Stopping
  <2> QED BY <2>1, <2>2, <2>3, <2>4, <2>5, LinkPasses
<1> QED BY <1>2, <1>3

\* stop_hotspot and deactivate_vpn: what they find is the worker's own link
\* whenever that is up, because there is one of a kind.
LEMMA LinkLooksUp ==
    ASSUME LinkInv, NEW w \in LinkWorkers, LookUp(w)
    PROVE  LinkInv'
<1>1. Placed(w) /\ Swept(w) /\ w \in Activations /\ at[w] = "lookup" /\ outcome[w] = "none"
  BY DEF LinkInv, Activations, LookUp, Placed
<1>2. /\ UNCHANGED <<task, chosen, flag, link, volatile, scope, unswept>>
      /\ link' \in [Activations -> {"none", "activating", "activated", "down"}]
  BY DEF LookUp, LinkInv, LinkType
<1>3. CASE w \in scope /\ Running(Hotspot(w)) # {}
  <2>1. PICK a \in Running(Hotspot(w)) : target' = [target EXCEPT ![w] = {a}]
    BY <1>3 DEF LookUp
  <2>2. Goto(w, "deactivate") /\ UNCHANGED <<outcome, txn>>
    BY <1>3 DEF LookUp
  <2>3. /\ at' = [at EXCEPT ![w] = "deactivate"] /\ at'[w] = "deactivate"
        /\ outcome' = [outcome EXCEPT ![w] = "none"] /\ "deactivate" \in LinkPlaces \ {"add"}
        /\ target'[w] = {a} /\ {a} \in SUBSET Activations
    BY <1>1, <2>1, <2>2 DEF Goto, LinkInv, LinkType, LinkPlaces, Running
  <2>4. link[w] \in Up => a = w
    BY <1>1, <2>1 DEF Running, LinkInv, SoloInv
  <2>5. Placed(w)'
    BY <1>1, <1>2, <2>2, <2>3 DEF Placed, Stopping
  <2>6. Swept(w)'
    BY <1>1, <1>2, <2>3, <2>4 DEF Swept, Stopping
  <2> QED BY <1>2, <2>1, <2>2, <2>3, <2>5, <2>6, LinkPasses
<1>4. CASE ~(w \in scope /\ Running(Hotspot(w)) # {})
  <2>1. PICK o \in {"succeeded", "failed", "cancelled"} : EndAt(w, "done", o) /\ UNCHANGED target
    BY <1>4 DEF LookUp, End, Stopped
  <2>2. /\ at' = [at EXCEPT ![w] = "done"] /\ at'[w] = "done"
        /\ outcome' = [outcome EXCEPT ![w] = o] /\ outcome'[w] = o
        /\ \A v \in LinkWorkers \ {w} : txn = {v} => txn' = {v}
    BY <2>1, LinkEnded
  <2>3. /\ "done" \in LinkPlaces \ {"add"} /\ target' = [target EXCEPT ![w] = target[w]]
        /\ target[w] \in SUBSET Activations
    BY <2>1 DEF LinkInv, LinkType, LinkPlaces
  <2>4. link[w] \notin Up
    <3>1. CASE w \notin scope
      BY <1>1, <3>1 DEF Swept
    <3>2. CASE Running(Hotspot(w)) = {}
      BY <1>1, <3>2 DEF Running
    <3> QED BY <1>4, <3>1, <3>2
  <2>5. Placed(w)' /\ Swept(w)'
    BY <1>1, <1>2, <2>2, <2>4 DEF Placed, Swept, Stopping
  <2> QED BY <1>2, <2>1, <2>2, <2>3, <2>5, LinkPasses
<1> QED BY <1>3, <1>4

LEMMA LinkDeactivates ==
    ASSUME LinkInv, NEW w \in LinkWorkers, Deactivate(w)
    PROVE  LinkInv'
<1>1. Placed(w) /\ Swept(w) /\ w \in Activations /\ at[w] = "deactivate" /\ outcome[w] = "none"
  BY DEF LinkInv, Activations, Deactivate, Placed
<1>2. UNCHANGED <<task, chosen, flag, target, volatile, scope>>
  BY DEF Deactivate
<1>3. target' = [target EXCEPT ![w] = target[w]] /\ target[w] \in SUBSET Activations
  BY <1>2 DEF LinkInv, LinkType
<1>4. PICK p \in {"delete", "done"}, o \in {"none", "succeeded", "failed", "cancelled"} :
        /\ at' = [at EXCEPT ![w] = p] /\ at'[w] = p
        /\ outcome' = [outcome EXCEPT ![w] = o] /\ outcome'[w] = o
        /\ p = "delete" => o = "none"
        /\ \A v \in LinkWorkers \ {w} : txn = {v} => txn' = {v}
  <2>1. CASE Goto(w, "delete") /\ UNCHANGED <<outcome, txn>>
    <3>1. at' = [at EXCEPT ![w] = "delete"] /\ at'[w] = "delete"
      BY <2>1 DEF Goto, LinkInv, LinkType
    <3>2. outcome' = [outcome EXCEPT ![w] = "none"] /\ outcome'[w] = "none"
      BY <1>1, <2>1 DEF LinkInv, LinkType
    <3> QED BY <2>1, <3>1, <3>2
  <2>2. ASSUME NEW o \in {"succeeded", "failed", "cancelled"}, EndAt(w, "done", o)
        PROVE  /\ at' = [at EXCEPT ![w] = "done"] /\ at'[w] = "done"
               /\ outcome' = [outcome EXCEPT ![w] = o] /\ outcome'[w] = o
               /\ \A v \in LinkWorkers \ {w} : txn = {v} => txn' = {v}
    BY <2>2, LinkEnded
  <2>3. \/ Goto(w, "delete") /\ UNCHANGED <<outcome, txn>>
        \/ \E o \in {"succeeded", "failed", "cancelled"} : EndAt(w, "done", o)
    BY DEF Deactivate, End, Stopped
  <2> QED BY <2>1, <2>2, <2>3
<1>5. /\ link' \in [Activations -> {"none", "activating", "activated", "down"}]
      /\ \A a \in Activations : link'[a] \in Up => link[a] \in Up
      /\ unswept \subseteq unswept'
      /\ w \notin unswept' /\ ~Stopping(w) => link'[w] \notin Up
      /\ p = "delete" /\ ~Stopping(w) => link'[w] \notin Up
  <2>0. "down" \notin Up
    BY DEF Up
  <2>1. CASE /\ link' = [a \in Activations |-> IF a \in target[w] THEN "down" ELSE link[a]]
             /\ UNCHANGED unswept
    <3>1. \A a \in Activations : link'[a] = IF a \in target[w] THEN "down" ELSE link[a]
      BY <2>1
    <3>2. ~Stopping(w) => link[w] \notin Up \/ w \in target[w]
      BY <1>1 DEF Swept
    <3>3. link' \in [Activations -> {"none", "activating", "activated", "down"}]
      BY <2>1 DEF LinkInv, LinkType
    <3> QED BY <1>1, <2>0, <2>1, <3>1, <3>2, <3>3
  <2>2. CASE unswept' = unswept \cup {w} /\ UNCHANGED link /\ at'[w] = "done"
    BY <1>4, <2>2 DEF LinkInv, LinkType
  <2>3. \/ /\ link' = [a \in Activations |-> IF a \in target[w] THEN "down" ELSE link[a]]
           /\ UNCHANGED unswept
        \/ unswept' = unswept \cup {w} /\ UNCHANGED link /\ at' = [at EXCEPT ![w] = "done"]
    BY DEF Deactivate, End, EndAt, Goto
  <2>4. at' = [at EXCEPT ![w] = "done"] => at'[w] = "done"
    BY DEF LinkInv, LinkType
  <2> QED BY <2>1, <2>2, <2>3, <2>4
<1>6. Placed(w)'
  BY <1>1, <1>2, <1>4 DEF Placed, Stopping
<1>7. Swept(w)'
  <2>1. w \notin scope => link'[w] \notin Up /\ w \notin volatile
    BY <1>1, <1>5 DEF Swept
  <2> QED BY <1>2, <1>4, <1>5, <2>1 DEF Swept, Stopping
<1>8. p \in LinkPlaces \ {"add"}
  BY DEF LinkPlaces
<1> QED BY <1>2, <1>3, <1>4, <1>5, <1>6, <1>7, <1>8, LinkPasses
\* Cancellations, NetworkManager's own moves, other clients, a replacement.
LEMMA LinkEnvironment ==
    ASSUME LinkInv, MoveLink \/ OtherClient \/ ReplaceManager \/ \E w \in LinkWorkers : CancelLink(w)
    PROVE  LinkInv'
<1>0. LinkWorkers \subseteq Activations /\ ForeignLink \in Activations
  BY DEF Activations
<1>1. ASSUME link' \in [Activations -> {"none", "activating", "activated", "down"}], SoloInv',
             flag' \in [LinkWorkers -> BOOLEAN],
             UNCHANGED <<task, at, outcome, target, chosen, txn, unswept>>,
             \A v \in LinkWorkers :
                /\ link'[v] \in Up => link[v] \in Up
                /\ v \in volatile' => v \in volatile
                /\ v \notin scope' => v \notin scope \/ (link'[v] \notin Up /\ v \notin volatile')
      PROVE  LinkInv'
  <2>1. LinkType'
    BY <1>1 DEF LinkInv, LinkType
  <2> QED BY <1>1, <2>1, LinkOutside
<1>2. link \in [Activations -> {"none", "activating", "activated", "down"}]
      /\ flag \in [LinkWorkers -> BOOLEAN] /\ SoloInv
  BY DEF LinkInv, LinkType
<1>3. ASSUME NEW w \in LinkWorkers, CancelLink(w) PROVE LinkInv'
  <2>1. /\ flag' \in [LinkWorkers -> BOOLEAN]
        /\ UNCHANGED <<task, at, outcome, target, chosen, txn, unswept, link, volatile, scope>>
    BY <1>2, <1>3 DEF CancelLink
  <2>2. SoloInv'
    BY <1>2, <2>1, SoloKept
  <2> QED BY <1>1, <1>2, <2>1, <2>2
<1>4. CASE MoveLink
  <2>1. PICK a \in Activations : LinkMoves(a)
    BY <1>4 DEF MoveLink
  <2>2. UNCHANGED <<task, chosen, at, flag, target, txn, scope, outcome, unswept>>
    BY <1>4 DEF MoveLink
  <2>3. /\ link' \in [Activations -> {"none", "activating", "activated", "down"}]
        /\ \A b \in Activations : link'[b] \in Up => link[b] \in Up
        /\ \A b \in Activations : b \in volatile' => b \in volatile
    BY <1>2, <2>1 DEF LinkMoves, Up
  <2>4. SoloInv'
    BY <1>2, <2>2, <2>3, SoloKept
  <2> QED BY <1>0, <1>1, <1>2, <2>2, <2>3, <2>4
<1>5. CASE OtherClient
  <2>1. UNCHANGED <<task, chosen, at, flag, target, volatile, txn, scope, outcome, unswept>>
    BY <1>5 DEF OtherClient
  <2>2. CASE link' = [a \in Activations |->
                        IF a = ForeignLink THEN "activated"
                        ELSE IF a \in Running(TRUE) THEN "down" ELSE link[a]]
    <3>1. \A a \in Activations \ {ForeignLink} :
            link'[a] \in Up => link[a] \in Up /\ a \notin Running(TRUE)
      BY <2>2 DEF Up
    <3>2. link' \in [Activations -> {"none", "activating", "activated", "down"}]
      BY <1>2, <2>2
    <3>3. Hotspot(ForeignLink) <=> TRUE
      BY DEF Hotspot
    <3>4. SoloInv'
      BY <1>0, <1>2, <2>1, <3>1, <3>3, SoloRaised
    <3> QED BY <1>0, <1>1, <1>2, <2>1, <3>1, <3>2, <3>4, LinkAssumption
  <2>3. ASSUME NEW a \in Activations, link' = [link EXCEPT ![a] = "down"]
        PROVE  LinkInv'
    <3>1. /\ link' \in [Activations -> {"none", "activating", "activated", "down"}]
          /\ \A b \in Activations : link'[b] \in Up => link[b] \in Up
      BY <1>2, <2>3 DEF Up
    <3>2. SoloInv'
      BY <1>2, <2>1, <3>1, SoloKept
    <3> QED BY <1>0, <1>1, <1>2, <2>1, <3>1, <3>2
  <2> QED BY <1>5, <2>2, <2>3 DEF OtherClient
<1>6. CASE ReplaceManager
  <2>1. /\ UNCHANGED <<task, chosen, at, flag, target, txn, outcome, unswept>> /\ volatile' = {}
        /\ link' = [a \in Activations |-> IF link[a] = "none" THEN "none" ELSE "down"]
    BY <1>6 DEF ReplaceManager
  <2>2. /\ link' \in [Activations -> {"none", "activating", "activated", "down"}]
        /\ \A b \in Activations : link'[b] \notin Up
    BY <2>1 DEF Up
  <2>3. SoloInv'
    BY <1>2, <2>1, <2>2, SoloKept
  <2> QED BY <1>0, <1>1, <1>2, <2>1, <2>2, <2>3
<1> QED BY <1>3, <1>4, <1>5, <1>6

\* What every step leaves of the invariant behind StartsAreClean.
LEMMA LinkStepKeeps ==
    ASSUME LinkInv, [LinkNext]_linkVars PROVE LinkInv'
<1>1. CASE UNCHANGED linkVars
  <2>1. UNCHANGED <<task, at, flag, chosen, target, link, volatile, txn, scope, outcome, unswept>>
    BY <1>1 DEF linkVars
  <2>2. LinkType' /\ SoloInv' /\ AddInv'
    BY <2>1 DEF LinkInv, LinkType, SoloInv, AddInv, Running, Hotspot
  <2>3. ASSUME NEW w \in LinkWorkers PROVE Placed(w)' /\ Swept(w)' /\ \A c \in chosen'[w] : HotspotFits(c)
    BY <2>1 DEF LinkInv, Placed, Swept, Stopping
  <2> QED BY <2>2, <2>3 DEF LinkInv
<1>2. ASSUME NEW w \in LinkWorkers, LinkStep(w) PROVE LinkInv'
  BY <1>2, HotspotBegins, LinkRaised, LinkWaits, LinkReports, LinkRollsBack, LinkLooksUp,
     LinkDeactivates DEF LinkStep
<1> QED BY <1>1, <1>2, LinkEnvironment DEF LinkNext

\* LinkInv is inductive: a start's link is down at every place from which it
\* can end without success (nm/hotspot.rs, nm/vpn.rs, and their workers).
THEOREM LinkInductive == LinkSpec => []LinkInv
<1>1. LinkInit => LinkInv
  BY LinkInitial
<1>2. LinkInv /\ [LinkNext]_linkVars => LinkInv'
  BY LinkStepKeeps
<1> QED BY <1>1, <1>2, PTL DEF LinkSpec

\* A start that does not succeed leaves neither link nor profile, a cancelled
\* one never reports success, no hotspot displaces another request's, and what
\* is added fits its device, for any number of requests and outside moves.
THEOREM StartsStayClean == LinkSpec => StartsAreClean
<1> DEFINE Clean ==
       /\ NothingLeftBehind'
       /\ \A w \in LinkWorkers : \A c \in chosen'[w] : HotspotFits(c)
       /\ \A w \in LinkWorkers :
            (~Stopping(w) /\ flag[w] /\ outcome[w] = "none") => outcome'[w] # "succeeded"
       /\ \A v, w \in LinkWorkers :
            (v # w /\ v \in Running(TRUE)) => ~(at[w] = "add" /\ at'[w] = "await")
<1>1. LinkInv /\ [LinkNext]_linkVars => [Clean]_linkVars
  <2> SUFFICES ASSUME LinkInv, LinkNext PROVE Clean
    OBVIOUS
  <2>1. LinkInv'
    BY LinkStepKeeps
  <2>2. NothingLeftBehind'
    <3> SUFFICES ASSUME NEW w \in LinkWorkers, ~Stopping(w)', outcome'[w] \in {"failed", "cancelled"},
                        w \notin unswept'
                 PROVE  link'[w] \notin Up /\ (at'[w] = "removed" => w \notin volatile')
      BY DEF NothingLeftBehind
    <3>1. Placed(w)' /\ Swept(w)'
      BY <2>1 DEF LinkInv
    <3>2. at'[w] \in {"done", "removed"}
      BY <3>1 DEF Placed
    <3> QED BY <3>1, <3>2 DEF Swept
  <2>3. \A w \in LinkWorkers : \A c \in chosen'[w] : HotspotFits(c)
    BY <2>1 DEF LinkInv
  <2>4. ASSUME NEW w \in LinkWorkers, ~Stopping(w), flag[w], outcome[w] = "none"
        PROVE  outcome'[w] # "succeeded"
    <3>1. ASSUME NEW v \in LinkWorkers, NEW p, NEW o, EndAt(v, p, o), v = w => o # "succeeded"
          PROVE  outcome'[w] # "succeeded"
      BY <2>4, <3>1 DEF EndAt, LinkInv, LinkType
    <3>2. CASE outcome' = outcome
      BY <2>4, <3>2
    <3>3. ASSUME NEW v \in LinkWorkers, LinkStep(v) PROVE outcome'[w] # "succeeded"
      <4>1. \/ outcome' = outcome
            \/ \E p \in {"done", "removed"}, o \in {"succeeded", "failed", "cancelled"} :
                 EndAt(v, p, o) /\ (v = w => o # "succeeded")
        <5>1. CASE HotspotBegin(v) \/ HotspotAdd(v) \/ AddRefused(v) \/ VpnSelect(v) \/ VpnActivate(v)
                     \/ AwaitStops(v) \/ AwaitSucceeds(v) \/ CheckOwner(v)
          BY <5>1 DEF HotspotBegin, HotspotAdd, AddRefused, VpnSelect, VpnActivate, AwaitStops,
                      AwaitSucceeds, CheckOwner
        <5>2. CASE LinkFail(v) \/ RollBack(v) \/ RemoveProfile(v)
          BY <5>2 DEF LinkFail, RollBack, RemoveProfile, End
        <5>3. CASE Report(v)
          BY <2>4, <5>3 DEF Report, Reported, End
        <5>4. CASE LookUp(v) \/ Deactivate(v) \/ DeleteFound(v)
          BY <2>4, <5>4 DEF LookUp, Deactivate, DeleteFound, End, Stopped
        <5> QED BY <3>3, <5>1, <5>2, <5>3, <5>4 DEF LinkStep
      <4> QED BY <3>1, <3>2, <4>1
    <3>4. CASE MoveLink \/ OtherClient \/ ReplaceManager \/ \E v \in LinkWorkers : CancelLink(v)
      BY <3>2, <3>4 DEF MoveLink, OtherClient, ReplaceManager, CancelLink
    <3> QED BY <3>3, <3>4 DEF LinkNext
  <2>5. \A v, w \in LinkWorkers :
          (v # w /\ v \in Running(TRUE)) => ~(at[w] = "add" /\ at'[w] = "await")
    BY DEF LinkInv, AddInv
  <2> QED BY <2>2, <2>3, <2>4, <2>5
<1> QED BY <1>1, LinkInductive, PTL DEF LinkSpec, StartsAreClean
=============================================================================
