---------------------------- MODULE ScanSchedule ----------------------------
(***************************************************************************)
(* Blocking Wi-Fi scans of one device, shared between callers              *)
(* (src/nm/scan_schedule.rs, src/nm/scan.rs).                              *)
(*                                                                         *)
(* A caller that finds the device idle owns the scan.  One that finds a    *)
(* scan in flight joins it when it covers the SSIDs asked for, and waits   *)
(* behind it otherwise.  The owner publishes its outcome under the scan's  *)
(* generation, in a slot that its last waiter clears.                      *)
(*                                                                         *)
(* Devices do not share scheduler state and a caller scans them one after  *)
(* the other, holding nothing in between, so one device is modelled.       *)
(* A scope is a set of SSIDs; the empty set is a wildcard scan.  Clock     *)
(* values are left out: a deadline has passed or has not.                  *)
(***************************************************************************)
EXTENDS Integers, FiniteSets

CONSTANTS
    Caller,         \* threads that call scan_with_options
    Scope,          \* the sets of SSIDs they ask for
    MaxGeneration   \* bound: owned scans of the device

ASSUME ScanAssumption ==
    /\ IsFiniteSet(Caller)
    /\ MaxGeneration \in Nat
    /\ {} \in Scope

VARIABLES
    inFlight,       \* in_flight: {} when idle, else the singleton of a scope
    generation,     \* generation of the latest owned scan
    waiters,        \* waiters: how many callers wait for each generation
    completions,    \* completions: the published outcome of each generation
    pc,             \* where each caller is
    scope,          \* the SSIDs each caller asked for
    gen,            \* the generation each caller owns or waits for
    cancelled,      \* the caller's own cancellation flag
    expired,        \* the caller's own deadline has passed
    outcome,        \* what an owner is about to publish and return
    res,            \* what the caller's scan_device returned
    scopeOf,        \* history: the scope of each owned scan
    outcomeOf       \* history: how each owned scan ended

slotVars == <<inFlight, generation, waiters, completions>>
callVars == <<scope, cancelled, expired>>
histVars == <<scopeOf, outcomeOf>>
vars == <<inFlight, generation, waiters, completions, pc, scope, gen,
          cancelled, expired, outcome, res, scopeOf, outcomeOf>>

Generation == 1..MaxGeneration
Outcome == {"ok", "failed", "cancelled", "timeout"}
None == "none"

Waiting == {"joined", "behind"}
Owning == {"requesting", "sending", "scanning", "reading", "publishing"}
Pc == {"idle", "entered", "claiming", "decided", "done"} \union Waiting \union Owning

TypeOK ==
    /\ inFlight \in SUBSET Scope
    /\ generation \in 0..MaxGeneration
    /\ waiters \in [Generation -> Nat]
    /\ completions \in [Generation -> Outcome \union {None}]
    /\ pc \in [Caller -> Pc]
    /\ scope \in [Caller -> Scope]
    /\ gen \in [Caller -> 0..MaxGeneration]
    /\ cancelled \in [Caller -> BOOLEAN]
    /\ expired \in [Caller -> BOOLEAN]
    /\ outcome \in [Caller -> Outcome \union {None}]
    /\ res \in [Caller -> Outcome \union {None}]
    /\ scopeOf \in [Generation -> Scope]
    /\ outcomeOf \in [Generation -> Outcome \union {None}]

Init ==
    /\ inFlight = {} /\ generation = 0
    /\ waiters = [g \in Generation |-> 0]
    /\ completions = [g \in Generation |-> None]
    /\ pc = [c \in Caller |-> "idle"]
    /\ scope = [c \in Caller |-> {}]
    /\ gen = [c \in Caller |-> 0]
    /\ cancelled = [c \in Caller |-> FALSE]
    /\ expired = [c \in Caller |-> FALSE]
    /\ outcome = [c \in Caller |-> None]
    /\ res = [c \in Caller |-> None]
    /\ scopeOf = [g \in Generation |-> {}]
    /\ outcomeOf = [g \in Generation |-> None]

At(c, from) == pc[c] = from
Goto(c, to) == pc' = [pc EXCEPT ![c] = to]

Return(c, result) ==
    /\ res' = [res EXCEPT ![c] = result]
    /\ Goto(c, "done")

\* scan_scope_covers: a wildcard scan covers wildcard requests only, since it
\* does not probe for the SSID of a hidden network.
Covers(running, asked) ==
    IF running = {} \/ asked = {}
    THEN running = asked
    ELSE asked \subseteq running

-----------------------------------------------------------------------------
\* A call of scan_device, with a flag and a deadline of its own.  Several calls
\* of one thread are several callers.
Call(c, s) ==
    /\ At(c, "idle")
    /\ scope' = [scope EXCEPT ![c] = s]
    /\ Goto(c, "entered")
    /\ UNCHANGED <<slotVars, cancelled, expired, gen, outcome, res, histVars>>

\* The checks at its head pass,
Enter(c) ==
    /\ At(c, "entered")
    /\ ~cancelled[c] /\ ~expired[c]
    /\ Goto(c, "claiming")
    /\ UNCHANGED <<slotVars, callVars, gen, outcome, res, histVars>>

\* or fail.  They are not repeated when the caller claims again.
Refuse(c) ==
    /\ At(c, "entered")
    /\ \/ cancelled[c] /\ Return(c, "cancelled")
       \/ ~cancelled[c] /\ expired[c] /\ Return(c, "timeout")
    /\ UNCHANGED <<slotVars, callVars, gen, outcome, histVars>>

\* ScanScheduler::claim on an idle device: the caller owns the scan.
ClaimOwned(c) ==
    /\ At(c, "claiming")
    /\ inFlight = {}
    /\ generation < MaxGeneration
    /\ inFlight' = {scope[c]}
    /\ generation' = generation + 1
    /\ gen' = [gen EXCEPT ![c] = generation + 1]
    /\ scopeOf' = [scopeOf EXCEPT ![generation + 1] = scope[c]]
    /\ Goto(c, "requesting")
    /\ UNCHANGED <<waiters, completions, callVars, outcome, res, outcomeOf>>

\* ScanScheduler::claim with a scan in flight: the caller becomes a waiter.
ClaimShared(c) ==
    /\ At(c, "claiming")
    /\ inFlight # {}
    /\ waiters' = [waiters EXCEPT ![generation] = @ + 1]
    /\ gen' = [gen EXCEPT ![c] = generation]
    /\ \E running \in inFlight :
          Goto(c, IF Covers(running, scope[c]) THEN "joined" ELSE "behind")
    /\ UNCHANGED <<inFlight, generation, completions, callVars, outcome, res, histVars>>

-----------------------------------------------------------------------------
(* The owner: run_owned_scan under a ScanLease.                            *)

\* The owner has its outcome; the lease publishes it.
Decide(c, o) ==
    /\ outcome' = [outcome EXCEPT ![c] = o]
    /\ Goto(c, "publishing")
    /\ UNCHANGED <<slotVars, callVars, gen, res, histVars>>

\* request_scan_within_deadline: the cancellation is checked, and the request
\* interval waited for,
CheckRequest(c) ==
    /\ At(c, "requesting")
    /\ ~cancelled[c]
    /\ Goto(c, "sending")
    /\ UNCHANGED <<slotVars, callVars, gen, outcome, res, histVars>>

\* then RequestScan is accepted,
SendScan(c) ==
    /\ At(c, "sending")
    /\ Goto(c, "scanning")
    /\ UNCHANGED <<slotVars, callVars, gen, outcome, res, histVars>>

\* or rejected for now, to be sent again,
RetryScan(c) ==
    /\ At(c, "sending")
    /\ ~expired[c]
    /\ Goto(c, "requesting")
    /\ UNCHANGED <<slotVars, callVars, gen, outcome, res, histVars>>

\* or fails; a D-Bus call may time out on its own.
FailScan(c) ==
    /\ At(c, "sending")
    /\ \E o \in {"failed", "timeout"} : Decide(c, o)

\* Mutant: the owner's wait has no deadline.
CheckScanForever(c) ==
    /\ At(c, "scanning")
    /\ ~cancelled[c]
    /\ Goto(c, "reading")
    /\ UNCHANGED <<slotVars, callVars, gen, outcome, res, histVars>>

\* wait_for_scan_completion: deadline and cancellation are checked,
CheckScan(c) ==
    /\ At(c, "scanning")
    /\ ~expired[c] /\ ~cancelled[c]
    /\ Goto(c, "reading")
    /\ UNCHANGED <<slotVars, callVars, gen, outcome, res, histVars>>

\* then LastScan is read: it has moved past the request,
ScanCompleted(c) ==
    /\ At(c, "reading")
    /\ Decide(c, "ok")

\* or it has not, and the owner waits for the next event.
ScanPending(c) ==
    /\ At(c, "reading")
    /\ Goto(c, "scanning")
    /\ UNCHANGED <<slotVars, callVars, gen, outcome, res, histVars>>

\* The owner's own cancellation or deadline ends its scan.
StopOwner(c) ==
    \/ pc[c] \in {"requesting", "scanning"} /\ cancelled[c] /\ Decide(c, "cancelled")
    \/ At(c, "requesting") /\ expired[c] /\ ~cancelled[c] /\ Decide(c, "timeout")
    \/ At(c, "scanning") /\ expired[c] /\ Decide(c, "timeout")

\* The owner unwinds: the lease publishes a failure nobody may retry for free.
PanicOwner(c) ==
    /\ pc[c] \in Owning \ {"publishing"}
    /\ Decide(c, "failed")

\* Mutant: an outcome nobody waits for yet leaves the scan in flight.
CompleteUnwatched(c) ==
    /\ At(c, "publishing")
    /\ IF generation = gen[c] /\ inFlight # {} /\ waiters[gen[c]] > 0
       THEN /\ inFlight' = {}
            /\ completions' = [completions EXCEPT ![gen[c]] = outcome[c]]
       ELSE UNCHANGED <<inFlight, completions>>
    /\ outcomeOf' = [outcomeOf EXCEPT ![gen[c]] = outcome[c]]
    /\ outcome' = [outcome EXCEPT ![c] = None]
    /\ Return(c, outcome[c])
    /\ UNCHANGED <<generation, waiters, callVars, gen, scopeOf>>

\* ScanLease::drop and ScanScheduler::complete; scan_device returns.
Complete(c) ==
    /\ At(c, "publishing")
    /\ IF generation = gen[c] /\ inFlight # {}
       THEN /\ inFlight' = {}
            /\ completions' = IF waiters[gen[c]] > 0
                              THEN [completions EXCEPT ![gen[c]] = outcome[c]]
                              ELSE completions
       ELSE UNCHANGED <<inFlight, completions>>
    /\ outcomeOf' = [outcomeOf EXCEPT ![gen[c]] = outcome[c]]
    /\ outcome' = [outcome EXCEPT ![c] = None]
    /\ Return(c, outcome[c])
    /\ UNCHANGED <<generation, waiters, callVars, gen, scopeOf>>

-----------------------------------------------------------------------------
(* The waiters: wait_for_completion.                                       *)

\* Mutant: the first waiter to leave takes the outcome with it.
ConsumeWaiterEarly(g) ==
    /\ waiters' = [waiters EXCEPT ![g] = @ - 1]
    /\ completions' = [completions EXCEPT ![g] = None]
    /\ UNCHANGED <<inFlight, generation>>

\* consume_waiter: the last waiter of a generation clears its slot.
ConsumeWaiter(g) ==
    /\ waiters' = [waiters EXCEPT ![g] = IF @ > 0 THEN @ - 1 ELSE 0]
    /\ completions' = IF waiters[g] <= 1 THEN [completions EXCEPT ![g] = None]
                                         ELSE completions
    /\ UNCHANGED <<inFlight, generation>>

\* The caller's own flag comes first,
WaitCancelled(c) ==
    /\ pc[c] \in Waiting
    /\ cancelled[c]
    /\ ConsumeWaiter(gen[c])
    /\ gen' = [gen EXCEPT ![c] = 0]
    /\ Return(c, "cancelled")
    /\ UNCHANGED <<callVars, outcome, histVars>>

\* its deadline last,
WaitExpired(c) ==
    /\ pc[c] \in Waiting
    /\ ~cancelled[c] /\ completions[gen[c]] = None /\ expired[c]
    /\ ConsumeWaiter(gen[c])
    /\ gen' = [gen EXCEPT ![c] = 0]
    /\ Return(c, "timeout")
    /\ UNCHANGED <<callVars, outcome, histVars>>

\* a published outcome in between: behind a scan of another scope, the
\* caller claims again;
WaitBehindOver(c) ==
    /\ At(c, "behind")
    /\ ~cancelled[c] /\ completions[gen[c]] # None
    /\ ConsumeWaiter(gen[c])
    /\ gen' = [gen EXCEPT ![c] = 0]
    /\ Goto(c, "claiming")
    /\ UNCHANGED <<callVars, outcome, res, histVars>>

\* a joined scan's outcome is taken out of the slot,
WaitJoinedOver(c) ==
    /\ At(c, "joined")
    /\ ~cancelled[c] /\ completions[gen[c]] # None
    /\ outcome' = [outcome EXCEPT ![c] = completions[gen[c]]]
    /\ ConsumeWaiter(gen[c])
    /\ Goto(c, "decided")
    /\ UNCHANGED <<callVars, gen, res, histVars>>

\* Mutant: an owner's cancellation counts as the joiner's.
OwnerScopedTimeout(o) == o = "timeout"

\* shared_owner_failure_is_retryable.
OwnerScoped(o) == o \in {"cancelled", "timeout"}

\* and then judged: what was the owner's alone is tried again,
ClaimAgain(c) ==
    /\ At(c, "decided")
    /\ OwnerScoped(outcome[c]) /\ ~expired[c]
    /\ outcome' = [outcome EXCEPT ![c] = None]
    /\ gen' = [gen EXCEPT ![c] = 0]
    /\ Goto(c, "claiming")
    /\ UNCHANGED <<slotVars, callVars, res, histVars>>

\* Mutant: a failure of the owner counts as a scan.
TakeJoinedResultBlindly(c) ==
    /\ At(c, "decided")
    /\ ~(OwnerScoped(outcome[c]) /\ ~expired[c])
    /\ outcome' = [outcome EXCEPT ![c] = None]
    /\ Return(c, "ok")
    /\ UNCHANGED <<slotVars, callVars, gen, histVars>>

\* anything else is the caller's result too.
TakeJoinedResult(c) ==
    /\ At(c, "decided")
    /\ ~(OwnerScoped(outcome[c]) /\ ~expired[c])
    /\ outcome' = [outcome EXCEPT ![c] = None]
    /\ Return(c, outcome[c])
    /\ UNCHANGED <<slotVars, callVars, gen, histVars>>

-----------------------------------------------------------------------------
\* Somebody cancels the caller's operation.
CancelCaller(c) ==
    /\ pc[c] \notin {"idle", "done"}
    /\ ~cancelled[c]
    /\ cancelled' = [cancelled EXCEPT ![c] = TRUE]
    /\ UNCHANGED <<slotVars, pc, scope, gen, expired, outcome, res, histVars>>

\* The caller's deadline passes.
Expire(c) ==
    /\ pc[c] \notin {"idle", "done"}
    /\ ~expired[c]
    /\ expired' = [expired EXCEPT ![c] = TRUE]
    /\ UNCHANGED <<slotVars, pc, scope, gen, cancelled, outcome, res, histVars>>

Claim(c) == Enter(c) \/ Refuse(c) \/ ClaimOwned(c) \/ ClaimShared(c)

Own(c) ==
    \/ CheckRequest(c) \/ SendScan(c) \/ RetryScan(c) \/ FailScan(c)
    \/ CheckScan(c) \/ ScanCompleted(c) \/ ScanPending(c) \/ StopOwner(c)

Wait(c) ==
    \/ WaitCancelled(c) \/ WaitExpired(c) \/ WaitBehindOver(c)
    \/ WaitJoinedOver(c) \/ ClaimAgain(c) \/ TakeJoinedResult(c)

Next ==
    \/ \E c \in Caller, s \in Scope : Call(c, s)
    \/ \E c \in Caller : Claim(c)
    \/ \E c \in Caller : Own(c)
    \/ \E c \in Caller : Complete(c)
    \/ \E c \in Caller : Wait(c)
    \/ \E c \in Caller : PanicOwner(c) \/ CancelCaller(c) \/ Expire(c)

Spec == Init /\ [][Next]_vars

\* A thread that has a step to take takes it, and time passes.  RetryScan and
\* ScanPending keep an owner busy until its deadline.
Fairness ==
    \A c \in Caller :
        /\ WF_vars(Claim(c)) /\ WF_vars(Own(c)) /\ WF_vars(Complete(c))
        /\ WF_vars(Wait(c)) /\ WF_vars(Expire(c))

FairSpec == Spec /\ Fairness

-----------------------------------------------------------------------------
(* Properties.                                                             *)

WaitersOf(g) == {c \in Caller : pc[c] \in Waiting /\ gen[c] = g}
Owners == {c \in Caller : pc[c] \in Owning}

\* The device is marked busy exactly while one live caller owns its scan, of
\* the scope that is marked: a cancelled, timed out or unwinding owner never
\* leaves the device busy, and a late publication never frees the device of
\* a newer owner (claim, complete and ScanLease's Drop).
LeaseExclusive ==
    /\ \A c \in Owners : gen[c] = generation /\ inFlight = {scope[c]}
    /\ \A c, d \in Owners : c = d
    /\ inFlight # {} => Owners # {}

\* A registered waiter can always still learn how its scan ends: the scan is
\* in flight, or its outcome is in the slot, also while other waiters leave,
\* new scans start, or the owner finished between the claim and the wait
\* (claim, complete and consume_waiter).
WaiterServed ==
    \A c \in Caller : pc[c] \in Waiting =>
        \/ gen[c] = generation /\ inFlight # {}
        \/ completions[gen[c]] # None

\* The waiter count of a generation is the number of callers waiting for it,
\* and an outcome is kept only as long as somebody waits for it, so the maps
\* do not grow with the number of scans (claim, complete, consume_waiter).
SlotsReclaimed ==
    \A g \in Generation :
        /\ waiters[g] = Cardinality(WaitersOf(g))
        /\ completions[g] # None => waiters[g] > 0

\* A caller is told its scan succeeded only when a scan that covers the SSIDs
\* it asked for did, its own or a joined one (scan_scope_covers, the slot of
\* the exact generation, joined_scan_result).
SuccessCovers ==
    \A c \in Caller : res[c] = "ok" =>
        /\ gen[c] # 0
        /\ outcomeOf[gen[c]] = "ok"
        /\ Covers(scopeOf[gen[c]], scope[c])

\* Every call returns: no caller waits for ever on an owner or on its turn.
CallReturns == \A c \in Caller : pc[c] = "entered" ~> pc[c] = "done"

\* An owner's cancellation is not its joiners': a caller that nobody cancelled
\* claims again, and reports a cancellation only past its own deadline
\* (shared_owner_failure_is_retryable and the new claim after it).
CancellationContained ==
    \A c \in Caller : res[c] = "cancelled" => cancelled[c] \/ expired[c]
=============================================================================
