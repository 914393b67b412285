--------------------------- MODULE ConnectRuntime ---------------------------
(***************************************************************************)
(* The life of a Wi-Fi connect request inside the daemon                   *)
(* (src/daemon_runtime.rs, src/daemon_connect.rs): admission, registration *)
(* in the task map, the worker on the "work" lane, cancellation, the       *)
(* operation deadline, a disconnecting client, a restarted NetworkManager, *)
(* the activation abort on the "fast-work" lane, and the retained terminal *)
(* result a client reads back with operation.status.                       *)
(*                                                                         *)
(* Each action is one critical section of the task map's mutex, or one     *)
(* call to NetworkManager.  A request id is used once (next_request_id).   *)
(* The worker's inner connection machine is reduced to the steps that      *)
(* touch shared state: the cancellation checks, the activation, the wait.  *)
(***************************************************************************)
EXTENDS ConnectAdmission

CONSTANTS
    Request,        \* request ids
    Owner,          \* transport owners (D-Bus unique names, socket ids)
    SsidOf,         \* the SSID of each identity
    MaxRevision,    \* bound: progress stops here, so revisions stay finite
    MaxAborts,      \* bound: aborts of one request waiting on the fast lane
    MaxBus          \* bound: owner changes of the NetworkManager bus name

ASSUME BoundAssumption ==
    /\ MaxRevision \in Nat \ {0}
    /\ MaxAborts \in Nat \ {0}
    /\ MaxBus \in Nat \ {0}
    /\ DOMAIN SsidOf = Identity
    /\ NoReason \notin Reason
    /\ "none" \notin Request

NoLink == [ssid |-> "none", by |-> "none"]
NoResult == [event |-> "none", rev |-> 0]
NoParams == [owner |-> "none", identity |-> "none", cred |-> "none"]

\* The owner of NetworkManager's bus name after n changes: a name that was
\* never used before when n is odd, nobody when n is even.
Present(n) == n % 2 = 1
OwnerAt(n) == IF Present(n) THEN n ELSE 0

VARIABLES
    bus,            \* number of owner changes the bus has seen
    notified,       \* the change network_manager_owner_changed last swept for
    link,           \* the Wi-Fi device's active connection: its SSID and,
                    \* as history, the request that activated it
    params,         \* owner, identity and credentials of each request
    pc,             \* where each request's handler or worker is
    nmOf,           \* TaskHandle.nm: the owner the request is bound to
    cancelled,      \* TaskHandle.cancellation
    timedOut,       \* TaskHandle.timed_out
    terminal,       \* TaskHandle.terminal
    revision,       \* TaskHandle.observation_revision
    retried,        \* the alternate access point has been used up
    outcome,        \* what the worker computed: event name and reason
    ownerChanged,   \* store_terminal_result's check, made before it locks
    result,         \* terminal_results, as its owner can read it back
    aborts,         \* activation aborts queued on the fast lane
    abortTaken,     \* history: the lane accepted an abort of the request
    published       \* history: the terminal event recorded for the request

nmVars == <<bus, notified, link>>
taskVars == <<cancelled, timedOut, terminal, revision>>
workVars == <<params, nmOf, retried, outcome, ownerChanged>>
abortVars == <<aborts, abortTaken>>
resultVars == <<result, published>>
vars == <<active, stale, blocked, bus, notified, link, params, pc, nmOf,
          cancelled, timedOut, terminal, revision, retried, outcome,
          ownerChanged, result, aborts, abortTaken, published>>

Event == {"succeeded", "failed", "cancelled"}
NoOutcome == [event |-> "none", reason |-> NoReason]

\* The worker has the job: it may still call NetworkManager.
Working == {"running", "activating", "verifying", "observing", "verified"}
\* The worker has its outcome and publishes it.
Publishing == {"computed", "storing", "stored", "failing", "released"}
\* The request is in the task map.
Registered == {"registered", "queued"} \union Working \union Publishing
\* The request's ConnectAttemptGuard is alive.
Guarded == {"admitted", "scoped", "registered", "queued", "computed",
            "storing", "stored"} \union Working
Pc == {"idle", "admitted", "scoped", "done"} \union Registered

IdentityOf(r) == params[r].identity
Target(r) == SsidOf[IdentityOf(r)]

TypeOK ==
    /\ AdmissionTypeOK
    /\ bus \in 1..MaxBus /\ notified \in 1..bus
    /\ \/ link = NoLink
       \/ link \in [ssid : {SsidOf[i] : i \in Identity}, by : Request]
    /\ params \in [Request -> [owner : Owner, identity : Identity,
                               cred : Credential] \union {NoParams}]
    /\ pc \in [Request -> Pc]
    /\ nmOf \in [Request -> 0..MaxBus]
    /\ cancelled \in [Request -> BOOLEAN]
    /\ timedOut \in [Request -> BOOLEAN]
    /\ terminal \in [Request -> BOOLEAN]
    /\ revision \in [Request -> 0..MaxRevision + 1]
    /\ retried \in [Request -> BOOLEAN]
    /\ outcome \in [Request -> [event : Event, reason : Reason \union {NoReason}]
                               \union {NoOutcome}]
    /\ ownerChanged \in [Request -> BOOLEAN]
    /\ result \in [Request -> [event : Event, rev : 1..MaxRevision + 1]
                              \union {NoResult}]
    /\ aborts \in [Request -> 0..MaxAborts]
    /\ abortTaken \in [Request -> BOOLEAN]
    /\ published \in [Request -> Event \union {"none"}]

Init ==
    /\ AdmissionInit
    /\ bus = 1 /\ notified = 1 /\ link = NoLink
    /\ params = [r \in Request |-> NoParams]
    /\ pc = [r \in Request |-> "idle"]
    /\ nmOf = [r \in Request |-> 0]
    /\ cancelled = [r \in Request |-> FALSE]
    /\ timedOut = [r \in Request |-> FALSE]
    /\ terminal = [r \in Request |-> FALSE]
    /\ revision = [r \in Request |-> 0]
    /\ retried = [r \in Request |-> FALSE]
    /\ outcome = [r \in Request |-> NoOutcome]
    /\ ownerChanged = [r \in Request |-> FALSE]
    /\ result = [r \in Request |-> NoResult]
    /\ aborts = [r \in Request |-> 0]
    /\ abortTaken = [r \in Request |-> FALSE]
    /\ published = [r \in Request |-> "none"]

At(r, from) == pc[r] = from
Goto(r, to) == pc' = [pc EXCEPT ![r] = to]

\* Nm::ensure_current_owner for the owner request r is bound to.
CurrentOwner(r) == Present(bus) /\ nmOf[r] = bus

-----------------------------------------------------------------------------
(* Accepting a request: start_connect_target and start_cancellable.        *)

\* validated_identity and begin_connect_attempt.
BeginAttempt(r, o, i, c) ==
    /\ At(r, "idle")
    /\ Admit(i, c)
    /\ params' = [params EXCEPT ![r] = [owner |-> o, identity |-> i, cred |-> c]]
    /\ Goto(r, "admitted")
    /\ UNCHANGED <<nmVars, taskVars, nmOf, retried, outcome, ownerChanged,
                   resultVars, abortVars>>

\* nm.scoped() binds the request to the current owner of the bus name.
BindScope(r) ==
    /\ At(r, "admitted")
    /\ Present(bus)
    /\ nmOf' = [nmOf EXCEPT ![r] = bus]
    /\ Goto(r, "scoped")
    /\ UNCHANGED <<admissionVars, nmVars, taskVars, params, retried, outcome,
                   ownerChanged, resultVars, abortVars>>

\* nm.scoped() fails: the attempt guard is dropped with the closure.
RefuseScope(r) ==
    /\ At(r, "admitted")
    /\ ~Present(bus)
    /\ Abandon(IdentityOf(r))
    /\ Goto(r, "done")
    /\ UNCHANGED <<nmVars, taskVars, workVars, resultVars, abortVars>>

\* TaskRegistration::new.
Register(r) ==
    /\ At(r, "scoped")
    /\ revision' = [revision EXCEPT ![r] = 1]
    /\ Goto(r, "registered")
    /\ UNCHANGED <<admissionVars, nmVars, cancelled, timedOut, terminal,
                   workVars, resultVars, abortVars>>

Submit(r) ==
    /\ At(r, "registered")
    /\ Goto(r, "queued")
    /\ UNCHANGED <<admissionVars, nmVars, taskVars, workVars, resultVars, abortVars>>

\* The closure's locals go, and TaskRegistration::drop removes the task.
Unregister(r) ==
    /\ cancelled' = [cancelled EXCEPT ![r] = FALSE]
    /\ timedOut' = [timedOut EXCEPT ![r] = FALSE]
    /\ terminal' = [terminal EXCEPT ![r] = FALSE]
    /\ revision' = [revision EXCEPT ![r] = 0]
    /\ retried' = [retried EXCEPT ![r] = FALSE]
    /\ outcome' = [outcome EXCEPT ![r] = NoOutcome]
    /\ ownerChanged' = [ownerChanged EXCEPT ![r] = FALSE]
    /\ Goto(r, "done")

\* Mutant: an unwinding job forgets its attempt guard.
LoseJobLeaksGuard(r) ==
    /\ pc[r] \in {"registered"} \union Working \union Publishing
    /\ UNCHANGED admissionVars
    /\ Unregister(r)
    /\ UNCHANGED <<nmVars, params, nmOf, resultVars, abortVars>>

\* The job is gone without having run to its end: the work lane refused it
\* (the lane is shared with every other method), or the worker panicked.
\* Dropping the closure drops the attempt guard and the registration.
LoseJob(r) ==
    /\ pc[r] \in {"registered"} \union Working \union Publishing
    /\ IF pc[r] \in Guarded
       THEN Abandon(IdentityOf(r))
       ELSE UNCHANGED admissionVars
    /\ Unregister(r)
    /\ UNCHANGED <<nmVars, params, nmOf, resultVars, abortVars>>

-----------------------------------------------------------------------------
(* The worker: run_connect_worker and Application::connect.                *)

\* The job starts: a request bound to a replaced NetworkManager is cancelled.
StartJob(r) ==
    /\ At(r, "queued")
    /\ cancelled' = [cancelled EXCEPT ![r] = @ \/ ~CurrentOwner(r)]
    /\ Goto(r, "running")
    /\ UNCHANGED <<admissionVars, nmVars, timedOut, terminal, revision,
                   workVars, resultVars, abortVars>>

\* store_connect_progress.
StoreProgress(r) ==
    /\ pc[r] \in {"running", "verifying"}
    /\ result[r] = NoResult /\ ~terminal[r]
    /\ revision[r] < MaxRevision
    /\ revision' = [revision EXCEPT ![r] = @ + 1]
    /\ UNCHANGED <<admissionVars, nmVars, pc, cancelled, timedOut, terminal,
                   workVars, resultVars, abortVars>>

\* check_cancelled at the head of run_states passes.
CheckCancelled(r) ==
    /\ At(r, "running")
    /\ ~cancelled[r]
    /\ Goto(r, "activating")
    /\ UNCHANGED <<admissionVars, nmVars, taskVars, workVars, resultVars, abortVars>>

\* The worker has its outcome.
Outcome(r, event, reason) ==
    /\ outcome' = [outcome EXCEPT ![r] = [event |-> event, reason |-> reason]]
    /\ Goto(r, "computed")

\* Mutant: only the deadline's cancellation is seen.
StopTimedOut(r) ==
    /\ At(r, "running")
    /\ cancelled[r] /\ timedOut[r]
    /\ Outcome(r, "cancelled", NoReason)
    /\ UNCHANGED <<admissionVars, nmVars, taskVars, params, nmOf, retried,
                   ownerChanged, resultVars, abortVars>>

\* The same check, or the one in start_connect, finds the request cancelled.
StopCancelled(r) ==
    /\ At(r, "running")
    /\ cancelled[r]
    /\ Outcome(r, "cancelled", NoReason)
    /\ UNCHANGED <<admissionVars, nmVars, taskVars, params, nmOf, retried,
                   ownerChanged, resultVars, abortVars>>

\* check_already_active: nothing to activate and no credentials to apply.
AlreadyActive(r) ==
    /\ At(r, "activating")
    /\ CurrentOwner(r) /\ link.ssid = Target(r)
    /\ params[r].cred \notin Supplied
    /\ Goto(r, "verified")
    /\ UNCHANGED <<admissionVars, nmVars, taskVars, workVars, resultVars, abortVars>>

\* activate_saved_profile or create_profile: NetworkManager takes the request.
Activate(r) ==
    /\ At(r, "activating")
    /\ CurrentOwner(r)
    /\ link' = [ssid |-> Target(r), by |-> r]
    /\ Goto(r, "verifying")
    /\ UNCHANGED <<admissionVars, bus, notified, taskVars, workVars, resultVars, abortVars>>

\* What is left of the link when the activation of r fails: NetworkManager
\* ends the failed activation itself, abort_requested ends the others.
WithoutActivation(r) == IF link.by = r THEN NoLink ELSE link

\* The activation or the wait for it fails, or the credential prompt is
\* cancelled.  finish_connect_cancellation lets a cancellation win.
FailCandidate(r) ==
    /\ pc[r] \in {"activating", "verifying", "observing"}
    /\ link' = WithoutActivation(r)
    /\ \/ ~cancelled[r] /\ \E reason \in Reason : Outcome(r, "failed", reason)
       \/ Outcome(r, "cancelled", NoReason)
    /\ UNCHANGED <<admissionVars, bus, notified, taskVars, params, nmOf,
                   retried, ownerChanged, resultVars, abortVars>>

\* connect_inner tries the one alternate access point.
RetryCandidate(r) ==
    /\ pc[r] \in {"activating", "verifying", "observing"}
    /\ ~cancelled[r] /\ ~retried[r]
    /\ link' = WithoutActivation(r)
    /\ retried' = [retried EXCEPT ![r] = TRUE]
    /\ Goto(r, "running")
    /\ UNCHANGED <<admissionVars, bus, notified, taskVars, params, nmOf,
                   outcome, ownerChanged, resultVars, abortVars>>

\* disconnect_wifi_for_ssid with the Nm and the SSID of request r.
Disconnected(r) ==
    IF CurrentOwner(r) /\ link.ssid = Target(r) THEN NoLink ELSE link

\* check_cancelled_and_abort in the activation wait.
AbortCancelled(r) ==
    /\ At(r, "verifying")
    /\ cancelled[r]
    /\ link' = Disconnected(r)
    /\ Outcome(r, "cancelled", NoReason)
    /\ UNCHANGED <<admissionVars, bus, notified, taskVars, params, nmOf,
                   retried, ownerChanged, resultVars, abortVars>>

\* Mutant: the wait does not look at the cancellation.
CheckWaitBlindly(r) ==
    /\ At(r, "verifying")
    /\ Goto(r, "observing")
    /\ UNCHANGED <<admissionVars, nmVars, taskVars, workVars, resultVars, abortVars>>

\* One iteration of the wait: the cancellation is checked at its head,
CheckWait(r) ==
    /\ At(r, "verifying")
    /\ ~cancelled[r]
    /\ Goto(r, "observing")
    /\ UNCHANGED <<admissionVars, nmVars, taskVars, workVars, resultVars, abortVars>>

\* then the target SSID is seen active,
Verify(r) ==
    /\ At(r, "observing")
    /\ CurrentOwner(r) /\ link.ssid = Target(r)
    /\ Goto(r, "verified")
    /\ UNCHANGED <<admissionVars, nmVars, taskVars, workVars, resultVars, abortVars>>

\* or it is not, and wait_for_event ends in the next iteration.
WaitForEvent(r) ==
    /\ At(r, "observing")
    /\ Goto(r, "verifying")
    /\ UNCHANGED <<admissionVars, nmVars, taskVars, workVars, resultVars, abortVars>>

\* finish_success and finish_connect_cancellation check a last time.
Conclude(r) ==
    /\ At(r, "verified")
    /\ Outcome(r, IF cancelled[r] THEN "cancelled" ELSE "succeeded", NoReason)
    /\ UNCHANGED <<admissionVars, nmVars, taskVars, params, nmOf, retried,
                   ownerChanged, resultVars, abortVars>>

\* The first half of store_terminal_result, outside the task lock.
CheckOwner(r) ==
    /\ At(r, "computed")
    /\ ownerChanged' = [ownerChanged EXCEPT ![r] =
                          outcome[r].event = "succeeded" /\ ~CurrentOwner(r)]
    /\ Goto(r, "storing")
    /\ UNCHANGED <<admissionVars, nmVars, taskVars, params, nmOf, retried,
                   outcome, resultVars, abortVars>>

\* Mutant: a cancellation that won is not looked at again.
TerminalEventUncancelled(r) ==
    IF outcome[r].event = "succeeded" /\ ownerChanged[r]
    THEN "cancelled"
    ELSE outcome[r].event

\* The event store_terminal_result records.
TerminalEvent(r) ==
    IF outcome[r].event = "succeeded" /\ (ownerChanged[r] \/ cancelled[r])
    THEN "cancelled"
    ELSE outcome[r].event

\* The second half, under the task and result locks.  Evidence that is there,
\* or was there, is left alone.
RecordTerminal(r) ==
    IF result[r] # NoResult \/ terminal[r]
    THEN UNCHANGED <<terminal, revision, result, published>>
    ELSE /\ terminal' = [terminal EXCEPT ![r] = TRUE]
         /\ revision' = [revision EXCEPT ![r] = @ + 1]
         /\ result' = [result EXCEPT ![r] = [event |-> TerminalEvent(r),
                                             rev |-> revision[r] + 1]]
         /\ published' = [published EXCEPT ![r] = TerminalEvent(r)]

StoreTerminal(r) ==
    /\ At(r, "storing")
    /\ RecordTerminal(r)
    /\ ownerChanged' = [ownerChanged EXCEPT ![r] = FALSE]
    /\ Goto(r, "stored")
    /\ UNCHANGED <<admissionVars, nmVars, cancelled, timedOut, params, nmOf,
                   retried, outcome, abortVars>>

\* attempt.finish after run_connect_worker returned an outcome.
FinishAttempt(r) ==
    /\ At(r, "stored")
    /\ Complete(IdentityOf(r), params[r].cred, outcome[r].reason,
                outcome[r].event = "succeeded")
    /\ Goto(r, "released")
    /\ UNCHANGED <<nmVars, taskVars, workVars, resultVars, abortVars>>

\* run_connect_worker returns an error (the request cannot be resolved, an
\* event cannot be delivered): attempt.finish comes first,
FailWorker(r) ==
    /\ At(r, "running")
    /\ \E reason \in Reason \union {NoReason} :
          /\ outcome' = [outcome EXCEPT ![r] = [event |-> "failed", reason |-> reason]]
          /\ Complete(IdentityOf(r), params[r].cred, reason, FALSE)
    /\ Goto(r, "failing")
    /\ UNCHANGED <<nmVars, taskVars, params, nmOf, retried, ownerChanged,
                   resultVars, abortVars>>

\* and emit_connect_failure second.
EmitConnectFailure(r) ==
    /\ At(r, "failing")
    /\ RecordTerminal(r)
    /\ Goto(r, "released")
    /\ UNCHANGED <<admissionVars, nmVars, cancelled, timedOut, workVars, abortVars>>

\* The job's closure ends.
Unwind(r) ==
    /\ At(r, "released")
    /\ Unregister(r)
    /\ UNCHANGED <<admissionVars, nmVars, params, nmOf, resultVars, abortVars>>

-----------------------------------------------------------------------------
(* Cancellation, deadline, clients and NetworkManager going away.          *)

\* The guard cancel_task, expire_connect and cancel_tasks_for_owner share.
Cancellable(r) ==
    pc[r] \in Registered /\ ~terminal[r] /\ result[r] = NoResult

\* TaskHandle::request_cancel for the tasks of S, then abort_cancelled_connect
\* for each; the fast lane takes the aborts of some of them.
RequestCancel(S) ==
    /\ cancelled' = [r \in Request |-> cancelled[r] \/ r \in S]
    /\ \E taken \in SUBSET {r \in S : aborts[r] < MaxAborts} :
          /\ aborts' = [r \in Request |-> IF r \in taken THEN aborts[r] + 1
                                                         ELSE aborts[r]]
          /\ abortTaken' = [r \in Request |-> abortTaken[r] \/ r \in taken]

\* The owner of r calls cancel.  It has the id once the job is submitted.
Cancel(r) ==
    /\ pc[r] # "registered" /\ Cancellable(r)
    /\ RequestCancel({r})
    /\ UNCHANGED <<admissionVars, nmVars, pc, timedOut, terminal, revision,
                   workVars, resultVars>>

\* The operation deadline of r passes.
ExpireConnect(r) ==
    /\ pc[r] # "registered" /\ Cancellable(r)
    /\ ~timedOut[r]
    /\ timedOut' = [timedOut EXCEPT ![r] = TRUE]
    /\ RequestCancel({r})
    /\ UNCHANGED <<admissionVars, nmVars, pc, terminal, revision, workVars, resultVars>>

\* Client o disconnects: drop_owner.
DropOwner(o) ==
    LET mine == {r \in Request : Cancellable(r) /\ params[r].owner = o}
    IN  /\ mine # {}
        /\ RequestCancel(mine)
        /\ UNCHANGED <<admissionVars, nmVars, pc, timedOut, terminal, revision,
                       workVars, resultVars>>

\* A flag store on every task of S, with no abort.
Flag(S) ==
    /\ cancelled' = [r \in Request |-> cancelled[r] \/ r \in S]
    /\ UNCHANGED <<admissionVars, bus, link, pc, timedOut, terminal, revision,
                   workVars, resultVars, abortVars>>

\* wifi.forget cancels the connects of its SSID, completed or not.
CancelConnectsForSsid(s) ==
    LET same == {r \in Request : pc[r] \in Registered /\ Target(r) = s}
    IN  same # {} /\ Flag(same) /\ UNCHANGED notified

\* NetworkManager leaves the bus, or appears under a new name.
ChangeBusOwner ==
    /\ bus < MaxBus
    /\ bus' = bus + 1
    /\ link' = NoLink
    /\ UNCHANGED <<admissionVars, notified, pc, taskVars, workVars, resultVars, abortVars>>

\* Mutant: the sweep compares with the owner known before.
OwnerChangedLate(n) ==
    /\ n \in notified + 1..bus
    /\ OwnerAt(n) # OwnerAt(notified)
    /\ notified' = n
    /\ Flag({r \in Request : pc[r] \in Registered /\ nmOf[r] # OwnerAt(notified)})

\* network_manager_owner_changed, with an owner the watcher read earlier.
OwnerChanged(n) ==
    /\ n \in notified + 1..bus
    /\ OwnerAt(n) # OwnerAt(notified)
    /\ notified' = n
    /\ Flag({r \in Request : pc[r] \in Registered /\ nmOf[r] # OwnerAt(n)})

\* The fast lane runs an activation abort.
RunAbort(r) ==
    /\ aborts[r] > 0
    /\ aborts' = [aborts EXCEPT ![r] = @ - 1]
    /\ link' = Disconnected(r)
    /\ UNCHANGED <<admissionVars, bus, notified, pc, taskVars, workVars, resultVars,
                   abortTaken>>

\* RecentResults drops a record: its TTL is over, or its place is needed.
ForgetResult(r) ==
    /\ result[r] # NoResult
    /\ result' = [result EXCEPT ![r] = NoResult]
    /\ UNCHANGED <<admissionVars, nmVars, pc, taskVars, workVars, published,
                   abortVars>>

\* WRONG_PASSWORD_RETRY_DELAY passes for some fingerprint.
PassRetryDelay ==
    /\ \E b \in blocked : RetryDelayOver(b)
    /\ UNCHANGED <<nmVars, pc, taskVars, workVars, resultVars, abortVars>>

-----------------------------------------------------------------------------
Accept(r) ==
    \/ \E o \in Owner, i \in Identity, c \in Credential : BeginAttempt(r, o, i, c)
    \/ BindScope(r)
    \/ RefuseScope(r)
    \/ Register(r)
    \/ Submit(r)

Work(r) ==
    \/ StartJob(r) \/ StoreProgress(r) \/ CheckCancelled(r) \/ StopCancelled(r)
    \/ AlreadyActive(r) \/ Activate(r) \/ CheckWait(r) \/ WaitForEvent(r)
    \/ AbortCancelled(r) \/ Verify(r) \/ Conclude(r)

Publish(r) ==
    \/ CheckOwner(r) \/ StoreTerminal(r) \/ FinishAttempt(r)
    \/ EmitConnectFailure(r) \/ Unwind(r)

Disturb(r) ==
    \/ RetryCandidate(r) \/ FailWorker(r) \/ LoseJob(r)
    \/ Cancel(r) \/ ExpireConnect(r) \/ ForgetResult(r)

Next ==
    \/ \E r \in Request : Accept(r)
    \/ \E r \in Request : Work(r)
    \/ \E r \in Request : FailCandidate(r)
    \/ \E r \in Request : Publish(r)
    \/ \E r \in Request : Disturb(r)
    \/ \E r \in Request : RunAbort(r)
    \/ \E o \in Owner : DropOwner(o)
    \/ \E i \in Identity : CancelConnectsForSsid(SsidOf[i])
    \/ ChangeBusOwner
    \/ \E n \in 1..MaxBus : OwnerChanged(n)
    \/ PassRetryDelay

Spec == Init /\ [][Next]_vars

\* A lane keeps running its jobs; the activation wait has a deadline.
Fairness ==
    /\ \A r \in Request : WF_vars(Work(r)) /\ WF_vars(FailCandidate(r))
                          /\ WF_vars(Publish(r)) /\ WF_vars(RunAbort(r))

FairSpec == Spec /\ Fairness

-----------------------------------------------------------------------------
(* Properties.                                                             *)

Holders == {r \in Request : pc[r] \in Guarded}

\* At most one attempt per network identity is between its admission and the
\* end of its work, whichever way the handler, the lane or the worker ends,
\* and an identity is never left marked active with no attempt behind it
\* (ConnectAttemptGuard's Drop, attempt.finish, start_cancellable's errors).
AdmissionExclusive ==
    /\ active = {IdentityOf(r) : r \in Holders}
    /\ \A r1, r2 \in Holders : IdentityOf(r1) = IdentityOf(r2) => r1 = r2

\* While an attempt runs, no other attempt makes its own admission wrong:
\* saved credentials are not tried on an identity where they are known to
\* fail, nor a fingerprint inside its retry delay (admit against complete).
AttemptRespectsPolicy ==
    \A r \in Holders :
        /\ IdentityOf(r) \in stale => params[r].cred \in Supplied
        /\ <<IdentityOf(r), params[r].cred>> \notin blocked

\* Completion and cancellation share one linearization point: a request whose
\* success was published never had an activation abort queued, and none is
\* queued later, even once its evidence has expired (store_terminal_result
\* against cancel_task, expire_connect and cancel_tasks_for_owner).
SuccessExcludesAbort ==
    \A r \in Request : published[r] = "succeeded" => ~abortTaken[r] /\ aborts[r] = 0

\* A cancellation whose abort the fast lane accepted leaves no link behind:
\* either the abort or the worker's own check takes it down, however the
\* abort is ordered against the activation it is meant to undo.
CancelledLinkTornDown ==
    \A r \in Request :
        /\ pc[r] = "done" /\ published[r] # "none"
        /\ abortTaken[r] /\ aborts[r] = 0
        => link.by # r

\* No request reports success for a NetworkManager that the daemon already
\* knows to be replaced, wherever the replacement falls between the binding,
\* the registration, the queue and the final check (start_cancellable's
\* re-check, network_manager_owner_changed's sweep).
StaleOwnerNeverSucceeds ==
    [][\A r \in Request :
          published[r] = "none" /\ published'[r] = "succeeded"
              => nmOf[r] >= notified]_vars

\* Every accepted connect request unwinds: its task and its admission are
\* released (the lane, the activation deadline and the bounded retry).
AcceptedUnwinds ==
    \A r \in Request : pc[r] = "queued" ~> pc[r] = "done"

\* Mutant: the terminal flag of a task whose evidence expired is ignored.
RequestStatusResurrected(r) ==
    IF result[r] # NoResult
    THEN [status |-> "finished", rev |-> result[r].rev,
          event |-> result[r].event, intent |-> FALSE]
    ELSE IF pc[r] \in Registered
    THEN [status |-> "running", rev |-> revision[r],
          event |-> "none", intent |-> cancelled[r]]
    ELSE [status |-> IF pc[r] = "done" /\ nmOf[r] # 0 THEN "gone" ELSE "fresh",
          rev |-> 0, event |-> "none", intent |-> FALSE]

\* What operation.status answers the owner of r.
RequestStatus(r) ==
    IF result[r] # NoResult
    THEN [status |-> "finished", rev |-> result[r].rev,
          event |-> result[r].event, intent |-> FALSE]
    ELSE IF pc[r] \in Registered /\ ~terminal[r]
    THEN [status |-> "running", rev |-> revision[r],
          event |-> "none", intent |-> cancelled[r]]
    ELSE [status |-> IF pc[r] \in Registered \union {"done"} /\ nmOf[r] # 0
                     THEN "gone" ELSE "fresh",
          rev |-> 0, event |-> "none", intent |-> FALSE]

Contract == INSTANCE RequestContract
                WITH obs <- [r \in Request |-> RequestStatus(r)]

\* The replies of request_status keep the contract of the recovery document:
\* revisions advance one by one, intent is monotone and rules out success,
\* terminal evidence is immutable and nothing is resurrected after it.
RefinesContract == Contract!Spec

\* README.md: a healthy profile is not torn down by the cancellation of some
\* other, failed attempt.  (An abort names its SSID, not its activation: the
\* completed link of another request with the same SSID is hit.)
AbortSparesCompletedLink ==
    [][\A r, q \in Request :
          /\ aborts'[r] < aborts[r]
          /\ link.by = q /\ link' = NoLink
          /\ published[q] = "succeeded"
          => q = r]_vars
=============================================================================
