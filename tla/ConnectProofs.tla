---------------------------- MODULE ConnectProofs ----------------------------
(***************************************************************************)
(* The connect runtime, for every set of requests, owners, identities and  *)
(* credentials and every value of the bounds: its types, the admission     *)
(* policy, its safety properties, and that it implements RequestContract.  *)
(***************************************************************************)
EXTENDS ConnectRuntime, TLAPS

\* Most steps are first-order; the ones that need arithmetic name SMT;
\* the limits leave room for a loaded machine.
USE ZenonT(60)

-----------------------------------------------------------------------------
\* Type correctness.
Param == [owner : Owner, identity : Identity, cred : Credential]
Verdicted == [event : Event, reason : Reason \union {NoReason}]

\* What the handlers rely on beside the types: an accepted request has its
\* parameters and its NetworkManager, a worker that publishes has an outcome,
\* and the revision of an unfinished task leaves room for the terminal one.
TypeInv ==
    /\ TypeOK
    /\ \A r \in Request :
          /\ pc[r] # "idle" => params[r] \in Param
          /\ pc[r] \in Publishing => outcome[r] \in Verdicted
          /\ pc[r] = "failing" => outcome[r].event = "failed"
          /\ pc[r] \in Registered \union {"scoped"} => nmOf[r] >= 1
          /\ ~terminal[r] => revision[r] <= MaxRevision

-----------------------------------------------------------------------------
LEMMA TypeStep == TypeInv /\ [Next]_vars => TypeInv'
<1> SUFFICES ASSUME TypeInv, [Next]_vars PROVE TypeInv'
  OBVIOUS
<1> USE BoundAssumption, SuppliedAssumption
    DEF TypeInv, TypeOK, AdmissionTypeOK, Param, Verdicted, Pc, Registered, Working,
        Publishing, At, Goto, nmVars, taskVars, workVars, abortVars, resultVars,
        admissionVars, Event, NoLink, NoParams, NoResult, NoOutcome
<1>1. ASSUME NEW r \in Request, BindScope(r) PROVE TypeInv'
  BY <1>1, SMTT(40) DEF BindScope
<1>2. ASSUME NEW r \in Request, RefuseScope(r) PROVE TypeInv'
  BY <1>2, SMTT(40) DEF RefuseScope, Abandon, IdentityOf
<1>3. ASSUME NEW r \in Request, Register(r) PROVE TypeInv'
  BY <1>3, SMTT(40) DEF Register
<1>4. ASSUME NEW r \in Request, Submit(r) PROVE TypeInv'
  BY <1>4, SMTT(40) DEF Submit
<1>5. ASSUME NEW r \in Request, StartJob(r) PROVE TypeInv'
  BY <1>5, SMTT(40) DEF StartJob
<1>6. ASSUME NEW r \in Request, StoreProgress(r) PROVE TypeInv'
  BY <1>6, SMTT(40) DEF StoreProgress
<1>7. ASSUME NEW r \in Request, CheckCancelled(r) PROVE TypeInv'
  BY <1>7 DEF CheckCancelled
<1>8. ASSUME NEW r \in Request, StopCancelled(r) PROVE TypeInv'
  BY <1>8 DEF StopCancelled, Outcome
<1>9. ASSUME NEW r \in Request, AlreadyActive(r) PROVE TypeInv'
  BY <1>9 DEF AlreadyActive
<1>10. ASSUME NEW r \in Request, Activate(r) PROVE TypeInv'
  BY <1>10 DEF Activate, Target, IdentityOf
<1>11. ASSUME NEW r \in Request, CheckWait(r) PROVE TypeInv'
  BY <1>11 DEF CheckWait
<1>12. ASSUME NEW r \in Request, WaitForEvent(r) PROVE TypeInv'
  BY <1>12 DEF WaitForEvent
<1>13. ASSUME NEW r \in Request, AbortCancelled(r) PROVE TypeInv'
  BY <1>13 DEF AbortCancelled, Outcome, Disconnected
<1>14. ASSUME NEW r \in Request, Verify(r) PROVE TypeInv'
  BY <1>14 DEF Verify
<1>15. ASSUME NEW r \in Request, Conclude(r) PROVE TypeInv'
  BY <1>15 DEF Conclude, Outcome
<1>16. ASSUME NEW r \in Request, CheckOwner(r) PROVE TypeInv'
  BY <1>16 DEF CheckOwner
<1>17. ASSUME NEW r \in Request, StoreTerminal(r) PROVE TypeInv'
  <2>1. CASE result[r] # NoResult \/ terminal[r]
    BY <1>17, <2>1, SMTT(40) DEF StoreTerminal, RecordTerminal
  <2>2. CASE ~(result[r] # NoResult \/ terminal[r])
    <3> DEFINE e == TerminalEvent(r)
    <3>1. e \in Event
      BY <1>17 DEF StoreTerminal, TerminalEvent
    <3> HIDE DEF e
    <3>2. /\ terminal' = [terminal EXCEPT ![r] = TRUE]
          /\ revision' = [revision EXCEPT ![r] = @ + 1]
          /\ result' = [result EXCEPT ![r] = [event |-> e, rev |-> revision[r] + 1]]
          /\ published' = [published EXCEPT ![r] = e]
      BY <1>17, <2>2 DEF StoreTerminal, RecordTerminal, e
    <3>3. revision[r] + 1 \in 1..MaxRevision + 1
      BY <2>2, SMTT(40)
    <3>4. QED
      BY <1>17, <3>1, <3>2, <3>3, SMTT(40) DEF StoreTerminal
  <2>3. QED
    BY <2>1, <2>2
<1>18. ASSUME NEW r \in Request, FinishAttempt(r) PROVE TypeInv'
  BY <1>18, SMTT(40) DEF FinishAttempt, Complete, IdentityOf
<1>19. ASSUME NEW r \in Request, EmitConnectFailure(r) PROVE TypeInv'
  <2>1. CASE result[r] # NoResult \/ terminal[r]
    BY <1>19, <2>1, SMTT(40) DEF EmitConnectFailure, RecordTerminal
  <2>2. CASE ~(result[r] # NoResult \/ terminal[r])
    <3> DEFINE e == TerminalEvent(r)
    <3>1. e \in Event
      BY <1>19 DEF EmitConnectFailure, TerminalEvent
    <3> HIDE DEF e
    <3>2. /\ terminal' = [terminal EXCEPT ![r] = TRUE]
          /\ revision' = [revision EXCEPT ![r] = @ + 1]
          /\ result' = [result EXCEPT ![r] = [event |-> e, rev |-> revision[r] + 1]]
          /\ published' = [published EXCEPT ![r] = e]
      BY <1>19, <2>2 DEF EmitConnectFailure, RecordTerminal, e
    <3>3. revision[r] + 1 \in 1..MaxRevision + 1
      BY <2>2, SMTT(40)
    <3>4. QED
      BY <1>19, <3>1, <3>2, <3>3, SMTT(40) DEF EmitConnectFailure
  <2>3. QED
    BY <2>1, <2>2
<1>20. ASSUME NEW r \in Request, Unwind(r) PROVE TypeInv'
  BY <1>20, SMTT(40) DEF Unwind, Unregister
<1>21. ASSUME NEW r \in Request, RetryCandidate(r) PROVE TypeInv'
  BY <1>21 DEF RetryCandidate, WithoutActivation
<1>22. ASSUME NEW r \in Request, FailWorker(r) PROVE TypeInv'
  BY <1>22, SMTT(40) DEF FailWorker, Complete, IdentityOf
<1>23. ASSUME NEW r \in Request, LoseJob(r) PROVE TypeInv'
  BY <1>23, SMTT(40) DEF LoseJob, Unregister, Abandon
<1>24. ASSUME NEW r \in Request, Cancel(r) PROVE TypeInv'
  BY <1>24, SMTT(40) DEF Cancel, RequestCancel
<1>25. ASSUME NEW r \in Request, ExpireConnect(r) PROVE TypeInv'
  BY <1>25, SMTT(40) DEF ExpireConnect, RequestCancel
<1>26. ASSUME NEW r \in Request, ForgetResult(r) PROVE TypeInv'
  BY <1>26 DEF ForgetResult
<1>27. ASSUME NEW r \in Request, FailCandidate(r) PROVE TypeInv'
  <2>1. /\ pc' = [pc EXCEPT ![r] = "computed"]
        /\ \E e \in Event, c \in Reason \union {NoReason} :
              outcome' = [outcome EXCEPT ![r] = [event |-> e, reason |-> c]]
    BY <1>27 DEF FailCandidate, Outcome
  <2>2. QED
    BY <1>27, <2>1, SMTT(40) DEF FailCandidate, WithoutActivation
<1>28. ASSUME NEW r \in Request, RunAbort(r) PROVE TypeInv'
  BY <1>28, SMTT(40) DEF RunAbort, Disconnected
<1>29. ASSUME NEW r \in Request, NEW o \in Owner, NEW i \in Identity, NEW c \in Credential,
              BeginAttempt(r, o, i, c) PROVE TypeInv'
  BY <1>29 DEF BeginAttempt, Admit
<1>30. ASSUME NEW o \in Owner, DropOwner(o) PROVE TypeInv'
  BY <1>30, SMTT(40) DEF DropOwner, RequestCancel
<1>31. ASSUME NEW i \in Identity, CancelConnectsForSsid(SsidOf[i]) PROVE TypeInv'
  BY <1>31 DEF CancelConnectsForSsid, Flag
<1>32. ASSUME ChangeBusOwner PROVE TypeInv'
  BY <1>32, SMTT(40) DEF ChangeBusOwner
<1>33. ASSUME NEW n \in 1..MaxBus, OwnerChanged(n) PROVE TypeInv'
  BY <1>33, SMTT(40) DEF OwnerChanged, Flag
<1>34. ASSUME PassRetryDelay PROVE TypeInv'
  BY <1>34 DEF PassRetryDelay, RetryDelayOver
<1>35. CASE UNCHANGED vars
  BY <1>35 DEF vars
<1>36. QED
  BY <1>1, <1>2, <1>3, <1>4, <1>5, <1>6, <1>7, <1>8, <1>9, <1>10, <1>11,
     <1>12, <1>13, <1>14, <1>15, <1>16, <1>17, <1>18, <1>19, <1>20, <1>21,
     <1>22, <1>23, <1>24, <1>25, <1>26, <1>27, <1>28, <1>29, <1>30, <1>31,
     <1>32, <1>33, <1>34, <1>35 DEF Next, Accept, Work, Publish, Disturb

LEMMA TypeInit == Init => TypeInv
<1> SUFFICES ASSUME Init PROVE TypeInv
  OBVIOUS
<1>1. QED
  BY BoundAssumption, SMTT(40)
     DEF Init, AdmissionInit, TypeInv, TypeOK, AdmissionTypeOK, Registered, Working,
         Publishing, Pc

LEMMA TypeInductive == Spec => []TypeInv
<1>1. QED
  BY TypeInit, TypeStep, PTL DEF Spec

\* The types of the task map, the admission policy, the retained results and
\* the abort queue, whatever the lanes and the clients do.
THEOREM TypeCorrect == Spec => []TypeOK
<1>1. TypeInv => TypeOK
  BY DEF TypeInv
<1>2. QED
  BY <1>1, TypeInductive, PTL

-----------------------------------------------------------------------------
\* The admission policy: attempts exclude each other and keep to the policy.
AdmissionInv == AdmissionExclusive /\ AttemptRespectsPolicy

LEMMA AdmissionStep == TypeInv /\ AdmissionInv /\ [Next]_vars => AdmissionInv'
<1> SUFFICES ASSUME TypeInv, AdmissionInv, [Next]_vars PROVE AdmissionInv'
  OBVIOUS
<1>t. pc \in [Request -> Pc] /\ DOMAIN params = Request
  BY DEF TypeInv, TypeOK
<1>k. ASSUME UNCHANGED <<params, active, stale>>, Holders' = Holders, blocked' \subseteq blocked
      PROVE  AdmissionInv'
  BY <1>k DEF AdmissionInv, AdmissionExclusive, AttemptRespectsPolicy, IdentityOf
<1>r. ASSUME NEW r \in Holders, Holders' = Holders \ {r}, UNCHANGED params,
             active' = active \ {IdentityOf(r)},
             stale' \subseteq stale \union {IdentityOf(r)},
             blocked' \subseteq blocked \union {<<IdentityOf(r), params[r].cred>>}
      PROVE  AdmissionInv'
  <2>1. \A q \in Holders' : q \in Holders /\ IdentityOf(q) # IdentityOf(r)
    BY <1>r DEF AdmissionInv, AdmissionExclusive
  <2>2. \A q \in Request : IdentityOf(q)' = IdentityOf(q) /\ params'[q] = params[q]
    BY <1>r DEF IdentityOf
  <2>3. AdmissionExclusive'
    BY <1>r, <2>1, <2>2, SMTT(40) DEF AdmissionInv, AdmissionExclusive, Holders
  <2>4. AttemptRespectsPolicy'
    BY <1>r, <2>1, <2>2 DEF AdmissionInv, AttemptRespectsPolicy, Holders
  <2>5. QED
    BY <2>3, <2>4 DEF AdmissionInv
<1> USE <1>t
    DEF Holders, Guarded, Pc, Registered, Working, Publishing, At, Goto, workVars,
        admissionVars
<1>1. ASSUME NEW r \in Request, BindScope(r) PROVE AdmissionInv'
  BY <1>1, <1>k DEF BindScope
<1>2. ASSUME NEW r \in Request, RefuseScope(r) PROVE AdmissionInv'
  BY <1>2, <1>r DEF RefuseScope, Abandon
<1>3. ASSUME NEW r \in Request, Register(r) PROVE AdmissionInv'
  BY <1>3, <1>k DEF Register
<1>4. ASSUME NEW r \in Request, Submit(r) PROVE AdmissionInv'
  BY <1>4, <1>k DEF Submit
<1>5. ASSUME NEW r \in Request, StartJob(r) PROVE AdmissionInv'
  BY <1>5, <1>k DEF StartJob
<1>6. ASSUME NEW r \in Request, StoreProgress(r) PROVE AdmissionInv'
  BY <1>6, <1>k DEF StoreProgress
<1>7. ASSUME NEW r \in Request, CheckCancelled(r) PROVE AdmissionInv'
  BY <1>7, <1>k DEF CheckCancelled
<1>8. ASSUME NEW r \in Request, StopCancelled(r) PROVE AdmissionInv'
  BY <1>8, <1>k DEF StopCancelled, Outcome
<1>9. ASSUME NEW r \in Request, AlreadyActive(r) PROVE AdmissionInv'
  BY <1>9, <1>k DEF AlreadyActive
<1>10. ASSUME NEW r \in Request, Activate(r) PROVE AdmissionInv'
  BY <1>10, <1>k DEF Activate
<1>11. ASSUME NEW r \in Request, CheckWait(r) PROVE AdmissionInv'
  BY <1>11, <1>k DEF CheckWait
<1>12. ASSUME NEW r \in Request, WaitForEvent(r) PROVE AdmissionInv'
  BY <1>12, <1>k DEF WaitForEvent
<1>13. ASSUME NEW r \in Request, AbortCancelled(r) PROVE AdmissionInv'
  BY <1>13, <1>k DEF AbortCancelled, Outcome
<1>14. ASSUME NEW r \in Request, Verify(r) PROVE AdmissionInv'
  BY <1>14, <1>k DEF Verify
<1>15. ASSUME NEW r \in Request, Conclude(r) PROVE AdmissionInv'
  BY <1>15, <1>k DEF Conclude, Outcome
<1>16. ASSUME NEW r \in Request, CheckOwner(r) PROVE AdmissionInv'
  BY <1>16, <1>k DEF CheckOwner
<1>17. ASSUME NEW r \in Request, StoreTerminal(r) PROVE AdmissionInv'
  BY <1>17, <1>k DEF StoreTerminal
<1>18. ASSUME NEW r \in Request, FinishAttempt(r) PROVE AdmissionInv'
  BY <1>18, <1>r DEF FinishAttempt, Complete
<1>19. ASSUME NEW r \in Request, EmitConnectFailure(r) PROVE AdmissionInv'
  BY <1>19, <1>k DEF EmitConnectFailure
<1>20. ASSUME NEW r \in Request, Unwind(r) PROVE AdmissionInv'
  BY <1>20, <1>k DEF Unwind, Unregister
<1>21. ASSUME NEW r \in Request, RetryCandidate(r) PROVE AdmissionInv'
  BY <1>21, <1>k DEF RetryCandidate
<1>22. ASSUME NEW r \in Request, FailWorker(r) PROVE AdmissionInv'
  BY <1>22, <1>r DEF FailWorker, Complete
<1>23. ASSUME NEW r \in Request, LoseJob(r) PROVE AdmissionInv'
  <2>1. CASE pc[r] \in Guarded
    BY <1>23, <2>1, <1>r DEF LoseJob, Unregister, Abandon
  <2>2. CASE pc[r] \notin Guarded
    BY <1>23, <2>2, <1>k DEF LoseJob, Unregister
  <2>3. QED
    BY <2>1, <2>2
<1>24. ASSUME NEW r \in Request, Cancel(r) PROVE AdmissionInv'
  BY <1>24, <1>k DEF Cancel
<1>25. ASSUME NEW r \in Request, ExpireConnect(r) PROVE AdmissionInv'
  BY <1>25, <1>k DEF ExpireConnect
<1>26. ASSUME NEW r \in Request, ForgetResult(r) PROVE AdmissionInv'
  BY <1>26, <1>k DEF ForgetResult
<1>27. ASSUME NEW r \in Request, FailCandidate(r) PROVE AdmissionInv'
  BY <1>27, <1>k DEF FailCandidate, Outcome
<1>28. ASSUME NEW r \in Request, RunAbort(r) PROVE AdmissionInv'
  BY <1>28, <1>k DEF RunAbort
<1>29. ASSUME NEW r \in Request, NEW o \in Owner, NEW i \in Identity, NEW c \in Credential,
              BeginAttempt(r, o, i, c) PROVE AdmissionInv'
  <2> USE DEF AdmissionInv, AdmissionExclusive, AttemptRespectsPolicy, IdentityOf
  <2>1. /\ i \notin active
        /\ i \in stale => c \in Supplied
        /\ <<i, c>> \notin blocked
    BY <1>29 DEF BeginAttempt, Admit, Verdict
  <2>2. /\ Holders' = Holders \union {r}
        /\ r \notin Holders
        /\ active' = active \union {i}
        /\ stale' = stale /\ blocked' = blocked
    BY <1>29 DEF BeginAttempt, Admit
  <2>3. /\ params'[r].identity = i /\ params'[r].cred = c
        /\ \A q \in Holders : params'[q] = params[q]
    BY <1>29, <2>2 DEF BeginAttempt
  <2> HIDE DEF Holders
  <2>4. active' = {params'[q].identity : q \in Holders'}
    BY <2>2, <2>3, SMTT(40)
  <2>5. \A q \in Holders : params[q].identity # i
    BY <2>1
  <2>6. AdmissionExclusive'
    <3>1. \A q1, q2 \in Holders' : params'[q1].identity = params'[q2].identity => q1 = q2
      BY <2>2, <2>3, <2>5, SMTT(40)
    <3>2. QED
      BY <2>4, <3>1
  <2>7. AttemptRespectsPolicy'
    <3> SUFFICES ASSUME NEW q \in Holders'
                 PROVE  /\ params'[q].identity \in stale' => params'[q].cred \in Supplied
                        /\ <<params'[q].identity, params'[q].cred>> \notin blocked'
      OBVIOUS
    <3>1. CASE q = r
      BY <2>1, <2>2, <2>3, <3>1
    <3>2. CASE q \in Holders
      BY <2>2, <2>3, <3>2
    <3>3. QED
      BY <2>2, <3>1, <3>2
  <2>8. QED
    BY <2>6, <2>7
<1>30. ASSUME NEW o \in Owner, DropOwner(o) PROVE AdmissionInv'
  BY <1>30, <1>k DEF DropOwner
<1>31. ASSUME NEW i \in Identity, CancelConnectsForSsid(SsidOf[i]) PROVE AdmissionInv'
  BY <1>31, <1>k DEF CancelConnectsForSsid, Flag
<1>32. ASSUME ChangeBusOwner PROVE AdmissionInv'
  BY <1>32, <1>k DEF ChangeBusOwner
<1>33. ASSUME NEW n \in 1..MaxBus, OwnerChanged(n) PROVE AdmissionInv'
  BY <1>33, <1>k DEF OwnerChanged, Flag
<1>34. ASSUME PassRetryDelay PROVE AdmissionInv'
  BY <1>34, <1>k DEF PassRetryDelay, RetryDelayOver
<1>35. CASE UNCHANGED vars
  BY <1>35, <1>k DEF vars
<1>36. QED
  BY <1>1, <1>2, <1>3, <1>4, <1>5, <1>6, <1>7, <1>8, <1>9, <1>10, <1>11,
     <1>12, <1>13, <1>14, <1>15, <1>16, <1>17, <1>18, <1>19, <1>20, <1>21,
     <1>22, <1>23, <1>24, <1>25, <1>26, <1>27, <1>28, <1>29, <1>30, <1>31,
     <1>32, <1>33, <1>34, <1>35 DEF Next, Accept, Work, Publish, Disturb

LEMMA AdmissionInductive == Spec => []AdmissionInv
<1>1. Init => AdmissionInv
  BY SMTT(40) DEF Init, AdmissionInit, AdmissionInv, AdmissionExclusive, AttemptRespectsPolicy,
         Holders, Guarded, Working
<1>2. QED
  BY <1>1, AdmissionStep, TypeInductive, PTL DEF Spec

\* One attempt per network identity, and no identity left active by an attempt
\* that is over (ConnectAttemptGuard, attempt.finish).
THEOREM AdmissionIsExclusive == Spec => []AdmissionExclusive
<1>1. AdmissionInv => AdmissionExclusive
  BY DEF AdmissionInv
<1>2. QED
  BY <1>1, AdmissionInductive, PTL

\* No attempt runs that its own admission policy would refuse by now
\* (ConnectAttemptPolicy::admit against complete).
THEOREM PolicyIsRespected == Spec => []AttemptRespectsPolicy
<1>1. AdmissionInv => AttemptRespectsPolicy
  BY DEF AdmissionInv
<1>2. QED
  BY <1>1, AdmissionInductive, PTL

-----------------------------------------------------------------------------
\* Completion against cancellation, bus owner changes and aborts.
\* Completion against cancellation: an abort leaves its mark on the task until
\* the terminal event is recorded, and nothing is marked afterwards.
AbortInv ==
    \A r \in Request :
        /\ pc[r] \notin {"stored", "released", "done"} => published[r] = "none"
        /\ pc[r] \in {"idle", "admitted", "scoped"} => ~abortTaken[r]
        /\ published[r] # "none" /\ pc[r] \in Registered => terminal[r]
        /\ abortTaken[r] /\ published[r] = "none" /\ pc[r] \in Registered => cancelled[r]
        /\ aborts[r] > 0 => abortTaken[r]
        /\ published[r] = "succeeded" => ~abortTaken[r]

\* A worker whose NetworkManager is known to be replaced is cancelled.
OwnerInv ==
    \A r \in Request :
        pc[r] \in Working \union {"computed", "storing"} /\ nmOf[r] < notified
            => cancelled[r]

\* The link of a request belongs to the NetworkManager and the SSID it is bound
\* to; an abort that has run already has missed it only when the worker has
\* still to look at its cancellation, or died before it could.
LinkInv ==
    \A r \in Request : link.by = r =>
        /\ pc[r] \in Registered \union {"done"}
        /\ pc[r] \notin {"registered", "queued", "running", "activating"}
        /\ CurrentOwner(r) /\ link.ssid = Target(r)
        /\ abortTaken[r] /\ aborts[r] = 0
              => pc[r] = "verifying" \/ (pc[r] = "done" /\ published[r] = "none")

\* request_cancel of tasks that are all still cancellable, then their aborts.
LEMMA CancelStep ==
    ASSUME TypeInv, AbortInv, NEW S \in SUBSET Request,
           \A r \in S : Cancellable(r),
           RequestCancel(S), UNCHANGED <<pc, terminal, published>>
    PROVE  AbortInv'
<1> USE DEF TypeInv, TypeOK, Pc, Registered, Working, Publishing
<1>1. PICK taken \in SUBSET {r \in S : aborts[r] < MaxAborts} :
        /\ aborts' = [r \in Request |-> IF r \in taken THEN aborts[r] + 1 ELSE aborts[r]]
        /\ abortTaken' = [r \in Request |-> abortTaken[r] \/ r \in taken]
  BY DEF RequestCancel
<1> SUFFICES ASSUME NEW q \in Request
             PROVE  /\ pc[q] \notin {"stored", "released", "done"} => published[q] = "none"
                    /\ pc[q] \in {"idle", "admitted", "scoped"} => ~abortTaken'[q]
                    /\ published[q] # "none" /\ pc[q] \in Registered => terminal[q]
                    /\ abortTaken'[q] /\ published[q] = "none" /\ pc[q] \in Registered
                          => cancelled'[q]
                    /\ aborts'[q] > 0 => abortTaken'[q]
                    /\ published[q] = "succeeded" => ~abortTaken'[q]
  BY DEF AbortInv
<1>2. cancelled'[q] = (cancelled[q] \/ q \in S)
  BY DEF RequestCancel
<1>3. CASE q \in taken
  <2>1. q \in S /\ pc[q] \in Registered /\ ~terminal[q]
    BY <1>3 DEF Cancellable
  <2>2. published[q] = "none"
    BY <2>1 DEF AbortInv
  <2>3. abortTaken'[q] /\ cancelled'[q]
    BY <1>1, <1>2, <1>3, <2>1
  <2>4. QED
    BY <2>1, <2>2, <2>3
<1>4. CASE q \notin taken
  <2>1. abortTaken'[q] = abortTaken[q] /\ aborts'[q] = aborts[q]
    BY <1>1, <1>4
  <2>2. QED
    BY <1>2, <2>1 DEF AbortInv
<1>5. QED
  BY <1>3, <1>4

LEMMA AbortStep == TypeInv /\ AbortInv /\ [Next]_vars => AbortInv'
<1> SUFFICES ASSUME TypeInv, AbortInv, [Next]_vars PROVE AbortInv'
  OBVIOUS
<1>t. /\ MaxAborts \in Nat
      /\ pc \in [Request -> Pc]
      /\ cancelled \in [Request -> BOOLEAN] /\ terminal \in [Request -> BOOLEAN]
      /\ aborts \in [Request -> 0..MaxAborts] /\ abortTaken \in [Request -> BOOLEAN]
      /\ published \in [Request -> Event \union {"none"}]
  BY BoundAssumption DEF TypeInv, TypeOK
<1> USE <1>t
    DEF AbortInv, Pc, Registered, Working, Publishing, At, Goto, taskVars, abortVars,
        resultVars
<1>1. ASSUME NEW r \in Request, BindScope(r) PROVE AbortInv'
  BY <1>1 DEF BindScope
<1>2. ASSUME NEW r \in Request, RefuseScope(r) PROVE AbortInv'
  BY <1>2 DEF RefuseScope, Abandon, IdentityOf
<1>3. ASSUME NEW r \in Request, Register(r) PROVE AbortInv'
  BY <1>3 DEF Register
<1>4. ASSUME NEW r \in Request, Submit(r) PROVE AbortInv'
  BY <1>4 DEF Submit
<1>5. ASSUME NEW r \in Request, StartJob(r) PROVE AbortInv'
  BY <1>5 DEF StartJob
<1>6. ASSUME NEW r \in Request, StoreProgress(r) PROVE AbortInv'
  BY <1>6 DEF StoreProgress
<1>7. ASSUME NEW r \in Request, CheckCancelled(r) PROVE AbortInv'
  BY <1>7 DEF CheckCancelled
<1>8. ASSUME NEW r \in Request, StopCancelled(r) PROVE AbortInv'
  BY <1>8 DEF StopCancelled, Outcome
<1>9. ASSUME NEW r \in Request, AlreadyActive(r) PROVE AbortInv'
  BY <1>9 DEF AlreadyActive
<1>10. ASSUME NEW r \in Request, Activate(r) PROVE AbortInv'
  BY <1>10 DEF Activate, Target, IdentityOf
<1>11. ASSUME NEW r \in Request, CheckWait(r) PROVE AbortInv'
  BY <1>11 DEF CheckWait
<1>12. ASSUME NEW r \in Request, WaitForEvent(r) PROVE AbortInv'
  BY <1>12 DEF WaitForEvent
<1>13. ASSUME NEW r \in Request, AbortCancelled(r) PROVE AbortInv'
  BY <1>13 DEF AbortCancelled, Outcome, Disconnected
<1>14. ASSUME NEW r \in Request, Verify(r) PROVE AbortInv'
  BY <1>14 DEF Verify
<1>15. ASSUME NEW r \in Request, Conclude(r) PROVE AbortInv'
  BY <1>15 DEF Conclude, Outcome
<1>16. ASSUME NEW r \in Request, CheckOwner(r) PROVE AbortInv'
  BY <1>16 DEF CheckOwner
<1>17. ASSUME NEW r \in Request, StoreTerminal(r) PROVE AbortInv'
  BY <1>17 DEF StoreTerminal, RecordTerminal, TerminalEvent
<1>18. ASSUME NEW r \in Request, FinishAttempt(r) PROVE AbortInv'
  BY <1>18 DEF FinishAttempt, Complete, IdentityOf
<1>19. ASSUME NEW r \in Request, EmitConnectFailure(r) PROVE AbortInv'
  BY <1>19 DEF EmitConnectFailure, RecordTerminal, TerminalEvent
<1>20. ASSUME NEW r \in Request, Unwind(r) PROVE AbortInv'
  BY <1>20 DEF Unwind, Unregister
<1>21. ASSUME NEW r \in Request, RetryCandidate(r) PROVE AbortInv'
  BY <1>21 DEF RetryCandidate, WithoutActivation
<1>22. ASSUME NEW r \in Request, FailWorker(r) PROVE AbortInv'
  BY <1>22 DEF FailWorker, Complete, IdentityOf
<1>23. ASSUME NEW r \in Request, LoseJob(r) PROVE AbortInv'
  BY <1>23 DEF LoseJob, Unregister, Abandon
<1>24. ASSUME NEW r \in Request, Cancel(r) PROVE AbortInv'
  <2>1. \A q \in {r} : Cancellable(q)
    BY <1>24 DEF Cancel
  <2>2. QED
    BY <1>24, <2>1, CancelStep DEF Cancel
<1>25. ASSUME NEW r \in Request, ExpireConnect(r) PROVE AbortInv'
  <2>1. \A q \in {r} : Cancellable(q)
    BY <1>25 DEF ExpireConnect
  <2>2. QED
    BY <1>25, <2>1, CancelStep DEF ExpireConnect
<1>26. ASSUME NEW r \in Request, ForgetResult(r) PROVE AbortInv'
  BY <1>26 DEF ForgetResult
<1>27. ASSUME NEW r \in Request, FailCandidate(r) PROVE AbortInv'
  BY <1>27, SMTT(40) DEF FailCandidate, Outcome, WithoutActivation
<1>28. ASSUME NEW r \in Request, RunAbort(r) PROVE AbortInv'
  BY <1>28 DEF RunAbort, Disconnected
<1>29. ASSUME NEW r \in Request, NEW o \in Owner, NEW i \in Identity, NEW c \in Credential,
              BeginAttempt(r, o, i, c) PROVE AbortInv'
  BY <1>29 DEF BeginAttempt, Admit
<1>30. ASSUME NEW o \in Owner, DropOwner(o) PROVE AbortInv'
  <2> DEFINE mine == {r \in Request : Cancellable(r) /\ params[r].owner = o}
  <2>1. mine \in SUBSET Request /\ RequestCancel(mine)
    BY <1>30 DEF DropOwner
  <2>2. \A q \in mine : Cancellable(q)
    OBVIOUS
  <2> HIDE DEF mine
  <2>3. UNCHANGED <<pc, terminal, published>>
    BY <1>30 DEF DropOwner
  <2>4. QED
    BY <2>1, <2>2, <2>3, CancelStep
<1>31. ASSUME NEW i \in Identity, CancelConnectsForSsid(SsidOf[i]) PROVE AbortInv'
  BY <1>31 DEF CancelConnectsForSsid, Flag
<1>32. ASSUME ChangeBusOwner PROVE AbortInv'
  BY <1>32 DEF ChangeBusOwner
<1>33. ASSUME NEW n \in 1..MaxBus, OwnerChanged(n) PROVE AbortInv'
  BY <1>33 DEF OwnerChanged, Flag
<1>34. ASSUME PassRetryDelay PROVE AbortInv'
  BY <1>34 DEF PassRetryDelay, RetryDelayOver
<1>35. CASE UNCHANGED vars
  BY <1>35 DEF vars
<1>36. QED
  BY <1>1, <1>2, <1>3, <1>4, <1>5, <1>6, <1>7, <1>8, <1>9, <1>10, <1>11,
     <1>12, <1>13, <1>14, <1>15, <1>16, <1>17, <1>18, <1>19, <1>20, <1>21,
     <1>22, <1>23, <1>24, <1>25, <1>26, <1>27, <1>28, <1>29, <1>30, <1>31,
     <1>32, <1>33, <1>34, <1>35 DEF Next, Accept, Work, Publish, Disturb

LEMMA OwnerStep == TypeInv /\ OwnerInv /\ [Next]_vars => OwnerInv'
<1> SUFFICES ASSUME TypeInv, OwnerInv, [Next]_vars PROVE OwnerInv'
  OBVIOUS
<1>t. /\ MaxBus \in Nat /\ bus \in Nat /\ notified \in Nat /\ notified <= bus
      /\ pc \in [Request -> Pc]
      /\ cancelled \in [Request -> BOOLEAN]
      /\ nmOf \in [Request -> 0..MaxBus]
      /\ \A q \in Request : pc[q] \in Registered => nmOf[q] >= 1
  BY BoundAssumption, SMTT(40) DEF TypeInv, TypeOK
<1> USE <1>t
    DEF OwnerInv, Pc, Registered, Working, Publishing, At, Goto, nmVars, taskVars, workVars
<1>1. ASSUME NEW r \in Request, BindScope(r) PROVE OwnerInv'
  BY <1>1 DEF BindScope
<1>2. ASSUME NEW r \in Request, RefuseScope(r) PROVE OwnerInv'
  BY <1>2 DEF RefuseScope, Abandon, IdentityOf
<1>3. ASSUME NEW r \in Request, Register(r) PROVE OwnerInv'
  BY <1>3 DEF Register
<1>4. ASSUME NEW r \in Request, Submit(r) PROVE OwnerInv'
  BY <1>4 DEF Submit
<1>5. ASSUME NEW r \in Request, StartJob(r) PROVE OwnerInv'
  <2>1. cancelled'[r] = (cancelled[r] \/ ~CurrentOwner(r))
    BY <1>5 DEF StartJob
  <2>2. nmOf[r] < notified => ~CurrentOwner(r)
    BY SMTT(40) DEF CurrentOwner
  <2>3. \A q \in Request \ {r} : pc'[q] = pc[q] /\ cancelled'[q] = cancelled[q]
    BY <1>5 DEF StartJob
  <2>4. QED
    BY <1>5, <2>1, <2>2, <2>3 DEF StartJob
<1>6. ASSUME NEW r \in Request, StoreProgress(r) PROVE OwnerInv'
  BY <1>6 DEF StoreProgress
<1>7. ASSUME NEW r \in Request, CheckCancelled(r) PROVE OwnerInv'
  BY <1>7 DEF CheckCancelled
<1>8. ASSUME NEW r \in Request, StopCancelled(r) PROVE OwnerInv'
  BY <1>8 DEF StopCancelled, Outcome
<1>9. ASSUME NEW r \in Request, AlreadyActive(r) PROVE OwnerInv'
  BY <1>9 DEF AlreadyActive
<1>10. ASSUME NEW r \in Request, Activate(r) PROVE OwnerInv'
  BY <1>10 DEF Activate, Target, IdentityOf
<1>11. ASSUME NEW r \in Request, CheckWait(r) PROVE OwnerInv'
  BY <1>11 DEF CheckWait
<1>12. ASSUME NEW r \in Request, WaitForEvent(r) PROVE OwnerInv'
  BY <1>12 DEF WaitForEvent
<1>13. ASSUME NEW r \in Request, AbortCancelled(r) PROVE OwnerInv'
  BY <1>13 DEF AbortCancelled, Outcome, Disconnected
<1>14. ASSUME NEW r \in Request, Verify(r) PROVE OwnerInv'
  BY <1>14 DEF Verify
<1>15. ASSUME NEW r \in Request, Conclude(r) PROVE OwnerInv'
  BY <1>15 DEF Conclude, Outcome
<1>16. ASSUME NEW r \in Request, CheckOwner(r) PROVE OwnerInv'
  BY <1>16 DEF CheckOwner
<1>17. ASSUME NEW r \in Request, StoreTerminal(r) PROVE OwnerInv'
  BY <1>17 DEF StoreTerminal, RecordTerminal, TerminalEvent
<1>18. ASSUME NEW r \in Request, FinishAttempt(r) PROVE OwnerInv'
  BY <1>18 DEF FinishAttempt, Complete, IdentityOf
<1>19. ASSUME NEW r \in Request, EmitConnectFailure(r) PROVE OwnerInv'
  BY <1>19 DEF EmitConnectFailure, RecordTerminal, TerminalEvent
<1>20. ASSUME NEW r \in Request, Unwind(r) PROVE OwnerInv'
  BY <1>20 DEF Unwind, Unregister
<1>21. ASSUME NEW r \in Request, RetryCandidate(r) PROVE OwnerInv'
  BY <1>21 DEF RetryCandidate, WithoutActivation
<1>22. ASSUME NEW r \in Request, FailWorker(r) PROVE OwnerInv'
  BY <1>22 DEF FailWorker, Complete, IdentityOf
<1>23. ASSUME NEW r \in Request, LoseJob(r) PROVE OwnerInv'
  BY <1>23 DEF LoseJob, Unregister, Abandon
<1>24. ASSUME NEW r \in Request, Cancel(r) PROVE OwnerInv'
  BY <1>24 DEF Cancel, RequestCancel
<1>25. ASSUME NEW r \in Request, ExpireConnect(r) PROVE OwnerInv'
  BY <1>25 DEF ExpireConnect, RequestCancel
<1>26. ASSUME NEW r \in Request, ForgetResult(r) PROVE OwnerInv'
  BY <1>26 DEF ForgetResult
<1>27. ASSUME NEW r \in Request, FailCandidate(r) PROVE OwnerInv'
  BY <1>27 DEF FailCandidate, Outcome, WithoutActivation
<1>28. ASSUME NEW r \in Request, RunAbort(r) PROVE OwnerInv'
  BY <1>28 DEF RunAbort, Disconnected
<1>29. ASSUME NEW r \in Request, NEW o \in Owner, NEW i \in Identity, NEW c \in Credential,
              BeginAttempt(r, o, i, c) PROVE OwnerInv'
  BY <1>29 DEF BeginAttempt, Admit
<1>30. ASSUME NEW o \in Owner, DropOwner(o) PROVE OwnerInv'
  BY <1>30 DEF DropOwner, RequestCancel
<1>31. ASSUME NEW i \in Identity, CancelConnectsForSsid(SsidOf[i]) PROVE OwnerInv'
  BY <1>31 DEF CancelConnectsForSsid, Flag
<1>32. ASSUME ChangeBusOwner PROVE OwnerInv'
  BY <1>32 DEF ChangeBusOwner
<1>33. ASSUME NEW n \in 1..MaxBus, OwnerChanged(n) PROVE OwnerInv'
  <2> SUFFICES ASSUME NEW q \in Request, pc[q] \in Registered, nmOf[q] < n
               PROVE  cancelled'[q]
    BY <1>33 DEF OwnerChanged, Flag
  <2>1. nmOf[q] >= 1
    OBVIOUS
  <2>2. nmOf[q] # OwnerAt(n)
    BY <2>1, SMTT(40) DEF OwnerAt
  <2>3. QED
    BY <1>33, <2>2 DEF OwnerChanged, Flag
<1>34. ASSUME PassRetryDelay PROVE OwnerInv'
  BY <1>34 DEF PassRetryDelay, RetryDelayOver
<1>35. CASE UNCHANGED vars
  BY <1>35 DEF vars
<1>36. QED
  BY <1>1, <1>2, <1>3, <1>4, <1>5, <1>6, <1>7, <1>8, <1>9, <1>10, <1>11,
     <1>12, <1>13, <1>14, <1>15, <1>16, <1>17, <1>18, <1>19, <1>20, <1>21,
     <1>22, <1>23, <1>24, <1>25, <1>26, <1>27, <1>28, <1>29, <1>30, <1>31,
     <1>32, <1>33, <1>34, <1>35 DEF Next, Accept, Work, Publish, Disturb

LEMMA LinkStep == TypeInv /\ AbortInv /\ LinkInv /\ [Next]_vars => LinkInv'
<1> SUFFICES ASSUME TypeInv, AbortInv, LinkInv, [Next]_vars PROVE LinkInv'
  OBVIOUS
<1>t. /\ MaxAborts \in Nat
      /\ link.by \in Request \union {"none"} /\ "none" \notin Request
      /\ NoLink.by = "none"
      /\ DOMAIN params = Request
      /\ pc \in [Request -> Pc] /\ nmOf \in [Request -> 0..MaxBus]
      /\ aborts \in [Request -> 0..MaxAborts] /\ abortTaken \in [Request -> BOOLEAN]
      /\ published \in [Request -> Event \union {"none"}]
  BY BoundAssumption, SMTT(40) DEF TypeInv, TypeOK, NoLink
<1>a. \A q \in Request :
        /\ pc[q] \notin {"stored", "released", "done"} => published[q] = "none"
        /\ abortTaken[q] /\ published[q] = "none" /\ pc[q] \in Registered => cancelled[q]
  BY DEF AbortInv
<1> USE <1>t
    DEF LinkInv, CurrentOwner, Target, IdentityOf, Pc, Registered, Working, Publishing,
        At, Goto, nmVars, workVars, abortVars, resultVars
<1>g. ASSUME NEW r \in Request, link' = link \/ link' = NoLink, link'.by # r,
             \A q \in Request \ {r} : pc'[q] = pc[q],
             UNCHANGED <<bus, params, nmOf, aborts, abortTaken, published>>
      PROVE  LinkInv'
  <2> SUFFICES ASSUME NEW q \in Request, link'.by = q
               PROVE  q # r /\ link' = link
    BY <1>g, SMTT(40)
  <2>1. QED
    BY <1>g, SMTT(40)
<1>p. ASSUME NEW r \in Request, pc[r] \in {"storing", "failing"},
             pc'[r] \in {"stored", "released"},
             \A q \in Request \ {r} : pc'[q] = pc[q] /\ published'[q] = published[q],
             UNCHANGED <<bus, link, params, nmOf, aborts, abortTaken>>
      PROVE  LinkInv'
  BY <1>p, SMTT(40)
<1>c. ASSUME NEW S \in SUBSET Request, RequestCancel(S),
             UNCHANGED <<bus, link, params, nmOf, pc, published>>
      PROVE  LinkInv'
  <2>1. \A q \in Request : \/ aborts'[q] # 0
                           \/ aborts'[q] = aborts[q] /\ abortTaken'[q] = abortTaken[q]
    BY <1>c, SMTT(40) DEF RequestCancel
  <2>2. QED
    BY <1>c, <2>1, SMTT(40)
<1>1. ASSUME NEW r \in Request, BindScope(r) PROVE LinkInv'
  BY <1>1 DEF BindScope
<1>2. ASSUME NEW r \in Request, RefuseScope(r) PROVE LinkInv'
  BY <1>2 DEF RefuseScope, Abandon, IdentityOf
<1>3. ASSUME NEW r \in Request, Register(r) PROVE LinkInv'
  BY <1>3 DEF Register
<1>4. ASSUME NEW r \in Request, Submit(r) PROVE LinkInv'
  BY <1>4 DEF Submit
<1>5. ASSUME NEW r \in Request, StartJob(r) PROVE LinkInv'
  BY <1>5 DEF StartJob
<1>6. ASSUME NEW r \in Request, StoreProgress(r) PROVE LinkInv'
  BY <1>6 DEF StoreProgress
<1>7. ASSUME NEW r \in Request, CheckCancelled(r) PROVE LinkInv'
  BY <1>7 DEF CheckCancelled
<1>8. ASSUME NEW r \in Request, StopCancelled(r) PROVE LinkInv'
  BY <1>8 DEF StopCancelled, Outcome
<1>9. ASSUME NEW r \in Request, AlreadyActive(r) PROVE LinkInv'
  BY <1>9 DEF AlreadyActive
<1>10. ASSUME NEW r \in Request, Activate(r) PROVE LinkInv'
  BY <1>10 DEF Activate, Target, IdentityOf
<1>11. ASSUME NEW r \in Request, CheckWait(r) PROVE LinkInv'
  BY <1>11, <1>a, SMTT(40) DEF CheckWait
<1>12. ASSUME NEW r \in Request, WaitForEvent(r) PROVE LinkInv'
  BY <1>12 DEF WaitForEvent
<1>13. ASSUME NEW r \in Request, AbortCancelled(r) PROVE LinkInv'
  <2>1. link' = link \/ link' = NoLink
    BY <1>13 DEF AbortCancelled, Disconnected
  <2>2. link'.by # r
    BY <1>13, SMTT(40) DEF AbortCancelled, Disconnected
  <2> HIDE DEF LinkInv, CurrentOwner, Target, IdentityOf
  <2>3. QED
    BY <1>13, <2>1, <2>2, <1>g DEF AbortCancelled, Outcome
<1>14. ASSUME NEW r \in Request, Verify(r) PROVE LinkInv'
  BY <1>14 DEF Verify
<1>15. ASSUME NEW r \in Request, Conclude(r) PROVE LinkInv'
  BY <1>15 DEF Conclude, Outcome
<1>16. ASSUME NEW r \in Request, CheckOwner(r) PROVE LinkInv'
  BY <1>16 DEF CheckOwner
<1>17. ASSUME NEW r \in Request, StoreTerminal(r) PROVE LinkInv'
  <2>1. \A q \in Request \ {r} : published'[q] = published[q]
    BY <1>17 DEF StoreTerminal, RecordTerminal
  <2> HIDE DEF LinkInv, CurrentOwner, Target, IdentityOf
  <2>2. QED
    BY <1>17, <2>1, <1>p DEF StoreTerminal
<1>18. ASSUME NEW r \in Request, FinishAttempt(r) PROVE LinkInv'
  BY <1>18 DEF FinishAttempt, Complete, IdentityOf
<1>19. ASSUME NEW r \in Request, EmitConnectFailure(r) PROVE LinkInv'
  <2>1. \A q \in Request \ {r} : published'[q] = published[q]
    BY <1>19 DEF EmitConnectFailure, RecordTerminal
  <2> HIDE DEF LinkInv, CurrentOwner, Target, IdentityOf
  <2>2. QED
    BY <1>19, <2>1, <1>p DEF EmitConnectFailure
<1>20. ASSUME NEW r \in Request, Unwind(r) PROVE LinkInv'
  BY <1>20 DEF Unwind, Unregister
<1>21. ASSUME NEW r \in Request, RetryCandidate(r) PROVE LinkInv'
  <2>1. (link' = link \/ link' = NoLink) /\ link'.by # r
    BY <1>21 DEF RetryCandidate, WithoutActivation
  <2> HIDE DEF LinkInv, CurrentOwner, Target, IdentityOf
  <2>2. QED
    BY <1>21, <2>1, <1>g DEF RetryCandidate
<1>22. ASSUME NEW r \in Request, FailWorker(r) PROVE LinkInv'
  BY <1>22 DEF FailWorker, Complete, IdentityOf
<1>23. ASSUME NEW r \in Request, LoseJob(r) PROVE LinkInv'
  BY <1>23, <1>a DEF LoseJob, Unregister
<1>24. ASSUME NEW r \in Request, Cancel(r) PROVE LinkInv'
  <2> HIDE DEF LinkInv, CurrentOwner, Target, IdentityOf
  <2>1. {r} \in SUBSET Request /\ RequestCancel({r})
    BY <1>24 DEF Cancel
  <2>2. QED
    BY <1>24, <2>1, <1>c DEF Cancel
<1>25. ASSUME NEW r \in Request, ExpireConnect(r) PROVE LinkInv'
  <2> HIDE DEF LinkInv, CurrentOwner, Target, IdentityOf
  <2>1. {r} \in SUBSET Request /\ RequestCancel({r})
    BY <1>25 DEF ExpireConnect
  <2>2. QED
    BY <1>25, <2>1, <1>c DEF ExpireConnect
<1>26. ASSUME NEW r \in Request, ForgetResult(r) PROVE LinkInv'
  BY <1>26 DEF ForgetResult
<1>27. ASSUME NEW r \in Request, FailCandidate(r) PROVE LinkInv'
  <2>1. (link' = link \/ link' = NoLink) /\ link'.by # r
    BY <1>27 DEF FailCandidate, WithoutActivation
  <2> HIDE DEF LinkInv, CurrentOwner, Target, IdentityOf
  <2>2. QED
    BY <1>27, <2>1, <1>g DEF FailCandidate, Outcome
<1>28. ASSUME NEW r \in Request, RunAbort(r) PROVE LinkInv'
  <2>1. link' = link \/ link' = NoLink
    BY <1>28 DEF RunAbort, Disconnected
  <2>2. link'.by # r
    BY <1>28 DEF RunAbort, Disconnected
  <2>3. \A q \in Request \ {r} : aborts'[q] = aborts[q]
    BY <1>28 DEF RunAbort
  <2> SUFFICES ASSUME NEW q \in Request, link'.by = q
               PROVE  link' = link /\ q # r /\ aborts'[q] = aborts[q]
    BY <1>28, SMTT(40) DEF RunAbort
  <2>4. QED
    BY <2>1, <2>2, <2>3, SMTT(40)
<1>29. ASSUME NEW r \in Request, NEW o \in Owner, NEW i \in Identity, NEW c \in Credential,
              BeginAttempt(r, o, i, c) PROVE LinkInv'
  BY <1>29 DEF BeginAttempt, Admit
<1>30. ASSUME NEW o \in Owner, DropOwner(o) PROVE LinkInv'
  <2> HIDE DEF LinkInv, CurrentOwner, Target, IdentityOf
  <2>1. PICK S \in SUBSET Request : RequestCancel(S)
    BY <1>30 DEF DropOwner
  <2>2. QED
    BY <1>30, <2>1, <1>c DEF DropOwner
<1>31. ASSUME NEW i \in Identity, CancelConnectsForSsid(SsidOf[i]) PROVE LinkInv'
  BY <1>31 DEF CancelConnectsForSsid, Flag
<1>32. ASSUME ChangeBusOwner PROVE LinkInv'
  BY <1>32 DEF ChangeBusOwner
<1>33. ASSUME NEW n \in 1..MaxBus, OwnerChanged(n) PROVE LinkInv'
  BY <1>33 DEF OwnerChanged, Flag
<1>34. ASSUME PassRetryDelay PROVE LinkInv'
  BY <1>34 DEF PassRetryDelay, RetryDelayOver
<1>35. CASE UNCHANGED vars
  BY <1>35 DEF vars
<1>36. QED
  BY <1>1, <1>2, <1>3, <1>4, <1>5, <1>6, <1>7, <1>8, <1>9, <1>10, <1>11,
     <1>12, <1>13, <1>14, <1>15, <1>16, <1>17, <1>18, <1>19, <1>20, <1>21,
     <1>22, <1>23, <1>24, <1>25, <1>26, <1>27, <1>28, <1>29, <1>30, <1>31,
     <1>32, <1>33, <1>34, <1>35 DEF Next, Accept, Work, Publish, Disturb

-----------------------------------------------------------------------------
LEMMA InitInv == Init => TypeInv /\ AbortInv /\ OwnerInv /\ LinkInv
<1> SUFFICES ASSUME Init PROVE TypeInv /\ AbortInv /\ OwnerInv /\ LinkInv
  OBVIOUS
<1> USE DEF Init, AdmissionInit, Registered, Working, Publishing
<1>1. TypeInv
  BY TypeInit
<1>2. AbortInv /\ OwnerInv
  BY SMTT(40) DEF AbortInv, OwnerInv
<1>3. LinkInv
  BY BoundAssumption DEF LinkInv, NoLink
<1>4. QED
  BY <1>1, <1>2, <1>3

\* The conjunction is inductive.
THEOREM Inductive == Spec => [](TypeInv /\ AbortInv /\ OwnerInv /\ LinkInv)
<1>1. TypeInv /\ AbortInv /\ OwnerInv /\ LinkInv /\ [Next]_vars
      => (TypeInv /\ AbortInv /\ OwnerInv /\ LinkInv)'
  BY TypeStep, AbortStep, OwnerStep, LinkStep
<1>2. QED
  BY <1>1, InitInv, PTL DEF Spec

\* A published success and an activation abort exclude each other
\* (store_terminal_result against cancel_task and expire_connect).
THEOREM CompletionIsLinear == Spec => []SuccessExcludesAbort
<1>1. TypeInv /\ AbortInv => SuccessExcludesAbort
  <2>1. TypeInv => \A r \in Request : aborts[r] \in Nat
    BY BoundAssumption, SMTT(40) DEF TypeInv, TypeOK
  <2>2. QED
    BY <2>1, SMTT(40) DEF AbortInv, SuccessExcludesAbort
<1>2. QED
  BY <1>1, Inductive, PTL

\* An accepted abort leaves no link of its request behind
\* (submit_activation_abort against check_cancelled_and_abort).
THEOREM AbortTearsDown == Spec => []CancelledLinkTornDown
<1>1. LinkInv => CancelledLinkTornDown
  BY DEF LinkInv, CancelledLinkTornDown
<1>2. QED
  BY <1>1, Inductive, PTL

\* No success for a NetworkManager the daemon knows to be replaced
\* (start_cancellable's re-check, network_manager_owner_changed's sweep).
THEOREM StaleOwnerFails == Spec => StaleOwnerNeverSucceeds
<1>1. ASSUME TypeInv, OwnerInv, [Next]_vars, NEW r \in Request,
             published[r] = "none", published'[r] = "succeeded"
      PROVE  nmOf[r] >= notified
  <2>a. nmOf[r] \in Int /\ notified \in Int
    BY <1>1, BoundAssumption, SMTT(40) DEF TypeInv, TypeOK
  <2>b. published \in [Request -> Event \union {"none"}]
    BY <1>1 DEF TypeInv, TypeOK
  <2>c. pc[r] = "failing" => outcome[r].event = "failed"
    BY <1>1 DEF TypeInv
  <2>t. /\ nmOf[r] \in Int /\ notified \in Int
        /\ published \in [Request -> Event \union {"none"}]
        /\ pc[r] = "failing" => outcome[r].event = "failed"
    BY <2>a, <2>b, <2>c
  <2>1. CASE StoreTerminal(r)
    BY <1>1, <2>t, <2>1, SMTT(40) DEF OwnerInv, StoreTerminal, RecordTerminal, TerminalEvent, At
  <2>2. CASE EmitConnectFailure(r)
    BY <1>1, <2>t, <2>2 DEF EmitConnectFailure, RecordTerminal, TerminalEvent, At
  <2>3. CASE \E q \in Request \ {r} : StoreTerminal(q) \/ EmitConnectFailure(q)
    BY <1>1, <2>t, <2>3 DEF StoreTerminal, EmitConnectFailure, RecordTerminal
  <2>4. CASE UNCHANGED published
    BY <1>1, <2>4
  <2>5. QED
    BY <1>1, <2>1, <2>2, <2>3, <2>4
       DEF Next, Accept, Work, Publish, Disturb, vars, BeginAttempt, BindScope,
           RefuseScope, Register, Submit, LoseJob, StartJob, StoreProgress,
           CheckCancelled, StopCancelled, AlreadyActive, Activate, FailCandidate,
           RetryCandidate, AbortCancelled, CheckWait, Verify, WaitForEvent, Conclude,
           CheckOwner, FinishAttempt, FailWorker, Unwind, Cancel, ExpireConnect,
           DropOwner, Flag, CancelConnectsForSsid, ChangeBusOwner, OwnerChanged,
           RunAbort, ForgetResult, PassRetryDelay, resultVars
<1>2. TypeInv /\ OwnerInv /\ [Next]_vars
      => [\A r \in Request : published[r] = "none" /\ published'[r] = "succeeded"
                             => nmOf[r] >= notified]_vars
  BY <1>1
<1>3. QED
  BY <1>2, Inductive, PTL DEF Spec, StaleOwnerNeverSucceeds

-----------------------------------------------------------------------------
\* ConnectRuntime implements RequestContract: the replies of request_status
\* keep the promises made to the owner of a request.
\* A request that is not registered yet has no mark on it, and terminal
\* evidence belongs to a request whose task is terminal or gone.
ReplyInv ==
    \A r \in Request :
        /\ pc[r] \in {"idle", "admitted", "scoped"}
              => result[r] = NoResult /\ ~cancelled[r] /\ ~terminal[r]
        /\ pc[r] \in {"idle", "admitted"} => nmOf[r] = 0
        /\ result[r] # NoResult =>
              /\ nmOf[r] # 0
              /\ pc[r] \in Registered \union {"done"}
              /\ pc[r] \in Registered => terminal[r]

LEMMA ReplyStep == TypeInv /\ ReplyInv /\ [Next]_vars => ReplyInv'
<1> SUFFICES ASSUME TypeInv, ReplyInv, [Next]_vars PROVE ReplyInv'
  OBVIOUS
<1>t. /\ bus \in 1..MaxBus /\ MaxBus \in Nat
      /\ pc \in [Request -> Pc] /\ nmOf \in [Request -> 0..MaxBus]
      /\ cancelled \in [Request -> BOOLEAN] /\ terminal \in [Request -> BOOLEAN]
      /\ DOMAIN result = Request
      /\ \A q \in Request : pc[q] \in Registered \union {"scoped"} => nmOf[q] >= 1
  BY BoundAssumption DEF TypeInv, TypeOK
<1> USE <1>t
    DEF ReplyInv, Pc, Registered, Working, Publishing, At, Goto, nmVars, taskVars,
        workVars, resultVars
<1>1. ASSUME NEW r \in Request, BindScope(r) PROVE ReplyInv'
  BY <1>1 DEF BindScope
<1>2. ASSUME NEW r \in Request, RefuseScope(r) PROVE ReplyInv'
  BY <1>2 DEF RefuseScope, Abandon, IdentityOf
<1>3. ASSUME NEW r \in Request, Register(r) PROVE ReplyInv'
  BY <1>3 DEF Register
<1>4. ASSUME NEW r \in Request, Submit(r) PROVE ReplyInv'
  BY <1>4 DEF Submit
<1>5. ASSUME NEW r \in Request, StartJob(r) PROVE ReplyInv'
  BY <1>5 DEF StartJob
<1>6. ASSUME NEW r \in Request, StoreProgress(r) PROVE ReplyInv'
  BY <1>6 DEF StoreProgress
<1>7. ASSUME NEW r \in Request, CheckCancelled(r) PROVE ReplyInv'
  BY <1>7 DEF CheckCancelled
<1>8. ASSUME NEW r \in Request, StopCancelled(r) PROVE ReplyInv'
  BY <1>8 DEF StopCancelled, Outcome
<1>9. ASSUME NEW r \in Request, AlreadyActive(r) PROVE ReplyInv'
  BY <1>9 DEF AlreadyActive
<1>10. ASSUME NEW r \in Request, Activate(r) PROVE ReplyInv'
  BY <1>10 DEF Activate, Target, IdentityOf
<1>11. ASSUME NEW r \in Request, CheckWait(r) PROVE ReplyInv'
  BY <1>11 DEF CheckWait
<1>12. ASSUME NEW r \in Request, WaitForEvent(r) PROVE ReplyInv'
  BY <1>12 DEF WaitForEvent
<1>13. ASSUME NEW r \in Request, AbortCancelled(r) PROVE ReplyInv'
  BY <1>13 DEF AbortCancelled, Outcome, Disconnected
<1>14. ASSUME NEW r \in Request, Verify(r) PROVE ReplyInv'
  BY <1>14 DEF Verify
<1>15. ASSUME NEW r \in Request, Conclude(r) PROVE ReplyInv'
  BY <1>15 DEF Conclude, Outcome
<1>16. ASSUME NEW r \in Request, CheckOwner(r) PROVE ReplyInv'
  BY <1>16 DEF CheckOwner
<1>17. ASSUME NEW r \in Request, StoreTerminal(r) PROVE ReplyInv'
  BY <1>17, SMTT(40) DEF StoreTerminal, RecordTerminal, TerminalEvent
<1>18. ASSUME NEW r \in Request, FinishAttempt(r) PROVE ReplyInv'
  BY <1>18 DEF FinishAttempt, Complete, IdentityOf
<1>19. ASSUME NEW r \in Request, EmitConnectFailure(r) PROVE ReplyInv'
  BY <1>19, SMTT(40) DEF EmitConnectFailure, RecordTerminal, TerminalEvent
<1>20. ASSUME NEW r \in Request, Unwind(r) PROVE ReplyInv'
  BY <1>20 DEF Unwind, Unregister
<1>21. ASSUME NEW r \in Request, RetryCandidate(r) PROVE ReplyInv'
  BY <1>21 DEF RetryCandidate, WithoutActivation
<1>22. ASSUME NEW r \in Request, FailWorker(r) PROVE ReplyInv'
  BY <1>22 DEF FailWorker, Complete, IdentityOf
<1>23. ASSUME NEW r \in Request, LoseJob(r) PROVE ReplyInv'
  BY <1>23 DEF LoseJob, Unregister, Abandon
<1>24. ASSUME NEW r \in Request, Cancel(r) PROVE ReplyInv'
  <2>1. /\ \A q \in Request : cancelled'[q] => cancelled[q] \/ q = r
        /\ pc[r] \in Registered
        /\ UNCHANGED <<pc, result, terminal, nmOf>>
    BY <1>24 DEF Cancel, RequestCancel, Cancellable
  <2>2. QED
    BY <2>1
<1>25. ASSUME NEW r \in Request, ExpireConnect(r) PROVE ReplyInv'
  <2>1. /\ \A q \in Request : cancelled'[q] => cancelled[q] \/ q = r
        /\ pc[r] \in Registered
        /\ UNCHANGED <<pc, result, terminal, nmOf>>
    BY <1>25 DEF ExpireConnect, RequestCancel, Cancellable
  <2>2. QED
    BY <2>1
<1>26. ASSUME NEW r \in Request, ForgetResult(r) PROVE ReplyInv'
  BY <1>26 DEF ForgetResult
<1>27. ASSUME NEW r \in Request, FailCandidate(r) PROVE ReplyInv'
  BY <1>27 DEF FailCandidate, Outcome, WithoutActivation
<1>28. ASSUME NEW r \in Request, RunAbort(r) PROVE ReplyInv'
  BY <1>28 DEF RunAbort, Disconnected
<1>29. ASSUME NEW r \in Request, NEW o \in Owner, NEW i \in Identity, NEW c \in Credential,
              BeginAttempt(r, o, i, c) PROVE ReplyInv'
  BY <1>29 DEF BeginAttempt, Admit
<1>30. ASSUME NEW o \in Owner, DropOwner(o) PROVE ReplyInv'
  <2>1. /\ \A q \in Request : cancelled'[q] => cancelled[q] \/ pc[q] \in Registered
        /\ UNCHANGED <<pc, result, terminal, nmOf>>
    BY <1>30 DEF DropOwner, RequestCancel, Cancellable
  <2>2. QED
    BY <2>1
<1>31. ASSUME NEW i \in Identity, CancelConnectsForSsid(SsidOf[i]) PROVE ReplyInv'
  BY <1>31 DEF CancelConnectsForSsid, Flag
<1>32. ASSUME ChangeBusOwner PROVE ReplyInv'
  BY <1>32 DEF ChangeBusOwner
<1>33. ASSUME NEW n \in 1..MaxBus, OwnerChanged(n) PROVE ReplyInv'
  BY <1>33 DEF OwnerChanged, Flag
<1>34. ASSUME PassRetryDelay PROVE ReplyInv'
  BY <1>34 DEF PassRetryDelay, RetryDelayOver
<1>35. CASE UNCHANGED vars
  BY <1>35 DEF vars
<1>36. QED
  BY <1>1, <1>2, <1>3, <1>4, <1>5, <1>6, <1>7, <1>8, <1>9, <1>10, <1>11,
     <1>12, <1>13, <1>14, <1>15, <1>16, <1>17, <1>18, <1>19, <1>20, <1>21,
     <1>22, <1>23, <1>24, <1>25, <1>26, <1>27, <1>28, <1>29, <1>30, <1>31,
     <1>32, <1>33, <1>34, <1>35 DEF Next, Accept, Work, Publish, Disturb

-----------------------------------------------------------------------------
\* The reply as a function of what the task map and the results hold.
Reply(res, at, term, rev, intent, nm) ==
    IF res # NoResult
    THEN [status |-> "finished", rev |-> res.rev, event |-> res.event, intent |-> FALSE]
    ELSE IF at \in Registered /\ ~term
    THEN [status |-> "running", rev |-> rev, event |-> "none", intent |-> intent]
    ELSE [status |-> IF at \in Registered \union {"done"} /\ nm # 0 THEN "gone" ELSE "fresh",
          rev |-> 0, event |-> "none", intent |-> FALSE]

LEMMA ReplyBefore ==
    ASSUME NEW q \in Request
    PROVE  RequestStatus(q) = Reply(result[q], pc[q], terminal[q], revision[q],
                                    cancelled[q], nmOf[q])
  BY DEF RequestStatus, Reply

LEMMA ReplyAfter ==
    ASSUME NEW q \in Request
    PROVE  RequestStatus(q)' = Reply(result'[q], pc'[q], terminal'[q], revision'[q],
                                     cancelled'[q], nmOf'[q])
  BY DEF RequestStatus, Reply

-----------------------------------------------------------------------------
\* The reply for q evolves by a step of the contract, or stays.
ReplyEvolves(q) ==
    \/ RequestStatus(q)' = RequestStatus(q)
    \/ Contract!Evolves(RequestStatus(q), RequestStatus(q)')

LEMMA ReplyTypes ==
    ASSUME TypeInv
    PROVE  /\ pc \in [Request -> Pc] /\ nmOf \in [Request -> Nat]
           /\ cancelled \in [Request -> BOOLEAN] /\ terminal \in [Request -> BOOLEAN]
           /\ revision \in [Request -> Nat]
           /\ result \in [Request -> [event : Event, rev : 1..MaxRevision + 1] \union {NoResult}]
           /\ \A r \in Request : /\ pc[r] \in Registered => nmOf[r] # 0
                                 /\ ~terminal[r] => revision[r] + 1 \in 1..MaxRevision + 1
<1>1. /\ pc \in [Request -> Pc] /\ nmOf \in [Request -> 0..MaxBus]
      /\ cancelled \in [Request -> BOOLEAN] /\ terminal \in [Request -> BOOLEAN]
      /\ revision \in [Request -> 0..MaxRevision + 1]
      /\ result \in [Request -> [event : Event, rev : 1..MaxRevision + 1] \union {NoResult}]
  BY DEF TypeInv, TypeOK
<1>2. \A r \in Request : /\ pc[r] \in Registered => nmOf[r] >= 1
                         /\ ~terminal[r] => revision[r] <= MaxRevision
  BY DEF TypeInv
<1>3. nmOf \in [Request -> Nat] /\ revision \in [Request -> Nat]
  BY <1>1, BoundAssumption, SMTT(40)
<1>4. \A r \in Request : /\ pc[r] \in Registered => nmOf[r] # 0
                         /\ ~terminal[r] => revision[r] + 1 \in 1..MaxRevision + 1
  <2>1. \A r \in Request : nmOf[r] \in Nat /\ revision[r] \in Nat
    BY <1>3
  <2>2. QED
    BY <1>2, <2>1, BoundAssumption, SMTT(40)
<1>5. QED
  BY <1>1, <1>3, <1>4

\* Nothing of the request changes but where its worker is, and its
\* cancellation may be requested.
LEMMA Flagged ==
    ASSUME TypeInv, TypeInv', NEW q \in Request,
           result'[q] = result[q], terminal'[q] = terminal[q],
           revision'[q] = revision[q], nmOf'[q] = nmOf[q],
           cancelled'[q] \in {cancelled[q], TRUE},
           pc'[q] = pc[q] \/ (pc[q] \in Registered /\ pc'[q] \in Registered)
    PROVE  ReplyEvolves(q)
<1>1. /\ cancelled[q] \in BOOLEAN /\ terminal[q] \in BOOLEAN
      /\ nmOf'[q] = nmOf[q]
      /\ pc'[q] \in Registered <=> pc[q] \in Registered
      /\ pc'[q] \in Registered \union {"done"} <=> pc[q] \in Registered \union {"done"}
  BY DEF TypeInv, TypeOK
<1> DEFINE old == Reply(result[q], pc[q], terminal[q], revision[q], cancelled[q], nmOf[q])
           new == Reply(result[q], pc'[q], terminal[q], revision[q], cancelled'[q], nmOf[q])
<1>2. RequestStatus(q) = old /\ RequestStatus(q)' = new
  BY ReplyBefore, ReplyAfter
<1>3. CASE cancelled'[q] = cancelled[q]
  <2>1. old = new
    BY <1>1, <1>3 DEF Reply
  <2>2. QED
    BY <1>2, <2>1 DEF ReplyEvolves
<1>4. CASE ~(result[q] = NoResult /\ pc[q] \in Registered /\ ~terminal[q])
  <2>1. old = new
    BY <1>1, <1>4 DEF Reply
  <2>2. QED
    BY <1>2, <2>1 DEF ReplyEvolves
<1>5. CASE /\ cancelled'[q] = TRUE /\ result[q] = NoResult
           /\ pc[q] \in Registered /\ terminal[q] = FALSE
  <2>1. old = Contract!Running(revision[q], cancelled[q])
    BY <1>5 DEF Reply, Contract!Running
  <2>2. new = Contract!Running(revision[q], TRUE)
    BY <1>1, <1>5 DEF Reply, Contract!Running
  <2> HIDE DEF old, new
  <2>3. QED
    BY <1>2, <2>1, <2>2, SMTT(40) DEF ReplyEvolves, Contract!Evolves, Contract!Running
<1>6. QED
  BY <1>1, <1>3, <1>4, <1>5

\* store_terminal_result under its locks.
LEMMA Recorded ==
    ASSUME TypeInv, TypeInv', NEW r \in Request, pc[r] \in {"storing", "failing"},
           RecordTerminal(r), pc'[r] \in Registered,
           UNCHANGED <<cancelled, nmOf>>
    PROVE  ReplyEvolves(r)
<1>1. CASE result[r] # NoResult \/ terminal[r]
  BY <1>1, Flagged DEF RecordTerminal, Registered, Publishing
<1>2. CASE result[r] = NoResult /\ ~terminal[r]
  <2> DEFINE e == TerminalEvent(r)
             n == revision[r]
             i == cancelled[r]
  <2>1. e \in Event /\ (i => e # "succeeded")
    BY DEF TypeInv, TypeOK, TerminalEvent, Event, Publishing, Verdicted
  <2>2. n \in Nat /\ n + 1 \in 1..MaxRevision + 1 /\ i \in BOOLEAN
    BY <1>2, ReplyTypes
  <2>3. result'[r] = [event |-> e, rev |-> n + 1]
    BY <1>2, ReplyTypes DEF RecordTerminal
  <2>4. RequestStatus(r) = Contract!Running(n, i)
    BY <1>2, ReplyBefore DEF Reply, Contract!Running, Registered, Publishing
  <2> HIDE DEF e, n, i
  <2>5. RequestStatus(r)' = Contract!Finished(n + 1, e)
    BY <2>1, <2>2, <2>3, ReplyAfter, SMTT(40) DEF Reply, Contract!Finished, NoResult, Event
  <2>6. Contract!Evolves(Contract!Running(n, i), Contract!Finished(n + 1, e))
    BY <2>1, <2>2 DEF Contract!Evolves, Contract!Running, Contract!Finished, Event
  <2>7. QED
    BY <2>4, <2>5, <2>6 DEF ReplyEvolves
<1>3. QED
  BY <1>1, <1>2

\* TaskRegistration::drop.
LEMMA Released ==
    ASSUME TypeInv, TypeInv', NEW r \in Request, pc[r] \in Registered,
           pc'[r] = "done", UNCHANGED <<result, nmOf>>
    PROVE  ReplyEvolves(r)
<1>1. CASE result[r] # NoResult
  BY <1>1, ReplyBefore, ReplyAfter DEF Reply, ReplyEvolves
<1>2. CASE result[r] = NoResult
  <2>1. nmOf[r] # 0
    BY ReplyTypes
  <2>2. RequestStatus(r)' = Contract!Gone
    BY <1>2, <2>1, ReplyAfter DEF Reply, Contract!Gone, Registered, Working, Publishing
  <2>3. CASE terminal[r]
    <3>1. RequestStatus(r) = Contract!Gone
      BY <1>2, <2>1, <2>3, ReplyBefore
         DEF Reply, Contract!Gone, Registered, Working, Publishing
    <3>2. QED
      BY <2>2, <3>1 DEF ReplyEvolves
  <2>4. CASE ~terminal[r]
    <3>1. RequestStatus(r) = Contract!Running(revision[r], cancelled[r])
      BY <1>2, <2>4, ReplyBefore DEF Reply, Contract!Running
    <3>2. QED
      BY <2>2, <3>1, SMTT(40) DEF ReplyEvolves, Contract!Evolves, Contract!Running
  <2>5. QED
    BY <2>3, <2>4
<1>3. QED
  BY <1>1, <1>2

\* Before the registration, and for a request refused without one.
LEMMA Unaccepted ==
    ASSUME ReplyInv, ReplyInv', NEW r \in Request,
           pc[r] \in {"idle", "admitted", "scoped"},
           \/ pc'[r] \in {"admitted", "scoped"}
           \/ pc'[r] = "done" /\ nmOf'[r] = 0
    PROVE  ReplyEvolves(r)
<1>1. RequestStatus(r) = Contract!Fresh
  BY ReplyBefore DEF Reply, Contract!Fresh, ReplyInv, Registered, Working, Publishing
<1>2. RequestStatus(r)' = Contract!Fresh
  BY ReplyAfter DEF Reply, Contract!Fresh, ReplyInv, Registered, Working, Publishing
<1>3. QED
  BY <1>1, <1>2 DEF ReplyEvolves

-----------------------------------------------------------------------------
\* Nothing of the requests other than r changes, but their cancellation.
Spared(r) ==
    \A q \in Request \ {r} :
        /\ pc'[q] = pc[q] /\ nmOf'[q] = nmOf[q] /\ result'[q] = result[q]
        /\ terminal'[q] = terminal[q] /\ revision'[q] = revision[q]
        /\ cancelled'[q] \in {cancelled[q], TRUE}

LEMMA OneMoves ==
    ASSUME TypeInv, TypeInv', NEW r \in Request, Spared(r), ReplyEvolves(r)
    PROVE  \A q \in Request : ReplyEvolves(q)
  BY Flagged DEF Spared

\* Every step of the runtime is a step of the contract for each reply.
LEMMA EvolveStep ==
    ASSUME TypeInv, ReplyInv, TypeInv', ReplyInv', [Next]_vars
    PROVE  \A q \in Request : ReplyEvolves(q)
<1> USE DEF Spared, At, Goto, taskVars, workVars, resultVars, Registered, Working,
           Publishing
<1> /\ pc \in [Request -> Pc] /\ nmOf \in [Request -> Nat]
    /\ cancelled \in [Request -> BOOLEAN] /\ terminal \in [Request -> BOOLEAN]
    /\ revision \in [Request -> Nat]
    /\ result \in [Request -> [event : Event, rev : 1..MaxRevision + 1] \union {NoResult}]
  BY ReplyTypes
<1>1. ASSUME NEW r \in Request, Submit(r) PROVE \A q \in Request : ReplyEvolves(q)
  BY <1>1, Flagged DEF Submit
<1>2. ASSUME NEW r \in Request, CheckCancelled(r) PROVE \A q \in Request : ReplyEvolves(q)
  BY <1>2, Flagged DEF CheckCancelled
<1>3. ASSUME NEW r \in Request, StopCancelled(r) PROVE \A q \in Request : ReplyEvolves(q)
  BY <1>3, Flagged DEF StopCancelled, Outcome
<1>4. ASSUME NEW r \in Request, AlreadyActive(r) PROVE \A q \in Request : ReplyEvolves(q)
  BY <1>4, Flagged DEF AlreadyActive
<1>5. ASSUME NEW r \in Request, Activate(r) PROVE \A q \in Request : ReplyEvolves(q)
  BY <1>5, Flagged DEF Activate
<1>6. ASSUME NEW r \in Request, FailCandidate(r) PROVE \A q \in Request : ReplyEvolves(q)
  BY <1>6, Flagged DEF FailCandidate, Outcome
<1>7. ASSUME NEW r \in Request, RetryCandidate(r) PROVE \A q \in Request : ReplyEvolves(q)
  BY <1>7, Flagged DEF RetryCandidate
<1>8. ASSUME NEW r \in Request, AbortCancelled(r) PROVE \A q \in Request : ReplyEvolves(q)
  BY <1>8, Flagged DEF AbortCancelled, Outcome
<1>9. ASSUME NEW r \in Request, CheckWait(r) PROVE \A q \in Request : ReplyEvolves(q)
  BY <1>9, Flagged DEF CheckWait
<1>10. ASSUME NEW r \in Request, Verify(r) PROVE \A q \in Request : ReplyEvolves(q)
  BY <1>10, Flagged DEF Verify
<1>11. ASSUME NEW r \in Request, WaitForEvent(r) PROVE \A q \in Request : ReplyEvolves(q)
  BY <1>11, Flagged DEF WaitForEvent
<1>12. ASSUME NEW r \in Request, Conclude(r) PROVE \A q \in Request : ReplyEvolves(q)
  BY <1>12, Flagged DEF Conclude, Outcome
<1>13. ASSUME NEW r \in Request, CheckOwner(r) PROVE \A q \in Request : ReplyEvolves(q)
  BY <1>13, Flagged DEF CheckOwner
<1>14. ASSUME NEW r \in Request, FinishAttempt(r) PROVE \A q \in Request : ReplyEvolves(q)
  BY <1>14, Flagged DEF FinishAttempt
<1>15. ASSUME NEW r \in Request, FailWorker(r) PROVE \A q \in Request : ReplyEvolves(q)
  BY <1>15, Flagged DEF FailWorker
<1>16. ASSUME NEW r \in Request, RunAbort(r) PROVE \A q \in Request : ReplyEvolves(q)
  BY <1>16, Flagged DEF RunAbort
<1>17. ASSUME NEW r \in Request, StartJob(r) PROVE \A q \in Request : ReplyEvolves(q)
  BY <1>17, Flagged DEF StartJob
<1>18. ASSUME NEW r \in Request, Cancel(r) PROVE \A q \in Request : ReplyEvolves(q)
  BY <1>18, Flagged DEF Cancel, RequestCancel
<1>19. ASSUME NEW r \in Request, ExpireConnect(r) PROVE \A q \in Request : ReplyEvolves(q)
  BY <1>19, Flagged DEF ExpireConnect, RequestCancel
<1>20. ASSUME NEW o \in Owner, DropOwner(o) PROVE \A q \in Request : ReplyEvolves(q)
  BY <1>20, Flagged DEF DropOwner, RequestCancel
<1>21. ASSUME NEW i \in Identity, CancelConnectsForSsid(SsidOf[i]) PROVE \A q \in Request : ReplyEvolves(q)
  BY <1>21, Flagged DEF CancelConnectsForSsid, Flag
<1>22. ASSUME NEW n \in 1..MaxBus, OwnerChanged(n) PROVE \A q \in Request : ReplyEvolves(q)
  BY <1>22, Flagged DEF OwnerChanged, Flag
<1>23. ASSUME ChangeBusOwner PROVE \A q \in Request : ReplyEvolves(q)
  BY <1>23, Flagged DEF ChangeBusOwner
<1>24. ASSUME PassRetryDelay PROVE \A q \in Request : ReplyEvolves(q)
  BY <1>24, Flagged DEF PassRetryDelay
<1>25. ASSUME UNCHANGED vars PROVE \A q \in Request : ReplyEvolves(q)
  BY <1>25, Flagged DEF vars
<1>26. ASSUME NEW r \in Request, NEW o \in Owner, NEW i \in Identity, NEW c \in Credential,
              BeginAttempt(r, o, i, c) PROVE \A q \in Request : ReplyEvolves(q)
  <2>1. Spared(r)
    BY <1>26 DEF BeginAttempt
  <2>2. ReplyEvolves(r)
    BY <1>26, Unaccepted DEF BeginAttempt
  <2>3. QED
    BY <2>1, <2>2, OneMoves
<1>27. ASSUME NEW r \in Request, BindScope(r) PROVE \A q \in Request : ReplyEvolves(q)
  <2>1. Spared(r)
    BY <1>27 DEF BindScope
  <2>2. ReplyEvolves(r)
    BY <1>27, Unaccepted DEF BindScope
  <2>3. QED
    BY <2>1, <2>2, OneMoves
<1>28. ASSUME NEW r \in Request, RefuseScope(r) PROVE \A q \in Request : ReplyEvolves(q)
  <2>1. Spared(r)
    BY <1>28 DEF RefuseScope
  <2>2. ReplyEvolves(r)
    BY <1>28, Unaccepted DEF RefuseScope, ReplyInv
  <2>3. QED
    BY <2>1, <2>2, OneMoves
<1>29. ASSUME NEW r \in Request, Register(r) PROVE \A q \in Request : ReplyEvolves(q)
  <2>1. Spared(r)
    BY <1>29 DEF Register
  <2>2. /\ result[r] = NoResult /\ ~cancelled[r] /\ ~terminal[r] /\ pc[r] = "scoped"
        /\ result'[r] = NoResult /\ cancelled'[r] = FALSE /\ ~terminal'[r]
        /\ pc'[r] = "registered" /\ revision'[r] = 1
    BY <1>29 DEF Register, ReplyInv
  <2>3. RequestStatus(r) = Contract!Fresh
    BY <2>2, ReplyBefore DEF Reply, Contract!Fresh
  <2>4. RequestStatus(r)' = Contract!Running(1, FALSE)
    BY <2>2, ReplyAfter DEF Reply, Contract!Running
  <2>5. ReplyEvolves(r)
    BY <2>3, <2>4 DEF ReplyEvolves, Contract!Evolves
  <2>6. QED
    BY <2>1, <2>5, OneMoves
<1>30. ASSUME NEW r \in Request, StoreProgress(r) PROVE \A q \in Request : ReplyEvolves(q)
  <2>1. Spared(r)
    BY <1>30 DEF StoreProgress
  <2>2. /\ result[r] = NoResult /\ ~terminal[r] /\ pc[r] \in Registered
        /\ UNCHANGED <<result, cancelled, terminal, pc>>
        /\ revision'[r] = revision[r] + 1
    BY <1>30 DEF StoreProgress
  <2>3. RequestStatus(r) = Contract!Running(revision[r], cancelled[r])
    BY <2>2, ReplyBefore DEF Reply, Contract!Running
  <2>4. RequestStatus(r)' = Contract!Running(revision[r] + 1, cancelled[r])
    BY <2>2, ReplyAfter DEF Reply, Contract!Running
  <2>5. ReplyEvolves(r)
    BY <2>3, <2>4, SMTT(40) DEF ReplyEvolves, Contract!Evolves, Contract!Running
  <2>6. QED
    BY <2>1, <2>5, OneMoves
<1>31. ASSUME NEW r \in Request, StoreTerminal(r) PROVE \A q \in Request : ReplyEvolves(q)
  <2>1. Spared(r)
    BY <1>31 DEF StoreTerminal, RecordTerminal
  <2>2. ReplyEvolves(r)
    BY <1>31, Recorded DEF StoreTerminal
  <2>3. QED
    BY <2>1, <2>2, OneMoves
<1>32. ASSUME NEW r \in Request, EmitConnectFailure(r) PROVE \A q \in Request : ReplyEvolves(q)
  <2>1. Spared(r)
    BY <1>32 DEF EmitConnectFailure, RecordTerminal
  <2>2. ReplyEvolves(r)
    BY <1>32, Recorded DEF EmitConnectFailure
  <2>3. QED
    BY <2>1, <2>2, OneMoves
<1>33. ASSUME NEW r \in Request, Unwind(r) PROVE \A q \in Request : ReplyEvolves(q)
  <2>1. Spared(r)
    BY <1>33 DEF Unwind, Unregister
  <2>2. ReplyEvolves(r)
    BY <1>33, Released DEF Unwind, Unregister
  <2>3. QED
    BY <2>1, <2>2, OneMoves
<1>34. ASSUME NEW r \in Request, LoseJob(r) PROVE \A q \in Request : ReplyEvolves(q)
  <2>1. Spared(r)
    BY <1>34 DEF LoseJob, Unregister
  <2>2. ReplyEvolves(r)
    BY <1>34, Released DEF LoseJob, Unregister
  <2>3. QED
    BY <2>1, <2>2, OneMoves
<1>35. ASSUME NEW r \in Request, ForgetResult(r) PROVE \A q \in Request : ReplyEvolves(q)
  <2>1. Spared(r)
    BY <1>35 DEF ForgetResult
  <2>2. /\ result[r] \in [event : Event, rev : 1..MaxRevision + 1]
        /\ result'[r] = NoResult
        /\ pc[r] = "done" \/ (pc[r] \in Registered /\ terminal[r])
        /\ nmOf[r] # 0
        /\ UNCHANGED <<pc, terminal, nmOf>>
    BY <1>35 DEF ForgetResult, ReplyInv
  <2>3. RequestStatus(r) = Contract!Finished(result[r].rev, result[r].event)
    BY <2>2, ReplyBefore, SMTT(40) DEF Reply, Contract!Finished, NoResult, Event
  <2>4. RequestStatus(r)' = Contract!Gone
    BY <2>2, ReplyAfter DEF Reply, Contract!Gone, Registered, Working, Publishing
  <2>5. ReplyEvolves(r)
    <3>1. RequestStatus(r).status = "finished"
      BY <2>3, SMTT(40) DEF Contract!Finished
    <3> HIDE DEF RequestStatus
    <3>2. Contract!Evolves(RequestStatus(r), RequestStatus(r)')
      BY <3>1, <2>4 DEF Contract!Evolves
    <3>3. QED
      BY <3>2 DEF ReplyEvolves
  <2>6. QED
    BY <2>1, <2>5, OneMoves
<1>36. QED
  BY <1>1, <1>2, <1>3, <1>4, <1>5, <1>6, <1>7, <1>8, <1>9, <1>10, <1>11,
     <1>12, <1>13, <1>14, <1>15, <1>16, <1>17, <1>18, <1>19, <1>20, <1>21,
     <1>22, <1>23, <1>24, <1>25, <1>26, <1>27, <1>28, <1>29, <1>30, <1>31,
     <1>32, <1>33, <1>34, <1>35 DEF Next, Accept, Work, Publish, Disturb

-----------------------------------------------------------------------------
\* The runtime implements the contract of operation.status
\* (DaemonRuntime::request_status, contracts/wifi-connect-recovery.md).
THEOREM ContractIsKept == Spec => RefinesContract
<1>1. Init => Contract!Init
  <2> SUFFICES ASSUME Init, NEW q \in Request PROVE RequestStatus(q) = Contract!Fresh
    BY DEF Contract!Init
  <2>1. QED
    BY ReplyBefore DEF Reply, Contract!Fresh, Init, Registered, Working, Publishing
<1>2. Init => ReplyInv
  BY SMTT(40) DEF Init, ReplyInv, Registered, Working, Publishing
<1>3. ASSUME TypeInv, ReplyInv, [Next]_vars
      PROVE  [Contract!Next]_([r \in Request |-> RequestStatus(r)])
  <2>1. TypeInv' /\ ReplyInv'
    BY <1>3, TypeStep, ReplyStep
  <2>2. \A q \in Request : ReplyEvolves(q)
    BY <1>3, <2>1, EvolveStep
  <2>3. QED
    BY <2>2 DEF ReplyEvolves, Contract!Next
<1>4. TypeInv /\ ReplyInv /\ [Next]_vars => ReplyInv'
  BY ReplyStep
<1>5. QED
  BY <1>1, <1>2, <1>3, <1>4, Inductive, PTL DEF Spec, RefinesContract, Contract!Spec
=============================================================================
