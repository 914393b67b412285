----------------------------- MODULE ScanProofs -----------------------------
(***************************************************************************)
(* Scanning, for any set of callers, any scopes and any number of scans:   *)
(* the schedule a device shares (ScanSchedule), and the network list with  *)
(* its background refresh (Snapshots).                                     *)
(***************************************************************************)
EXTENDS ScanSchedule, Snapshots, FiniteSetTheorems, TLAPS

\* Most steps are first-order; the ones that need arithmetic name SMT;
\* the limits leave room for a loaded machine.
USE ZenonT(60)

-----------------------------------------------------------------------------
\* The scan schedule.

\* Who has a generation, and which; an owner about to publish and a joiner
\* about to return have an outcome.
CallInv ==
    /\ TypeOK
    /\ \A c \in Caller :
          /\ gen[c] <= generation
          /\ pc[c] \in Owning \union Waiting \union {"decided"} => gen[c] # 0
          /\ pc[c] \in {"publishing", "decided"} => outcome[c] # None
          /\ pc[c] # "done" => res[c] = None

\* The history of the scans: it is written once, by the owner in flight, and
\* the slots and the joiners agree with it.
OutcomeInv ==
    /\ \A g \in Generation :
          /\ g > generation => outcomeOf[g] = None
          /\ g = generation /\ inFlight # {} => outcomeOf[g] = None
          /\ completions[g] # None => completions[g] = outcomeOf[g]
    /\ \A c \in Caller :
          /\ pc[c] \in Owning => scopeOf[gen[c]] = scope[c]
          /\ pc[c] \in {"joined", "decided"} => Covers(scopeOf[gen[c]], scope[c])
          /\ pc[c] = "decided" => outcome[c] = outcomeOf[gen[c]]
    /\ inFlight # {} => inFlight = {scopeOf[generation]}

LEMMA CallStep == CallInv /\ LeaseExclusive /\ [Next]_vars => CallInv'
<1> SUFFICES ASSUME CallInv, LeaseExclusive, [Next]_vars PROVE CallInv'
  OBVIOUS
<1> USE ScanAssumption
    DEF CallInv, TypeOK, Pc, Owning, Waiting, Generation, Outcome, None, At, Goto,
        slotVars, callVars, histVars
<1>1. ASSUME NEW c \in Caller, NEW s \in Scope, Call(c, s) PROVE CallInv'
  BY <1>1 DEF Call
<1>2. ASSUME NEW c \in Caller, Enter(c) PROVE CallInv'
  BY <1>2 DEF Enter
<1>3. ASSUME NEW c \in Caller, Refuse(c) PROVE CallInv'
  <2>1. pc[c] = "entered" /\ \E o \in Outcome : Return(c, o)
    BY <1>3 DEF Refuse
  <2>2. QED
    BY <1>3, <2>1, SMTT(40) DEF Refuse, Return
<1>4. ASSUME NEW c \in Caller, ClaimOwned(c) PROVE CallInv'
  BY <1>4, SMTT(40) DEF ClaimOwned
<1>5. ASSUME NEW c \in Caller, ClaimShared(c) PROVE CallInv'
  <2>1. generation \in Generation
    BY <1>5, SMTT(40) DEF ClaimShared, LeaseExclusive, Owners
  <2>2. PICK to \in Waiting : pc' = [pc EXCEPT ![c] = to]
    BY <1>5 DEF ClaimShared
  <2>3. QED
    BY <1>5, <2>1, <2>2, SMTT(40) DEF ClaimShared
<1>6. ASSUME NEW c \in Caller, CheckRequest(c) PROVE CallInv'
  BY <1>6 DEF CheckRequest
<1>7. ASSUME NEW c \in Caller, SendScan(c) PROVE CallInv'
  BY <1>7 DEF SendScan
<1>8. ASSUME NEW c \in Caller, RetryScan(c) PROVE CallInv'
  BY <1>8 DEF RetryScan
<1>9. ASSUME NEW c \in Caller, FailScan(c) PROVE CallInv'
  BY <1>9, SMTT(40) DEF FailScan, Decide
<1>10. ASSUME NEW c \in Caller, CheckScan(c) PROVE CallInv'
  BY <1>10 DEF CheckScan
<1>11. ASSUME NEW c \in Caller, ScanCompleted(c) PROVE CallInv'
  BY <1>11 DEF ScanCompleted, Decide
<1>12. ASSUME NEW c \in Caller, ScanPending(c) PROVE CallInv'
  BY <1>12 DEF ScanPending
<1>13. ASSUME NEW c \in Caller, StopOwner(c) PROVE CallInv'
  <2>1. pc[c] \in {"requesting", "scanning"} /\ \E o \in Outcome : Decide(c, o)
    BY <1>13 DEF StopOwner
  <2>2. QED
    BY <2>1, SMTT(40) DEF Decide
<1>14. ASSUME NEW c \in Caller, PanicOwner(c) PROVE CallInv'
  BY <1>14 DEF PanicOwner, Decide
<1>15. ASSUME NEW c \in Caller, Complete(c) PROVE CallInv'
  BY <1>15 DEF Complete, Return
<1>16. ASSUME NEW c \in Caller, WaitCancelled(c) PROVE CallInv'
  BY <1>16, SMTT(40) DEF WaitCancelled, Return, ConsumeWaiter
<1>17. ASSUME NEW c \in Caller, WaitExpired(c) PROVE CallInv'
  BY <1>17, SMTT(40) DEF WaitExpired, Return, ConsumeWaiter
<1>18. ASSUME NEW c \in Caller, WaitBehindOver(c) PROVE CallInv'
  BY <1>18, SMTT(40) DEF WaitBehindOver, ConsumeWaiter
<1>19. ASSUME NEW c \in Caller, WaitJoinedOver(c) PROVE CallInv'
  BY <1>19, SMTT(40) DEF WaitJoinedOver, ConsumeWaiter
<1>20. ASSUME NEW c \in Caller, ClaimAgain(c) PROVE CallInv'
  BY <1>20, SMTT(40) DEF ClaimAgain
<1>21. ASSUME NEW c \in Caller, TakeJoinedResult(c) PROVE CallInv'
  BY <1>21 DEF TakeJoinedResult, Return
<1>22. ASSUME NEW c \in Caller, CancelCaller(c) PROVE CallInv'
  BY <1>22 DEF CancelCaller
<1>23. ASSUME NEW c \in Caller, Expire(c) PROVE CallInv'
  BY <1>23 DEF Expire
<1>24. CASE UNCHANGED vars
  BY <1>24 DEF vars
<1>25. QED
  BY <1>1, <1>2, <1>3, <1>4, <1>5, <1>6, <1>7, <1>8, <1>9, <1>10, <1>11,
     <1>12, <1>13, <1>14, <1>15, <1>16, <1>17, <1>18, <1>19, <1>20, <1>21,
     <1>22, <1>23, <1>24 DEF Next, Claim, Own, Wait

LEMMA LeaseStep == CallInv /\ LeaseExclusive /\ [Next]_vars => LeaseExclusive'
<1> SUFFICES ASSUME CallInv, LeaseExclusive, [Next]_vars PROVE LeaseExclusive'
  OBVIOUS
<1> USE ScanAssumption
    DEF CallInv, LeaseExclusive, Owners, TypeOK, Pc, Owning, Waiting, Generation, Outcome, None, At, Goto,
        slotVars, callVars, histVars
<1>1. ASSUME NEW c \in Caller, NEW s \in Scope, Call(c, s) PROVE LeaseExclusive'
  BY <1>1, SMTT(40) DEF Call
<1>2. ASSUME NEW c \in Caller, Enter(c) PROVE LeaseExclusive'
  BY <1>2, SMTT(40) DEF Enter
<1>3. ASSUME NEW c \in Caller, Refuse(c) PROVE LeaseExclusive'
  BY <1>3, SMTT(40) DEF Refuse, Return
<1>4. ASSUME NEW c \in Caller, ClaimOwned(c) PROVE LeaseExclusive'
  BY <1>4, SMTT(40) DEF ClaimOwned
<1>5. ASSUME NEW c \in Caller, ClaimShared(c) PROVE LeaseExclusive'
  BY <1>5, SMTT(40) DEF ClaimShared
<1>6. ASSUME NEW c \in Caller, CheckRequest(c) PROVE LeaseExclusive'
  BY <1>6, SMTT(40) DEF CheckRequest
<1>7. ASSUME NEW c \in Caller, SendScan(c) PROVE LeaseExclusive'
  BY <1>7, SMTT(40) DEF SendScan
<1>8. ASSUME NEW c \in Caller, RetryScan(c) PROVE LeaseExclusive'
  BY <1>8, SMTT(40) DEF RetryScan
<1>9. ASSUME NEW c \in Caller, FailScan(c) PROVE LeaseExclusive'
  BY <1>9, SMTT(40) DEF FailScan, Decide
<1>10. ASSUME NEW c \in Caller, CheckScan(c) PROVE LeaseExclusive'
  BY <1>10, SMTT(40) DEF CheckScan
<1>11. ASSUME NEW c \in Caller, ScanCompleted(c) PROVE LeaseExclusive'
  BY <1>11, SMTT(40) DEF ScanCompleted, Decide
<1>12. ASSUME NEW c \in Caller, ScanPending(c) PROVE LeaseExclusive'
  BY <1>12, SMTT(40) DEF ScanPending
<1>13. ASSUME NEW c \in Caller, StopOwner(c) PROVE LeaseExclusive'
  <2>1. pc[c] \in {"requesting", "scanning"} /\ \E o \in Outcome : Decide(c, o)
    BY <1>13 DEF StopOwner
  <2>2. QED
    BY <2>1, SMTT(40) DEF Decide
<1>14. ASSUME NEW c \in Caller, PanicOwner(c) PROVE LeaseExclusive'
  BY <1>14, SMTT(40) DEF PanicOwner, Decide
<1>15. ASSUME NEW c \in Caller, Complete(c) PROVE LeaseExclusive'
  BY <1>15, SMTT(40) DEF Complete, Return
<1>16. ASSUME NEW c \in Caller, WaitCancelled(c) PROVE LeaseExclusive'
  BY <1>16, SMTT(40) DEF WaitCancelled, Return, ConsumeWaiter
<1>17. ASSUME NEW c \in Caller, WaitExpired(c) PROVE LeaseExclusive'
  BY <1>17, SMTT(40) DEF WaitExpired, Return, ConsumeWaiter
<1>18. ASSUME NEW c \in Caller, WaitBehindOver(c) PROVE LeaseExclusive'
  BY <1>18, SMTT(40) DEF WaitBehindOver, ConsumeWaiter
<1>19. ASSUME NEW c \in Caller, WaitJoinedOver(c) PROVE LeaseExclusive'
  BY <1>19, SMTT(40) DEF WaitJoinedOver, ConsumeWaiter
<1>20. ASSUME NEW c \in Caller, ClaimAgain(c) PROVE LeaseExclusive'
  BY <1>20, SMTT(40) DEF ClaimAgain
<1>21. ASSUME NEW c \in Caller, TakeJoinedResult(c) PROVE LeaseExclusive'
  BY <1>21, SMTT(40) DEF TakeJoinedResult, Return
<1>22. ASSUME NEW c \in Caller, CancelCaller(c) PROVE LeaseExclusive'
  BY <1>22, SMTT(40) DEF CancelCaller
<1>23. ASSUME NEW c \in Caller, Expire(c) PROVE LeaseExclusive'
  BY <1>23, SMTT(40) DEF Expire
<1>24. CASE UNCHANGED vars
  BY <1>24 DEF vars
<1>25. QED
  BY <1>1, <1>2, <1>3, <1>4, <1>5, <1>6, <1>7, <1>8, <1>9, <1>10, <1>11,
     <1>12, <1>13, <1>14, <1>15, <1>16, <1>17, <1>18, <1>19, <1>20, <1>21,
     <1>22, <1>23, <1>24 DEF Next, Claim, Own, Wait

-----------------------------------------------------------------------------
LEMMA WaitersFinite ==
    ASSUME NEW g
    PROVE  IsFiniteSet(WaitersOf(g)) /\ Cardinality(WaitersOf(g)) \in Nat
<1>1. WaitersOf(g) \in SUBSET Caller
  BY DEF WaitersOf
<1>2. QED
  BY <1>1, ScanAssumption, FS_Subset, FS_CardinalityType

\* A generation somebody waits for has a positive count, and a count of one
\* means that nobody else does.
LEMMA WaitersCounted ==
    ASSUME CallInv, SlotsReclaimed, NEW c \in Caller, pc[c] \in Waiting
    PROVE  /\ gen[c] \in Generation
           /\ waiters[gen[c]] > 0
           /\ \A d \in Caller : pc[d] \in Waiting /\ gen[d] = gen[c] /\ waiters[gen[c]] <= 1
                                 => d = c
<1> DEFINE W == WaitersOf(gen[c])
<1>1. gen[c] \in Generation
  BY ScanAssumption, SMTT(40) DEF CallInv, TypeOK, Generation
<1>2. c \in W /\ IsFiniteSet(W) /\ Cardinality(W) \in Nat /\ waiters[gen[c]] = Cardinality(W)
  BY <1>1, WaitersFinite DEF WaitersOf, SlotsReclaimed
<1>3. \A d \in Caller : pc[d] \in Waiting /\ gen[d] = gen[c] => d \in W
  BY DEF WaitersOf
<1> HIDE DEF W
<1>4. Cardinality(W) > 0
  BY <1>2, FS_EmptySet, SMTT(40)
<1>5. ASSUME Cardinality(W) <= 1, NEW d \in W PROVE d = c
  <2>1. Cardinality(W) = 1
    BY <1>2, <1>4, <1>5, SMTT(40)
  <2>2. PICK x : W = {x}
    BY <1>2, <2>1, FS_Singleton
  <2>3. QED
    BY <1>2, <1>5, <2>2
<1>6. QED
  BY <1>1, <1>2, <1>3, <1>4, <1>5

\* Nobody starts or stops waiting, and the slots stay.
Unwaited ==
    /\ UNCHANGED <<waiters, completions>>
    /\ \A d \in Caller :
          /\ pc'[d] \in Waiting <=> pc[d] \in Waiting
          /\ pc[d] \in Waiting => gen'[d] = gen[d]

SlotInv == WaiterServed /\ SlotsReclaimed

LEMMA SameWaiters ==
    ASSUME \A d \in Caller :
              /\ pc'[d] \in Waiting <=> pc[d] \in Waiting
              /\ pc[d] \in Waiting => gen'[d] = gen[d]
    PROVE  \A k : WaitersOf(k)' = WaitersOf(k)
<1> TAKE k
<1>1. \A d \in Caller : pc'[d] \in Waiting /\ gen'[d] = k <=> pc[d] \in Waiting /\ gen[d] = k
  OBVIOUS
<1>2. QED
  BY <1>1 DEF WaitersOf

LEMMA UnwaitedStep ==
    ASSUME SlotInv, Unwaited,
           \A d \in Caller : pc[d] \in Waiting /\ gen[d] = generation /\ inFlight # {}
                             => (gen[d] = generation' /\ inFlight' # {}) \/ completions[gen[d]] # None
    PROVE  SlotInv'
<1>1. \A g \in Generation : WaitersOf(g)' = WaitersOf(g)
  BY SameWaiters DEF Unwaited
<1>2. SlotsReclaimed'
  BY <1>1 DEF SlotInv, SlotsReclaimed, Unwaited
<1>3. WaiterServed'
  BY DEF SlotInv, WaiterServed, Unwaited
<1>4. QED
  BY <1>2, <1>3 DEF SlotInv

\* consume_waiter by a caller that stops waiting.
LEMMA ConsumeStep ==
    ASSUME CallInv, SlotInv, NEW c \in Caller, pc[c] \in Waiting,
           ConsumeWaiter(gen[c]), pc'[c] \notin Waiting,
           \A d \in Caller \ {c} : pc'[d] = pc[d] /\ gen'[d] = gen[d]
    PROVE  SlotInv'
<1>1. PICK g \in Generation :
        /\ g = gen[c] /\ waiters[g] > 0
        /\ \A d \in Caller : pc[d] \in Waiting /\ gen[d] = g /\ waiters[g] <= 1 => d = c
  BY WaitersCounted DEF SlotInv
<1>2. /\ waiters \in [Generation -> Nat]
      /\ completions \in [Generation -> Outcome \union {None}]
      /\ \A d \in Caller : pc[d] \in Waiting => gen[d] \in Generation
  BY ScanAssumption, SMTT(40) DEF CallInv, TypeOK, Generation
<1>3. /\ WaitersOf(g)' = WaitersOf(g) \ {c} /\ c \in WaitersOf(g)
      /\ \A k \in Generation \ {g} : WaitersOf(k)' = WaitersOf(k)
  BY <1>1 DEF WaitersOf
<1>4. /\ waiters' = [waiters EXCEPT ![g] = waiters[g] - 1]
      /\ completions' = IF waiters[g] <= 1 THEN [completions EXCEPT ![g] = None]
                                          ELSE completions
      /\ UNCHANGED <<inFlight, generation>>
  BY <1>1, <1>2 DEF ConsumeWaiter
<1>5. IsFiniteSet(WaitersOf(g)) /\ Cardinality(WaitersOf(g)) \in Nat
  BY WaitersFinite
<1>6. Cardinality(WaitersOf(g) \ {c}) = Cardinality(WaitersOf(g)) - 1
  BY <1>3, <1>5, FS_RemoveElement
<1>7. SlotsReclaimed'
  <2> SUFFICES ASSUME NEW k \in Generation
               PROVE  /\ waiters'[k] = Cardinality(WaitersOf(k)')
                      /\ completions'[k] # None => waiters'[k] > 0
    BY DEF SlotsReclaimed
  <2>1. CASE k = g
    <3>1. waiters[g] = Cardinality(WaitersOf(g)) /\ waiters'[g] = waiters[g] - 1
      BY <1>2, <1>4 DEF SlotInv, SlotsReclaimed
    <3>2. Cardinality(WaitersOf(g)') = waiters'[g]
      BY <1>3, <1>6, <3>1
    <3>3. completions'[g] # None => waiters'[g] > 0
      BY <1>1, <1>2, <1>4, <3>1, SMTT(40)
    <3>4. QED
      BY <2>1, <3>2, <3>3
  <2>2. CASE k # g
    BY <1>1, <1>2, <1>3, <1>4, <2>2 DEF SlotInv, SlotsReclaimed
  <2>3. QED
    BY <2>1, <2>2
<1>8. WaiterServed'
  <2> SUFFICES ASSUME NEW d \in Caller, pc'[d] \in Waiting
               PROVE  \/ gen'[d] = generation' /\ inFlight' # {}
                      \/ completions'[gen'[d]] # None
    BY DEF WaiterServed
  <2>1. d # c /\ pc[d] \in Waiting /\ gen'[d] = gen[d] /\ gen[d] \in Generation
    BY <1>2
  <2>2. \/ gen[d] = generation /\ inFlight # {}
        \/ completions[gen[d]] # None
    BY <2>1 DEF SlotInv, WaiterServed
  <2>3. QED
    BY <1>1, <1>2, <1>4, <2>1, <2>2
<1>9. QED
  BY <1>7, <1>8 DEF SlotInv

LEMMA SlotStep == CallInv /\ LeaseExclusive /\ SlotInv /\ [Next]_vars => SlotInv'
<1> SUFFICES ASSUME CallInv, LeaseExclusive, SlotInv, [Next]_vars PROVE SlotInv'
  OBVIOUS
<1> USE ScanAssumption
    DEF CallInv, TypeOK, Pc, Owning, Waiting, Generation, Outcome, None, At, Goto,
        slotVars, callVars, histVars
<1>1. ASSUME NEW c \in Caller, NEW s \in Scope, Call(c, s) PROVE SlotInv'
  <2>1. Unwaited /\ UNCHANGED <<inFlight, generation>>
    BY <1>1 DEF Call, Unwaited
  <2>2. QED
    BY <2>1, UnwaitedStep
<1>2. ASSUME NEW c \in Caller, Enter(c) PROVE SlotInv'
  <2>1. Unwaited /\ UNCHANGED <<inFlight, generation>>
    BY <1>2 DEF Enter, Unwaited
  <2>2. QED
    BY <2>1, UnwaitedStep
<1>3. ASSUME NEW c \in Caller, Refuse(c) PROVE SlotInv'
  <2>1. Unwaited /\ UNCHANGED <<inFlight, generation>>
    BY <1>3, SMTT(40) DEF Refuse, Return, Unwaited
  <2>2. QED
    BY <2>1, UnwaitedStep
<1>4. ASSUME NEW c \in Caller, ClaimOwned(c) PROVE SlotInv'
  <2>1. Unwaited
    BY <1>4 DEF ClaimOwned, Unwaited
  <2>2. QED
    BY <1>4, <2>1, UnwaitedStep DEF ClaimOwned
<1>5. ASSUME NEW c \in Caller, ClaimShared(c) PROVE SlotInv'
  <2>1. PICK g \in Generation : g = generation
    BY <1>5, SMTT(40) DEF ClaimShared, LeaseExclusive, Owners
  <2>2. /\ pc[c] \notin Waiting /\ pc'[c] \in Waiting /\ gen'[c] = g
        /\ \A d \in Caller \ {c} : pc'[d] = pc[d] /\ gen'[d] = gen[d]
        /\ waiters' = [waiters EXCEPT ![g] = waiters[g] + 1]
        /\ inFlight # {} /\ UNCHANGED <<inFlight, generation, completions>>
    BY <1>5, <2>1 DEF ClaimShared
  <2>3. /\ WaitersOf(g)' = WaitersOf(g) \union {c} /\ c \notin WaitersOf(g)
        /\ \A k \in Generation \ {g} : WaitersOf(k)' = WaitersOf(k)
    BY <2>2, SMTT(40) DEF WaitersOf
  <2>4. Cardinality(WaitersOf(g)') = Cardinality(WaitersOf(g)) + 1
    BY <2>3, WaitersFinite, FS_AddElement
  <2>5. \A k \in Generation : waiters[k] = Cardinality(WaitersOf(k)) /\ waiters[k] \in Nat
    BY DEF SlotInv, SlotsReclaimed
  <2>6. SlotsReclaimed'
    <3> SUFFICES ASSUME NEW k \in Generation
                 PROVE  /\ waiters'[k] = Cardinality(WaitersOf(k)')
                        /\ completions'[k] # None => waiters'[k] > 0
      BY DEF SlotsReclaimed
    <3>1. CASE k = g
      BY <2>2, <2>4, <2>5, <3>1, SMTT(40)
    <3>2. CASE k # g
      BY <2>2, <2>3, <2>5, <3>2, SMTT(40) DEF SlotInv, SlotsReclaimed
    <3>3. QED
      BY <3>1, <3>2
  <2>7. WaiterServed'
    BY <2>1, <2>2, SMTT(40) DEF SlotInv, WaiterServed
  <2>8. QED
    BY <2>6, <2>7 DEF SlotInv
<1>6. ASSUME NEW c \in Caller, CheckRequest(c) PROVE SlotInv'
  <2>1. Unwaited /\ UNCHANGED <<inFlight, generation>>
    BY <1>6 DEF CheckRequest, Unwaited
  <2>2. QED
    BY <2>1, UnwaitedStep
<1>7. ASSUME NEW c \in Caller, SendScan(c) PROVE SlotInv'
  <2>1. Unwaited /\ UNCHANGED <<inFlight, generation>>
    BY <1>7 DEF SendScan, Unwaited
  <2>2. QED
    BY <2>1, UnwaitedStep
<1>8. ASSUME NEW c \in Caller, RetryScan(c) PROVE SlotInv'
  <2>1. Unwaited /\ UNCHANGED <<inFlight, generation>>
    BY <1>8 DEF RetryScan, Unwaited
  <2>2. QED
    BY <2>1, UnwaitedStep
<1>9. ASSUME NEW c \in Caller, FailScan(c) PROVE SlotInv'
  <2>1. Unwaited /\ UNCHANGED <<inFlight, generation>>
    BY <1>9 DEF FailScan, Decide, Unwaited
  <2>2. QED
    BY <2>1, UnwaitedStep
<1>10. ASSUME NEW c \in Caller, CheckScan(c) PROVE SlotInv'
  <2>1. Unwaited /\ UNCHANGED <<inFlight, generation>>
    BY <1>10 DEF CheckScan, Unwaited
  <2>2. QED
    BY <2>1, UnwaitedStep
<1>11. ASSUME NEW c \in Caller, ScanCompleted(c) PROVE SlotInv'
  <2>1. Unwaited /\ UNCHANGED <<inFlight, generation>>
    BY <1>11 DEF ScanCompleted, Decide, Unwaited
  <2>2. QED
    BY <2>1, UnwaitedStep
<1>12. ASSUME NEW c \in Caller, ScanPending(c) PROVE SlotInv'
  <2>1. Unwaited /\ UNCHANGED <<inFlight, generation>>
    BY <1>12 DEF ScanPending, Unwaited
  <2>2. QED
    BY <2>1, UnwaitedStep
<1>13. ASSUME NEW c \in Caller, StopOwner(c) PROVE SlotInv'
  <2>1. pc[c] \in {"requesting", "scanning"} /\ \E o \in Outcome : Decide(c, o)
    BY <1>13 DEF StopOwner
  <2>2. Unwaited /\ UNCHANGED <<inFlight, generation>>
    BY <2>1, SMTT(40) DEF Decide, Unwaited
  <2>3. QED
    BY <2>2, UnwaitedStep
<1>14. ASSUME NEW c \in Caller, PanicOwner(c) PROVE SlotInv'
  <2>1. Unwaited /\ UNCHANGED <<inFlight, generation>>
    BY <1>14 DEF PanicOwner, Decide, Unwaited
  <2>2. QED
    BY <2>1, UnwaitedStep
<1>15. ASSUME NEW c \in Caller, Complete(c) PROVE SlotInv'
  <2>1. PICK g \in Generation :
          g = gen[c] /\ g = generation /\ inFlight # {} /\ outcome[c] # None
    <3>1. c \in Owners
      BY <1>15 DEF Complete, Owners
    <3>2. gen[c] \in Generation /\ outcome[c] # None
      BY <1>15, SMTT(40) DEF Complete
    <3>3. gen[c] = generation /\ inFlight = {scope[c]}
      BY <3>1 DEF LeaseExclusive
    <3>4. QED
      BY <3>2, <3>3
  <2>2. /\ \A d \in Caller :
              /\ pc'[d] \in Waiting <=> pc[d] \in Waiting
              /\ gen'[d] = gen[d]
        /\ UNCHANGED <<generation, waiters>>
    BY <1>15 DEF Complete, Return
  <2>3. completions' = IF waiters[g] > 0 THEN [completions EXCEPT ![g] = outcome[c]]
                                         ELSE completions
    BY <1>15, <2>1 DEF Complete
  <2>4. \A k \in Generation : WaitersOf(k)' = WaitersOf(k)
    BY <2>2, SameWaiters
  <2>5. SlotsReclaimed'
    BY <2>1, <2>2, <2>3, <2>4, SMTT(40) DEF SlotInv, SlotsReclaimed
  <2>6. \A d \in Caller : pc[d] \in Waiting => gen[d] \in Generation /\ waiters[gen[d]] > 0
    BY WaitersCounted DEF SlotInv
  <2>7. WaiterServed'
    BY <2>1, <2>2, <2>3, <2>6, SMTT(40) DEF SlotInv, WaiterServed
  <2>8. QED
    BY <2>5, <2>7 DEF SlotInv
<1>16. ASSUME NEW c \in Caller, WaitCancelled(c) PROVE SlotInv'
  BY <1>16, ConsumeStep DEF WaitCancelled, Return
<1>17. ASSUME NEW c \in Caller, WaitExpired(c) PROVE SlotInv'
  BY <1>17, ConsumeStep DEF WaitExpired, Return
<1>18. ASSUME NEW c \in Caller, WaitBehindOver(c) PROVE SlotInv'
  BY <1>18, ConsumeStep DEF WaitBehindOver
<1>19. ASSUME NEW c \in Caller, WaitJoinedOver(c) PROVE SlotInv'
  BY <1>19, ConsumeStep DEF WaitJoinedOver
<1>20. ASSUME NEW c \in Caller, ClaimAgain(c) PROVE SlotInv'
  <2>1. Unwaited /\ UNCHANGED <<inFlight, generation>>
    BY <1>20 DEF ClaimAgain, Unwaited
  <2>2. QED
    BY <2>1, UnwaitedStep
<1>21. ASSUME NEW c \in Caller, TakeJoinedResult(c) PROVE SlotInv'
  <2>1. Unwaited /\ UNCHANGED <<inFlight, generation>>
    BY <1>21 DEF TakeJoinedResult, Return, Unwaited
  <2>2. QED
    BY <2>1, UnwaitedStep
<1>22. ASSUME NEW c \in Caller, CancelCaller(c) PROVE SlotInv'
  <2>1. Unwaited /\ UNCHANGED <<inFlight, generation>>
    BY <1>22 DEF CancelCaller, Unwaited
  <2>2. QED
    BY <2>1, UnwaitedStep
<1>23. ASSUME NEW c \in Caller, Expire(c) PROVE SlotInv'
  <2>1. Unwaited /\ UNCHANGED <<inFlight, generation>>
    BY <1>23 DEF Expire, Unwaited
  <2>2. QED
    BY <2>1, UnwaitedStep
<1>24. CASE UNCHANGED vars
  <2>1. Unwaited /\ UNCHANGED <<inFlight, generation>>
    BY <1>24 DEF vars, Unwaited
  <2>2. QED
    BY <2>1, UnwaitedStep
<1>25. QED
  BY <1>1, <1>2, <1>3, <1>4, <1>5, <1>6, <1>7, <1>8, <1>9, <1>10, <1>11,
     <1>12, <1>13, <1>14, <1>15, <1>16, <1>17, <1>18, <1>19, <1>20, <1>21,
     <1>22, <1>23, <1>24, SMTT(40), ZenonT(60) DEF Next, Claim, Own, Wait

-----------------------------------------------------------------------------
LEMMA OutcomeStep == CallInv /\ LeaseExclusive /\ OutcomeInv /\ [Next]_vars => OutcomeInv'
<1> SUFFICES ASSUME CallInv, LeaseExclusive, OutcomeInv, [Next]_vars PROVE OutcomeInv'
  OBVIOUS
<1> USE ScanAssumption
    DEF CallInv, OutcomeInv, TypeOK, Pc, Owning, Waiting, Generation, Outcome, None, At, Goto,
        slotVars, callVars, histVars
<1>1. ASSUME NEW c \in Caller, NEW s \in Scope, Call(c, s) PROVE OutcomeInv'
  BY <1>1 DEF Call
<1>2. ASSUME NEW c \in Caller, Enter(c) PROVE OutcomeInv'
  BY <1>2 DEF Enter
<1>3. ASSUME NEW c \in Caller, Refuse(c) PROVE OutcomeInv'
  <2>1. pc[c] = "entered" /\ \E o \in Outcome : Return(c, o)
    BY <1>3 DEF Refuse
  <2>2. QED
    BY <1>3, <2>1, SMTT(40) DEF Refuse, Return
<1>4. ASSUME NEW c \in Caller, ClaimOwned(c) PROVE OutcomeInv'
  BY <1>4, SMTT(40) DEF ClaimOwned
<1>5. ASSUME NEW c \in Caller, ClaimShared(c) PROVE OutcomeInv'
  BY <1>5, SMTT(40) DEF ClaimShared
<1>6. ASSUME NEW c \in Caller, CheckRequest(c) PROVE OutcomeInv'
  BY <1>6, SMTT(40) DEF CheckRequest
<1>7. ASSUME NEW c \in Caller, SendScan(c) PROVE OutcomeInv'
  BY <1>7, SMTT(40) DEF SendScan
<1>8. ASSUME NEW c \in Caller, RetryScan(c) PROVE OutcomeInv'
  BY <1>8 DEF RetryScan
<1>9. ASSUME NEW c \in Caller, FailScan(c) PROVE OutcomeInv'
  BY <1>9, SMTT(40) DEF FailScan, Decide
<1>10. ASSUME NEW c \in Caller, CheckScan(c) PROVE OutcomeInv'
  BY <1>10 DEF CheckScan
<1>11. ASSUME NEW c \in Caller, ScanCompleted(c) PROVE OutcomeInv'
  BY <1>11, SMTT(40) DEF ScanCompleted, Decide
<1>12. ASSUME NEW c \in Caller, ScanPending(c) PROVE OutcomeInv'
  BY <1>12, SMTT(40) DEF ScanPending
<1>13. ASSUME NEW c \in Caller, StopOwner(c) PROVE OutcomeInv'
  <2>1. pc[c] \in {"requesting", "scanning"} /\ \E o \in Outcome : Decide(c, o)
    BY <1>13 DEF StopOwner
  <2>2. QED
    BY <2>1, SMTT(40) DEF Decide
<1>14. ASSUME NEW c \in Caller, PanicOwner(c) PROVE OutcomeInv'
  BY <1>14 DEF PanicOwner, Decide
<1>15. ASSUME NEW c \in Caller, Complete(c) PROVE OutcomeInv'
  <2>1. PICK g \in Generation : g = gen[c] /\ g = generation /\ inFlight # {}
    <3>1. c \in Owners
      BY <1>15 DEF Complete, Owners
    <3>2. gen[c] \in Generation
      BY <1>15, SMTT(40) DEF Complete
    <3>3. gen[c] = generation /\ inFlight = {scope[c]}
      BY <3>1 DEF LeaseExclusive
    <3>4. QED
      BY <3>2, <3>3
  <2>2. /\ inFlight' = {}
        /\ completions' \in {completions, [completions EXCEPT ![g] = outcome[c]]}
        /\ outcomeOf' = [outcomeOf EXCEPT ![g] = outcome[c]]
        /\ pc' = [pc EXCEPT ![c] = "done"]
        /\ outcome' = [outcome EXCEPT ![c] = None]
        /\ UNCHANGED <<generation, scope, gen, scopeOf>>
    BY <1>15, <2>1 DEF Complete, Return
  <2>3. outcomeOf[g] = None /\ completions[g] = None
    BY <2>1, SMTT(40)
  <2>4. \A d \in Caller : pc[d] = "decided" => gen[d] # g
    BY <2>3, SMTT(40)
  <2>5. QED
    BY <2>1, <2>2, <2>3, <2>4, SMTT(40)
<1>16. ASSUME NEW c \in Caller, WaitCancelled(c) PROVE OutcomeInv'
  BY <1>16 DEF WaitCancelled, Return, ConsumeWaiter
<1>17. ASSUME NEW c \in Caller, WaitExpired(c) PROVE OutcomeInv'
  BY <1>17, SMTT(40) DEF WaitExpired, Return, ConsumeWaiter
<1>18. ASSUME NEW c \in Caller, WaitBehindOver(c) PROVE OutcomeInv'
  BY <1>18 DEF WaitBehindOver, ConsumeWaiter
<1>19. ASSUME NEW c \in Caller, WaitJoinedOver(c) PROVE OutcomeInv'
  BY <1>19, SMTT(40) DEF WaitJoinedOver, ConsumeWaiter
<1>20. ASSUME NEW c \in Caller, ClaimAgain(c) PROVE OutcomeInv'
  BY <1>20 DEF ClaimAgain
<1>21. ASSUME NEW c \in Caller, TakeJoinedResult(c) PROVE OutcomeInv'
  BY <1>21 DEF TakeJoinedResult, Return
<1>22. ASSUME NEW c \in Caller, CancelCaller(c) PROVE OutcomeInv'
  BY <1>22 DEF CancelCaller
<1>23. ASSUME NEW c \in Caller, Expire(c) PROVE OutcomeInv'
  BY <1>23 DEF Expire
<1>24. CASE UNCHANGED vars
  BY <1>24 DEF vars
<1>25. QED
  BY <1>1, <1>2, <1>3, <1>4, <1>5, <1>6, <1>7, <1>8, <1>9, <1>10, <1>11,
     <1>12, <1>13, <1>14, <1>15, <1>16, <1>17, <1>18, <1>19, <1>20, <1>21,
     <1>22, <1>23, <1>24 DEF Next, Claim, Own, Wait

LEMMA SuccessStep ==
    CallInv /\ LeaseExclusive /\ OutcomeInv /\ SuccessCovers /\ [Next]_vars => SuccessCovers'
<1> SUFFICES ASSUME CallInv, LeaseExclusive, OutcomeInv, SuccessCovers, [Next]_vars PROVE SuccessCovers'
  OBVIOUS
<1> USE ScanAssumption DEF Generation, Outcome, None, At, Goto, slotVars, callVars, histVars
<1>a. /\ pc \in [Caller -> Pc] /\ res \in [Caller -> Outcome \union {None}]
      /\ gen \in [Caller -> 0..MaxGeneration] /\ scope \in [Caller -> Scope]
      /\ scopeOf \in [Generation -> Scope]
      /\ outcomeOf \in [Generation -> Outcome \union {None}]
      /\ generation \in 0..MaxGeneration
  BY DEF CallInv, TypeOK
<1>b. \A d \in Caller : pc[d] # "done" => res[d] = None
  BY DEF CallInv
<1>c. \A d \in Caller : res[d] = "ok" =>
          gen[d] # 0 /\ outcomeOf[gen[d]] = "ok" /\ Covers(scopeOf[gen[d]], scope[d])
  BY DEF SuccessCovers
<1>1. ASSUME NEW c \in Caller, NEW s \in Scope, Call(c, s) PROVE SuccessCovers'
  BY <1>1, <1>a, <1>b, <1>c DEF Call, SuccessCovers
<1>2. ASSUME NEW c \in Caller, Enter(c) PROVE SuccessCovers'
  BY <1>2, <1>a, <1>b, <1>c DEF Enter, SuccessCovers
<1>3. ASSUME NEW c \in Caller, Refuse(c) PROVE SuccessCovers'
  <2>1. PICK o \in Outcome \ {"ok"} : Return(c, o)
    BY <1>3 DEF Refuse
  <2>2. QED
    BY <1>3, <2>1, <1>a, <1>c DEF Refuse, Return, SuccessCovers
<1>4. ASSUME NEW c \in Caller, ClaimOwned(c) PROVE SuccessCovers'
  <2>1. \A d \in Caller : gen[d] <= generation
    BY DEF CallInv
  <2>2. /\ pc[c] = "claiming" /\ generation + 1 \in Generation
        /\ res' = res /\ scope' = scope /\ outcomeOf' = outcomeOf
        /\ gen' = [gen EXCEPT ![c] = generation + 1]
        /\ scopeOf' = [scopeOf EXCEPT ![generation + 1] = scope[c]]
    BY <1>4, <1>a, SMTT(40) DEF ClaimOwned
  <2>3. SUFFICES ASSUME NEW d \in Caller, res[d] = "ok"
                 PROVE gen'[d] # 0 /\ outcomeOf[gen'[d]] = "ok" /\ Covers(scopeOf'[gen'[d]], scope[d])
    BY <2>2 DEF SuccessCovers
  <2>4. d # c /\ gen'[d] = gen[d] /\ gen[d] \in Generation /\ gen[d] # generation + 1
    BY <2>1, <2>2, <2>3, <1>a, <1>b, <1>c, SMTT(40)
  <2>5. scopeOf'[gen[d]] = scopeOf[gen[d]]
    BY <2>2, <2>4, <1>a
  <2>6. QED
    BY <2>3, <2>4, <2>5, <1>c
<1>5. ASSUME NEW c \in Caller, ClaimShared(c) PROVE SuccessCovers'
  BY <1>5, <1>a, <1>b, <1>c DEF ClaimShared, SuccessCovers
<1>6. ASSUME NEW c \in Caller, CheckRequest(c) PROVE SuccessCovers'
  BY <1>6, <1>a, <1>b, <1>c DEF CheckRequest, SuccessCovers
<1>7. ASSUME NEW c \in Caller, SendScan(c) PROVE SuccessCovers'
  BY <1>7, <1>a, <1>b, <1>c DEF SendScan, SuccessCovers
<1>8. ASSUME NEW c \in Caller, RetryScan(c) PROVE SuccessCovers'
  BY <1>8, <1>a, <1>b, <1>c DEF RetryScan, SuccessCovers
<1>9. ASSUME NEW c \in Caller, FailScan(c) PROVE SuccessCovers'
  BY <1>9, <1>a, <1>b, <1>c DEF FailScan, Decide, SuccessCovers
<1>10. ASSUME NEW c \in Caller, CheckScan(c) PROVE SuccessCovers'
  BY <1>10, <1>a, <1>b, <1>c DEF CheckScan, SuccessCovers
<1>11. ASSUME NEW c \in Caller, ScanCompleted(c) PROVE SuccessCovers'
  BY <1>11, <1>a, <1>b, <1>c DEF ScanCompleted, Decide, SuccessCovers
<1>12. ASSUME NEW c \in Caller, ScanPending(c) PROVE SuccessCovers'
  BY <1>12, <1>a, <1>b, <1>c DEF ScanPending, SuccessCovers
<1>13. ASSUME NEW c \in Caller, StopOwner(c) PROVE SuccessCovers'
  BY <1>13, <1>a, <1>b, <1>c DEF StopOwner, Decide, SuccessCovers
<1>14. ASSUME NEW c \in Caller, PanicOwner(c) PROVE SuccessCovers'
  BY <1>14, <1>a, <1>b, <1>c DEF PanicOwner, Decide, SuccessCovers
<1>15. ASSUME NEW c \in Caller, Complete(c) PROVE SuccessCovers'
  <2>1. PICK g \in Generation : g = gen[c] /\ g = generation /\ inFlight # {}
    <3>1. c \in Owners
      BY <1>15 DEF Complete, Owners, Owning
    <3>2. gen[c] \in Generation
      BY <1>15, <1>a, SMTT(40) DEF Complete, CallInv, Owning
    <3>3. gen[c] = generation /\ inFlight = {scope[c]}
      BY <3>1 DEF LeaseExclusive
    <3>4. QED
      BY <3>2, <3>3
  <2>2. /\ outcomeOf' = [outcomeOf EXCEPT ![g] = outcome[c]]
        /\ res' = [res EXCEPT ![c] = outcome[c]]
        /\ scope' = scope /\ gen' = gen /\ scopeOf' = scopeOf
    BY <1>15, <2>1 DEF Complete, Return
  <2>3. outcomeOf[g] = None
    BY <2>1 DEF OutcomeInv
  <2>4. Covers(scopeOf[g], scope[c])
    <3>1. pc[c] = "publishing"
      BY <1>15 DEF Complete
    <3>2. scopeOf[gen[c]] = scope[c]
      BY <3>1 DEF OutcomeInv, Owning
    <3>3. Covers(scope[c], scope[c])
      BY DEF Covers
    <3>4. QED
      BY <3>2, <3>3, <2>1
  <2>5. SUFFICES ASSUME NEW d \in Caller, res'[d] = "ok"
                 PROVE gen[d] # 0 /\ outcomeOf'[gen[d]] = "ok" /\ Covers(scopeOf[gen[d]], scope[d])
    BY <2>2 DEF SuccessCovers
  <2>6. CASE d = c
    <3>1. outcome[c] = "ok" /\ outcomeOf'[g] = outcome[c]
      BY <2>2, <2>5, <2>6, <1>a
    <3>2. gen[d] = g /\ g # 0
      <4>1. gen[d] = g
        BY <2>1, <2>6
      <4>2. QED
        BY <4>1, SMTT(40)
    <3>3. Covers(scopeOf[gen[d]], scope[d])
      BY <3>2, <2>4, <2>6
    <3>4. QED
      BY <3>1, <3>2, <3>3
  <2>7. CASE d # c
    <3>1. res[d] = "ok"
      BY <2>2, <2>5, <2>7, <1>a
    <3>2. gen[d] \in Generation /\ gen[d] # g
      BY <3>1, <2>3, <1>a, <1>c, SMTT(40)
    <3>3. outcomeOf'[gen[d]] = outcomeOf[gen[d]]
      BY <3>2, <2>2, <1>a
    <3>4. QED
      BY <3>1, <3>3, <1>c
  <2>8. QED
    BY <2>6, <2>7
<1>16. ASSUME NEW c \in Caller, WaitCancelled(c) PROVE SuccessCovers'
  BY <1>16, <1>a, <1>b, <1>c DEF WaitCancelled, Return, ConsumeWaiter, SuccessCovers
<1>17. ASSUME NEW c \in Caller, WaitExpired(c) PROVE SuccessCovers'
  BY <1>17, <1>a, <1>b, <1>c DEF WaitExpired, Return, ConsumeWaiter, SuccessCovers
<1>18. ASSUME NEW c \in Caller, WaitBehindOver(c) PROVE SuccessCovers'
  BY <1>18, <1>a, <1>b, <1>c DEF WaitBehindOver, ConsumeWaiter, SuccessCovers
<1>19. ASSUME NEW c \in Caller, WaitJoinedOver(c) PROVE SuccessCovers'
  BY <1>19, <1>a, <1>b, <1>c DEF WaitJoinedOver, ConsumeWaiter, SuccessCovers
<1>20. ASSUME NEW c \in Caller, ClaimAgain(c) PROVE SuccessCovers'
  BY <1>20, <1>a, <1>b, <1>c DEF ClaimAgain, SuccessCovers
<1>21. ASSUME NEW c \in Caller, TakeJoinedResult(c) PROVE SuccessCovers'
  <2>1. pc[c] = "decided" /\ UNCHANGED <<scope, gen, scopeOf, outcomeOf>>
    BY <1>21 DEF TakeJoinedResult
  <2>2. gen[c] # 0 /\ outcome[c] = outcomeOf[gen[c]] /\ Covers(scopeOf[gen[c]], scope[c])
    BY <2>1 DEF OutcomeInv, CallInv
  <2>3. QED
    BY <1>21, <2>1, <2>2, <1>a, <1>c DEF TakeJoinedResult, Return, SuccessCovers
<1>22. ASSUME NEW c \in Caller, CancelCaller(c) PROVE SuccessCovers'
  BY <1>22, <1>a, <1>b, <1>c DEF CancelCaller, SuccessCovers
<1>23. ASSUME NEW c \in Caller, Expire(c) PROVE SuccessCovers'
  BY <1>23, <1>a, <1>b, <1>c DEF Expire, SuccessCovers
<1>24. CASE UNCHANGED vars
  BY <1>24, <1>c DEF vars, SuccessCovers
<1>25. QED
  BY <1>1, <1>2, <1>3, <1>4, <1>5, <1>6, <1>7, <1>8, <1>9, <1>10, <1>11,
     <1>12, <1>13, <1>14, <1>15, <1>16, <1>17, <1>18, <1>19, <1>20, <1>21,
     <1>22, <1>23, <1>24, SMTT(40), ZenonT(60) DEF Next, Claim, Own, Wait

-----------------------------------------------------------------------------
\* An owner that publishes a cancellation was cancelled itself.
CancelInv ==
    /\ \A c \in Caller : pc[c] = "publishing" /\ outcome[c] = "cancelled" => cancelled[c]
    /\ CancellationContained

LEMMA CancelStep == CallInv /\ CancelInv /\ [Next]_vars => CancelInv'
<1> SUFFICES ASSUME CallInv, CancelInv, [Next]_vars PROVE CancelInv'
  OBVIOUS
<1>a. /\ pc \in [Caller -> Pc] /\ outcome \in [Caller -> Outcome \union {None}]
      /\ res \in [Caller -> Outcome \union {None}]
      /\ cancelled \in [Caller -> BOOLEAN] /\ expired \in [Caller -> BOOLEAN]
  BY DEF CallInv, TypeOK
<1>b. \A c \in Caller : pc[c] # "done" => res[c] = None
  BY DEF CallInv
<1> USE <1>a, <1>b DEF CancelInv, CancellationContained, None, At, Goto, slotVars, callVars,
        histVars
<1>1. ASSUME NEW c \in Caller, NEW s \in Scope, Call(c, s) PROVE CancelInv'
  BY <1>1 DEF Call
<1>2. ASSUME NEW c \in Caller, Enter(c) PROVE CancelInv'
  BY <1>2 DEF Enter
<1>3. ASSUME NEW c \in Caller, Refuse(c) PROVE CancelInv'
  BY <1>3, SMTT(40) DEF Refuse, Return
<1>4. ASSUME NEW c \in Caller, ClaimOwned(c) PROVE CancelInv'
  BY <1>4 DEF ClaimOwned
<1>5. ASSUME NEW c \in Caller, ClaimShared(c) PROVE CancelInv'
  BY <1>5 DEF ClaimShared
<1>6. ASSUME NEW c \in Caller, CheckRequest(c) PROVE CancelInv'
  BY <1>6 DEF CheckRequest
<1>7. ASSUME NEW c \in Caller, SendScan(c) PROVE CancelInv'
  BY <1>7 DEF SendScan
<1>8. ASSUME NEW c \in Caller, RetryScan(c) PROVE CancelInv'
  BY <1>8 DEF RetryScan
<1>9. ASSUME NEW c \in Caller, FailScan(c) PROVE CancelInv'
  BY <1>9, SMTT(40) DEF FailScan, Decide
<1>10. ASSUME NEW c \in Caller, CheckScan(c) PROVE CancelInv'
  BY <1>10 DEF CheckScan
<1>11. ASSUME NEW c \in Caller, ScanCompleted(c) PROVE CancelInv'
  BY <1>11 DEF ScanCompleted, Decide
<1>12. ASSUME NEW c \in Caller, ScanPending(c) PROVE CancelInv'
  BY <1>12 DEF ScanPending
<1>13. ASSUME NEW c \in Caller, StopOwner(c) PROVE CancelInv'
  BY <1>13 DEF StopOwner, Decide
<1>14. ASSUME NEW c \in Caller, PanicOwner(c) PROVE CancelInv'
  BY <1>14 DEF PanicOwner, Decide
<1>15. ASSUME NEW c \in Caller, Complete(c) PROVE CancelInv'
  BY <1>15 DEF Complete, Return
<1>16. ASSUME NEW c \in Caller, WaitCancelled(c) PROVE CancelInv'
  BY <1>16 DEF WaitCancelled, Return
<1>17. ASSUME NEW c \in Caller, WaitExpired(c) PROVE CancelInv'
  BY <1>17 DEF WaitExpired, Return
<1>18. ASSUME NEW c \in Caller, WaitBehindOver(c) PROVE CancelInv'
  BY <1>18 DEF WaitBehindOver
<1>19. ASSUME NEW c \in Caller, WaitJoinedOver(c) PROVE CancelInv'
  BY <1>19 DEF WaitJoinedOver
<1>20. ASSUME NEW c \in Caller, ClaimAgain(c) PROVE CancelInv'
  BY <1>20 DEF ClaimAgain
<1>21. ASSUME NEW c \in Caller, TakeJoinedResult(c) PROVE CancelInv'
  BY <1>21 DEF TakeJoinedResult, Return, OwnerScoped
<1>22. ASSUME NEW c \in Caller, CancelCaller(c) PROVE CancelInv'
  BY <1>22 DEF CancelCaller
<1>23. ASSUME NEW c \in Caller, Expire(c) PROVE CancelInv'
  BY <1>23 DEF Expire
<1>24. CASE UNCHANGED vars
  BY <1>24 DEF vars
<1>25. QED
  BY <1>1, <1>2, <1>3, <1>4, <1>5, <1>6, <1>7, <1>8, <1>9, <1>10, <1>11,
     <1>12, <1>13, <1>14, <1>15, <1>16, <1>17, <1>18, <1>19, <1>20, <1>21,
     <1>22, <1>23, <1>24 DEF Next, Claim, Own, Wait

-----------------------------------------------------------------------------
ScanInv ==
    /\ CallInv /\ LeaseExclusive /\ SlotInv /\ OutcomeInv
    /\ SuccessCovers /\ CancelInv

LEMMA InitInv == Init => ScanInv
<1> SUFFICES ASSUME Init PROVE ScanInv
  OBVIOUS
<1> USE ScanAssumption DEF Init, Generation, Waiting, Owning
<1>1. CallInv
  BY SMTT(40) DEF CallInv, TypeOK, Pc, Outcome, None
<1>2. LeaseExclusive /\ WaiterServed /\ SuccessCovers
  BY DEF LeaseExclusive, Owners, WaiterServed, SuccessCovers, None
<1>3. SlotsReclaimed
  <2>1. \A g \in Generation : WaitersOf(g) = {}
    BY DEF WaitersOf
  <2>2. QED
    BY <2>1, FS_EmptySet DEF SlotsReclaimed
<1>4. OutcomeInv
  BY DEF OutcomeInv, None
<1>5. CancelInv
  BY DEF CancelInv, CancellationContained, None
<1>6. QED
  BY <1>1, <1>2, <1>3, <1>4, <1>5 DEF ScanInv, SlotInv

\* The conjunction is inductive.
THEOREM Inductive == Spec => []ScanInv
<1>1. ScanInv /\ [Next]_vars => ScanInv'
  BY CallStep, LeaseStep, SlotStep, OutcomeStep, SuccessStep, CancelStep DEF ScanInv
<1>2. QED
  BY <1>1, InitInv, PTL DEF Spec

\* The types of the schedule and of its callers.
THEOREM TypeCorrect == Spec => []TypeOK
<1>1. ScanInv => TypeOK
  BY DEF ScanInv, CallInv
<1>2. QED
  BY <1>1, Inductive, PTL

\* One owner per device, for exactly as long as the device is marked busy
\* (ScanScheduler::claim and complete, ScanLease's Drop).
THEOREM LeaseIsExclusive == Spec => []LeaseExclusive
<1>1. ScanInv => LeaseExclusive
  BY DEF ScanInv
<1>2. QED
  BY <1>1, Inductive, PTL

\* No waiter is left without an outcome to come (complete, consume_waiter).
THEOREM WaitersAreServed == Spec => []WaiterServed
<1>1. ScanInv => WaiterServed
  BY DEF ScanInv, SlotInv
<1>2. QED
  BY <1>1, Inductive, PTL

\* No count and no outcome outlives its waiters (complete, consume_waiter).
THEOREM SlotsAreReclaimed == Spec => []SlotsReclaimed
<1>1. ScanInv => SlotsReclaimed
  BY DEF ScanInv, SlotInv
<1>2. QED
  BY <1>1, Inductive, PTL

\* Success is reported for scans that cover the request only
\* (scan_scope_covers, joined_scan_result).
THEOREM SuccessIsCovering == Spec => []SuccessCovers
<1>1. ScanInv => SuccessCovers
  BY DEF ScanInv
<1>2. QED
  BY <1>1, Inductive, PTL

\* A cancellation stays with the caller that was cancelled
\* (shared_owner_failure_is_retryable, wait_for_joined_scan).
THEOREM CancellationIsContained == Spec => []CancellationContained
<1>1. ScanInv => CancellationContained
  BY DEF ScanInv, CancelInv
<1>2. QED
  BY <1>1, Inductive, PTL

-----------------------------------------------------------------------------
\* The cached network list and its background refresh.

Terminal == {"complete", "error", "cancelled"}
ScanEvents == Terminal \cup {"status", "warning", "snapshot"}
ReadPlaces == {"start", "cache", "live", "submit", "answer", "failed"}
ScanPlaces == {"idle", "start", "scan", "check", "save", "report", "complete", "failed"}

ReaderType ==
    [pc : ReadPlaces, source : {"none", "cache", "networkmanager"}, stale : BOOLEAN, at : Nat,
     read : Nat, requested : BOOLEAN, cached : BOOLEAN, refresh : BOOLEAN]
ScannerType ==
    [pc : ScanPlaces, strict : BOOLEAN, cache : BOOLEAN, cancel : BOOLEAN,
     told : Seq(ScanEvents)]

SnapType ==
    /\ age \in Nat /\ work \in Nat /\ pending \in BOOLEAN
    /\ saved \in [st : {"available", "unavailable"}, at : Nat]
    /\ reader \in [Readers -> ReaderType]
    /\ scanner \in [Scans -> ScannerType]

Submits(r) == reader[r].pc = "submit"
Runs == scanner[Refresh].pc # "idle"

\* One refresh is being submitted, or is queued, or runs, behind the gate.
GateInv ==
    /\ \A r \in Readers : Submits(r) =>
         /\ pending /\ work = 0 /\ ~Runs
         /\ \A s \in Readers : Submits(s) => s = r
    /\ work # 0 => work = 1 /\ pending /\ ~Runs
    /\ Runs => pending
    /\ pending => panicked \/ work = 1 \/ Runs \/ \E r \in Readers : Submits(r)

\* What a reader will answer is settled when it reads.
ReadHonest(v) ==
    v.source = "cache" =>
        /\ v.cached
        /\ v.stale <=> v.read - v.at > StaleAfter
        /\ v.requested => v.stale /\ v.refresh
ReadStands(v) ==
    /\ v.pc = "cache" => v.cached
    /\ v.pc \in {"submit", "answer"} => ReadHonest(v)
ReadInv == \A r \in Readers : ReadStands(reader[r])

\* The events of a scan, by where the scan is.
EventsInv(place, told) ==
    /\ \A i \in 1..Len(told) : told[i] \in Terminal => i = Len(told)
    /\ \A i \in 1..Len(told) : told[i] = "complete" => told[i - 1] = "snapshot"
    /\ place \notin {"complete", "failed"} => \A i \in 1..Len(told) : told[i] \notin Terminal
    /\ place = "report" => Len(told) > 0 /\ told[Len(told)] = "snapshot"
ScannerInv == \A x \in Scans : EventsInv(scanner[x].pc, scanner[x].told)

SnapInv == SnapType /\ GateInv /\ ReadInv /\ ScannerInv

\* Event e may be told at place by a scan that goes on at q.
MayTell(place, e, q) ==
    /\ place \notin {"complete", "failed"}
    /\ \/ e \notin Terminal /\ (q = "report" => e = "snapshot")
       \/ e \in {"error", "cancelled"} /\ q = "failed"
       \/ e = "complete" /\ q = "complete" /\ place = "report"

LEMMA EventAdded ==
    ASSUME NEW place, NEW q, NEW s \in Seq(ScanEvents), NEW e \in ScanEvents,
           EventsInv(place, s), MayTell(place, e, q)
    PROVE  Append(s, e) \in Seq(ScanEvents) /\ EventsInv(q, Append(s, e))
<1> DEFINE t == Append(s, e)
<1>1. /\ t \in Seq(ScanEvents) /\ Len(t) = Len(s) + 1 /\ Len(s) \in Nat
      /\ t[Len(s) + 1] = e
      /\ \A i \in 1..Len(s) : t[i] = s[i]
  BY SMTT(40)
<1>2. \A i \in 1..Len(s) : s[i] \notin Terminal
  BY DEF EventsInv, MayTell
<1>3. "complete" \in Terminal
  BY DEF Terminal
<1> HIDE DEF t
<1>4. \A i \in 1..Len(t) : t[i] \in Terminal => i = Len(t)
  BY <1>1, <1>2, SMTT(40)
<1>5. \A i \in 1..Len(t) : t[i] = "complete" => t[i - 1] = "snapshot"
  <2> SUFFICES ASSUME NEW i \in 1..Len(t), t[i] = "complete" PROVE t[i - 1] = "snapshot"
    OBVIOUS
  <2>1. i = Len(t) /\ i = Len(s) + 1 /\ i - 1 = Len(s)
    BY <1>1, <1>3, <1>4, SMTT(40)
  <2>2. place = "report"
    BY <1>1, <1>3, <2>1 DEF MayTell
  <2>3. Len(s) \in 1..Len(s) /\ s[Len(s)] = "snapshot"
    BY <1>1, <2>2, SMTT(40) DEF EventsInv
  <2> QED
    BY <1>1, <2>1, <2>3
<1>6. ASSUME q \notin {"complete", "failed"}, NEW i \in 1..Len(t) PROVE t[i] \notin Terminal
  <2>1. e \notin Terminal
    BY <1>6 DEF MayTell
  <2>2. i \in 1..Len(s) \/ i = Len(s) + 1
    BY <1>1, SMTT(40)
  <2> QED
    BY <1>1, <1>2, <2>1, <2>2
<1>7. q = "report" => Len(t) > 0 /\ t[Len(t)] = "snapshot"
  BY <1>1, SMTT(40) DEF MayTell
<1>8. t \in Seq(ScanEvents) /\ EventsInv(q, t)
  BY <1>1, <1>4, <1>5, <1>6, <1>7 DEF EventsInv
<1> QED
  BY <1>8 DEF t

\* A step of one scan, by the record it leaves.
LEMMA ScanMoves ==
    ASSUME SnapInv, NEW x \in Scans, NEW c \in ScannerType, scanner' = [scanner EXCEPT ![x] = c],
           EventsInv(c.pc, c.told), c.pc = "idle" <=> scanner[x].pc = "idle",
           saved' \in [st : {"available", "unavailable"}, at : Nat],
           UNCHANGED <<age, pending, work, reader, panicked>>
    PROVE  SnapInv'
<1>1. /\ scanner' \in [Scans -> ScannerType]
      /\ scanner'[x] = c
      /\ \A y \in Scans : y # x => scanner'[y] = scanner[y]
  BY DEF SnapInv, SnapType
<1>2. SnapType'
  BY <1>1 DEF SnapInv, SnapType
<1>3. Runs' <=> Runs
  BY <1>1 DEF Runs, Scans
<1>4. GateInv'
  BY <1>3 DEF SnapInv, GateInv, Submits
<1>5. ReadInv'
  BY DEF SnapInv, ReadInv
<1>6. ScannerInv'
  BY <1>1 DEF SnapInv, ScannerInv
<1> QED
  BY <1>2, <1>4, <1>5, <1>6 DEF SnapInv

\* The record a scan is left with when it tells an event and moves on.
Left(x, e, p, c) ==
    /\ c.pc = p /\ c.told = Append(scanner[x].told, e)
    /\ [Tell(x, e) EXCEPT ![x].pc = p] = [scanner EXCEPT ![x] = c]

LEMMA Told ==
    ASSUME SnapType, NEW x \in Scans, NEW e \in ScanEvents, NEW p \in ScanPlaces
    PROVE  \E c \in ScannerType : Left(x, e, p, c)
<1> DEFINE c == [[scanner[x] EXCEPT !.told = Append(scanner[x].told, e)] EXCEPT !.pc = p]
<1>1. scanner \in [Scans -> ScannerType] /\ scanner[x] \in ScannerType
  BY DEF SnapType
<1>2. Append(scanner[x].told, e) \in Seq(ScanEvents)
  BY <1>1, SMTT(40) DEF ScannerType
<1>3. c \in ScannerType /\ c.pc = p /\ c.told = Append(scanner[x].told, e)
  BY <1>1, <1>2 DEF ScannerType
<1>4. [Tell(x, e) EXCEPT ![x].pc = p] = [scanner EXCEPT ![x] = c]
  BY <1>1 DEF Tell
<1> HIDE DEF c
<1> QED
  BY <1>3, <1>4 DEF Left

\* A step of one reader, by the record it leaves.
LEMMA ReadMoves ==
    ASSUME SnapInv, NEW r \in Readers, NEW c \in ReaderType, reader' = [reader EXCEPT ![r] = c],
           ReadStands(c), UNCHANGED <<age, saved, scanner, panicked>>,
           \/ ~Submits(r) /\ c.pc # "submit" /\ UNCHANGED <<pending, work>>
           \/ ~pending /\ c.pc = "submit" /\ pending' = TRUE /\ UNCHANGED work
           \/ /\ Submits(r) /\ c.pc # "submit"
              /\ \/ work' = work + 1 /\ UNCHANGED pending
                 \/ pending' = FALSE /\ UNCHANGED work
    PROVE  SnapInv'
<1>1. /\ reader' \in [Readers -> ReaderType]
      /\ reader'[r] = c
      /\ \A s \in Readers : s # r => reader'[s] = reader[s]
  BY DEF SnapInv, SnapType
<1>t. SnapType /\ GateInv /\ ReadInv /\ ScannerInv
  BY DEF SnapInv
<1>2. SnapType'
  <2>1. work' \in Nat
    BY <1>t, SMTT(40) DEF SnapType
  <2>2. pending' \in BOOLEAN
    BY <1>t DEF SnapType
  <2> QED
    BY <1>1, <1>t, <2>1, <2>2 DEF SnapType
<1>3. /\ Submits(r)' <=> c.pc = "submit"
      /\ \A s \in Readers : s # r => (Submits(s)' <=> Submits(s))
      /\ Runs' <=> Runs
  BY <1>1 DEF Submits, Runs
<1>4. GateInv'
  <2>1. CASE ~Submits(r) /\ c.pc # "submit" /\ UNCHANGED <<pending, work>>
    BY <1>t, <1>3, <2>1 DEF GateInv
  <2>2. CASE ~pending /\ c.pc = "submit" /\ pending' = TRUE /\ UNCHANGED work
    <3>1. work = 0 /\ ~Runs /\ \A s \in Readers : ~Submits(s)
      BY <1>t, <2>2 DEF GateInv
    <3> QED
      BY <1>3, <2>2, <3>1 DEF GateInv
  <2>3. CASE Submits(r) /\ c.pc # "submit" /\ work' = work + 1 /\ UNCHANGED pending
    <3>1. work = 0 /\ ~Runs /\ pending /\ \A s \in Readers : s # r => ~Submits(s)
      BY <1>t, <2>3 DEF GateInv
    <3>2. work' = 1
      BY <2>3, <3>1, SMTT(40)
    <3> QED
      BY <1>3, <2>3, <3>1, <3>2 DEF GateInv
  <2>4. CASE Submits(r) /\ c.pc # "submit" /\ pending' = FALSE /\ UNCHANGED work
    <3>1. work = 0 /\ ~Runs /\ \A s \in Readers : s # r => ~Submits(s)
      BY <1>t, <2>4 DEF GateInv
    <3> QED
      BY <1>3, <2>4, <3>1 DEF GateInv
  <2> QED
    BY <2>1, <2>2, <2>3, <2>4
<1>5. ReadInv'
  BY <1>1, <1>t DEF ReadInv
<1>6. ScannerInv'
  BY <1>t DEF ScannerInv
<1> QED
  BY <1>2, <1>4, <1>5, <1>6 DEF SnapInv

LEMMA SnapInitial ==
    SnapInit => SnapInv
<1> SUFFICES ASSUME SnapInit PROVE SnapInv
  OBVIOUS
<1>c. PICK cast \in SnapCasts : reader = ReadsOf(cast) /\ scanner = ScansOf(cast)
  BY DEF SnapInit
<1>1. /\ reader \in [Readers -> ReaderType]
      /\ \A r \in Readers : reader[r].pc = "start"
  <2>1. ASSUME NEW r \in Readers
        PROVE  /\ reader[r] = [NoRead EXCEPT !.cached = cast[r].cached, !.refresh = cast[r].refresh]
               /\ cast[r].cached \in BOOLEAN /\ cast[r].refresh \in BOOLEAN
    BY <1>c, SnapshotAssumption DEF ReadsOf
  <2>2. NoRead \in ReaderType /\ NoRead.pc = "start"
    BY SMTT(40) DEF NoRead, ReaderType, ReadPlaces
  <2>3. ASSUME NEW r \in Readers PROVE reader[r] \in ReaderType /\ reader[r].pc = "start"
    BY <2>1, <2>2 DEF ReaderType
  <2> QED
    BY <1>c, <2>3 DEF ReadsOf
<1>2. /\ scanner \in [Scans -> ScannerType]
      /\ \A x \in Scans : scanner[x].told = <<>> /\ scanner[x].pc \in {"idle", "start"}
      /\ scanner[Refresh].pc = "idle"
  <2>1. NoScan \in ScannerType /\ NoScan.pc = "idle" /\ NoScan.told = <<>>
    BY SMTT(40) DEF NoScan, ScannerType, ScanPlaces
  <2>2. ASSUME NEW x \in Scanners
        PROVE  /\ scanner[x] = [NoScan EXCEPT !.pc = "start", !.strict = cast[x].strict,
                                              !.cache = cast[x].cache]
               /\ cast[x].strict \in BOOLEAN /\ cast[x].cache \in BOOLEAN /\ x # Refresh
    BY <1>c, SnapshotAssumption DEF ScansOf, Scans
  <2>3. ASSUME NEW x \in Scanners
        PROVE  /\ scanner[x] \in ScannerType
               /\ scanner[x].pc = "start" /\ scanner[x].told = <<>>
    <3>1. PICK c : c = scanner[x]
      OBVIOUS
    <3>2. c = [NoScan EXCEPT !.pc = "start", !.strict = cast[x].strict, !.cache = cast[x].cache]
      BY <2>2, <3>1
    <3>3. "start" \in ScanPlaces
      BY DEF ScanPlaces
    <3>4. c \in ScannerType /\ c.pc = "start" /\ c.told = <<>>
      BY <2>1, <2>2, <3>2, <3>3 DEF ScannerType
    <3> QED BY <3>1, <3>4
  <2>4. scanner[Refresh] = NoScan
    BY <1>c DEF ScansOf, Scans
  <2> QED
    BY <1>c, <2>1, <2>3, <2>4 DEF ScansOf, Scans
<1>3. SnapType
  <2>1. age \in Nat /\ work \in Nat /\ saved \in [st : {"available", "unavailable"}, at : Nat]
    BY SMTT(40) DEF SnapInit
  <2> QED
    BY <1>1, <1>2, <2>1 DEF SnapInit, SnapType
<1>4. GateInv
  BY <1>1, <1>2 DEF SnapInit, GateInv, Submits, Runs
<1>5. ReadInv
  BY <1>1 DEF ReadInv, ReadStands
<1>6. ScannerInv
  <2>1. EventsInv("idle", <<>>) /\ EventsInv("start", <<>>)
    BY SMTT(40) DEF EventsInv
  <2> QED
    BY <1>2, <2>1 DEF ScannerInv
<1> QED
  BY <1>3, <1>4, <1>5, <1>6 DEF SnapInv

\* A reader's record after a read.
LEMMA ReaderSteps ==
    ASSUME SnapInv, NEW r \in Readers,
           NetworksStart(r) \/ ReadCached(r) \/ CacheUnavailable(r) \/ ListLive(r)
             \/ SubmitRefresh(r)
    PROVE  SnapInv'
<1>t. /\ reader \in [Readers -> ReaderType] /\ reader[r] \in ReaderType
      /\ age \in Nat /\ saved.at \in Nat /\ ReadStands(reader[r])
  BY DEF SnapInv, SnapType, ReadInv
<1>1. CASE NetworksStart(r) \/ CacheUnavailable(r)
  <2> DEFINE p == IF reader[r].pc = "start" /\ reader[r].cached THEN "cache" ELSE "live"
             c == [reader[r] EXCEPT !.pc = p]
  <2>1. p \in {"cache", "live"} /\ (p = "cache" => reader[r].cached)
    OBVIOUS
  <2>2. reader' = [reader EXCEPT ![r].pc = p]
    BY <1>1 DEF NetworksStart, CacheUnavailable
  <2>3. reader' = [reader EXCEPT ![r] = c]
    BY <1>t, <2>2
  <2> HIDE DEF p
  <2>4. c \in ReaderType /\ c.pc = p /\ c.cached = reader[r].cached
    BY <1>t, <2>1 DEF ReaderType, ReadPlaces
  <2> HIDE DEF c
  <2>5. ReadStands(c)
    BY <2>1, <2>4 DEF ReadStands
  <2>6. UNCHANGED <<age, saved, scanner, panicked, pending, work>> /\ ~Submits(r)
    BY <1>1 DEF NetworksStart, CacheUnavailable, Submits
  <2>7. c.pc # "submit"
    BY <2>1, <2>4
  <2> QED
    BY <2>3, <2>4, <2>5, <2>6, <2>7, ReadMoves
<1>2. CASE ReadCached(r)
  <2> DEFINE p == IF Schedules(r, Stale) THEN "submit" ELSE "answer"
             c == [reader[r] EXCEPT !.pc = p, !.source = "cache", !.stale = Stale,
                                    !.at = saved.at, !.read = age,
                                    !.requested = RefreshWanted(r, Stale)]
  <2>1. reader' = [reader EXCEPT ![r] = c]
    BY <1>t, <1>2 DEF ReadCached
  <2>s. Stale \in BOOLEAN
    BY <1>t, SnapshotAssumption, SMTT(40) DEF Stale, Age
  <2>2. Stale \in BOOLEAN /\ RefreshWanted(r, Stale) \in BOOLEAN /\ p \in ReadPlaces
    BY <2>s DEF RefreshWanted, ReadPlaces
  <2>3. /\ c \in ReaderType /\ c.pc = p /\ c.source = "cache" /\ c.stale = Stale /\ c.at = saved.at
        /\ c.read = age /\ c.requested = RefreshWanted(r, Stale)
        /\ c.cached = reader[r].cached /\ c.refresh = reader[r].refresh
    <3> HIDE DEF p
    <3>1. c \in ReaderType
      BY <1>t, <2>2 DEF ReaderType
    <3>2. /\ c.pc = p /\ c.source = "cache" /\ c.stale = Stale /\ c.at = saved.at
          /\ c.read = age /\ c.requested = RefreshWanted(r, Stale)
          /\ c.cached = reader[r].cached /\ c.refresh = reader[r].refresh
      BY <1>t DEF ReaderType
    <3> QED
      BY <3>1, <3>2
  <2> HIDE DEF c
  <2>4. ReadHonest(c)
    BY <1>t, <1>2, <2>3 DEF ReadHonest, ReadCached, ReadStands, RefreshWanted, Stale, Age
  <2>5. ReadStands(c)
    BY <2>3, <2>4 DEF ReadStands
  <2>6. /\ UNCHANGED <<age, saved, scanner, panicked, work>> /\ ~Submits(r)
        /\ pending' = (pending \/ Schedules(r, Stale))
    BY <1>2 DEF ReadCached, Submits
  <2>7. CASE Schedules(r, Stale)
    BY <2>1, <2>3, <2>5, <2>6, <2>7, ReadMoves DEF Schedules
  <2>8. CASE ~Schedules(r, Stale)
    <3>1. pending' = pending
      BY <2>6, <2>8 DEF SnapInv, SnapType, Schedules
    <3> QED
      BY <2>1, <2>3, <2>5, <2>6, <2>8, <3>1, ReadMoves
  <2> QED
    BY <2>7, <2>8
<1>3. CASE /\ ListLive(r)
          /\ reader' = [reader EXCEPT ![r].pc = IF Schedules(r, TRUE) THEN "submit" ELSE "answer",
                                      ![r].source = "networkmanager",
                                      ![r].requested = RefreshWanted(r, TRUE)]
          /\ pending' = (pending \/ Schedules(r, TRUE))
  <2> DEFINE p == IF Schedules(r, TRUE) THEN "submit" ELSE "answer"
             c == [reader[r] EXCEPT !.pc = p, !.source = "networkmanager",
                                    !.requested = RefreshWanted(r, TRUE)]
  <2>1. /\ reader' = [reader EXCEPT ![r].pc = p, ![r].source = "networkmanager",
                                    ![r].requested = RefreshWanted(r, TRUE)]
        /\ pending' = (pending \/ Schedules(r, TRUE))
        /\ UNCHANGED <<age, saved, scanner, panicked, work>> /\ ~Submits(r)
    BY <1>3 DEF ListLive, Submits
  <2>2. reader' = [reader EXCEPT ![r] = c]
    BY <1>t, <2>1
  <2>3. RefreshWanted(r, TRUE) \in BOOLEAN /\ p \in ReadPlaces
    BY DEF RefreshWanted, ReadPlaces
  <2>4. c \in ReaderType /\ c.pc = p /\ c.source = "networkmanager"
    <3> HIDE DEF p
    <3> QED
      BY <1>t, <2>3 DEF ReaderType
  <2> HIDE DEF c
  <2>5. ReadStands(c)
    BY <2>4 DEF ReadStands, ReadHonest
  <2>7. CASE Schedules(r, TRUE)
    BY <2>1, <2>2, <2>4, <2>5, <2>7, ReadMoves DEF Schedules
  <2>8. CASE ~Schedules(r, TRUE)
    <3>1. pending' = pending
      BY <2>1, <2>8 DEF SnapInv, SnapType
    <3> QED
      BY <2>1, <2>2, <2>4, <2>5, <2>8, <3>1, ReadMoves
  <2> QED
    BY <2>7, <2>8
<1>4. CASE ListLive(r) /\ reader' = [reader EXCEPT ![r].pc = "failed"] /\ UNCHANGED pending
  <2> DEFINE c == [reader[r] EXCEPT !.pc = "failed"]
  <2>1. reader' = [reader EXCEPT ![r] = c]
    BY <1>t, <1>4
  <2>2. c \in ReaderType /\ c.pc = "failed"
    BY <1>t DEF ReaderType, ReadPlaces
  <2> HIDE DEF c
  <2>3. ReadStands(c)
    BY <2>2 DEF ReadStands
  <2>4. UNCHANGED <<age, saved, scanner, panicked, pending, work>> /\ ~Submits(r)
    BY <1>4 DEF ListLive, Submits
  <2> QED
    BY <2>1, <2>2, <2>3, <2>4, ReadMoves
<1>5. CASE SubmitRefresh(r)
  <2> DEFINE c == [reader[r] EXCEPT !.pc = "answer"]
  <2>1. reader' = [reader EXCEPT ![r] = c]
    BY <1>t, <1>5 DEF SubmitRefresh
  <2>2. c \in ReaderType /\ c.pc = "answer"
    BY <1>t DEF ReaderType, ReadPlaces
  <2>3. /\ c.source = reader[r].source /\ c.stale = reader[r].stale /\ c.at = reader[r].at
        /\ c.read = reader[r].read /\ c.requested = reader[r].requested
        /\ c.cached = reader[r].cached /\ c.refresh = reader[r].refresh
    BY <1>t DEF ReaderType
  <2> HIDE DEF c
  <2>4. ReadStands(c)
    BY <1>t, <1>5, <2>2, <2>3 DEF ReadStands, ReadHonest, SubmitRefresh
  <2>5. /\ UNCHANGED <<age, saved, scanner, panicked>> /\ Submits(r)
        /\ \/ work' = work + 1 /\ UNCHANGED pending
           \/ pending' = FALSE /\ UNCHANGED work
    BY <1>5 DEF SubmitRefresh, Submits, Reopened
  <2> QED
    BY <2>1, <2>2, <2>4, <2>5, ReadMoves
<1> QED
  BY <1>1, <1>2, <1>3, <1>4, <1>5 DEF ListLive

\* A scan tells what it did and moves on.
LEMMA ScanTells ==
    ASSUME SnapInv, NEW x \in Scans, NEW e \in ScanEvents, NEW p \in ScanPlaces,
           scanner' = [Tell(x, e) EXCEPT ![x].pc = p],
           MayTell(scanner[x].pc, e, p), scanner[x].pc # "idle", p # "idle",
           saved' \in [st : {"available", "unavailable"}, at : Nat],
           UNCHANGED <<age, pending, work, reader, panicked>>
    PROVE  SnapInv'
<1>t. SnapType /\ scanner[x].told \in Seq(ScanEvents) /\ EventsInv(scanner[x].pc, scanner[x].told)
  BY DEF SnapInv, SnapType, ScannerType, ScannerInv
<1>c. PICK c \in ScannerType : Left(x, e, p, c)
  BY <1>t, Told
<1>1. /\ c.pc = p /\ c.told = Append(scanner[x].told, e)
      /\ scanner' = [scanner EXCEPT ![x] = c]
  BY <1>c DEF Left
<1>b. EventsInv(p, Append(scanner[x].told, e))
  BY <1>t, EventAdded
<1>2. EventsInv(c.pc, c.told)
  BY <1>1, <1>b
<1>3. c.pc = "idle" <=> scanner[x].pc = "idle"
  BY <1>1
<1> QED
  BY <1>1, <1>2, <1>3, ScanMoves

\* A scan moves on without a word.
LEMMA ScanPasses ==
    ASSUME SnapInv, NEW x \in Scans, NEW p \in {"check", "save"},
           scanner' = [scanner EXCEPT ![x].pc = p], scanner[x].pc \in {"scan", "check"},
           UNCHANGED <<age, saved, pending, work, reader, panicked>>
    PROVE  SnapInv'
<1>t. /\ scanner \in [Scans -> ScannerType] /\ scanner[x] \in ScannerType
      /\ EventsInv(scanner[x].pc, scanner[x].told)
      /\ saved \in [st : {"available", "unavailable"}, at : Nat]
  BY DEF SnapInv, SnapType, ScannerInv
<1> DEFINE c == [scanner[x] EXCEPT !.pc = p]
<1>1. scanner' = [scanner EXCEPT ![x] = c]
  BY <1>t
<1>2. c \in ScannerType /\ c.pc = p /\ c.told = scanner[x].told
  BY <1>t DEF ScannerType, ScanPlaces
<1> HIDE DEF c
<1>3. EventsInv(c.pc, c.told)
  BY <1>t, <1>2 DEF EventsInv
<1> QED
  BY <1>t, <1>1, <1>2, <1>3, ScanMoves

LEMMA ScannerSteps ==
    ASSUME SnapInv, NEW x \in Scans,
           ScanBegins(x) \/ ScanWarning(x) \/ ScanLists(x) \/ ScanSaves(x) \/ ScanCompletes(x)
             \/ CancelScan(x)
    PROVE  SnapInv'
<1>t. /\ scanner \in [Scans -> ScannerType] /\ scanner[x] \in ScannerType /\ age \in Nat
      /\ saved \in [st : {"available", "unavailable"}, at : Nat]
      /\ EventsInv(scanner[x].pc, scanner[x].told)
  BY DEF SnapInv, SnapType, ScannerInv
<1>e. /\ ScanEvents = {"complete", "error", "cancelled", "status", "warning", "snapshot"}
      /\ {"scan", "check", "save", "report", "complete", "failed"} \subseteq ScanPlaces
  BY DEF ScanEvents, ScanPlaces, Terminal
<1>1. CASE ScanBegins(x)
  <2>1. CASE scanner' = [Tell(x, "cancelled") EXCEPT ![x].pc = "failed"]
    BY <1>t, <1>e, <1>1, <2>1, ScanTells DEF ScanBegins, MayTell
  <2>2. CASE scanner' = [Tell(x, "status") EXCEPT ![x].pc = "scan"]
    BY <1>t, <1>e, <1>1, <2>2, ScanTells DEF ScanBegins, Terminal, MayTell
  <2> QED
    BY <1>1, <2>1, <2>2 DEF ScanBegins, ScanFails
<1>2. CASE ScanWarning(x)
  <2>p. scanner[x].pc = "scan" /\ UNCHANGED <<age, saved, pending, work, reader, panicked>>
    BY <1>2 DEF ScanWarning
  <2>1. CASE scanner' = [scanner EXCEPT ![x].pc = "check"]
    BY <2>p, <2>1, ScanPasses
  <2>2. CASE scanner' = [Tell(x, "cancelled") EXCEPT ![x].pc = "failed"]
    BY <1>t, <1>e, <2>p, <2>2, ScanTells DEF MayTell
  <2>3. CASE scanner' = [Tell(x, "warning") EXCEPT ![x].pc = "check"]
    BY <1>t, <1>e, <2>p, <2>3, ScanTells DEF Terminal, MayTell
  <2>4. CASE scanner' = [scanner EXCEPT ![x].told = scanner[x].told \o <<"warning", "error">>,
                                        ![x].pc = "failed"]
    <3> DEFINE s == scanner[x].told
               t == Append(Append(s, "warning"), "error")
               c == [scanner[x] EXCEPT !.told = t, !.pc = "failed"]
    <3>1. s \in Seq(ScanEvents)
      BY <1>t DEF ScannerType
    <3>2. s \o <<"warning", "error">> = t
      BY <1>e, <3>1, SMTT(40)
    <3>m. MayTell("scan", "warning", "scan") /\ MayTell("scan", "error", "failed")
      BY DEF MayTell, Terminal
    <3>3. Append(s, "warning") \in Seq(ScanEvents) /\ EventsInv("scan", Append(s, "warning"))
      BY <1>t, <1>e, <2>p, <3>1, <3>m, EventAdded
    <3>4. t \in Seq(ScanEvents) /\ EventsInv("failed", t)
      BY <1>e, <3>3, <3>m, EventAdded
    <3> HIDE DEF t
    <3>5. scanner' = [scanner EXCEPT ![x] = c]
      BY <1>t, <2>4, <3>2
    <3>6. c \in ScannerType /\ c.pc = "failed" /\ c.told = t
      BY <1>t, <1>e, <3>4 DEF ScannerType
    <3> HIDE DEF c
    <3> QED
      BY <1>t, <2>p, <3>4, <3>5, <3>6, ScanMoves
  <2> QED
    BY <1>2, <2>1, <2>2, <2>3, <2>4 DEF ScanWarning, ScanFails
<1>3. CASE ScanLists(x)
  <2>p. scanner[x].pc = "check" /\ UNCHANGED <<age, saved, pending, work, reader, panicked>>
    BY <1>3 DEF ScanLists
  <2>1. CASE scanner' = [scanner EXCEPT ![x].pc = "save"]
    BY <2>p, <2>1, ScanPasses
  <2>2. ASSUME NEW e \in {"cancelled", "error"}, scanner' = ScanFails(x, e) PROVE SnapInv'
    BY <1>t, <1>e, <2>p, <2>2, ScanTells DEF ScanFails, MayTell
  <2> QED
    BY <1>3, <2>1, <2>2 DEF ScanLists
<1>4. CASE ScanSaves(x)
  <2>p. /\ scanner[x].pc = "save" /\ UNCHANGED <<age, pending, work, reader, panicked>>
        /\ saved' = saved \/ saved' = [st |-> "available", at |-> age]
    BY <1>4 DEF ScanSaves
  <2>s. saved' \in [st : {"available", "unavailable"}, at : Nat]
    <3>1. [st |-> "available", at |-> age] \in [st : {"available", "unavailable"}, at : Nat]
      BY <1>t
    <3> QED
      BY <1>t, <2>p, <3>1
  <2>1. CASE scanner' = [Tell(x, "snapshot") EXCEPT ![x].pc = "report"]
    BY <1>e, <2>p, <2>s, <2>1, ScanTells DEF Terminal, MayTell
  <2>2. CASE scanner' = ScanFails(x, "error")
    BY <1>e, <2>p, <2>s, <2>2, ScanTells DEF ScanFails, MayTell
  <2> QED
    BY <1>4, <2>1, <2>2 DEF ScanSaves
<1>5. CASE ScanCompletes(x)
  <2>p. scanner[x].pc = "report" /\ UNCHANGED <<age, saved, pending, work, reader, panicked>>
    BY <1>5 DEF ScanCompletes
  <2>1. CASE scanner' = [Tell(x, "complete") EXCEPT ![x].pc = "complete"]
    BY <1>t, <1>e, <2>p, <2>1, ScanTells DEF MayTell
  <2>2. CASE scanner' = ScanFails(x, "error")
    BY <1>t, <1>e, <2>p, <2>2, ScanTells DEF ScanFails, MayTell
  <2> QED
    BY <1>5, <2>1, <2>2 DEF ScanCompletes
<1>6. CASE CancelScan(x)
  <2> DEFINE c == [scanner[x] EXCEPT !.cancel = TRUE]
  <2>1. /\ scanner' = [scanner EXCEPT ![x] = c]
        /\ UNCHANGED <<age, saved, pending, work, reader, panicked>>
    BY <1>t, <1>6 DEF CancelScan
  <2>2. c \in ScannerType /\ c.pc = scanner[x].pc /\ c.told = scanner[x].told
    BY <1>t DEF ScannerType
  <2> HIDE DEF c
  <2> QED
    BY <1>t, <2>1, <2>2, ScanMoves
<1> QED
  BY <1>1, <1>2, <1>3, <1>4, <1>5, <1>6

LEMMA SnapStep ==
    SnapInv /\ [SnapNext]_snapVars => SnapInv'
<1> SUFFICES ASSUME SnapInv, [SnapNext]_snapVars PROVE SnapInv'
  OBVIOUS
<1>t. SnapType /\ GateInv /\ ReadInv /\ ScannerInv /\ Refresh \in Scans
  BY DEF SnapInv, Scans
<1>i. NoScan \in ScannerType /\ NoScan.pc = "idle" /\ EventsInv("idle", NoScan.told)
  BY SMTT(40) DEF NoScan, ScannerType, ScanPlaces, EventsInv
<1>1. CASE UNCHANGED snapVars
  BY <1>t, <1>1 DEF snapVars, SnapInv, SnapType, GateInv, ReadInv, ScannerInv, Submits, Runs
<1>2. CASE SnapTick
  <2>1. age' \in Nat
    BY <1>t, <1>2, SMTT(40) DEF SnapTick, SnapType
  <2> QED
    BY <1>t, <1>2, <2>1 DEF SnapTick, SnapInv, SnapType, GateInv, ReadInv, ScannerInv, Submits, Runs
<1>3. CASE RefreshStarts
  <2> DEFINE c == [scanner[Refresh] EXCEPT !.pc = "start"]
  <2>1. scanner' = [scanner EXCEPT ![Refresh] = c]
    BY <1>t, <1>3 DEF RefreshStarts, SnapType
  <2>2. c \in ScannerType /\ c.pc = "start" /\ c.told = scanner[Refresh].told
    BY <1>t DEF SnapType, ScannerType, ScanPlaces
  <2>3. EventsInv(c.pc, c.told)
    BY <1>t, <1>3, <2>2 DEF RefreshStarts, ScannerInv, EventsInv
  <2> HIDE DEF c
  <2>4. /\ scanner' \in [Scans -> ScannerType] /\ scanner'[Refresh] = c
        /\ \A y \in Scans : y # Refresh => scanner'[y] = scanner[y]
    BY <1>t, <2>1, <2>2 DEF SnapType
  <2>5. work = 1 /\ work' = 0 /\ pending /\ ~Runs /\ \A r \in Readers : ~Submits(r)
    <3>1. work # 0 /\ work' = work - 1
      BY <1>t, <1>3, SMTT(40) DEF RefreshStarts, SnapType
    <3>2. work = 1 /\ pending /\ ~Runs /\ \A r \in Readers : ~Submits(r)
      BY <1>t, <3>1 DEF GateInv
    <3>3. work' = 0
      BY <3>1, <3>2, SMTT(40)
    <3> QED
      BY <3>2, <3>3
  <2>6. UNCHANGED <<age, saved, pending, reader, panicked>>
    BY <1>3 DEF RefreshStarts
  <2>7. SnapType'
    BY <1>t, <2>4, <2>5, <2>6 DEF SnapType
  <2>8. GateInv'
    BY <2>2, <2>4, <2>5, <2>6 DEF GateInv, Submits, Runs
  <2>9. ReadInv' /\ ScannerInv'
    BY <1>t, <2>3, <2>4, <2>6 DEF ReadInv, ScannerInv
  <2> QED
    BY <2>7, <2>8, <2>9 DEF SnapInv
<1>4. CASE RefreshEnds \/ RefreshPanics
  <2>1. /\ scanner' = [scanner EXCEPT ![Refresh] = NoScan] /\ Runs
        /\ UNCHANGED <<age, saved, work, reader>>
        /\ \/ pending' = FALSE /\ UNCHANGED panicked
           \/ UNCHANGED pending /\ panicked'
    BY <1>4 DEF RefreshEnds, RefreshPanics, Runs
  <2>2. /\ scanner' \in [Scans -> ScannerType] /\ scanner'[Refresh] = NoScan
        /\ \A y \in Scans : y # Refresh => scanner'[y] = scanner[y]
    BY <1>t, <1>i, <2>1 DEF SnapType
  <2>3. work = 0 /\ \A r \in Readers : ~Submits(r)
    BY <1>t, <2>1 DEF GateInv
  <2>4. SnapType'
    BY <1>t, <2>1, <2>2 DEF SnapType
  <2>5. GateInv'
    BY <1>i, <2>1, <2>2, <2>3 DEF GateInv, Submits, Runs
  <2>6. ReadInv' /\ ScannerInv'
    BY <1>t, <1>i, <2>1, <2>2 DEF ReadInv, ScannerInv
  <2> QED
    BY <2>4, <2>5, <2>6 DEF SnapInv
<1> QED
  BY <1>1, <1>2, <1>3, <1>4, ReaderSteps, ScannerSteps DEF SnapNext

\* Where each request, each scan and the gate of the background refresh stand.
THEOREM SnapInductive ==
    SnapSpec => []SnapInv
  BY SnapInitial, SnapStep, PTL DEF SnapSpec

\* NetworksHonest for any number of readers and scans: load_networks says what
\* it answers with, finish_scan reports its snapshot before it completes, and
\* schedule_cache_refresh keeps one refresh behind a gate that only a panic
\* leaves shut.
THEOREM NetworksAreHonest ==
    SnapSpec => []NetworksHonest
<1>1. ASSUME SnapInv PROVE GateFaithful
  <2> DEFINE submitting == {r \in Readers : reader[r].pc = "submit"}
             running == {x \in {Refresh} : scanner[x].pc # "idle"}
             refreshes == Cardinality(submitting) + work + Cardinality(running)
  <2>g. GateInv /\ work \in Nat
    BY <1>1 DEF SnapInv, SnapType
  <2>1. Cardinality({}) = 0 /\ \A e : Cardinality({e}) = 1
    BY FS_EmptySet, FS_Singleton
  <2>2. Cardinality(running) = (IF Runs THEN 1 ELSE 0)
    <3>1. running = (IF Runs THEN {Refresh} ELSE {})
      BY DEF Runs
    <3> QED
      BY <2>1, <3>1
  <2>3. CASE \E r \in Readers : Submits(r)
    <3>1. PICK r \in Readers : Submits(r)
      BY <2>3
    <3>2. work = 0 /\ ~Runs /\ pending /\ submitting = {r}
      BY <2>g, <3>1 DEF GateInv, Submits
    <3>3. Cardinality(submitting) = 1
      BY <2>1, <3>2
    <3>4. refreshes = 1
      BY <2>2, <3>2, <3>3, SMTT(40)
    <3> QED
      BY <3>2, <3>4, SMTT(40) DEF GateFaithful
  <2>4. CASE ~\E r \in Readers : Submits(r)
    <3>1. submitting = {}
      BY <2>4 DEF Submits
    <3>2. Cardinality(submitting) = 0
      BY <2>1, <3>1
    <3>3. CASE work # 0
      <4>1. work = 1 /\ pending /\ ~Runs
        BY <2>g, <3>3 DEF GateInv
      <4>2. refreshes = 1
        BY <2>2, <3>2, <4>1, SMTT(40)
      <4> QED
        BY <4>1, <4>2, SMTT(40) DEF GateFaithful
    <3>4. CASE work = 0 /\ Runs
      <4>1. refreshes = 1
        BY <2>2, <3>2, <3>4, SMTT(40)
      <4>2. pending
        BY <2>g, <3>4 DEF GateInv
      <4> QED
        BY <4>1, <4>2, SMTT(40) DEF GateFaithful
    <3>5. CASE work = 0 /\ ~Runs
      <4>1. refreshes = 0
        BY <2>2, <3>2, <3>5, SMTT(40)
      <4>w. work # 1
        BY <3>5, SMTT(40)
      <4>2. pending => panicked
        BY <2>g, <2>4, <3>5, <4>w DEF GateInv
      <4>3. refreshes <= 1 /\ refreshes # 1
        BY <4>1, SMTT(40)
      <4> QED
        BY <4>2, <4>3 DEF GateFaithful
    <3> QED
      BY <3>3, <3>4, <3>5
  <2> QED
    BY <2>3, <2>4
<1>2. ASSUME SnapInv PROVE NetworksHonest
  <2>1. GateFaithful
    BY <1>1, <1>2
  <2>2. ReadInv /\ ScannerInv /\ \A x \in Scans : scanner[x].told \in Seq(ScanEvents)
    BY <1>2 DEF SnapInv, SnapType, ScannerType
  <2>3. \A x \in Scans : DOMAIN scanner[x].told = 1..Len(scanner[x].told)
    BY <2>2, SMTT(40)
  <2> QED
    BY <2>1, <2>2, <2>3
       DEF NetworksHonest, ReadInv, ReadStands, ReadHonest, ScannerInv, EventsInv, Terminal
<1> QED
  BY <1>2, SnapInductive, PTL
=============================================================================
