------------------------- MODULE OrchestratorProofs -------------------------
(***************************************************************************)
(* Proofs about Orchestrator: its safety properties hold for any set of    *)
(* nodes and any bounds, with interrupts and failing saves or without, and *)
(* without them it implements IntentLog.                                   *)
(***************************************************************************)
EXTENDS Orchestrator, FiniteSetTheorems, TLAPS

\* Permits are conserved: none is lost on a failure path, none is made up.
Slots == free + Cardinality(Holders) = MaxConc

Started == {"creating", "booting", "backoff", "created", "failed", "settled",
            "leaving"}

\* The goroutines and the main goroutine agree on how far they are.
StageInv ==
    proc = "running" =>
        /\ stage = "start" => /\ \A n \in Node : pc[n] = "blocked"
                              /\ cloud = {} /\ ~aux
        /\ stage \notin {"start", "waiting"} => \A n \in Node : pc[n] = "done"
        /\ stage \in {"barrier", "configuring", "streaming"} => ~groupErr

\* A goroutine's position determines its node's phase in memory.
PhaseInv ==
    proc = "running" => \A n \in Node :
        /\ pc[n] \in {"blocked", "acquired"} => phase[n] = "PLANNED"
        /\ pc[n] \in {"marked", "creating", "booting", "backoff", "created",
                      "failed"} => phase[n] = "PROVISIONING"
        /\ pc[n] \in {"settled", "leaving"} => phase[n] \in {"RUNNING", "FAILED"}
        /\ pc[n] = "done" => phase[n] = "RUNNING" \/ groupErr

\* Only a node whose intent was marked and saved has servers.
ServerInv ==
    proc = "running" => \A s \in cloud :
        /\ pc[s[1]] \notin {"blocked", "acquired", "marked"}
        /\ phase[s[1]] # "PLANNED"

\* Without a ^C, a node that came up keeps its server until a rollback.
UpInv ==
    proc = "running" /\ handler = "idle" /\ stage # "rollback" =>
        \A n \in Node : pc[n] = "created" \/ phase[n] = "RUNNING"
                            => <<n, attempt[n]>> \in cloud

\* The journal on disk is never behind a goroutine that may create.
JournalInv ==
    proc = "running" /\ handler = "idle" /\ ~saveLost
      /\ stage \notin {"start", "rollback"} =>
        \A n \in Node : /\ journal[n] # "none"
                        /\ pc[n] \in Started => journal[n] # "PLANNED"

\* Without a ^C at most one teardown is under way, and never beside the
\* goroutines; past the verification nothing is left for it to remove.
DownInv ==
    handler = "idle" =>
        /\ dpc["signal"] = "idle"
        /\ proc = "running" => /\ dpc["operator"] = "idle"
                               /\ stage # "rollback" => dpc["rollback"] = "idle"
        /\ dpc["operator"] = "mark" => journal # NoRecord
        /\ \A d \in {"rollback", "operator"} :
             /\ dpc[d] \in {"aux", "close"} => cloud = {}
             /\ dpc[d] = "close" => ~aux
             /\ dpc[d] = "done" => ~Residue /\ journal = NoRecord

\* An attempt is made only while there is one left.
RetryInv == \A n \in Node : pc[n] = "backoff" => attempt[n] < MaxAttempts

\* The conjuncts that relate goroutines, journal, provider and teardowns.
CoreInv ==
    /\ RetryInv /\ StageInv /\ PhaseInv /\ ServerInv /\ UpInv /\ JournalInv
    /\ WriteAhead /\ DownInv

\* The inductive invariant.
IndInv == TypeOK /\ Slots /\ CoreInv

-----------------------------------------------------------------------------
USE ConstantsAssumption

\* The absent record has the type of a record.
LEMMA NoRecordType == NoRecord \in [Node -> Phase \cup {"none"}]
  BY DEF NoRecord

\* The set of goroutines that hold a permit is finite.
LEMMA HoldersFinite == IsFiniteSet(Holders) /\ Cardinality(Holders) \in Nat
  BY FS_Subset, FS_CardinalityType DEF Holders

\* A goroutine that holds a permit has taken it out of the semaphore.
LEMMA HolderBound ==
  ASSUME TypeOK, Slots, NEW n \in Node, Holding(n)
  PROVE  free + 1 \in 0..MaxConc
<1>1. n \in Holders
  BY DEF Holders
<1>2. Cardinality(Holders) # 0
  BY <1>1, HoldersFinite, FS_EmptySet
<1> QED
  BY <1>2, HoldersFinite DEF TypeOK, Slots

\* The end of the process leaves well-typed variables.
LEMMA EndsTyped ==
  ASSUME TypeOK, NEW how \in Proc, ProcessEnds(how)
  PROVE  TypeOK'
<1> USE DEF TypeOK, ProcessEnds
<1>1. pc' \in [Node -> GoPC] /\ attempt' \in [Node -> 1..MaxAttempts]
  BY DEF GoPC
<1>2. phase' \in [Node -> Phase] /\ free' \in 0..MaxConc
  BY DEF Phase
<1>3. /\ cancelled' \in BOOLEAN /\ groupErr' \in BOOLEAN
      /\ stage' \in Stage /\ proc' \in Proc
  BY DEF Stage
<1>4. dpc' \in [Downer -> DownPC]
  BY DEF DownPC
<1>5. /\ todo' \in [Downer -> SUBSET Server]
      /\ tries' \in [Downer -> 0..(DestroyAttempts - 1)]
      /\ firstErr' \in [Downer -> BOOLEAN]
  OBVIOUS
<1> QED
  BY <1>1, <1>2, <1>3, <1>4, <1>5 DEF diskVars, cloudVars

\* Every variable keeps its type.
LEMMA TypeStep == TypeOK /\ Slots /\ RetryInv /\ [Next]_vars => TypeOK'
<1> SUFFICES ASSUME TypeOK, Slots, RetryInv, [Next]_vars PROVE TypeOK'
  OBVIOUS
<1> USE NoRecordType DEF TypeOK, upVars, procVars, diskVars, cloudVars, downVars
<1>1. ASSUME NEW n \in Node, Acquire(n) PROVE TypeOK'
  BY <1>1 DEF Acquire, Provisioning, Goto, PermitAvailable, GoPC, Phase, Server
<1>2. ASSUME NEW n \in Node, AcquireFails(n) PROVE TypeOK'
  BY <1>2 DEF AcquireFails, Provisioning, Goto, GoPC, Phase, Server
<1>3. ASSUME NEW n \in Node, MarkProvisioning(n) PROVE TypeOK'
  BY <1>3 DEF MarkProvisioning, Provisioning, Goto, setPhase, GoPC, Phase, Server
<1>4. ASSUME NEW n \in Node, JournalIntent(n) PROVE TypeOK'
  BY <1>4 DEF JournalIntent, Provisioning, Goto, save, GoPC, Phase, Server
<1>5. ASSUME NEW n \in Node, RequestAccepted(n) PROVE TypeOK'
  BY <1>5 DEF RequestAccepted, Provisioning, Goto, GoPC, Phase, Server
<1>6. ASSUME NEW n \in Node, RequestRejected(n) PROVE TypeOK'
  BY <1>6 DEF RequestRejected, Provisioning, Goto, GoPC, Phase, Server
<1>7. ASSUME NEW n \in Node, BootSucceeds(n) PROVE TypeOK'
  BY <1>7 DEF BootSucceeds, Provisioning, Goto, GoPC, Phase, Server
<1>8. ASSUME NEW n \in Node, BootFails(n) PROVE TypeOK'
  BY <1>8 DEF BootFails, Provisioning, Goto, GoPC, Phase, Server
<1>9. ASSUME NEW n \in Node, BootDies(n) PROVE TypeOK'
  BY <1>9 DEF BootDies, Provisioning, Goto, GoPC, Phase, Server
<1>10. ASSUME NEW n \in Node, Relaunch(n) PROVE TypeOK'
  BY <1>10 DEF RetryInv, Relaunch, Provisioning, Goto, GoPC, Phase, Server
<1>11. ASSUME NEW n \in Node, RelaunchCancelled(n) PROVE TypeOK'
  BY <1>11 DEF RelaunchCancelled, Provisioning, Goto, GoPC, Phase, Server
<1>12. ASSUME NEW n \in Node, Settle(n) PROVE TypeOK'
  BY <1>12 DEF Settle, Provisioning, Goto, setPhase, GoPC, Phase, Server
<1>13. ASSUME NEW n \in Node, JournalOutcome(n) PROVE TypeOK'
  BY <1>13 DEF JournalOutcome, Provisioning, Goto, save, GoPC, Phase, Server
<1>14. ASSUME NEW n \in Node, Release(n) PROVE TypeOK'
  BY <1>14, HolderBound DEF Holding, Release, Provisioning, Goto, ReleasePermit,
     GoPC, Phase, Server
<1>15. ASSUME NEW n \in Node, ReturnError(n) PROVE TypeOK'
  BY <1>15 DEF ReturnError, Provisioning, Goto, RecordError, GoPC, Phase, Server
<1>16. ASSUME NEW d \in Downer, DownList(d) PROVE TypeOK'
  BY <1>16 DEF DownList, DownRuns, DownGoto, DownPC, Phase, Server
<1>17. ASSUME NEW d \in Downer, DownListFails(d) PROVE TypeOK'
  BY <1>17 DEF DownListFails, DownRuns, DownGoto, DownPC, Phase, Server
<1>18. ASSUME NEW d \in Downer, DownLoad(d) PROVE TypeOK'
  BY <1>18 DEF DownLoad, DownRuns, DownGoto, DownPC, Phase, Server
<1>19. ASSUME NEW d \in Downer, DownMark(d) PROVE TypeOK'
  BY <1>19 DEF DownMark, DownRuns, DownGoto, DownPC, Phase, Server
<1>20. ASSUME NEW d \in Downer, DownDestroy(d) PROVE TypeOK'
  BY <1>20 DEF DownDestroy, DownRuns, DownGoto, DownPC, Phase, Server
<1>21. ASSUME NEW d \in Downer, DownDestroyMissed(d) PROVE TypeOK'
  BY <1>21 DEF DownDestroyMissed, DownRuns, DownGoto, DownPC, Phase, Server
<1>22. ASSUME NEW d \in Downer, DownDestroyFails(d) PROVE TypeOK'
  <2>1. PICK s \in todo[d] :
          /\ cloud' \in {cloud, cloud \ {s}}
          /\ \/ /\ tries[d] + 1 < DestroyAttempts
                /\ tries' = [tries EXCEPT ![d] = @ + 1]
                /\ UNCHANGED <<todo, firstErr>>
             \/ /\ tries' = [tries EXCEPT ![d] = 0]
                /\ todo' = [todo EXCEPT ![d] = @ \ {s}]
                /\ firstErr' = [firstErr EXCEPT ![d] = TRUE]
    BY <1>22 DEF DownDestroyFails
  <2>2. cloud' \subseteq Server
    BY <2>1
  <2>3. tries[d] \in 0..(DestroyAttempts - 1)
    OBVIOUS
  <2>4. tries' \in [Downer -> 0..(DestroyAttempts - 1)]
    <3>1. CASE tries' = [tries EXCEPT ![d] = 0]
      BY <3>1
    <3>2. CASE /\ tries[d] + 1 < DestroyAttempts
               /\ tries' = [tries EXCEPT ![d] = @ + 1]
      BY <2>3, <3>2
    <3> QED
      BY <2>1, <3>1, <3>2
  <2>5. todo' \in [Downer -> SUBSET Server]
    BY <2>1
  <2>6. firstErr' \in [Downer -> BOOLEAN]
    BY <2>1
  <2> QED
    BY <1>22, <2>2, <2>4, <2>5, <2>6 DEF DownDestroyFails
<1>23. ASSUME NEW d \in Downer, DownDestroyed(d) PROVE TypeOK'
  BY <1>23 DEF DownDestroyed, DownRuns, DownGoto, DownPC, Phase, Server
<1>24. ASSUME NEW d \in Downer, DownVerify(d) PROVE TypeOK'
  BY <1>24 DEF DownVerify, DownRuns, DownGoto, VerifyGone, DownPC, Phase, Server
<1>25. ASSUME NEW d \in Downer, DownReapAux(d) PROVE TypeOK'
  BY <1>25 DEF DownReapAux, DownRuns, DownGoto, AuxFailureStops, DownPC, Phase, Server
<1>26. ASSUME NEW d \in Downer, DownClose(d) PROVE TypeOK'
  BY <1>26 DEF DownClose, DownRuns, DownGoto, DownPC, Phase, Server
<1>27. CASE StartGroup
  BY <1>27 DEF StartGroup, MainAt, save, GoPC, DownPC, Stage, Proc, Phase, Downer
<1>28. CASE WaitSucceeds
  BY <1>28 DEF WaitSucceeds, MainAt, AllReturned, GoPC, DownPC, Stage, Proc, Phase, Downer
<1>29. CASE WaitFails
  BY <1>29 DEF WaitFails, MainAt, AllReturned, DownBegins, DownGoto, GoPC, DownPC,
     Stage, Proc, Phase, Downer
<1>30. CASE RollbackExit
  BY <1>30, EndsTyped DEF RollbackExit, Proc
<1>31. CASE EnsureFirewall
  BY <1>31 DEF EnsureFirewall, MainAt, GoPC, DownPC, Stage, Proc, Phase, Downer
<1>32. CASE Degrade
  BY <1>32, EndsTyped DEF Degrade, Proc
<1>33. CASE StartStreaming
  BY <1>33 DEF StartStreaming, MainAt, GoPC, DownPC, Stage, Proc, Phase, Downer
<1>34. CASE Finish
  BY <1>34, EndsTyped DEF Finish, Proc
<1>35. CASE Interrupt
  BY <1>35 DEF Interrupt, MainAt, DownBegins, DownGoto, GoPC, DownPC, Stage, Proc,
     Phase, Downer
<1>36. CASE HandlerExit
  BY <1>36, EndsTyped DEF HandlerExit, Proc
<1>37. CASE Deadline
  BY <1>37 DEF Deadline, MainAt, GoPC, DownPC, Stage, Proc, Phase, Downer
<1>38. CASE Crash
  BY <1>38, EndsTyped DEF Crash, Proc
<1>39. CASE OperatorDown
  BY <1>39 DEF OperatorDown, MainAt, DownBegins, DownGoto, GoPC, DownPC, Stage,
     Proc, Phase, Downer
<1>40. CASE UNCHANGED vars
  BY <1>40 DEF vars
<1> QED
  BY <1>1, <1>2, <1>3, <1>4, <1>5, <1>6, <1>7, <1>8, <1>9, <1>10, <1>11, <1>12,
     <1>13, <1>14, <1>15, <1>16, <1>17, <1>18, <1>19, <1>20, <1>21, <1>22, <1>23,
     <1>24, <1>25, <1>26, <1>27, <1>28, <1>29, <1>30, <1>31, <1>32, <1>33, <1>34,
     <1>35, <1>36, <1>37, <1>38, <1>39, <1>40
     DEF Next, Goroutine, Down, Main

-----------------------------------------------------------------------------
\* Permits are taken and given back in pairs.
LEMMA SlotsStep == TypeOK /\ Slots /\ [Next]_vars => Slots'
<1> SUFFICES ASSUME TypeOK, Slots, [Next]_vars PROVE Slots'
  OBVIOUS
<1> USE HoldersFinite DEF TypeOK, Slots
<1>1. ASSUME NEW n \in Node, Acquire(n) PROVE Slots'
  <2>1. n \notin Holders /\ Holders' = Holders \cup {n}
    BY <1>1 DEF Acquire, Provisioning, Goto, Holders, Holding
  <2>2. Cardinality(Holders') = Cardinality(Holders) + 1
    BY <2>1, FS_AddElement
  <2> QED
    BY <1>1, <2>2 DEF Acquire
<1>2. ASSUME NEW n \in Node, Release(n) PROVE Slots'
  <2>1. n \in Holders /\ Holders' = Holders \ {n}
    BY <1>2 DEF Release, Provisioning, Goto, Holders, Holding
  <2>2. Cardinality(Holders') = Cardinality(Holders) - 1
    BY <2>1, FS_RemoveElement
  <2> QED
    BY <1>2, <2>2 DEF Release, ReleasePermit
<1>3. ASSUME free' = free, Holders' = Holders PROVE Slots'
  BY <1>3
<1>4. ASSUME NEW n \in Node, AcquireFails(n) PROVE Slots'
  BY <1>3, <1>4 DEF AcquireFails, Provisioning, Goto, Holders, Holding
<1>5. ASSUME NEW n \in Node, MarkProvisioning(n) PROVE Slots'
  BY <1>3, <1>5 DEF MarkProvisioning, Provisioning, Goto, Holders, Holding
<1>6. ASSUME NEW n \in Node, JournalIntent(n) PROVE Slots'
  BY <1>3, <1>6 DEF JournalIntent, Provisioning, Goto, Holders, Holding
<1>7. ASSUME NEW n \in Node, RequestAccepted(n) PROVE Slots'
  BY <1>3, <1>7 DEF RequestAccepted, Provisioning, Goto, Holders, Holding
<1>8. ASSUME NEW n \in Node, RequestRejected(n) PROVE Slots'
  BY <1>3, <1>8 DEF RequestRejected, Provisioning, Goto, Holders, Holding
<1>9. ASSUME NEW n \in Node, BootSucceeds(n) PROVE Slots'
  BY <1>3, <1>9 DEF BootSucceeds, Provisioning, Goto, Holders, Holding
<1>10. ASSUME NEW n \in Node, BootFails(n) PROVE Slots'
  BY <1>3, <1>10 DEF BootFails, Provisioning, Goto, Holders, Holding
<1>11. ASSUME NEW n \in Node, BootDies(n) PROVE Slots'
  BY <1>3, <1>11 DEF BootDies, Provisioning, Goto, Holders, Holding
<1>12. ASSUME NEW n \in Node, Relaunch(n) PROVE Slots'
  BY <1>3, <1>12 DEF Relaunch, Provisioning, Goto, Holders, Holding
<1>13. ASSUME NEW n \in Node, RelaunchCancelled(n) PROVE Slots'
  BY <1>3, <1>13 DEF RelaunchCancelled, Provisioning, Goto, Holders, Holding
<1>14. ASSUME NEW n \in Node, Settle(n) PROVE Slots'
  BY <1>3, <1>14 DEF Settle, Provisioning, Goto, Holders, Holding
<1>15. ASSUME NEW n \in Node, JournalOutcome(n) PROVE Slots'
  BY <1>3, <1>15 DEF JournalOutcome, Provisioning, Goto, Holders, Holding
<1>16. ASSUME NEW n \in Node, ReturnError(n) PROVE Slots'
  BY <1>3, <1>16 DEF ReturnError, Provisioning, Goto, Holders, Holding
<1>17. ASSUME NEW how \in Proc, ProcessEnds(how) PROVE Slots'
  <2>1. Holders' = {}
    BY <1>17 DEF ProcessEnds, Holders, Holding
  <2> QED
    BY <1>17, <2>1, FS_EmptySet DEF ProcessEnds
<1>18. CASE pc' = pc /\ free' = free
  BY <1>3, <1>18 DEF Holders, Holding
<1>19. ASSUME NEW d \in Downer, Down(d) PROVE Slots'
  BY <1>18, <1>19 DEF Down, DownList, DownListFails, DownLoad, DownMark,
     DownDestroy, DownDestroyMissed, DownDestroyFails, DownDestroyed, DownVerify,
     DownReapAux, DownClose, upVars
<1>20. CASE \/ StartGroup \/ WaitSucceeds \/ WaitFails \/ EnsureFirewall
            \/ StartStreaming \/ Interrupt \/ Deadline \/ OperatorDown
            \/ UNCHANGED vars
  BY <1>18, <1>20 DEF StartGroup, WaitSucceeds, WaitFails, EnsureFirewall,
     StartStreaming, Interrupt, Deadline, OperatorDown, upVars, vars
<1>21. CASE RollbackExit \/ Degrade \/ Finish \/ HandlerExit \/ Crash
  BY <1>17, <1>21 DEF RollbackExit, Degrade, Finish, HandlerExit, Crash, Proc
<1> QED
  BY <1>1, <1>2, <1>4, <1>5, <1>6, <1>7, <1>8, <1>9, <1>10, <1>11, <1>12, <1>13,
     <1>14, <1>15, <1>16, <1>19, <1>20, <1>21 DEF Next, Goroutine, Main

-----------------------------------------------------------------------------
\* One step of any goroutine, teardown or of the process keeps what relates
\* goroutines, journal, provider and teardowns.
LEMMA CoreStep == TypeOK /\ TypeOK' /\ CoreInv /\ [Next]_vars => CoreInv'
<1> SUFFICES ASSUME TypeOK, TypeOK', CoreInv, [Next]_vars PROVE CoreInv'
  OBVIOUS
<1> USE DEF TypeOK, CoreInv, RetryInv, StageInv, PhaseInv, ServerInv, UpInv,
    JournalInv, WriteAhead, DownInv, Residue, NoRecord, Started,
    upVars, procVars, diskVars, cloudVars, downVars
<1>1. ASSUME NEW n \in Node, Acquire(n) PROVE CoreInv'
  BY <1>1 DEF Acquire, Provisioning, Goto, GoPC, Phase, Server
<1>2. ASSUME NEW n \in Node, AcquireFails(n) PROVE CoreInv'
  BY <1>2 DEF AcquireFails, Provisioning, Goto, GoPC, Phase, Server
<1>3. ASSUME NEW n \in Node, MarkProvisioning(n) PROVE CoreInv'
  BY <1>3 DEF MarkProvisioning, Provisioning, Goto, setPhase, GoPC, Phase, Server
<1>4. ASSUME NEW n \in Node, JournalIntent(n) PROVE CoreInv'
  BY <1>4 DEF JournalIntent, Provisioning, Goto, save, GoPC, Phase, Server
<1>5. ASSUME NEW n \in Node, RequestAccepted(n) PROVE CoreInv'
  BY <1>5 DEF RequestAccepted, Provisioning, Goto, GoPC, Phase, Server
<1>6. ASSUME NEW n \in Node, RequestRejected(n) PROVE CoreInv'
  BY <1>6 DEF RequestRejected, Provisioning, Goto, GoPC, Phase, Server
<1>7. ASSUME NEW n \in Node, BootSucceeds(n) PROVE CoreInv'
  BY <1>7 DEF BootSucceeds, Provisioning, Goto, GoPC, Phase, Server
<1>8. ASSUME NEW n \in Node, BootFails(n) PROVE CoreInv'
  BY <1>8 DEF BootFails, Provisioning, Goto, GoPC, Phase, Server
<1>9. ASSUME NEW n \in Node, BootDies(n) PROVE CoreInv'
  BY <1>9 DEF BootDies, Provisioning, Goto, GoPC, Phase, Server
<1>10. ASSUME NEW n \in Node, Relaunch(n) PROVE CoreInv'
  BY <1>10 DEF Relaunch, Provisioning, Goto, GoPC, Phase, Server
<1>11. ASSUME NEW n \in Node, RelaunchCancelled(n) PROVE CoreInv'
  BY <1>11 DEF RelaunchCancelled, Provisioning, Goto, GoPC, Phase, Server
<1>12. ASSUME NEW n \in Node, Settle(n) PROVE CoreInv'
  BY <1>12 DEF Settle, Provisioning, Goto, setPhase, GoPC, Phase, Server
<1>13. ASSUME NEW n \in Node, JournalOutcome(n) PROVE CoreInv'
  BY <1>13 DEF JournalOutcome, Provisioning, Goto, save, GoPC, Phase, Server
<1>14. ASSUME NEW n \in Node, Release(n) PROVE CoreInv'
  BY <1>14 DEF Release, Provisioning, Goto, GoPC, Phase, Server
<1>15. ASSUME NEW n \in Node, ReturnError(n) PROVE CoreInv'
  BY <1>15 DEF ReturnError, Provisioning, Goto, RecordError, GoPC, Phase, Server
<1>16. ASSUME NEW d \in Downer, DownList(d) PROVE CoreInv'
  BY <1>16 DEF DownList, DownRuns, DownGoto, DownPC, Phase, Server, Downer
<1>17. ASSUME NEW d \in Downer, DownListFails(d) PROVE CoreInv'
  BY <1>17 DEF DownListFails, DownRuns, DownGoto, DownPC, Phase, Server, Downer
<1>18. ASSUME NEW d \in Downer, DownLoad(d) PROVE CoreInv'
  BY <1>18 DEF DownLoad, DownRuns, DownGoto, DownPC, Phase, Server, Downer
<1>19. ASSUME NEW d \in Downer, DownMark(d) PROVE CoreInv'
  BY <1>19 DEF DownMark, DownRuns, DownGoto, DownPC, Phase, Server, Downer
<1>20. ASSUME NEW d \in Downer, DownDestroy(d) PROVE CoreInv'
  BY <1>20 DEF DownDestroy, DownRuns, DownGoto, DownPC, Phase, Server, Downer
<1>21. ASSUME NEW d \in Downer, DownDestroyMissed(d) PROVE CoreInv'
  BY <1>21 DEF DownDestroyMissed, DownRuns, DownGoto, DownPC, Phase, Server, Downer
<1>22. ASSUME NEW d \in Downer, DownDestroyFails(d) PROVE CoreInv'
  BY <1>22 DEF DownDestroyFails, DownRuns, DownGoto, DownPC, Phase, Server, Downer
<1>23. ASSUME NEW d \in Downer, DownDestroyed(d) PROVE CoreInv'
  BY <1>23 DEF DownDestroyed, DownRuns, DownGoto, DownPC, Phase, Server, Downer
<1>24. ASSUME NEW d \in Downer, DownVerify(d) PROVE CoreInv'
  BY <1>24 DEF DownVerify, DownRuns, DownGoto, VerifyGone, DownPC, Phase, Server, Downer
<1>25. ASSUME NEW d \in Downer, DownReapAux(d) PROVE CoreInv'
  BY <1>25 DEF DownReapAux, DownRuns, DownGoto, AuxFailureStops, DownPC, Phase,
     Server, Downer
<1>26. ASSUME NEW d \in Downer, DownClose(d) PROVE CoreInv'
  BY <1>26 DEF DownClose, DownRuns, DownGoto, DownPC, Phase, Server, Downer
<1>27. CASE StartGroup
  BY <1>27 DEF StartGroup, MainAt, save, GoPC, DownPC, Stage, Proc, Phase, Downer
<1>28. CASE WaitSucceeds
  BY <1>28 DEF WaitSucceeds, MainAt, AllReturned, GoPC, DownPC, Stage, Proc, Phase, Downer
<1>29. CASE WaitFails
  BY <1>29 DEF WaitFails, MainAt, AllReturned, DownBegins, DownGoto, GoPC, DownPC,
     Stage, Proc, Phase, Downer
<1>30. CASE EnsureFirewall
  BY <1>30 DEF EnsureFirewall, MainAt, GoPC, DownPC, Stage, Proc, Phase, Downer
<1>31. CASE StartStreaming
  BY <1>31 DEF StartStreaming, MainAt, GoPC, DownPC, Stage, Proc, Phase, Downer
<1>32. CASE Interrupt
  BY <1>32 DEF Interrupt, MainAt, DownBegins, DownGoto, GoPC, DownPC, Stage, Proc,
     Phase, Downer
<1>33. CASE Deadline
  BY <1>33 DEF Deadline, MainAt, GoPC, DownPC, Stage, Proc, Phase, Downer
<1>34. CASE OperatorDown
  BY <1>34 DEF OperatorDown, MainAt, DownBegins, DownGoto, GoPC, DownPC, Stage,
     Proc, Phase, Downer
<1>35. ASSUME NEW how \in Proc, proc = "running", how # "running", ProcessEnds(how)
      PROVE CoreInv'
  BY <1>35 DEF ProcessEnds, Downer
<1>36. CASE RollbackExit \/ Degrade \/ Finish \/ HandlerExit \/ Crash
  BY <1>35, <1>36 DEF RollbackExit, Degrade, Finish, HandlerExit, Crash, MainAt, Proc
<1>37. CASE UNCHANGED vars
  BY <1>37 DEF vars
<1> QED
  BY <1>1, <1>2, <1>3, <1>4, <1>5, <1>6, <1>7, <1>8, <1>9, <1>10, <1>11, <1>12,
     <1>13, <1>14, <1>15, <1>16, <1>17, <1>18, <1>19, <1>20, <1>21, <1>22, <1>23,
     <1>24, <1>25, <1>26, <1>27, <1>28, <1>29, <1>30, <1>31, <1>32, <1>33, <1>34,
     <1>36, <1>37
     DEF Next, Goroutine, Down, Main

-----------------------------------------------------------------------------
\* The invariant holds when `up` starts.
LEMMA InitIndInv == Init => IndInv
<1> SUFFICES ASSUME Init PROVE IndInv
  OBVIOUS
<1>1. TypeOK
  <2>1. /\ pc \in [Node -> GoPC] /\ attempt \in [Node -> 1..MaxAttempts]
        /\ phase \in [Node -> Phase] /\ free \in 0..MaxConc
    BY DEF Init, GoPC, Phase
  <2>2. stage \in Stage /\ proc \in Proc
    BY DEF Init, Stage, Proc
  <2>3. /\ dpc \in [Downer -> DownPC]
        /\ tries \in [Downer -> 0..(DestroyAttempts - 1)]
    BY DEF Init, DownPC
  <2> QED
    BY <2>1, <2>2, <2>3, NoRecordType DEF Init, TypeOK
<1>2. Slots
  <2>1. Holders = {}
    BY DEF Init, Holders, Holding
  <2> QED
    BY <2>1, FS_EmptySet DEF Init, Slots
<1>3. CoreInv
  BY DEF Init, CoreInv, RetryInv, StageInv, PhaseInv, ServerInv, UpInv,
     JournalInv, WriteAhead, DownInv, Residue, NoRecord, Downer
<1> QED
  BY <1>1, <1>2, <1>3 DEF IndInv

\* Every step keeps the invariant.
LEMMA NextIndInv == IndInv /\ [Next]_vars => IndInv'
  BY TypeStep, SlotsStep, CoreStep DEF IndInv, CoreInv

\* Every reachable state satisfies the invariant.
LEMMA IndInvHolds == Spec => []IndInv
  BY InitIndInv, NextIndInv, PTL DEF Spec

\* Every variable has its type in every reachable state; in particular the
\* semaphore never hands out a permit it does not have, and no node is
\* launched more than MaxAttempts times.
THEOREM TypeCorrect == Spec => []TypeOK
<1>1. IndInv => TypeOK
  BY DEF IndInv
<1> QED
  BY <1>1, IndInvHolds, PTL

\* UpCluster never has more than MaxConc provisions under way.
THEOREM ConcurrencyIsBounded == Spec => []BoundedConcurrency
<1>1. IndInv => BoundedConcurrency
  BY HoldersFinite DEF IndInv, TypeOK, Slots, BoundedConcurrency
<1> QED
  BY <1>1, IndInvHolds, PTL

\* UpCluster's success means that every node is up.
THEOREM BarrierHolds == Spec => []Barrier
<1>1. IndInv => Barrier
  BY DEF IndInv, CoreInv, StageInv, PhaseInv, UpInv, Barrier
<1> QED
  BY <1>1, IndInvHolds, PTL

\* Nothing is at the provider that the journal does not know of.
THEOREM WriteAheadHolds == Spec => []WriteAhead
<1>1. IndInv => WriteAhead
  BY DEF IndInv, CoreInv
<1> QED
  BY <1>1, IndInvHolds, PTL

\* A rollback that reports success has left nothing behind.
THEOREM RollbackIsComplete == Spec => []RollbackComplete
<1>1. IndInv => RollbackComplete
  BY DEF IndInv, CoreInv, DownInv, RollbackComplete
<1> QED
  BY <1>1, IndInvHolds, PTL

-----------------------------------------------------------------------------
\* Only Down's last step makes a record disappear.
LEMMA OnlyCloseRemoves ==
  ASSUME TypeOK, Next, journal # NoRecord, journal' = NoRecord
  PROVE  \E d \in Downer : DownRuns(d, "close")
<1>1. phase # NoRecord /\ [n \in Node |-> "TEARING_DOWN"] # NoRecord
  BY DEF TypeOK, NoRecord, Phase
<1>2. ASSUME NEW n \in Node, Goroutine(n) PROVE FALSE
  BY <1>1, <1>2 DEF Goroutine, Acquire, AcquireFails, MarkProvisioning,
     JournalIntent, RequestAccepted, RequestRejected, BootSucceeds, BootFails,
     BootDies, Relaunch, RelaunchCancelled, Settle, JournalOutcome, Release,
     ReturnError, save, diskVars
<1>3. ASSUME NEW d \in Downer, Down(d) PROVE DownRuns(d, "close")
  BY <1>1, <1>3 DEF Down, DownList, DownListFails, DownLoad, DownMark,
     DownDestroy, DownDestroyMissed, DownDestroyFails, DownDestroyed,
     DownVerify, DownReapAux, DownClose, diskVars
<1>4. CASE Main
  BY <1>1, <1>4 DEF Main, StartGroup, WaitSucceeds, WaitFails, RollbackExit,
     EnsureFirewall, Degrade, StartStreaming, Finish, ProcessEnds, save, diskVars
<1>5. CASE Interrupt \/ HandlerExit \/ Deadline \/ Crash \/ OperatorDown
  BY <1>5 DEF Interrupt, HandlerExit, Deadline, Crash, OperatorDown,
     ProcessEnds, diskVars
<1> QED
  BY <1>2, <1>3, <1>4, <1>5 DEF Next

\* A step that writes or removes the record does nothing at the provider.
LEMMA JournalStepsAlone ==
  ASSUME Next, journal' # journal
  PROVE  Residue' = Residue
<1> USE DEF diskVars, cloudVars
<1>1. ASSUME cloud' = cloud, aux' = aux PROVE Residue' = Residue
  BY <1>1 DEF Residue
<1>2. ASSUME NEW n \in Node, Goroutine(n) PROVE cloud' = cloud /\ aux' = aux
  BY <1>2 DEF Goroutine, Acquire, AcquireFails, MarkProvisioning,
     JournalIntent, RequestAccepted, RequestRejected, BootSucceeds, BootFails,
     BootDies, Relaunch, RelaunchCancelled, Settle, JournalOutcome, Release,
     ReturnError
<1>3. ASSUME NEW d \in Downer, Down(d) PROVE cloud' = cloud /\ aux' = aux
  BY <1>3 DEF Down, DownList, DownListFails, DownLoad, DownMark,
     DownDestroy, DownDestroyMissed, DownDestroyFails, DownDestroyed,
     DownVerify, DownReapAux, DownClose
<1>4. CASE Main
  BY <1>1, <1>4 DEF Main, StartGroup, WaitSucceeds, WaitFails, RollbackExit,
     EnsureFirewall, Degrade, StartStreaming, Finish, ProcessEnds
<1>5. CASE Interrupt \/ HandlerExit \/ Deadline \/ Crash \/ OperatorDown
  BY <1>5 DEF Interrupt, HandlerExit, Deadline, Crash, OperatorDown, ProcessEnds
<1> QED
  BY <1>1, <1>2, <1>3, <1>4, <1>5 DEF Next

\* A Down about to remove the record has nothing left to remove elsewhere.
LEMMA CloseFindsNothing ==
  ASSUME IndInv, Next, handler = "idle", journal # NoRecord, journal' = NoRecord
  PROVE  ~Residue
<1>1. PICK d \in Downer : DownRuns(d, "close")
  BY OnlyCloseRemoves DEF IndInv
<1> QED
  BY <1>1 DEF IndInv, CoreInv, DownInv, DownRuns, Downer, Residue

\* The record is removed only with nothing left at the provider.
THEOREM ClosesLast == Spec => CloseLast
<1>1. IndInv /\ [Next]_vars =>
        [journal # NoRecord /\ journal' = NoRecord /\ handler = "idle"
           => ~Residue]_vars
  BY CloseFindsNothing
<1> QED
  BY <1>1, IndInvHolds, PTL DEF Spec, CloseLast

-----------------------------------------------------------------------------
\* No ^C came and no save failed.
Undisturbed == handler = "idle" /\ saveLost = FALSE

\* Without interrupts and save failures, none has happened.
LEMMA StaysUndisturbed ==
  ASSUME Interrupts = FALSE, SaveFailures = FALSE
  PROVE  Spec => []Undisturbed
<1>1. Init => Undisturbed
  BY DEF Init, Undisturbed
<1>2. Undisturbed /\ [Next]_vars => Undisturbed'
  <2> SUFFICES ASSUME Undisturbed, [Next]_vars PROVE Undisturbed'
    OBVIOUS
  <2>0. save => saveLost' = saveLost
    BY DEF save
  <2> USE DEF Undisturbed, procVars, diskVars
  <2>1. ASSUME NEW n \in Node, Goroutine(n) PROVE Undisturbed'
    BY <2>0, <2>1 DEF Goroutine, Acquire, AcquireFails, MarkProvisioning,
       JournalIntent, RequestAccepted, RequestRejected, BootSucceeds, BootFails,
       BootDies, Relaunch, RelaunchCancelled, Settle, JournalOutcome, Release,
       ReturnError
  <2>2. ASSUME NEW d \in Downer, Down(d) PROVE Undisturbed'
    BY <2>2 DEF Down, DownList, DownListFails, DownLoad, DownMark,
       DownDestroy, DownDestroyMissed, DownDestroyFails, DownDestroyed,
       DownVerify, DownReapAux, DownClose
  <2>3. CASE Main
    BY <2>0, <2>3 DEF Main, StartGroup, WaitSucceeds, WaitFails, RollbackExit,
       EnsureFirewall, Degrade, StartStreaming, Finish, ProcessEnds
  <2>4. CASE \/ Interrupt \/ HandlerExit \/ Deadline \/ Crash \/ OperatorDown
             \/ UNCHANGED vars
    BY <2>4 DEF Interrupt, HandlerExit, Deadline, Crash, OperatorDown,
       ProcessEnds, vars
  <2> QED
    BY <2>1, <2>2, <2>3, <2>4 DEF Next
<1> QED
  BY <1>1, <1>2, PTL DEF Spec

\* Undisturbed, the orchestrator is an intent log: what it leaves at the
\* provider is covered by a record from before the first create request until
\* after the last resource is gone.
THEOREM ImplementsIntentLog ==
  ASSUME Interrupts = FALSE, SaveFailures = FALSE
  PROVE  Spec => IntentLogSpec
<1>1. Init => IL!Init
  BY DEF Init, IL!Init, Residue
<1>2. IndInv /\ Undisturbed /\ IndInv' /\ Undisturbed' /\ [Next]_vars
        => [IL!Next]_(IL!vars)
  <2> SUFFICES ASSUME IndInv, Undisturbed, IndInv', Undisturbed', [Next]_vars
               PROVE  [IL!Next]_(IL!vars)
    OBVIOUS
  <2> USE DEF IL!Next, IL!Open, IL!Acquire, IL!Dispose, IL!Close, IL!vars
  <2>1. ~(journal # NoRecord) => ~Residue
    BY DEF IndInv, CoreInv, WriteAhead, Undisturbed, Residue, NoRecord, TypeOK, Server
  <2>2. ~(journal' # NoRecord) => ~Residue'
    BY DEF IndInv, CoreInv, WriteAhead, Undisturbed, Residue, NoRecord, TypeOK, Server
  <2>3. CASE UNCHANGED vars
    BY <2>3 DEF vars, diskVars, cloudVars, Residue
  <2>4. CASE Next /\ journal # NoRecord /\ journal' = NoRecord
    BY <2>2, <2>4, CloseFindsNothing, JournalStepsAlone DEF Undisturbed
  <2>5. CASE Next /\ journal = NoRecord /\ journal' # NoRecord
    <3>1. ~Residue
      BY <2>1, <2>5
    <3>2. Residue' = Residue
      BY <2>5, JournalStepsAlone
    <3> QED
      BY <2>5, <3>1, <3>2
  <2>6. CASE Next /\ (journal = NoRecord <=> journal' = NoRecord)
    BY <2>1, <2>2, <2>6 DEF Residue
  <2> QED
    BY <2>3, <2>4, <2>5, <2>6
<1> QED
  BY <1>1, <1>2, IndInvHolds, StaysUndisturbed, PTL DEF Spec, IL!Spec, IntentLogSpec
=============================================================================
