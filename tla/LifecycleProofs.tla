-------------------------- MODULE LifecycleProofs ---------------------------
(***************************************************************************)
(* Proofs about Lifecycle: whatever commands run side by side, and however *)
(* many, a cluster belongs to the command that holds its lock, and `up`    *)
(* never provisions twice.  `up -f` is taken to provision the id it locks  *)
(* (NamedByFile = FALSE); with a file that names the cluster the theorems  *)
(* fail, as the run LifeUpFile shows.                                      *)
(***************************************************************************)
EXTENDS Lifecycle, TLAPS

USE DEF history

(***************************************************************************)
(* The inductive invariant.                                                *)
(***************************************************************************)

\* Where a command is past its locks and may touch its clusters.
Section == {"preflight", "journal", "create", "record", "configure", "attached",
            "reaping", "destroy", "verify", "close", "tombstone"}

\* Where the ^C handler of an `up -f` may run beside it.
Aborting == {"journal", "create", "record", "configure", "attached",
             "destroy", "verify", "close"}

\* The cluster a command works on is one it planned to lock.
PlanOf(c) ==
    /\ pc[c] \in {"preview", "lock"} /\ loc[c].kind # "reap"
          => loc[c].id \in loc[c].plan
    /\ pc[c] = "preview" => loc[c].todo = loc[c].plan
    /\ pc[c] \in Section => loc[c].todo \subseteq loc[c].plan
    /\ pc[c] \in Section \ {"reaping"} => loc[c].id \in loc[c].plan

\* A ^C handler runs only beside the part of `up -f` that is past the locks.
AbortOf(c) == loc[c].abort # "no" => loc[c].kind = "up -f" /\ pc[c] \in Aborting

\* A guarded command holds the locks it has been through; gc holds the lock of
\* the id it is about to clear.
LocksOf(c) ==
    /\ pc[c] = "lock" /\ c \notin unguarded
          => \A i \in loc[c].plan \ loc[c].todo : lock[i] = c
    /\ pc[c] \in Section /\ c \notin unguarded
          => \A i \in loc[c].plan : lock[i] = c
    /\ pc[c] \in {"gcclose", "gctomb"} => lock[loc[c].id] = c

\* What the preflight saw is still so when the servers are created.
ClearFor(c) ==
    pc[c] \in {"journal", "create", "record"} /\ c \notin unguarded
        => \A s \in ServersOf(loc[c].prov, loc[c].id) : s[3] \in unguarded \cup {c}

LifeInv ==
    /\ TypeOK
    /\ \A c \in Command : PlanOf(c) /\ LocksOf(c) /\ AbortOf(c) /\ ClearFor(c)
    /\ OneUp

Steps(c) == Start(c) \/ Proceed(c) \/ UpDetaches(c) \/ Interrupt(c) \/ Crash(c)

-----------------------------------------------------------------------------
(***************************************************************************)
(* Types.                                                                  *)
(***************************************************************************)

\* The local variables of a command that is not running.
LEMMA NoLocalsTyped == NoLocals \in Local
  BY LifecycleAssumption DEF NoLocals, Local, Kind, Abort

\* The local variables of a command that has just been started.
LEMMA FreshTyped ==
    ASSUME NEW k \in Kind, NEW p \in Provider, NEW i \in Id, NEW S \in SUBSET Id
    PROVE  [NoLocals EXCEPT !.kind = k, !.prov = p, !.id = i,
                            !.plan = S, !.todo = S] \in Local
  BY LifecycleAssumption DEF NoLocals, Local, Kind, Abort

LEMMA FreshReapTyped ==
    ASSUME NEW p \in Provider, NEW S \in SUBSET Id
    PROVE  [NoLocals EXCEPT !.kind = "reap", !.prov = p,
                            !.plan = S, !.todo = S] \in Local
  BY LifecycleAssumption DEF NoLocals, Local, Kind, Abort

\* The updates a running command makes to its plan.
LEMMA PlanTyped ==
    ASSUME NEW r \in Local
    PROVE  /\ [r EXCEPT !.todo = r.plan] \in Local
           /\ [r EXCEPT !.plan = {}, !.id = DemoId] \in Local
  BY LifecycleAssumption DEF Local

\* The end of a process keeps the types of what it changes.
LEMMA ExitTyped ==
    ASSUME TypeOK, NEW c \in Command, Exit(c)
    PROVE  /\ pc' \in [Command -> PC]
           /\ loc' \in [Command -> Local]
           /\ lock' \in [Id -> Command \cup {NoCommand}]
<1>1. pc' \in [Command -> PC]
  BY DEF Exit, Goto, TypeOK, PC
<1>2. loc' \in [Command -> Local]
  BY NoLocalsTyped DEF Exit, TypeOK
<1>3. lock' \in [Id -> Command \cup {NoCommand}]
  BY DEF Exit, TypeOK
<1> QED
  BY <1>1, <1>2, <1>3

\* The steps of the ^C handler, up to the end of the process.
Handles(c) ==
    Interrupt(c) \/ AbortDestroy(c) \/ AbortVerify(c) \/ AbortClose(c) \/ AbortFails(c)

\* The saves of an `up`.
Saves(c) == UpJournal(c) \/ UpRecord(c) \/ UpRollsBack(c)

\* What a save does, whether it works or not.
LEMMA SaveStep ==
    ASSUME TypeOK, NEW c \in Command, Save(c)
    PROVE  /\ loc' \in [Command -> Local]
           /\ journal' \in [Id -> Provider \cup {NoProvider}]
           /\ \A d \in Command \ {c} : loc'[d] = loc[d]
           /\ loc'[c].kind = loc[c].kind /\ loc'[c].prov = loc[c].prov
           /\ loc'[c].id = loc[c].id /\ loc'[c].plan = loc[c].plan
           /\ loc'[c].todo = loc[c].todo /\ loc'[c].abort = loc[c].abort
           /\ loc[c].abort # "no" => stray' = stray
           /\ \/ journal' = [journal EXCEPT ![loc[c].id] = loc[c].prov]
              \/ UNCHANGED <<journal, stray>>
           /\ journal'[loc[c].id] # NoProvider \/ loc'[c].unsaved
           /\ stray \ {Mine(c)} \subseteq stray' /\ stray' \subseteq stray
<1>1. loc[c] \in Local /\ loc[c].id \in Id /\ loc[c].prov \in Provider
  BY DEF TypeOK, Local
<1>2. ASSUME NEW b \in BOOLEAN, loc' = [loc EXCEPT ![c].unsaved = b]
      PROVE  /\ loc' \in [Command -> Local]
             /\ \A d \in Command \ {c} : loc'[d] = loc[d]
             /\ loc'[c].kind = loc[c].kind /\ loc'[c].prov = loc[c].prov
             /\ loc'[c].id = loc[c].id /\ loc'[c].plan = loc[c].plan
             /\ loc'[c].todo = loc[c].todo /\ loc'[c].abort = loc[c].abort
             /\ loc'[c].unsaved = b
  <2>1. [loc[c] EXCEPT !.unsaved = b] \in Local
    BY <1>1, <1>2 DEF Local
  <2>2. loc' = [loc EXCEPT ![c] = [loc[c] EXCEPT !.unsaved = b]]
    BY <1>2
  <2> QED
    BY <1>1, <2>1, <2>2 DEF TypeOK, Local
<1>3. CASE /\ journal' = [journal EXCEPT ![loc[c].id] = loc[c].prov]
           /\ loc' = [loc EXCEPT ![c].unsaved = FALSE]
           /\ stray' = IF loc[c].abort = "no" THEN stray \ {Mine(c)} ELSE stray
  <2>1. /\ journal' \in [Id -> Provider \cup {NoProvider}]
        /\ journal'[loc[c].id] # NoProvider
    BY <1>1, <1>3, LifecycleAssumption DEF TypeOK
  <2>2. /\ loc[c].abort # "no" => stray' = stray
        /\ stray \ {Mine(c)} \subseteq stray' /\ stray' \subseteq stray
    BY <1>3
  <2> QED
    BY <1>2, <1>3, <2>1, <2>2
<1>4. CASE /\ loc' = [loc EXCEPT ![c].unsaved = journal[loc[c].id] = NoProvider]
           /\ UNCHANGED <<journal, stray>>
  <2>1. (journal[loc[c].id] = NoProvider) \in BOOLEAN
    OBVIOUS
  <2>2. loc'[c].unsaved = (journal[loc[c].id] = NoProvider)
    BY <1>2, <1>4, <2>1
  <2>3. journal' \in [Id -> Provider \cup {NoProvider}]
    BY <1>4 DEF TypeOK
  <2> QED
    BY <1>2, <1>4, <2>1, <2>2, <2>3
<1> QED
  BY <1>3, <1>4 DEF Save

\* What a step of the ^C handler does to its command's variables.
LEMMA HandlerStep ==
    ASSUME TypeOK, NEW c \in Command, NEW to \in Abort, HandlerTo(c, to)
    PROVE  /\ loc' \in [Command -> Local]
           /\ \A d \in Command \ {c} : loc'[d] = loc[d]
           /\ loc'[c].kind = loc[c].kind /\ loc'[c].prov = loc[c].prov
           /\ loc'[c].id = loc[c].id /\ loc'[c].plan = loc[c].plan
           /\ loc'[c].todo = loc[c].todo /\ loc'[c].unsaved = loc[c].unsaved
           /\ loc'[c].abort = to
<1>1. loc[c] \in Local
  BY DEF TypeOK
<1>2. loc' = [loc EXCEPT ![c] = [loc[c] EXCEPT !.abort = to]]
  BY DEF HandlerTo
<1>3. [loc[c] EXCEPT !.abort = to] \in Local
  BY <1>1 DEF Local
<1> QED
  BY <1>1, <1>2, <1>3 DEF TypeOK, Local

\* The handler keeps to its own variable and the cluster's journal and servers.
LEMMA HandlesStep ==
    ASSUME TypeOK, NEW c \in Command, Handles(c)
    PROVE  /\ loc' \in [Command -> Local]
           /\ \A d \in Command \ {c} : loc'[d] = loc[d]
           /\ loc'[c].kind = loc[c].kind /\ loc'[c].prov = loc[c].prov
           /\ loc'[c].id = loc[c].id /\ loc'[c].plan = loc[c].plan
           /\ loc'[c].todo = loc[c].todo
           /\ UNCHANGED <<pc, lock, manifest, dead, unguarded>>
           /\ loc[c].abort # loc'[c].abort /\ loc'[c].abort # "no"
           /\ loc'[c].abort = "close" => AbortVerify(c)
           /\ journal' = journal \/ journal' = [journal EXCEPT ![loc[c].id] = NoProvider]
           /\ \E gone \in SUBSET ServersOf(loc[c].prov, loc[c].id) :
                 cloud' = cloud \ gone /\ stray' = stray \ gone
<1>1. ASSUME UNCHANGED <<cloud, stray>>
      PROVE  \E gone \in SUBSET ServersOf(loc[c].prov, loc[c].id) :
                cloud' = cloud \ gone /\ stray' = stray \ gone
  <2>1. {} \in SUBSET ServersOf(loc[c].prov, loc[c].id)
    OBVIOUS
  <2>2. cloud' = cloud \ {} /\ stray' = stray \ {}
    BY <1>1
  <2> QED
    BY <2>1, <2>2
<1>2. CASE Interrupt(c)
  <2>1. HandlerTo(c, "destroy") /\ loc[c].abort = "no" /\ UNCHANGED <<cloud, stray>>
    BY <1>2 DEF Interrupt
  <2> QED
    BY <1>1, <1>2, <2>1, HandlerStep DEF Interrupt, Abort
<1>3. CASE AbortDestroy(c)
  BY <1>3, HandlerStep DEF AbortDestroy, DestroySome, Abort
<1>4. CASE AbortVerify(c)
  <2>1. HandlerTo(c, "close") /\ loc[c].abort = "verify" /\ UNCHANGED <<cloud, stray>>
    BY <1>4 DEF AbortVerify
  <2> QED
    BY <1>1, <1>4, <2>1, HandlerStep DEF AbortVerify, Abort
<1>5. CASE AbortClose(c)
  <2>1. HandlerTo(c, "exit") /\ loc[c].abort = "close" /\ UNCHANGED <<cloud, stray>>
    BY <1>5 DEF AbortClose
  <2> QED
    BY <1>1, <1>5, <2>1, HandlerStep DEF AbortClose, Abort
<1>6. CASE AbortFails(c)
  <2>1. HandlerTo(c, "exit") /\ loc[c].abort # "exit" /\ UNCHANGED <<cloud, stray>>
    BY <1>6 DEF AbortFails
  <2> QED
    BY <1>1, <1>6, <2>1, HandlerStep DEF AbortFails, Abort
<1> QED
  BY <1>2, <1>3, <1>4, <1>5, <1>6 DEF Handles

\* Every step keeps the types.
LEMMA LifeTypeStep ==
    ASSUME TypeOK, NEW c \in Command, Steps(c)
    PROVE  TypeOK'
<1>1. CASE StartUp(c)
  <2>1. PICK k \in Kinds \cap {"up", "up -f"}, p \in Provider, flag \in Id, i \in Id :
            loc' = [loc EXCEPT ![c] = [NoLocals EXCEPT
                      !.kind = k, !.prov = p, !.id = i,
                      !.plan = {flag}, !.todo = {flag}]]
    BY <1>1 DEF StartUp
  <2>2. k \in Kind /\ {flag} \in SUBSET Id
    BY DEF Kind
  <2>3. loc' \in [Command -> Local]
    BY <2>1, <2>2, FreshTyped DEF TypeOK
  <2> QED
    BY <1>1, <2>3 DEF StartUp, Goto, TypeOK, PC, Remember, Quiet
<1>2. CASE StartDown(c)
  <2>1. PICK i \in Id, flag \in Provider \cup {NoProvider} :
            loc' = [loc EXCEPT ![c] = [NoLocals EXCEPT
                      !.kind = "down",
                      !.prov = IF flag # NoProvider THEN flag
                               ELSE IF manifestProvider(i) # NoProvider
                               THEN manifestProvider(i) ELSE DefaultProvider,
                      !.id = i, !.plan = {i}, !.todo = {i}]]
    BY <1>2 DEF StartDown, Remember, Quiet
  <2>2. manifestProvider(i) \in Provider \cup {NoProvider}
    BY DEF manifestProvider, TypeOK
  <2>3. "down" \in Kind /\ {i} \in SUBSET Id
    BY DEF Kind
  <2>4. loc' \in [Command -> Local]
    BY <2>1, <2>2, <2>3, FreshTyped, LifecycleAssumption DEF TypeOK
  <2> QED
    BY <1>2, <2>4 DEF StartDown, Goto, TypeOK, PC, Remember, Quiet
<1>3. CASE StartReap(c)
  <2>1. PICK p \in Provider, S \in SUBSET Id :
            loc' = [loc EXCEPT ![c] = [NoLocals EXCEPT
                      !.kind = "reap", !.prov = p, !.plan = S, !.todo = S]]
    BY <1>3 DEF StartReap, LiveAt, Remember, Quiet
  <2>2. loc' \in [Command -> Local]
    BY <2>1, FreshReapTyped DEF TypeOK
  <2> QED
    BY <1>3, <2>2 DEF StartReap, Goto, TypeOK, PC, Remember, Quiet
<1>4. CASE TakeLock(c)
  <2>1. PICK i \in loc[c].todo :
            /\ lock' = [lock EXCEPT ![i] = c]
            /\ loc' = [loc EXCEPT ![c].todo = @ \ {i}]
    BY <1>4 DEF TakeLock
  <2>2. i \in Id /\ loc' \in [Command -> Local]
    BY <2>1 DEF TypeOK, Local
  <2>3. lock' \in [Id -> Command \cup {NoCommand}]
    BY <2>1, <2>2 DEF TypeOK
  <2> QED
    BY <1>4, <2>2, <2>3 DEF TakeLock, TypeOK
<1>5. CASE LockBusy(c)
  BY <1>5, ExitTyped DEF LockBusy, RefuseWhenBusy, TypeOK
<1>6. CASE LockError(c)
  <2>1. PICK i \in loc[c].todo : loc' = [loc EXCEPT ![c].todo = @ \ {i}]
    BY <1>6 DEF LockError
  <2>2. loc' \in [Command -> Local]
    BY <2>1 DEF TypeOK, Local
  <2> QED
    BY <1>6, <2>2 DEF LockError, TypeOK
<1>7. CASE AllLocked(c)
  <2>1. [loc[c] EXCEPT !.todo = loc[c].plan] \in Local
    BY PlanTyped DEF TypeOK
  <2>2. \/ loc' = loc
        \/ loc' = [loc EXCEPT ![c] = [loc[c] EXCEPT !.todo = loc[c].plan]]
    BY <1>7 DEF AllLocked
  <2>3. loc' \in [Command -> Local]
    BY <2>1, <2>2 DEF TypeOK
  <2>4. pc' \in [Command -> PC]
    BY <1>7 DEF AllLocked, Goto, TypeOK, PC
  <2> QED
    BY <1>7, <2>3, <2>4 DEF AllLocked, TypeOK
<1>8. CASE PreflightPasses(c)
  BY <1>8 DEF PreflightPasses, Goto, TypeOK, PC
<1>9. CASE UpRefused(c)
  BY <1>9, ExitTyped DEF UpRefused, TypeOK
<1>10. CASE UpJournal(c)
  BY <1>10, SaveStep DEF UpJournal, Goto, TypeOK, PC
<1>11. CASE UpCreate(c)
  <2>1. <<loc[c].prov, loc[c].id, c>> \in Provider \X Id \X Command
    BY DEF TypeOK, Local
  <2> QED
    BY <1>11, <2>1 DEF UpCreate, Goto, TypeOK, PC, Mine
<1>12. CASE UpFails(c)
  BY <1>12, ExitTyped DEF UpFails, TypeOK
<1>13. CASE UpRollsBack(c)
  BY <1>13, SaveStep DEF UpRollsBack, Goto, TypeOK, PC
<1>14. CASE UpStops(c)
  BY <1>14, ExitTyped DEF UpStops, TypeOK
<1>15. CASE UpManifest(c)
  <2>1. loc[c].id \in Id /\ loc[c].prov \in Provider
    BY DEF TypeOK, Local
  <2>2. /\ manifest' \in [Id -> Provider \cup {NoProvider}]
        /\ dead' \subseteq {i \in Id : manifest'[i] # NoProvider}
    BY <1>15, <2>1, LifecycleAssumption DEF UpManifest, TypeOK
  <2>3. pc' \in [Command -> PC]
    BY <1>15 DEF UpManifest, Goto, TypeOK, PC
  <2> QED
    BY <1>15, <2>2, <2>3 DEF UpManifest, TypeOK
<1>16. CASE Preview(c)
  BY <1>16, ExitTyped DEF Preview, Goto, TypeOK, PC
<1>17. CASE Destroy(c)
  BY <1>17 DEF Destroy, Goto, ServersOf, TypeOK, PC, DestroySome
<1>18. CASE Verify(c)
  BY <1>18 DEF Verify, Goto, TypeOK, PC
<1>19. CASE DownFails(c)
  BY <1>19, ExitTyped DEF DownFails, StopOnFailure, Goto, TypeOK, PC
<1>20. CASE Close(c)
  BY <1>20, ExitTyped DEF Close, Goto, TypeOK, PC, Local
<1>21. CASE Tombstone(c)
  <2>1. loc[c].id \in Id
    BY DEF TypeOK, Local
  <2>2. dead' \subseteq {i \in Id : manifest[i] # NoProvider}
    BY <1>21, <2>1 DEF Tombstone, tombstoneManifest, TypeOK
  <2> QED
    BY <1>21, <2>2, ExitTyped DEF Tombstone, TypeOK
<1>22. CASE ReapNext(c)
  <2>1. loc' \in [Command -> Local]
    BY <1>22 DEF ReapNext, TypeOK, Local
  <2> QED
    BY <1>22, <2>1 DEF ReapNext, Goto, TypeOK, PC
<1>23. CASE ReapTombstones(c)
  <2>1. loc' \in [Command -> Local]
    BY <1>23, PlanTyped DEF ReapTombstones, TypeOK
  <2>2. loc[c].plan \subseteq Id
    BY DEF TypeOK, Local
  <2>3. dead' \subseteq {i \in Id : manifest[i] # NoProvider}
    BY <1>23, <2>2 DEF ReapTombstones, tombstoneManifest, TypeOK
  <2> QED
    BY <1>23, <2>1, <2>3 DEF ReapTombstones, Goto, TypeOK, PC
<1>24. CASE GcList(c)
  <2>1. CASE Exit(c)
    BY <1>24, <2>1, ExitTyped DEF GcList, TypeOK
  <2>2. CASE /\ loc' = [loc EXCEPT ![c].live = LiveAt(loc[c].prov)]
             /\ Goto(c, "gcdir")
             /\ UNCHANGED lock
    <3>1. loc' \in [Command -> Local]
      BY <2>2 DEF LiveAt, TypeOK, Local
    <3> QED
      BY <1>24, <2>2, <3>1 DEF GcList, Goto, TypeOK, PC
  <2> QED
    BY <1>24, <2>1, <2>2 DEF GcList
<1>25. CASE GcReadDir(c)
  <2>1. loc' \in [Command -> Local]
    BY <1>25 DEF GcReadDir, TypeOK, Local
  <2> QED
    BY <1>25, <2>1 DEF GcReadDir, Goto, TypeOK, PC
<1>26. CASE GcVisit(c)
  <2>1. PICK i \in loc[c].todo :
            \/ loc' = [loc EXCEPT ![c].id = i, ![c].todo = @ \ {i}]
            \/ loc' = [loc EXCEPT ![c].todo = @ \ {i}]
    BY <1>26 DEF GcVisit
  <2>2. ASSUME loc' = [loc EXCEPT ![c].id = i, ![c].todo = @ \ {i}]
        PROVE  loc' \in [Command -> Local]
    BY <2>2 DEF TypeOK, Local
  <2>3. ASSUME loc' = [loc EXCEPT ![c].todo = @ \ {i}]
        PROVE  loc' \in [Command -> Local]
    BY <2>3 DEF TypeOK, Local
  <2>4. loc' \in [Command -> Local]
    BY <2>1, <2>2, <2>3
  <2>5. pc' \in [Command -> PC]
    BY <1>26 DEF GcVisit, Goto, TypeOK, PC
  <2> QED
    BY <1>26, <2>4, <2>5 DEF GcVisit, TypeOK
<1>27. CASE GcDone(c)
  BY <1>27, ExitTyped DEF GcDone, TypeOK
<1>28. CASE GcLock(c)
  <2>1. loc[c].id \in Id
    BY DEF TypeOK, Local
  <2>2. lock' \in [Id -> Command \cup {NoCommand}]
    BY <1>28, <2>1 DEF GcLock, TypeOK
  <2> QED
    BY <1>28, <2>2 DEF GcLock, Goto, TypeOK, PC
<1>29. CASE GcClose(c)
  BY <1>29 DEF GcClose, GcUnlock, Goto, TypeOK, PC, Local
<1>30. CASE GcTombstone(c)
  <2>1. loc[c].id \in Id
    BY DEF TypeOK, Local
  <2>2. lock' \in [Id -> Command \cup {NoCommand}]
    BY <1>30, <2>1 DEF GcTombstone, GcUnlock, TypeOK
  <2>3. pc' \in [Command -> PC]
    BY <1>30 DEF GcTombstone, GcUnlock, Goto, TypeOK, PC
  <2>4. dead' \subseteq {i \in Id : manifest[i] # NoProvider}
    BY <1>30, <2>1 DEF GcTombstone, tombstoneManifest, TypeOK
  <2> QED
    BY <1>30, <2>2, <2>3, <2>4 DEF GcTombstone, TypeOK
<1>31. CASE UpDetaches(c)
  BY <1>31, ExitTyped DEF UpDetaches, TypeOK
<1>32. CASE Crash(c)
  BY <1>32, ExitTyped DEF Crash, TypeOK
<1>33. CASE UpRecord(c)
  BY <1>33, SaveStep DEF UpRecord, Goto, TypeOK, PC
<1>34. CASE Handles(c)
  BY <1>34, HandlesStep DEF TypeOK
<1>35. CASE AbortExit(c)
  BY <1>35, ExitTyped DEF AbortExit, TypeOK
<1> QED
  BY <1>1, <1>2, <1>3, <1>4, <1>5, <1>6, <1>7, <1>8, <1>9, <1>10, <1>11, <1>12,
       <1>13, <1>14, <1>15, <1>16, <1>17, <1>18, <1>19, <1>20, <1>21, <1>22,
       <1>23, <1>24, <1>25, <1>26, <1>27, <1>28, <1>29, <1>30, <1>31, <1>32,
       <1>33, <1>34, <1>35 DEF Steps, Start, Proceed, Handles

-----------------------------------------------------------------------------
(***************************************************************************)
(* Plans and locks.                                                        *)
(***************************************************************************)

\* A step of c leaves the other commands where they are, their local
\* variables and the locks they hold included.
LEMMA OthersUndisturbed ==
    ASSUME TypeOK, NEW c \in Command, NEW d \in Command, d # c,
           LocksOf(c), Steps(c)
    PROVE  /\ pc'[d] = pc[d] /\ loc'[d] = loc[d]
           /\ \A i \in Id : lock[i] = d => lock'[i] = d
           /\ d \in unguarded' => d \in unguarded
<1> USE LifecycleAssumption
<1>1. CASE StartUp(c)
  BY <1>1 DEF StartUp, Goto, NoLocals, TypeOK, Remember, Quiet
<1>2. CASE StartDown(c)
  BY <1>2 DEF StartDown, Goto, NoLocals, manifestProvider, TypeOK, Remember, Quiet
<1>3. CASE StartReap(c)
  BY <1>3 DEF StartReap, Goto, NoLocals, LiveAt, TypeOK, Remember, Quiet
<1>4. CASE TakeLock(c)
  BY <1>4 DEF TakeLock, LockFree, TypeOK
<1>5. CASE LockBusy(c)
  BY <1>5 DEF LockBusy, RefuseWhenBusy, Exit, Goto, TypeOK
<1>6. CASE LockError(c)
  BY <1>6 DEF LockError, TypeOK
<1>7. CASE AllLocked(c)
  BY <1>7 DEF AllLocked, Goto, TypeOK
<1>8. CASE PreflightPasses(c)
  BY <1>8 DEF PreflightPasses, Goto, TypeOK
<1>9. CASE UpRefused(c)
  BY <1>9 DEF UpRefused, Exit, Goto, TypeOK
<1>10. CASE UpJournal(c)
  BY <1>10, SaveStep DEF UpJournal, Goto, TypeOK
<1>11. CASE UpCreate(c)
  BY <1>11 DEF UpCreate, Goto, TypeOK, Mine
<1>12. CASE UpFails(c)
  BY <1>12 DEF UpFails, Exit, Goto, TypeOK
<1>13. CASE UpRollsBack(c)
  BY <1>13, SaveStep DEF UpRollsBack, Goto, TypeOK
<1>14. CASE UpStops(c)
  BY <1>14 DEF UpStops, Exit, Goto, TypeOK
<1>15. CASE UpManifest(c)
  BY <1>15 DEF UpManifest, Goto, TypeOK
<1>16. CASE Preview(c)
  BY <1>16 DEF Preview, Exit, Goto, TypeOK
<1>17. CASE Destroy(c)
  BY <1>17 DEF Destroy, Goto, ServersOf, TypeOK, DestroySome
<1>18. CASE Verify(c)
  BY <1>18 DEF Verify, Goto, TypeOK
<1>19. CASE DownFails(c)
  BY <1>19 DEF DownFails, StopOnFailure, Exit, Goto, TypeOK
<1>20. CASE Close(c)
  BY <1>20 DEF Close, Exit, Goto, TypeOK
<1>21. CASE Tombstone(c)
  BY <1>21 DEF Tombstone, tombstoneManifest, Exit, Goto, TypeOK
<1>22. CASE ReapNext(c)
  BY <1>22 DEF ReapNext, Goto, TypeOK
<1>23. CASE ReapTombstones(c)
  BY <1>23 DEF ReapTombstones, tombstoneManifest, Goto, TypeOK
<1>24. CASE GcList(c)
  BY <1>24 DEF GcList, Exit, Goto, LiveAt, TypeOK
<1>25. CASE GcReadDir(c)
  BY <1>25 DEF GcReadDir, Goto, TypeOK
<1>26. CASE GcVisit(c)
  BY <1>26 DEF GcVisit, Goto, TypeOK
<1>27. CASE GcDone(c)
  BY <1>27 DEF GcDone, Exit, Goto, TypeOK
<1>28. CASE GcLock(c)
  BY <1>28 DEF GcLock, LockFree, Goto, TypeOK
<1>29. CASE GcClose(c)
  BY <1>29 DEF GcClose, GcUnlock, Goto, TypeOK, LocksOf
<1>30. CASE GcTombstone(c)
  BY <1>30 DEF GcTombstone, tombstoneManifest, GcUnlock, Goto, TypeOK, LocksOf
<1>31. CASE UpDetaches(c)
  BY <1>31 DEF UpDetaches, Exit, Goto, TypeOK
<1>32. CASE Crash(c)
  BY <1>32 DEF Crash, Exit, Goto, TypeOK
<1>33. CASE UpRecord(c)
  BY <1>33, SaveStep DEF UpRecord, Goto, TypeOK
<1>34. CASE Handles(c)
  BY <1>34, HandlesStep DEF TypeOK
<1>35. CASE AbortExit(c)
  BY <1>35 DEF AbortExit, Exit, Goto, TypeOK
<1> QED
  BY <1>1, <1>2, <1>3, <1>4, <1>5, <1>6, <1>7, <1>8, <1>9, <1>10, <1>11, <1>12,
       <1>13, <1>14, <1>15, <1>16, <1>17, <1>18, <1>19, <1>20, <1>21, <1>22,
       <1>23, <1>24, <1>25, <1>26, <1>27, <1>28, <1>29, <1>30, <1>31, <1>32,
       <1>33, <1>34, <1>35 DEF Steps, Start, Proceed, Handles

\* A step of c keeps its own plan.
LEMMA PlanStep ==
    ASSUME NEW c \in Command, Steps(c), TypeOK, PlanOf(c), NamedByFile = FALSE
    PROVE  PlanOf(c)'
<1>1. CASE StartUp(c)
  <2>1. PICK k \in {"up", "up -f"}, p \in Provider, flag \in Id, id \in Id :
            /\ id = flag
            /\ loc' = [loc EXCEPT ![c] = [NoLocals EXCEPT
                       !.kind = k, !.prov = p, !.id = id,
                       !.plan = {flag}, !.todo = {flag}]]
    BY <1>1 DEF StartUp, Remember, Quiet
  <2>2. /\ loc'[c].id = id
        /\ loc'[c].plan = {flag} /\ loc'[c].todo = {flag}
    BY <2>1 DEF NoLocals, TypeOK
  <2>3. pc'[c] = "lock"
    BY <1>1 DEF StartUp, Goto, TypeOK, Remember, Quiet
  <2> QED
    BY <2>1, <2>2, <2>3 DEF PlanOf, Section
<1>2. CASE StartDown(c)
  BY <1>2 DEF StartDown, Goto, NoLocals, manifestProvider, PlanOf, TypeOK,
       Local, Section, Remember, Quiet
<1>3. CASE StartReap(c)
  BY <1>3 DEF StartReap, Goto, NoLocals, LiveAt, PlanOf, TypeOK, Local, Section,
       Remember, Quiet
<1>4. CASE TakeLock(c)
  BY <1>4 DEF TakeLock, LockFree, PlanOf, TypeOK, Local, Section
<1>5. CASE LockBusy(c)
  BY <1>5 DEF LockBusy, RefuseWhenBusy, Exit, Goto, PlanOf, TypeOK, Local, Section
<1>6. CASE LockError(c)
  BY <1>6 DEF LockError, PlanOf, TypeOK, Local, Section
<1>7. CASE AllLocked(c)
  <2>1. CASE loc[c].kind \in {"up", "up -f"} /\ Goto(c, "preflight") /\ UNCHANGED loc
    BY <1>7, <2>1 DEF AllLocked, Goto, TypeOK, Section, PlanOf
  <2>2. CASE loc[c].kind = "down" /\ Goto(c, "destroy") /\ UNCHANGED loc
    BY <1>7, <2>2 DEF AllLocked, Goto, TypeOK, Section, PlanOf
  <2>3. CASE /\ loc[c].kind = "reap" /\ Goto(c, "reaping")
             /\ loc' = [loc EXCEPT ![c].todo = loc[c].plan]
    <3>1. /\ pc'[c] = "reaping"
          /\ loc'[c].plan = loc[c].plan /\ loc'[c].todo = loc[c].plan
      BY <2>3 DEF Goto, TypeOK, Local
    <3>2. pc[c] = "lock" /\ loc[c].todo = {} /\ UNCHANGED <<lock, unguarded>>
      BY <1>7 DEF AllLocked
    <3> QED
      BY <3>1, <3>2 DEF Section, PlanOf
  <2> QED
    BY <1>7, <2>1, <2>2, <2>3 DEF AllLocked
<1>8. CASE PreflightPasses(c)
  BY <1>8 DEF PreflightPasses, Goto, PlanOf, TypeOK, Local, Section
<1>9. CASE UpRefused(c)
  BY <1>9 DEF UpRefused, Exit, Goto, PlanOf, TypeOK, Local, Section
<1>10. CASE UpJournal(c)
  BY <1>10, SaveStep DEF UpJournal, Goto, PlanOf, Section, TypeOK
<1>11. CASE UpCreate(c)
  BY <1>11 DEF UpCreate, Goto, PlanOf, TypeOK, Local, Section, Mine
<1>12. CASE UpFails(c)
  BY <1>12 DEF UpFails, Exit, Goto, PlanOf, TypeOK, Local, Section
<1>13. CASE UpRollsBack(c)
  BY <1>13, SaveStep DEF UpRollsBack, Goto, PlanOf, Section, TypeOK
<1>14. CASE UpStops(c)
  BY <1>14 DEF UpStops, Exit, Goto, PlanOf, TypeOK, Local, Section
<1>15. CASE UpManifest(c)
  BY <1>15 DEF UpManifest, Goto, PlanOf, TypeOK, Local, Section
<1>16. CASE Preview(c)
  BY <1>16 DEF Preview, Exit, Goto, PlanOf, TypeOK, Local, Section
<1>17. CASE Destroy(c)
  BY <1>17 DEF Destroy, Goto, ServersOf, PlanOf, TypeOK, Local, Section, DestroySome
<1>18. CASE Verify(c)
  BY <1>18 DEF Verify, Goto, PlanOf, TypeOK, Local, Section
<1>19. CASE DownFails(c)
  BY <1>19 DEF DownFails, StopOnFailure, Exit, Goto, PlanOf, TypeOK, Local, Section
<1>20. CASE Close(c)
  BY <1>20 DEF Close, Exit, Goto, PlanOf, TypeOK, Local, Section
<1>21. CASE Tombstone(c)
  BY <1>21 DEF Tombstone, tombstoneManifest, Exit, Goto, PlanOf, TypeOK, Local,
       Section
<1>22. CASE ReapNext(c)
  BY <1>22 DEF ReapNext, Goto, PlanOf, TypeOK, Local, Section
<1>23. CASE ReapTombstones(c)
  BY <1>23 DEF ReapTombstones, tombstoneManifest, Goto, PlanOf, TypeOK, Local,
       Section
<1>24. CASE GcList(c)
  BY <1>24 DEF GcList, Exit, Goto, LiveAt, PlanOf, TypeOK, Local, Section
<1>25. CASE GcReadDir(c)
  BY <1>25 DEF GcReadDir, Goto, PlanOf, TypeOK, Local, Section
<1>26. CASE GcVisit(c)
  BY <1>26 DEF GcVisit, Goto, PlanOf, TypeOK, Local, Section
<1>27. CASE GcDone(c)
  BY <1>27 DEF GcDone, Exit, Goto, PlanOf, TypeOK, Local, Section
<1>28. CASE GcLock(c)
  BY <1>28 DEF GcLock, LockFree, Goto, PlanOf, TypeOK, Local, Section
<1>29. CASE GcClose(c)
  BY <1>29 DEF GcClose, GcUnlock, Goto, PlanOf, TypeOK, Local, Section
<1>30. CASE GcTombstone(c)
  BY <1>30 DEF GcTombstone, tombstoneManifest, GcUnlock, Goto, PlanOf, TypeOK,
       Local, Section
<1>31. CASE UpDetaches(c)
  BY <1>31 DEF UpDetaches, Exit, Goto, PlanOf, TypeOK, Local, Section
<1>32. CASE Crash(c)
  BY <1>32 DEF Crash, Exit, Goto, PlanOf, TypeOK, Local, Section
<1>33. CASE UpRecord(c)
  BY <1>33, SaveStep DEF UpRecord, Goto, PlanOf, Section, TypeOK
<1>34. CASE Handles(c)
  BY <1>34, HandlesStep DEF PlanOf, Section, TypeOK
<1>35. CASE AbortExit(c)
  BY <1>35 DEF AbortExit, Exit, Goto, PlanOf, TypeOK, Local, Section
<1> QED
  BY <1>1, <1>2, <1>3, <1>4, <1>5, <1>6, <1>7, <1>8, <1>9, <1>10, <1>11, <1>12,
       <1>13, <1>14, <1>15, <1>16, <1>17, <1>18, <1>19, <1>20, <1>21, <1>22,
       <1>23, <1>24, <1>25, <1>26, <1>27, <1>28, <1>29, <1>30, <1>31, <1>32,
       <1>33, <1>34, <1>35 DEF Steps, Start, Proceed, Handles

\* A step of c keeps or takes the locks it needs.
LEMMA LocksStep ==
    ASSUME NEW c \in Command, Steps(c), TypeOK, PlanOf(c), LocksOf(c)
    PROVE  LocksOf(c)'
<1> USE LifecycleAssumption
<1>1. CASE StartUp(c)
  <2>1. PICK k \in {"up", "up -f"}, p \in Provider, flag \in Id, id \in Id :
            loc' = [loc EXCEPT ![c] = [NoLocals EXCEPT
                       !.kind = k, !.prov = p, !.id = id,
                       !.plan = {flag}, !.todo = {flag}]]
    BY <1>1 DEF StartUp, Remember, Quiet
  <2>2. /\ loc'[c].id = id
        /\ loc'[c].plan = {flag} /\ loc'[c].todo = {flag}
    BY <2>1 DEF NoLocals, TypeOK
  <2>3. pc'[c] = "lock"
    BY <1>1 DEF StartUp, Goto, TypeOK, Remember, Quiet
  <2> QED
    BY <2>1, <2>2, <2>3 DEF LocksOf, Section
<1>2. CASE StartDown(c)
  BY <1>2 DEF StartDown, Goto, NoLocals, manifestProvider, LocksOf, PlanOf,
       TypeOK, Local, Section, Remember, Quiet
<1>3. CASE StartReap(c)
  BY <1>3 DEF StartReap, Goto, NoLocals, LiveAt, LocksOf, PlanOf, TypeOK, Local,
       Section, Remember, Quiet
<1>4. CASE TakeLock(c)
  BY <1>4 DEF TakeLock, LockFree, LocksOf, PlanOf, TypeOK, Local, Section
<1>5. CASE LockBusy(c)
  BY <1>5 DEF LockBusy, RefuseWhenBusy, Exit, Goto, LocksOf, PlanOf, TypeOK,
       Local, Section
<1>6. CASE LockError(c)
  BY <1>6 DEF LockError, LocksOf, PlanOf, TypeOK, Local, Section
<1>7. CASE AllLocked(c)
  <2>1. CASE loc[c].kind \in {"up", "up -f"} /\ Goto(c, "preflight") /\ UNCHANGED loc
    BY <1>7, <2>1 DEF AllLocked, Goto, TypeOK, Section, LocksOf, PlanOf
  <2>2. CASE loc[c].kind = "down" /\ Goto(c, "destroy") /\ UNCHANGED loc
    BY <1>7, <2>2 DEF AllLocked, Goto, TypeOK, Section, LocksOf, PlanOf
  <2>3. CASE /\ loc[c].kind = "reap" /\ Goto(c, "reaping")
             /\ loc' = [loc EXCEPT ![c].todo = loc[c].plan]
    <3>1. /\ pc'[c] = "reaping"
          /\ loc'[c].plan = loc[c].plan /\ loc'[c].todo = loc[c].plan
      BY <2>3 DEF Goto, TypeOK, Local
    <3>2. pc[c] = "lock" /\ loc[c].todo = {} /\ UNCHANGED <<lock, unguarded>>
      BY <1>7 DEF AllLocked
    <3> QED
      BY <3>1, <3>2 DEF Section, LocksOf, PlanOf
  <2> QED
    BY <1>7, <2>1, <2>2, <2>3 DEF AllLocked
<1>8. CASE PreflightPasses(c)
  BY <1>8 DEF PreflightPasses, Goto, LocksOf, PlanOf, TypeOK, Local, Section
<1>9. CASE UpRefused(c)
  BY <1>9 DEF UpRefused, Exit, Goto, LocksOf, PlanOf, TypeOK, Local, Section
<1>10. CASE UpJournal(c)
  BY <1>10, SaveStep DEF UpJournal, Goto, LocksOf, PlanOf, Section, TypeOK
<1>11. CASE UpCreate(c)
  BY <1>11 DEF UpCreate, Goto, LocksOf, PlanOf, TypeOK, Local, Section, Mine
<1>12. CASE UpFails(c)
  BY <1>12 DEF UpFails, Exit, Goto, LocksOf, PlanOf, TypeOK, Local, Section
<1>13. CASE UpRollsBack(c)
  BY <1>13, SaveStep DEF UpRollsBack, Goto, LocksOf, PlanOf, Section, TypeOK
<1>14. CASE UpStops(c)
  BY <1>14 DEF UpStops, Exit, Goto, LocksOf, PlanOf, TypeOK, Local, Section
<1>15. CASE UpManifest(c)
  BY <1>15 DEF UpManifest, Goto, LocksOf, PlanOf, TypeOK, Local, Section
<1>16. CASE Preview(c)
  BY <1>16 DEF Preview, Exit, Goto, LocksOf, PlanOf, TypeOK, Local, Section
<1>17. CASE Destroy(c)
  BY <1>17 DEF Destroy, Goto, ServersOf, LocksOf, PlanOf, TypeOK, Local, Section,
       DestroySome
<1>18. CASE Verify(c)
  BY <1>18 DEF Verify, Goto, LocksOf, PlanOf, TypeOK, Local, Section
<1>19. CASE DownFails(c)
  BY <1>19 DEF DownFails, StopOnFailure, Exit, Goto, LocksOf, PlanOf, TypeOK,
       Local, Section
<1>20. CASE Close(c)
  BY <1>20 DEF Close, Exit, Goto, LocksOf, PlanOf, TypeOK, Local, Section
<1>21. CASE Tombstone(c)
  BY <1>21 DEF Tombstone, tombstoneManifest, Exit, Goto, LocksOf, PlanOf,
       TypeOK, Local, Section
<1>22. CASE ReapNext(c)
  BY <1>22 DEF ReapNext, Goto, LocksOf, PlanOf, TypeOK, Local, Section
<1>23. CASE ReapTombstones(c)
  BY <1>23 DEF ReapTombstones, tombstoneManifest, Goto, LocksOf, PlanOf, TypeOK,
       Local, Section
<1>24. CASE GcList(c)
  BY <1>24 DEF GcList, Exit, Goto, LiveAt, LocksOf, PlanOf, TypeOK, Local, Section
<1>25. CASE GcReadDir(c)
  BY <1>25 DEF GcReadDir, Goto, LocksOf, PlanOf, TypeOK, Local, Section
<1>26. CASE GcVisit(c)
  BY <1>26 DEF GcVisit, Goto, LocksOf, PlanOf, TypeOK, Local, Section
<1>27. CASE GcDone(c)
  BY <1>27 DEF GcDone, Exit, Goto, LocksOf, PlanOf, TypeOK, Local, Section
<1>28. CASE GcLock(c)
  BY <1>28 DEF GcLock, LockFree, Goto, LocksOf, PlanOf, TypeOK, Local, Section
<1>29. CASE GcClose(c)
  BY <1>29 DEF GcClose, GcUnlock, Goto, LocksOf, PlanOf, TypeOK, Local, Section
<1>30. CASE GcTombstone(c)
  BY <1>30 DEF GcTombstone, tombstoneManifest, GcUnlock, Goto, LocksOf, PlanOf,
       TypeOK, Local, Section
<1>31. CASE UpDetaches(c)
  BY <1>31 DEF UpDetaches, Exit, Goto, LocksOf, PlanOf, TypeOK, Local, Section
<1>32. CASE Crash(c)
  BY <1>32 DEF Crash, Exit, Goto, LocksOf, PlanOf, TypeOK, Local, Section
<1>33. CASE UpRecord(c)
  BY <1>33, SaveStep DEF UpRecord, Goto, LocksOf, PlanOf, Section, TypeOK
<1>34. CASE Handles(c)
  BY <1>34, HandlesStep DEF LocksOf, PlanOf, Section, TypeOK
<1>35. CASE AbortExit(c)
  BY <1>35 DEF AbortExit, Exit, Goto, LocksOf, PlanOf, TypeOK, Local, Section
<1> QED
  BY <1>1, <1>2, <1>3, <1>4, <1>5, <1>6, <1>7, <1>8, <1>9, <1>10, <1>11, <1>12,
       <1>13, <1>14, <1>15, <1>16, <1>17, <1>18, <1>19, <1>20, <1>21, <1>22,
       <1>23, <1>24, <1>25, <1>26, <1>27, <1>28, <1>29, <1>30, <1>31, <1>32,
       <1>33, <1>34, <1>35 DEF Steps, Start, Proceed, Handles

\* The steps that lead to a create, a close or a mark, or stay beside one.
LEMMA LeadsToClose ==
    ASSUME TypeOK, NEW c \in Command, AbortOf(c), Steps(c)
    PROVE  \/ Saves(c) \/ UpCreate(c) \/ UpManifest(c) \/ Handles(c)
           \/ Destroy(c) \/ Verify(c) \/ Close(c)
           \/ /\ pc'[c] \notin {"create", "close", "tombstone"}
              /\ loc'[c].abort = "no"
<1> DEFINE Away == /\ pc'[c] \notin {"create", "close", "tombstone"}
                   /\ loc'[c].abort = "no"
<1>1. ASSUME Exit(c) PROVE Away
  BY <1>1 DEF Exit, Goto, NoLocals, TypeOK
<1>2. ASSUME StartUp(c) \/ StartDown(c) PROVE Away
  <2>1. pc'[c] \in {"lock", "preview"}
    BY <1>2 DEF StartUp, StartDown, Goto, TypeOK
  <2>2. loc'[c].abort = "no"
    BY <1>2 DEF StartUp, StartDown, NoLocals, TypeOK
  <2> QED
    BY <2>1, <2>2
<1>3. ASSUME StartReap(c) PROVE Away
  BY <1>3 DEF StartReap, Goto, NoLocals, TypeOK
<1>4. ASSUME TakeLock(c) \/ LockError(c) \/ AllLocked(c) \/ PreflightPasses(c)
             \/ ReapNext(c) \/ ReapTombstones(c) \/ GcReadDir(c) \/ GcVisit(c)
             \/ GcLock(c) \/ GcClose(c) \/ GcTombstone(c)
      PROVE  Away
  <2>1. pc[c] \notin Aborting
    BY <1>4 DEF TakeLock, LockError, AllLocked, PreflightPasses, ReapNext,
         ReapTombstones, GcReadDir, GcVisit, GcLock, GcClose, GcTombstone, Aborting
  <2>2. loc[c].abort = "no"
    BY <2>1 DEF AbortOf
  <2>3. loc[c] \in Local
    BY DEF TypeOK
  <2>4. CASE TakeLock(c) \/ LockError(c)
    <3>1. PICK i \in loc[c].todo : loc' = [loc EXCEPT ![c].todo = @ \ {i}]
      BY <2>4 DEF TakeLock, LockError
    <3> QED
      BY <2>2, <2>3, <2>4, <3>1 DEF TakeLock, LockError, TypeOK, Local
  <2>5. CASE AllLocked(c) \/ PreflightPasses(c)
    <3>1. UNCHANGED loc \/ loc' = [loc EXCEPT ![c].todo = loc[c].plan]
      BY <2>5 DEF AllLocked, PreflightPasses
    <3>2. loc'[c].abort = "no"
      BY <2>2, <2>3, <3>1 DEF TypeOK, Local
    <3> QED
      BY <2>5, <3>2 DEF AllLocked, PreflightPasses, Goto, TypeOK
  <2>6. CASE ReapNext(c)
    <3>1. loc'[c].abort = "no"
      BY <2>2, <2>3, <2>6 DEF ReapNext, TypeOK, Local
    <3> QED
      BY <2>6, <3>1 DEF ReapNext, Goto, TypeOK
  <2>7. CASE ReapTombstones(c)
    <3>1. loc'[c].abort = "no"
      BY <2>2, <2>3, <2>7 DEF ReapTombstones, TypeOK, Local
    <3> QED
      BY <2>7, <3>1 DEF ReapTombstones, Goto, TypeOK
  <2>9. CASE GcReadDir(c)
    <3>1. loc'[c].abort = "no"
      BY <2>2, <2>3, <2>9 DEF GcReadDir, TypeOK, Local
    <3> QED
      BY <2>9, <3>1 DEF GcReadDir, Goto, TypeOK
  <2>10. CASE GcVisit(c)
    <3>1. PICK i \in loc[c].todo :
            \/ loc' = [loc EXCEPT ![c].id = i, ![c].todo = @ \ {i}]
            \/ loc' = [loc EXCEPT ![c].todo = @ \ {i}]
      BY <2>10 DEF GcVisit
    <3>2. loc'[c].abort = "no"
      BY <2>2, <2>3, <3>1 DEF TypeOK, Local
    <3> QED
      BY <2>10, <3>2 DEF GcVisit, Goto, TypeOK
  <2>8. CASE GcLock(c) \/ GcClose(c) \/ GcTombstone(c)
    BY <2>2, <2>8 DEF GcLock, GcClose, GcTombstone, GcUnlock, Goto, TypeOK
  <2> QED
    BY <1>4, <2>4, <2>5, <2>6, <2>7, <2>8, <2>9, <2>10
<1>5. ASSUME LockBusy(c) \/ UpRefused(c) \/ UpFails(c) \/ UpStops(c) \/ Tombstone(c)
             \/ GcDone(c) \/ UpDetaches(c) \/ AbortExit(c) \/ Crash(c)
      PROVE  Away
  <2>1. Exit(c)
    BY <1>5 DEF LockBusy, RefuseWhenBusy, UpRefused, UpFails, UpStops, Tombstone,
         GcDone, UpDetaches, AbortExit, Crash
  <2> QED
    BY <1>1, <2>1
<1>6. ASSUME Preview(c) \/ GcList(c) PROVE Away
  <2>1. loc[c].abort = "no"
    BY <1>6 DEF Preview, GcList, AbortOf, Aborting
  <2>2. CASE Preview(c) /\ ~Exit(c)
    BY <2>1, <2>2 DEF Preview, Goto, TypeOK
  <2>3. CASE GcList(c) /\ ~Exit(c)
    BY <2>1, <2>3 DEF GcList, Goto, TypeOK, Local
  <2> QED
    BY <1>1, <1>6, <2>2, <2>3
<1>7. ASSUME DownFails(c) PROVE Away
  <2>1. CASE loc[c].kind = "reap" /\ Goto(c, "reaping") /\ UNCHANGED loc
    BY <2>1 DEF Goto, AbortOf, TypeOK
  <2> QED
    BY <1>1, <1>7, <2>1 DEF DownFails, StopOnFailure
<1> QED
  BY <1>2, <1>3, <1>4, <1>5, <1>6, <1>7 DEF Steps, Start, Proceed, Saves, Handles

\* A step of c keeps its ^C handler where it belongs.
LEMMA AbortStep ==
    ASSUME NEW c \in Command, Steps(c), TypeOK, AbortOf(c)
    PROVE  AbortOf(c)'
<1>1. CASE Saves(c)
  <2>1. Save(c) /\ pc'[c] \in Aborting
    BY <1>1 DEF Saves, UpJournal, UpRecord, UpRollsBack, Goto, TypeOK, Aborting
  <2> QED
    BY <2>1, SaveStep DEF AbortOf
<1>2. CASE UpCreate(c) \/ UpManifest(c) \/ Destroy(c) \/ Verify(c)
  <2>1. pc'[c] \in Aborting /\ UNCHANGED loc
    BY <1>2 DEF UpCreate, UpManifest, Destroy, Verify, Goto, TypeOK, Aborting
  <2> QED
    BY <2>1 DEF AbortOf
<1>3. CASE Close(c)
  <2>1. CASE Exit(c)
    BY <2>1 DEF Exit, NoLocals, AbortOf, TypeOK
  <2>2. CASE loc[c].kind # "up -f" /\ UNCHANGED loc
    BY <2>2 DEF AbortOf
  <2> QED
    BY <1>3, <2>1, <2>2 DEF Close
<1>4. CASE Handles(c)
  <2>1. AbortOf(c) /\ (Interrupt(c) \/ loc[c].abort # "no")
    BY <1>4 DEF Handles, AbortDestroy, AbortVerify, AbortClose, AbortFails
  <2>2. loc[c].kind = "up -f" /\ pc[c] \in Aborting
    BY <2>1 DEF AbortOf, Interrupt, Aborting
  <2> QED
    BY <1>4, <2>2, HandlesStep DEF AbortOf
<1>5. CASE loc'[c].abort = "no"
  BY <1>5 DEF AbortOf
<1> QED
  BY <1>1, <1>2, <1>3, <1>4, <1>5, LeadsToClose

-----------------------------------------------------------------------------
(***************************************************************************)
(* What a step may touch.                                                  *)
(***************************************************************************)

\* Only UpCreate adds servers.
LEMMA OnlyCreateAdds ==
    ASSUME NEW c \in Command, Steps(c)
    PROVE  UpCreate(c) \/ cloud' \subseteq cloud
<1>1. CASE Destroy(c) \/ AbortDestroy(c)
  BY <1>1 DEF Destroy, AbortDestroy, DestroySome
<1>2. CASE UpCreate(c)
  BY <1>2
<1>3. CASE ~Destroy(c) /\ ~AbortDestroy(c) /\ ~UpCreate(c)
  <2>1. UNCHANGED cloud
    BY <1>3 DEF Steps, Start, Proceed, StartUp, StartDown, StartReap, TakeLock,
         LockBusy, LockError, AllLocked, PreflightPasses, UpRefused, UpJournal,
         UpFails, UpRollsBack, UpStops, UpManifest, Preview, Verify, DownFails,
         Close, Tombstone, ReapNext, ReapTombstones, GcList, GcReadDir, GcVisit,
         GcDone, GcLock, GcClose, GcTombstone, UpDetaches, Crash, Remember, Quiet,
         Save, Mine, UpRecord, Interrupt, AbortDestroy, AbortVerify, AbortClose,
         AbortFails, AbortExit, HandlerTo, DestroySome
  <2> QED
    BY <2>1
<1> QED
  BY <1>1, <1>2, <1>3

\* A command comes to create through its preflight and its journal.
LEMMA LeadsToCreate ==
    ASSUME TypeOK, NEW c \in Command, Steps(c)
    PROVE  \/ PreflightPasses(c) \/ UpJournal(c) \/ UpCreate(c) \/ UpRecord(c)
           \/ Handles(c) \/ pc'[c] \notin {"journal", "create", "record"}
  BY DEF Handles, Steps, Start, Proceed, TypeOK, StartUp, StartDown, StartReap,
       TakeLock, LockBusy, LockError, AllLocked, UpRefused, UpFails, UpRollsBack,
       UpStops, UpManifest, Preview, Destroy, Verify, DownFails, Close, Tombstone,
       ReapNext, ReapTombstones, GcList, GcReadDir, GcVisit, GcDone, GcLock, GcClose,
       GcTombstone, UpDetaches, AbortExit, Crash, Exit, Goto, GcUnlock,
       RefuseWhenBusy, StopOnFailure

\* A command that gave up a guard, and a server gone astray, are remembered
\* until a command starts where nothing runs and nothing is left.
LEMMA Remembered ==
    ASSUME TypeOK, NEW c \in Command, Steps(c), ~(Start(c) /\ Quiet)
    PROVE  unguarded \subseteq unguarded'
  BY DEF Steps, Start, Proceed, TypeOK, StartUp, StartDown, StartReap, TakeLock,
       LockBusy, LockError, AllLocked, PreflightPasses, UpRefused, UpJournal,
       UpCreate, UpFails, UpRollsBack, UpStops, UpManifest, Preview, Destroy,
       Verify, DownFails, Close, Tombstone, ReapNext, ReapTombstones, GcList,
       GcReadDir, GcVisit, GcDone, GcLock, GcClose, GcTombstone, UpDetaches,
       Crash, Exit, Goto, GcUnlock, RefuseWhenBusy, StopOnFailure, Remember, Quiet,
       Save, Mine, DestroySome, UpRecord, Interrupt, AbortDestroy, AbortVerify,
       AbortClose, AbortFails, AbortExit, HandlerTo

\* Nothing of cluster i is changed.
Untouched(i) ==
    /\ {s \in cloud : s[2] = i} = {s \in cloud' : s[2] = i}
    /\ journal'[i] = journal[i]
    /\ manifest'[i] = manifest[i]
    /\ (i \in dead') <=> (i \in dead)

\* Command c, or its ^C handler, takes a step.
Moved(c) == pc'[c] # pc[c] \/ loc'[c] # loc[c]

\* A save writes the journal of a cluster the command holds the lock of.
LEMMA SavesOwn ==
    ASSUME NEW c \in Command, Saves(c), TypeOK, PlanOf(c), LocksOf(c), c \notin unguarded,
           NEW i \in Id
    PROVE  Untouched(i) \/ (lock[i] = c /\ Moved(c))
<1>1. /\ Save(c) /\ UNCHANGED <<cloud, manifest, dead>>
      /\ pc[c] \in Section \ {"reaping"} /\ pc'[c] # pc[c]
  BY DEF Saves, UpJournal, UpRecord, UpRollsBack, Goto, TypeOK, Section
<1>2. loc[c].id \in Id /\ lock[loc[c].id] = c
  BY <1>1 DEF PlanOf, LocksOf, TypeOK, Local
<1>3. \/ journal' = [journal EXCEPT ![loc[c].id] = loc[c].prov]
      \/ UNCHANGED journal
  BY <1>1, SaveStep
<1>4. CASE i = loc[c].id
  BY <1>1, <1>2, <1>4 DEF Moved
<1>5. CASE i # loc[c].id
  BY <1>1, <1>2, <1>3, <1>5 DEF Untouched, TypeOK
<1> QED
  BY <1>4, <1>5

\* A guarded command only touches a cluster whose lock it holds.
LEMMA TouchesOwn ==
    ASSUME NEW c \in Command, Steps(c), TypeOK, PlanOf(c), LocksOf(c), AbortOf(c),
           c \notin unguarded,
           NEW i \in Id
    PROVE  Untouched(i) \/ (lock[i] = c /\ Moved(c))
<1>1. CASE StartUp(c)
  BY <1>1 DEF StartUp, Goto, NoLocals, Untouched, TypeOK, Remember, Quiet, Moved
<1>2. CASE StartDown(c)
  BY <1>2 DEF StartDown, Goto, NoLocals, manifestProvider, Untouched, TypeOK,
       Remember, Quiet, Moved
<1>3. CASE StartReap(c)
  BY <1>3 DEF StartReap, Goto, NoLocals, LiveAt, Untouched, TypeOK, Remember, Quiet,
       Moved
<1>4. CASE TakeLock(c)
  BY <1>4 DEF TakeLock, LockFree, Untouched, TypeOK, Moved
<1>5. CASE LockBusy(c)
  BY <1>5 DEF LockBusy, RefuseWhenBusy, Exit, Goto, Untouched, TypeOK, Moved
<1>6. CASE LockError(c)
  BY <1>6 DEF LockError, Untouched, TypeOK, Moved
<1>7. CASE AllLocked(c)
  BY <1>7 DEF AllLocked, Goto, Untouched, TypeOK, Moved
<1>8. CASE PreflightPasses(c)
  BY <1>8 DEF PreflightPasses, Goto, Untouched, TypeOK, Moved
<1>9. CASE UpRefused(c)
  BY <1>9 DEF UpRefused, Exit, Goto, Untouched, TypeOK, Moved
<1>10. CASE UpJournal(c)
  BY <1>10, SavesOwn DEF Saves
<1>11. CASE UpCreate(c)
  BY <1>11 DEF UpCreate, Goto, Untouched, TypeOK, PlanOf, LocksOf, Section, Local,
       Mine, Moved
<1>12. CASE UpFails(c)
  BY <1>12 DEF UpFails, Exit, Goto, Untouched, TypeOK, Moved
<1>13. CASE UpRollsBack(c)
  BY <1>13, SavesOwn DEF Saves
<1>14. CASE UpStops(c)
  BY <1>14 DEF UpStops, Exit, Goto, Untouched, TypeOK, Moved
<1>15. CASE UpManifest(c)
  BY <1>15 DEF UpManifest, Goto, Untouched, TypeOK, PlanOf, LocksOf, Section, Local,
       Moved
<1>16. CASE Preview(c)
  BY <1>16 DEF Preview, Exit, Goto, Untouched, TypeOK, Moved
<1>17. CASE Destroy(c)
  BY <1>17 DEF Destroy, Goto, ServersOf, Untouched, TypeOK, PlanOf, LocksOf,
       Section, Local, DestroySome, Moved
<1>18. CASE Verify(c)
  BY <1>18 DEF Verify, Goto, Untouched, TypeOK, Moved
<1>19. CASE DownFails(c)
  BY <1>19 DEF DownFails, StopOnFailure, Exit, Goto, Untouched, TypeOK, Moved
<1>20. CASE Close(c)
  BY <1>20 DEF Close, Exit, Goto, Untouched, TypeOK, PlanOf, LocksOf, Section,
       Local, Moved
<1>21. CASE Tombstone(c)
  BY <1>21 DEF Tombstone, tombstoneManifest, Exit, Goto, Untouched, TypeOK,
       PlanOf, LocksOf, Section, Local, Moved
<1>22. CASE ReapNext(c)
  BY <1>22 DEF ReapNext, Goto, Untouched, TypeOK, Moved
<1>23. CASE ReapTombstones(c)
  BY <1>23 DEF ReapTombstones, tombstoneManifest, Goto, Untouched, TypeOK,
       PlanOf, LocksOf, Section, Local, Moved
<1>24. CASE GcList(c)
  BY <1>24 DEF GcList, Exit, Goto, LiveAt, Untouched, TypeOK, Moved
<1>25. CASE GcReadDir(c)
  BY <1>25 DEF GcReadDir, Goto, Untouched, TypeOK, Moved
<1>26. CASE GcVisit(c)
  BY <1>26 DEF GcVisit, Goto, Untouched, TypeOK, Moved
<1>27. CASE GcDone(c)
  BY <1>27 DEF GcDone, Exit, Goto, Untouched, TypeOK, Moved
<1>28. CASE GcLock(c)
  BY <1>28 DEF GcLock, LockFree, Goto, Untouched, TypeOK, Moved
<1>29. CASE GcClose(c)
  BY <1>29 DEF GcClose, GcUnlock, Goto, Untouched, TypeOK, PlanOf, LocksOf,
       Section, Local, Moved
<1>30. CASE GcTombstone(c)
  BY <1>30 DEF GcTombstone, tombstoneManifest, GcUnlock, Goto, Untouched,
       TypeOK, PlanOf, LocksOf, Section, Local, Moved
<1>31. CASE UpDetaches(c)
  BY <1>31 DEF UpDetaches, Exit, Goto, Untouched, TypeOK, Moved
<1>32. CASE Crash(c)
  BY <1>32 DEF Crash, Exit, Goto, Untouched, TypeOK, Moved
<1>33. CASE UpRecord(c)
  BY <1>33, SavesOwn DEF Saves
<1>34. CASE Handles(c)
  <2>1. loc[c].id \in Id /\ lock[loc[c].id] = c /\ loc'[c] # loc[c]
    <3>1. loc[c].kind = "up -f" /\ pc[c] \in Aborting
      BY <1>34 DEF Handles, Interrupt, AbortDestroy, AbortVerify, AbortClose,
           AbortFails, AbortOf, Aborting
    <3>2. loc[c].id \in Id /\ lock[loc[c].id] = c
      BY <3>1 DEF PlanOf, LocksOf, Section, Aborting, TypeOK, Local
    <3> QED
      BY <1>34, <3>2, HandlesStep
  <2>2. CASE i = loc[c].id
    BY <2>1, <2>2 DEF Moved
  <2>3. CASE i # loc[c].id
    <3>1. {s \in cloud : s[2] = i} = {s \in cloud' : s[2] = i}
      BY <1>34, <2>3, HandlesStep DEF ServersOf
    <3>2. journal'[i] = journal[i] /\ manifest' = manifest /\ dead' = dead
      BY <1>34, <2>1, <2>3, HandlesStep DEF TypeOK
    <3> QED
      BY <3>1, <3>2 DEF Untouched
  <2> QED
    BY <2>2, <2>3
<1>35. CASE AbortExit(c)
  BY <1>35 DEF AbortExit, Exit, Goto, Untouched, TypeOK, PlanOf, LocksOf,
       Section, Local, Aborting, Moved
<1> QED
  BY <1>1, <1>2, <1>3, <1>4, <1>5, <1>6, <1>7, <1>8, <1>9, <1>10, <1>11, <1>12,
       <1>13, <1>14, <1>15, <1>16, <1>17, <1>18, <1>19, <1>20, <1>21, <1>22,
       <1>23, <1>24, <1>25, <1>26, <1>27, <1>28, <1>29, <1>30, <1>31, <1>32,
       <1>33, <1>34, <1>35 DEF Steps, Start, Proceed, Handles

-----------------------------------------------------------------------------
(***************************************************************************)
(* The theorems.                                                           *)
(***************************************************************************)

\* What the preflight of d saw survives the steps of all commands: who creates
\* servers under d's id either holds d's lock, and is d, or is unguarded.
LEMMA ClearStep ==
    ASSUME NEW c \in Command, NEW d \in Command, TypeOK, Steps(c),
           \A e \in Command : PlanOf(e) /\ LocksOf(e) /\ ClearFor(e)
    PROVE  ClearFor(d)'
<1>1. CASE d = c
  <2>1. CASE PreflightPasses(c)
    <3>1. loc[c].id \in loc[c].plan /\ pc[c] = "preflight"
      BY <2>1 DEF PreflightPasses, PlanOf, Section
    <3>2. c \notin unguarded' => ServersOf(loc[c].prov, loc[c].id) = {}
      BY <2>1, <3>1 DEF PreflightPasses, NothingRunning
    <3> QED
      BY <1>1, <2>1, <3>2 DEF PreflightPasses, ClearFor, ServersOf
  <2>2. CASE UpJournal(c) \/ UpRecord(c)
    <3>1. loc'[c].prov = loc[c].prov /\ loc'[c].id = loc[c].id
      BY <2>2, SaveStep DEF UpJournal, UpRecord
    <3> QED
      BY <1>1, <2>2, <3>1 DEF UpJournal, UpRecord, ClearFor, ServersOf
  <2>3. CASE UpCreate(c)
    BY <1>1, <2>3 DEF UpCreate, Mine, ClearFor, ServersOf
  <2>4. CASE pc'[c] \notin {"journal", "create", "record"}
    BY <1>1, <2>4 DEF ClearFor
  <2>5. CASE Handles(c)
    <3>1. /\ pc'[c] = pc[c] /\ unguarded' = unguarded /\ cloud' \subseteq cloud
          /\ loc'[c].id = loc[c].id /\ loc'[c].prov = loc[c].prov
      BY <2>5, HandlesStep
    <3> QED
      BY <1>1, <3>1 DEF ClearFor, ServersOf
  <2> QED
    BY <2>1, <2>2, <2>3, <2>4, <2>5, LeadsToCreate
<1>2. CASE d # c
  <2>1. /\ pc'[d] = pc[d] /\ loc'[d] = loc[d]
        /\ d \in unguarded' => d \in unguarded
    BY <1>2, OthersUndisturbed
  <2>2. CASE Start(c) /\ Quiet
    BY <2>1, <2>2 DEF ClearFor, Quiet
  <2>3. CASE ~(Start(c) /\ Quiet) /\ cloud' \subseteq cloud
    <3>1. unguarded \subseteq unguarded' 
      BY <2>3, Remembered
    <3>2. d \notin unguarded' => d \notin unguarded
      BY <3>1
    <3> QED
      BY <2>1, <2>3, <3>1, <3>2 DEF ClearFor, ServersOf
  <2>4. CASE UpCreate(c)
    <3>1. unguarded' = unguarded /\ cloud' = cloud \cup {<<loc[c].prov, loc[c].id, c>>}
      BY <2>4 DEF UpCreate, Mine
    <3>2. SUFFICES ASSUME pc[d] \in {"journal", "create", "record"}, d \notin unguarded,
                          c \notin unguarded, loc[c].id = loc[d].id
                   PROVE  FALSE
      BY <2>1, <3>1, <3>2 DEF ClearFor, ServersOf
    <3>3. lock[loc[d].id] = d
      BY <3>2 DEF PlanOf, LocksOf, Section
    <3>4. lock[loc[c].id] = c
      BY <2>4, <3>2 DEF PlanOf, LocksOf, Section, UpCreate
    <3> QED
      BY <1>2, <3>2, <3>3, <3>4
  <2> QED
    BY <2>2, <2>3, <2>4, OnlyCreateAdds
<1> QED
  BY <1>1, <1>2

\* The servers an `up` adds are the first under their id, guards permitting.
LEMMA OneUpStep ==
    ASSUME NEW c \in Command, TypeOK, Steps(c), OneUp, ClearFor(c)
    PROVE  OneUp'
<1>1. CASE Start(c) /\ Quiet
  <2>1. cloud' = {}
    BY <1>1 DEF Start, StartUp, StartDown, StartReap, Quiet
  <2> QED
    BY <2>1 DEF OneUp
<1>2. CASE ~(Start(c) /\ Quiet) /\ cloud' \subseteq cloud
  BY <1>2, Remembered DEF OneUp
<1>3. CASE UpCreate(c)
  BY <1>3 DEF UpCreate, Mine, OneUp, ClearFor, ServersOf
<1> QED
  BY <1>1, <1>2, <1>3, OnlyCreateAdds

LEMMA LifeInit == Init => LifeInv
<1> SUFFICES ASSUME Init PROVE LifeInv
  OBVIOUS
<1>1. TypeOK
  BY NoLocalsTyped DEF Init, TypeOK, PC
<1>2. \A c \in Command : PlanOf(c) /\ LocksOf(c) /\ AbortOf(c) /\ ClearFor(c)
  BY DEF Init, NoLocals, PlanOf, LocksOf, AbortOf, ClearFor, Section
<1>3. OneUp
  BY DEF Init, OneUp
<1> QED
  BY <1>1, <1>2, <1>3 DEF LifeInv

LEMMA LifeNext ==
    ASSUME NamedByFile = FALSE, LifeInv, [Next]_vars
    PROVE  LifeInv'
<1>1. CASE UNCHANGED vars
  <2>1. TypeOK' /\ OneUp'
    BY <1>1 DEF LifeInv, TypeOK, OneUp, vars
  <2>2. \A c \in Command : (PlanOf(c) /\ LocksOf(c) /\ AbortOf(c) /\ ClearFor(c))'
    <3>1. UNCHANGED <<pc, loc, lock, cloud, unguarded>>
      BY <1>1 DEF vars
    <3>2. ASSUME NEW c \in Command PROVE PlanOf(c)' /\ AbortOf(c)' /\ LocksOf(c)'
      BY <3>1 DEF LifeInv, PlanOf, AbortOf, LocksOf
    <3>3. ASSUME NEW c \in Command PROVE ClearFor(c)'
      BY <3>1 DEF LifeInv, ClearFor, ServersOf
    <3> QED
      BY <3>2, <3>3
  <2> QED
    BY <2>1, <2>2 DEF LifeInv
<1>2. ASSUME NEW c \in Command, Steps(c)
      PROVE  LifeInv'
  <2> USE <1>2 DEF LifeInv
  <2>1. TypeOK'
    BY LifeTypeStep
  <2>2. ASSUME NEW d \in Command
        PROVE  PlanOf(d)' /\ LocksOf(d)' /\ AbortOf(d)' /\ ClearFor(d)'
    <3>1. ClearFor(d)'
      BY ClearStep
    <3>2. CASE d = c
      BY <3>1, <3>2, PlanStep, LocksStep, AbortStep
    <3>3. CASE d # c
      <4>1. /\ pc'[d] = pc[d] /\ loc'[d] = loc[d]
            /\ \A i \in Id : lock[i] = d => lock'[i] = d
        BY <3>3, OthersUndisturbed
      <4>2. PlanOf(d)' /\ AbortOf(d)'
        BY <4>1 DEF PlanOf, AbortOf
      <4>3. loc[d].plan \subseteq Id /\ loc[d].id \in Id
        BY DEF TypeOK, Local
      <4>4. LocksOf(d)'
        <5>1. CASE Start(c) /\ Quiet
          BY <4>1, <5>1 DEF LocksOf, Quiet, Section
        <5>2. CASE ~(Start(c) /\ Quiet)
          <6>1. d \notin unguarded' => d \notin unguarded
            BY <5>2, Remembered
          <6> QED
            BY <4>1, <4>3, <6>1 DEF LocksOf
        <5> QED
          BY <5>1, <5>2
      <4> QED
        BY <3>1, <4>2, <4>4
    <3> QED
      BY <3>2, <3>3
  <2>3. OneUp'
    BY OneUpStep
  <2> QED
    BY <2>1, <2>2, <2>3
<1> QED
  BY <1>1, <1>2 DEF Next, Steps

LEMMA LifeInvHolds ==
    ASSUME NamedByFile = FALSE
    PROVE  Spec => []LifeInv
  BY LifeInit, LifeNext, PTL DEF Spec

\* The commands keep their types, a tombstone in a manifest that exists
\* included, whatever `up -f` provisions.
THEOREM LifeTypesHold == Spec => []TypeOK
<1>1. Init => TypeOK
  BY LifeInit DEF LifeInv
<1>2. TypeOK /\ [Next]_vars => TypeOK'
  <2>1. ASSUME TypeOK, UNCHANGED vars PROVE TypeOK'
    BY <2>1 DEF TypeOK, vars
  <2>2. ASSUME TypeOK, NEW c \in Command, Steps(c) PROVE TypeOK'
    BY <2>2, LifeTypeStep
  <2> QED
    BY <2>1, <2>2 DEF Next, Steps
<1> QED
  BY <1>1, <1>2, PTL DEF Spec

\* The existence guard of `up` (lock, then preflight, then create) works for
\* any number of commands, ids and providers: two runs of `up` never have
\* servers under one id at one provider, unless one of them could not evaluate
\* a guard.
THEOREM ProvisionsOnce ==
    ASSUME NamedByFile = FALSE
    PROVE  Spec => []OneUp
<1>1. LifeInv => OneUp
  BY DEF LifeInv
<1> QED
  BY <1>1, LifeInvHolds, PTL

\* The per-cluster lock does what it is for: while every command has its
\* guards, a cluster's servers, journal and manifest are changed by the holder
\* of its lock alone, in `up`, `down`, `reap` and the garbage collection.
THEOREM TouchedByOwnersOnly ==
    ASSUME NamedByFile = FALSE
    PROVE  Spec => OwnersOnly
<1>1. ASSUME LifeInv, [Next]_vars, unguarded' = {}, NEW i \in Id
      PROVE  (\E c \in Command : lock[i] = c /\ Moved(c)) \/ Untouched(i)
  <2>1. CASE UNCHANGED vars
    BY <2>1 DEF vars, Untouched
  <2>2. ASSUME NEW c \in Command, Steps(c)
        PROVE  (lock[i] = c /\ Moved(c)) \/ Untouched(i)
    <3>1. CASE Start(c)
      BY <3>1 DEF Start, StartUp, StartDown, StartReap, Untouched
    <3>2. CASE ~Start(c)
      <4>1. c \notin unguarded
        BY <1>1, <2>2, <3>2, Remembered DEF LifeInv
      <4> QED
        BY <1>1, <2>2, <4>1, TouchesOwn DEF LifeInv
    <3> QED
      BY <3>1, <3>2
  <2> QED
    BY <1>1, <2>1, <2>2 DEF Next, Steps
<1>2. LifeInv /\ [Next]_vars =>
        [unguarded' = {} =>
           \A i \in Id :
              \/ \E c \in Command :
                    lock[i] = c /\ (pc'[c] # pc[c] \/ loc'[c] # loc[c])
              \/ /\ {s \in cloud : s[2] = i} = {s \in cloud' : s[2] = i}
                 /\ journal'[i] = journal[i]
                 /\ manifest'[i] = manifest[i]
                 /\ (i \in dead') <=> (i \in dead)]_vars
  BY <1>1 DEF Untouched, Moved
<1> QED
  BY <1>2, LifeInvHolds, PTL DEF Spec, OwnersOnly

-----------------------------------------------------------------------------
(***************************************************************************)
(* Local state and provider in step.  These hold for `up`, `up -f` and     *)
(* `down` at one provider.  With `reap` they fail, because its garbage     *)
(* collection decides on a listing that is older than its lock; with two   *)
(* providers, because `down` may be sent to the other one.                 *)
(***************************************************************************)

\* Where only `reap` gets to.
GcPC == {"reaping", "gclist", "gcdir", "gc", "gclock", "gcclose", "gctomb"}
NotReap(c) == loc[c].kind # "reap" /\ pc[c] \notin GcPC

\* An `up` about to create has its journal, unless it could not be saved or its
\* ^C is removing it; a teardown past its verification has nothing left, and the
\* handler of a ^C has at most what its own `up` created beside it.
Steady(c) ==
    /\ pc[c] = "create" => \/ journal[loc[c].id] # NoProvider
                           \/ loc[c].unsaved \/ loc[c].abort # "no"
    /\ pc[c] \in {"close", "tombstone"} => ServersOf(loc[c].prov, loc[c].id) = {}
    /\ loc[c].abort = "close"
          => \A s \in ServersOf(loc[c].prov, loc[c].id) : s \in stray /\ s[3] = c

InStep ==
    /\ \A c \in Command : NotReap(c)
    /\ unguarded = {} => \A c \in Command : Steady(c)
    /\ Journaled

LEMMA NotReapStep ==
    ASSUME "reap" \notin Kinds, TypeOK, NEW c \in Command, Steps(c), NotReap(c)
    PROVE  NotReap(c)'
<1>1. CASE StartUp(c)
  BY <1>1 DEF StartUp, Goto, NoLocals, NotReap, GcPC, TypeOK, Local, Remember, Quiet
<1>2. CASE StartDown(c)
  BY <1>2 DEF StartDown, Goto, NoLocals, manifestProvider, NotReap, GcPC, TypeOK,
       Local, Remember, Quiet
<1>3. CASE TakeLock(c)
  BY <1>3 DEF TakeLock, NotReap, GcPC, TypeOK, Local
<1>4. CASE LockBusy(c)
  BY <1>4 DEF LockBusy, RefuseWhenBusy, Exit, Goto, NoLocals, NotReap, GcPC,
       TypeOK, Local
<1>5. CASE LockError(c)
  BY <1>5 DEF LockError, NotReap, GcPC, TypeOK, Local
<1>6. CASE AllLocked(c)
  BY <1>6 DEF AllLocked, Goto, NotReap, GcPC, TypeOK, Local
<1>7. CASE PreflightPasses(c)
  BY <1>7 DEF PreflightPasses, Goto, NotReap, GcPC, TypeOK, Local
<1>8. CASE UpRefused(c)
  BY <1>8 DEF UpRefused, Exit, Goto, NoLocals, NotReap, GcPC, TypeOK, Local
<1>9. CASE UpJournal(c)
  BY <1>9, SaveStep DEF UpJournal, Goto, NotReap, GcPC, TypeOK
<1>10. CASE UpCreate(c)
  BY <1>10 DEF UpCreate, Goto, NotReap, GcPC, TypeOK, Local, Mine
<1>11. CASE UpFails(c)
  BY <1>11 DEF UpFails, Exit, Goto, NoLocals, NotReap, GcPC, TypeOK, Local
<1>12. CASE UpRollsBack(c)
  BY <1>12, SaveStep DEF UpRollsBack, Goto, NotReap, GcPC, TypeOK
<1>13. CASE UpStops(c)
  BY <1>13 DEF UpStops, Exit, Goto, NoLocals, NotReap, GcPC, TypeOK, Local
<1>14. CASE UpManifest(c)
  BY <1>14 DEF UpManifest, Goto, NotReap, GcPC, TypeOK, Local
<1>15. CASE Preview(c)
  BY <1>15 DEF Preview, Exit, Goto, NoLocals, NotReap, GcPC, TypeOK, Local
<1>16. CASE Destroy(c)
  BY <1>16 DEF Destroy, Goto, NotReap, GcPC, TypeOK, Local, DestroySome
<1>17. CASE Verify(c)
  BY <1>17 DEF Verify, Goto, NotReap, GcPC, TypeOK, Local
<1>18. CASE DownFails(c)
  BY <1>18 DEF DownFails, StopOnFailure, Exit, Goto, NoLocals, NotReap, GcPC,
       TypeOK, Local
<1>19. CASE Close(c)
  <2>1. CASE Goto(c, "tombstone") /\ UNCHANGED loc
    BY <2>1 DEF Goto, NotReap, GcPC, TypeOK
  <2>2. CASE Exit(c)
    BY <2>2 DEF Exit, Goto, NoLocals, NotReap, GcPC, TypeOK
  <2> QED
    BY <1>19, <2>1, <2>2 DEF Close, NotReap
<1>20. CASE Tombstone(c)
  BY <1>20 DEF Tombstone, Exit, Goto, NoLocals, NotReap, GcPC, TypeOK, Local
<1>21. CASE UpDetaches(c)
  BY <1>21 DEF UpDetaches, Exit, Goto, NoLocals, NotReap, GcPC, TypeOK, Local
<1>22. CASE Crash(c)
  BY <1>22 DEF Crash, Exit, Goto, NoLocals, NotReap, GcPC, TypeOK, Local
<1>23. ~(StartReap(c) \/ ReapNext(c) \/ ReapTombstones(c) \/ GcList(c) \/ GcReadDir(c)
        \/ GcVisit(c) \/ GcDone(c) \/ GcLock(c) \/ GcClose(c) \/ GcTombstone(c))
  BY DEF StartReap, ReapNext, ReapTombstones, GcList, GcReadDir, GcVisit, GcDone,
       GcLock, GcClose, GcTombstone, NotReap, GcPC, Remember, Quiet
<1>24. CASE UpRecord(c)
  BY <1>24, SaveStep DEF UpRecord, Goto, NotReap, GcPC, TypeOK
<1>25. CASE Handles(c)
  BY <1>25, HandlesStep DEF NotReap, GcPC, TypeOK
<1>26. CASE AbortExit(c)
  BY <1>26 DEF AbortExit, Exit, Goto, NoLocals, NotReap, GcPC, TypeOK, Local
<1> QED
  BY <1>1, <1>2, <1>3, <1>4, <1>5, <1>6, <1>7, <1>8, <1>9, <1>10, <1>11, <1>12,
       <1>13, <1>14, <1>15, <1>16, <1>17, <1>18, <1>19, <1>20, <1>21, <1>22,
       <1>23, <1>24, <1>25, <1>26 DEF Steps, Start, Proceed, Handles

\* Without `reap`, who writes journals and who marks manifests.
LEMMA JournalWriters ==
    ASSUME TypeOK, NEW c \in Command, Steps(c), NotReap(c)
    PROVE  /\ Saves(c) \/ Close(c) \/ AbortClose(c) \/ UNCHANGED journal
           /\ Tombstone(c) \/ dead' \subseteq dead
<1>1. ~(GcClose(c) \/ GcTombstone(c) \/ ReapTombstones(c))
  BY DEF NotReap, GcPC, GcClose, GcTombstone, ReapTombstones
<1> QED
  BY <1>1 DEF Saves, Steps, Start, Proceed, StartUp, StartDown, StartReap, TakeLock,
       LockBusy, LockError, AllLocked, PreflightPasses, UpRefused, UpJournal,
       UpCreate, UpRecord, UpFails, UpRollsBack, UpStops, UpManifest, Preview,
       Destroy, Verify, DownFails, Close, Tombstone, ReapNext, GcList, GcReadDir,
       GcVisit, GcDone, GcLock, UpDetaches, Interrupt, AbortDestroy, AbortVerify,
       AbortClose, AbortFails, AbortExit, Crash

\* A step of c keeps c steady.
LEMMA OwnSteady ==
    ASSUME NEW c \in Command, TypeOK, AbortOf(c), Steps(c), Steady(c)
    PROVE  Steady(c)'
<1>1. loc[c] \in Local /\ loc[c].id \in Id /\ loc[c].prov \in Provider
  BY DEF TypeOK, Local
<1>2. CASE Saves(c)
  <2>1. /\ loc'[c].id = loc[c].id /\ loc'[c].prov = loc[c].prov
        /\ loc'[c].abort = loc[c].abort /\ UNCHANGED cloud
        /\ loc[c].abort # "no" => stray' = stray
        /\ journal'[loc[c].id] # NoProvider \/ loc'[c].unsaved
    BY <1>2, SaveStep DEF Saves, UpJournal, UpRecord, UpRollsBack
  <2>2. pc'[c] \notin {"close", "tombstone"}
    BY <1>2 DEF Saves, UpJournal, UpRecord, UpRollsBack, Goto, TypeOK
  <2> QED
    BY <2>1, <2>2 DEF Steady, ServersOf
<1>3. CASE UpCreate(c)
  BY <1>3 DEF UpCreate, Mine, Goto, Steady, ServersOf, TypeOK
<1>4. CASE UpManifest(c)
  BY <1>4 DEF UpManifest, Goto, Steady, ServersOf, TypeOK
<1>5. CASE Destroy(c)
  BY <1>5 DEF Destroy, DestroySome, Goto, Steady, ServersOf, TypeOK
<1>6. CASE Verify(c)
  BY <1>6 DEF Verify, VerifyGone, Goto, Steady, ServersOf, TypeOK
<1>7. CASE Close(c)
  <2>1. CASE Exit(c)
    BY <2>1 DEF Exit, Goto, NoLocals, Steady, TypeOK
  <2>2. CASE loc[c].kind # "up -f" /\ UNCHANGED loc
    <3>1. loc'[c].abort = "no" /\ pc'[c] # "create"
      BY <1>7, <2>2 DEF Close, AbortOf, Exit, Goto, TypeOK
    <3> QED
      BY <1>7, <2>2, <3>1 DEF Close, Steady, ServersOf
  <2> QED
    BY <1>7, <2>1, <2>2 DEF Close
<1>8. CASE Handles(c)
  <2>1. /\ pc' = pc /\ loc'[c].id = loc[c].id /\ loc'[c].prov = loc[c].prov
        /\ loc'[c].abort # "no" /\ cloud' \subseteq cloud
        /\ loc'[c].abort = "close" => AbortVerify(c)
    BY <1>8, HandlesStep
  <2>2. AbortVerify(c) => ServersOf(loc[c].prov, loc[c].id)' = {}
    BY <2>1 DEF AbortVerify, VerifyGone, ServersOf
  <2> QED
    BY <2>1, <2>2 DEF Steady, ServersOf
<1>9. CASE /\ pc'[c] \notin {"create", "close", "tombstone"}
           /\ loc'[c].abort = "no"
  BY <1>9 DEF Steady
<1> QED
  BY <1>2, <1>3, <1>4, <1>5, <1>6, <1>7, <1>8, <1>9, LeadsToClose

\* A server gone astray is remembered while it is there, and its own `up` has
\* not written the journal since.
LEMMA StrayKept ==
    ASSUME NEW c \in Command, TypeOK, Steps(c), ~(Start(c) /\ Quiet),
           NEW s \in stray, s \in cloud'
    PROVE  s \in stray' \/ (Saves(c) /\ s = Mine(c))
<1>1. CASE Saves(c)
  BY <1>1, SaveStep DEF Saves, UpJournal, UpRecord, UpRollsBack
<1>2. CASE Destroy(c) \/ AbortDestroy(c)
  BY <1>2 DEF Destroy, AbortDestroy, DestroySome
<1>3. CASE UpCreate(c)
  BY <1>3 DEF UpCreate
<1>4. CASE Start(c)
  BY <1>4 DEF Start, StartUp, StartDown, StartReap, Remember
<1>5. CASE ~(Start(c) \/ Saves(c) \/ Destroy(c) \/ AbortDestroy(c) \/ UpCreate(c))
  BY <1>5 DEF Saves, Steps, Proceed, TakeLock, LockBusy, LockError, AllLocked,
       PreflightPasses, UpRefused, UpFails, UpStops, UpManifest, Preview, Verify,
       DownFails, Close, Tombstone, ReapNext, ReapTombstones, GcList, GcReadDir,
       GcVisit, GcDone, GcLock, GcClose, GcTombstone, UpDetaches, Interrupt,
       AbortVerify, AbortClose, AbortFails, AbortExit, Crash
<1> QED
  BY <1>1, <1>2, <1>3, <1>4, <1>5

\* A step of c keeps d steady: d's cluster is d's alone.
LEMMA SteadyStep ==
    ASSUME NEW c \in Command, NEW d \in Command, LifeInv, Steps(c),
           unguarded' = {}, unguarded = {}, Steady(d)
    PROVE  Steady(d)'
<1> USE DEF LifeInv
<1>1. CASE d = c
  BY <1>1, OwnSteady
<1>2. CASE d # c
  <2>1. loc[d].id \in Id
    BY DEF TypeOK, Local
  <2>2. pc'[d] = pc[d] /\ loc'[d] = loc[d]
    BY <1>2, OthersUndisturbed
  <2>3. CASE pc[d] \in {"create", "close", "tombstone"} \/ loc[d].abort = "close"
    <3>1. lock[loc[d].id] = d
      <4>1. pc[d] \in Section \ {"reaping"}
        BY <2>3 DEF AbortOf, Section, Aborting
      <4> QED
        BY <4>1 DEF PlanOf, LocksOf
    <3>2. Untouched(loc[d].id)
      BY <1>2, <2>1, <3>1, TouchesOwn
    <3>3. ServersOf(loc[d].prov, loc[d].id)' = ServersOf(loc[d].prov, loc[d].id)
      BY <2>2, <3>2 DEF Untouched, ServersOf
    <3>4. ~Quiet
      BY <2>3 DEF Quiet, AbortOf, Aborting
    <3>5. ASSUME loc[d].abort = "close", NEW s \in ServersOf(loc[d].prov, loc[d].id)
          PROVE  s \in stray' /\ s[3] = d
      <4>1. s \in stray /\ s[3] = d
        BY <3>5 DEF Steady
      <4>2. s \in cloud' /\ s # Mine(c)
        BY <1>2, <2>2, <3>3, <3>5, <4>1 DEF ServersOf, Mine
      <4> QED
        BY <3>4, <4>1, <4>2, StrayKept
    <3> QED
      BY <2>2, <3>2, <3>3, <3>5 DEF Steady, Untouched
  <2>4. CASE ~(pc[d] \in {"create", "close", "tombstone"} \/ loc[d].abort = "close")
    BY <2>2, <2>4 DEF Steady
  <2> QED
    BY <2>3, <2>4
<1> QED
  BY <1>1, <1>2

\* A command that starts has nothing to be steady about.
LEMMA SteadyStart ==
    ASSUME NEW c \in Command, NEW d \in Command, LifeInv, Start(c), Quiet
    PROVE  Steady(d)'
<1>1. AbortOf(d) /\ pc[d] = "idle" /\ TypeOK /\ LocksOf(c)
  BY DEF LifeInv, Quiet
<1>2. loc[d].abort = "no"
  BY <1>1 DEF AbortOf, Aborting
<1>3. CASE d = c
  <2>1. Steady(c)
    BY <1>1, <1>2, <1>3 DEF Steady
  <2> QED
    BY <1>1, <1>3, <2>1, OwnSteady DEF Steps
<1>4. CASE d # c
  <2>1. pc'[d] = pc[d] /\ loc'[d] = loc[d]
    BY <1>1, <1>4, OthersUndisturbed DEF Steps
  <2> QED
    BY <1>1, <1>2, <2>1 DEF Steady
<1> QED
  BY <1>3, <1>4

\* A journal goes only when its cluster has gone, and servers come only after
\* their journal, or go astray.
LEMMA JournaledStep ==
    ASSUME Provider = {DefaultProvider}, LifeInv, InStep,
           NEW c \in Command, Steps(c), ~(Start(c) /\ Quiet),
           unguarded' = {}, unguarded = {}
    PROVE  \A s \in cloud' \ stray' : journal'[s[2]] # NoProvider
<1> USE DEF LifeInv
<1>1. loc[c].id \in Id /\ loc[c].prov = DefaultProvider
  BY DEF TypeOK, Local
<1>2. \A s \in cloud : s[1] = DefaultProvider /\ s[2] \in Id
  BY DEF TypeOK
<1>3. Steady(c) /\ NotReap(c) /\ \A s \in cloud \ stray : journal[s[2]] # NoProvider
  BY DEF InStep, Journaled
<1>4. CASE UpCreate(c)
  BY <1>3, <1>4 DEF UpCreate, Mine, Steady
<1>5. CASE Saves(c)
  <2>0. Save(c) /\ UNCHANGED cloud
    BY <1>5 DEF Saves, UpJournal, UpRecord, UpRollsBack
  <2>1. SUFFICES ASSUME NEW s \in cloud \ stray' PROVE journal'[s[2]] # NoProvider
    BY <2>0
  <2>2. CASE journal' = [journal EXCEPT ![loc[c].id] = loc[c].prov]
    <3>1. CASE s[2] = loc[c].id
      BY <1>1, <2>2, <3>1, LifecycleAssumption DEF TypeOK
    <3>2. CASE s[2] # loc[c].id
      <4>1. s # Mine(c)
        BY <3>2 DEF Mine
      <4>2. s \notin stray
        BY <2>0, <2>1, <4>1, SaveStep
      <4> QED
        BY <1>2, <1>3, <2>1, <2>2, <3>2, <4>2 DEF TypeOK
    <3> QED
      BY <3>1, <3>2
  <2>3. CASE UNCHANGED <<journal, stray>>
    BY <1>3, <2>1, <2>3
  <2> QED
    BY <2>0, <2>2, <2>3, SaveStep
<1>6. CASE Close(c) \/ AbortClose(c)
  <2>1. /\ UNCHANGED <<cloud, stray>>
        /\ journal' = [journal EXCEPT ![loc[c].id] = NoProvider]
    BY <1>6 DEF Close, AbortClose
  <2>2. \A s \in ServersOf(loc[c].prov, loc[c].id) : s \in stray
    BY <1>3, <1>6 DEF Close, AbortClose, Steady
  <2>3. \A s \in cloud \ stray : s[2] # loc[c].id
    BY <1>1, <1>2, <2>2 DEF ServersOf
  <2> QED
    BY <1>1, <1>2, <1>3, <2>1, <2>3 DEF TypeOK
<1>7. CASE ~Saves(c) /\ UNCHANGED journal /\ cloud' \subseteq cloud
  <2>1. \A s \in cloud' \ stray' : s \in cloud \ stray
    BY <1>7, StrayKept
  <2> QED
    BY <1>3, <1>7, <2>1
<1> QED
  BY <1>3, <1>4, <1>5, <1>6, <1>7, OnlyCreateAdds, JournalWriters

LEMMA InStepNext ==
    ASSUME "reap" \notin Kinds, Provider = {DefaultProvider},
           LifeInv, InStep, [Next]_vars
    PROVE  InStep'
<1>1. CASE UNCHANGED vars
  BY <1>1 DEF InStep, NotReap, Steady, Journaled, ServersOf, vars
<1>2. ASSUME NEW c \in Command, Steps(c)
      PROVE  InStep'
  <2>1. ASSUME NEW d \in Command PROVE NotReap(d)'
    <3>1. CASE d = c
      BY <1>2, <3>1, NotReapStep DEF InStep, LifeInv
    <3>2. CASE d # c
      BY <1>2, <3>2, OthersUndisturbed DEF InStep, LifeInv, NotReap
    <3> QED
      BY <3>1, <3>2
  <2>2. CASE Start(c) /\ Quiet
    <3>1. \A d \in Command : Steady(d)'
      BY <2>2, SteadyStart
    <3>2. cloud' = {}
      BY <2>2 DEF Start, StartUp, StartDown, StartReap, Quiet
    <3> QED
      BY <2>1, <3>1, <3>2 DEF InStep, Journaled
  <2>3. CASE ~(Start(c) /\ Quiet)
    <3>1. unguarded' = {} => unguarded = {}
      BY <1>2, <2>3, Remembered DEF LifeInv
    <3>2. unguarded' = {} => \A d \in Command : Steady(d)'
      BY <1>2, <3>1, SteadyStep DEF InStep
    <3>3. Journaled'
      BY <1>2, <2>3, <3>1, JournaledStep DEF Journaled
    <3> QED
      BY <2>1, <3>2, <3>3 DEF InStep
  <2> QED
    BY <2>2, <2>3
<1> QED
  BY <1>1, <1>2 DEF Next, Steps

LEMMA InStepHolds ==
    ASSUME "reap" \notin Kinds, Provider = {DefaultProvider}, NamedByFile = FALSE
    PROVE  Spec => [](LifeInv /\ InStep)
<1>1. Init => InStep
  BY DEF Init, InStep, NotReap, GcPC, NoLocals, Steady, Journaled
<1>2. LifeInv /\ InStep /\ [Next]_vars => InStep'
  BY InStepNext
<1> QED
  BY <1>1, <1>2, LifeInvHolds, PTL DEF Spec

\* What runs at the provider has a journal, however many `up`, `up -f` and
\* `down` overlap, fail, are interrupted or are killed at any step, but for the
\* servers of an `up -f` that could not write its journal, and those it created
\* while the handler of its own ^C was tearing the cluster down.
THEOREM NothingUnrecorded ==
    ASSUME "reap" \notin Kinds, Provider = {DefaultProvider}, NamedByFile = FALSE
    PROVE  Spec => []Journaled
<1>1. InStep => Journaled
  BY DEF InStep
<1> QED
  BY <1>1, InStepHolds, PTL

\* Down closes a journal only when the provider it names has nothing left under
\* its id: what its verification saw is still so when it closes.  Only the Down of
\* a ^C may leave servers behind, and only such as its own `up -f`, which it does
\* not stop, created meanwhile.
THEOREM ClosesWhenEmpty ==
    ASSUME "reap" \notin Kinds, Provider = {DefaultProvider}, NamedByFile = FALSE
    PROVE  Spec => CloseWhenEmpty
<1>1. ASSUME LifeInv, InStep, [Next]_vars, unguarded = {}, NEW i \in Id,
             journal[i] # NoProvider, journal'[i] = NoProvider,
             NEW s \in ServersOf(journal[i], i)
      PROVE  s \in stray /\ loc[s[3]].abort = "close"
  <2>1. PICK c \in Command : Steps(c)
    BY <1>1 DEF Next, Steps, vars
  <2>2. TypeOK /\ NotReap(c) /\ Steady(c)
    BY <1>1 DEF LifeInv, InStep
  <2>3. loc[c].prov = DefaultProvider /\ journal[i] = DefaultProvider /\ loc[c].id \in Id
    BY <1>1, <2>2 DEF TypeOK, Local
  <2>4. Close(c) \/ AbortClose(c) \/ Saves(c)
    BY <1>1, <2>1, <2>2, JournalWriters
  <2>5. CASE Saves(c)
    <3>1. Save(c)
      BY <2>5 DEF Saves, UpJournal, UpRecord, UpRollsBack
    <3>2. journal' = [journal EXCEPT ![loc[c].id] = loc[c].prov] \/ journal' = journal
      BY <2>2, <3>1, SaveStep
    <3> QED
      BY <1>1, <2>2, <2>3, <3>2, LifecycleAssumption DEF TypeOK
  <2>6. CASE Close(c) \/ AbortClose(c)
    <3>1. i = loc[c].id
      BY <1>1, <2>2, <2>6 DEF Close, AbortClose, TypeOK
    <3> QED
      BY <1>1, <2>2, <2>3, <2>6, <3>1 DEF Close, AbortClose, Steady
  <2> QED
    BY <2>4, <2>5, <2>6
<1>2. LifeInv /\ InStep /\ [Next]_vars =>
        [unguarded = {} =>
           \A i \in Id :
              journal[i] # NoProvider /\ journal'[i] = NoProvider
                => \A s \in ServersOf(journal[i], i) :
                      s \in stray /\ loc[s[3]].abort = "close"]_vars
  BY <1>1
<1> QED
  BY <1>2, InStepHolds, PTL DEF Spec, CloseWhenEmpty

\* `down` marks a manifest as torn down only when its cluster is: nothing was
\* created under the id between the verification and the mark.
THEOREM MarksWhenEmpty ==
    ASSUME "reap" \notin Kinds, Provider = {DefaultProvider}, NamedByFile = FALSE
    PROVE  Spec => TombstoneWhenEmpty
<1>1. ASSUME LifeInv, InStep, [Next]_vars, unguarded = {}, NEW i \in dead' \ dead
      PROVE  ServersOf(manifest[i], i) = {}
  <2>1. PICK c \in Command : Steps(c)
    BY <1>1 DEF Next, Steps, vars
  <2>2. TypeOK /\ NotReap(c) /\ Steady(c)
    BY <1>1 DEF LifeInv, InStep
  <2>3. Tombstone(c)
    BY <1>1, <2>1, <2>2, JournalWriters
  <2>4. loc[c].id \in Id /\ loc[c].prov = DefaultProvider
    BY <2>2 DEF TypeOK, Local
  <2>5. i = loc[c].id /\ manifest[i] # NoProvider
    BY <1>1, <2>3 DEF Tombstone, tombstoneManifest
  <2>6. manifest[i] = DefaultProvider
    BY <2>2, <2>4, <2>5 DEF TypeOK
  <2> QED
    BY <2>2, <2>3, <2>4, <2>5, <2>6 DEF Tombstone, Steady
<1>2. LifeInv /\ InStep /\ [Next]_vars =>
        [unguarded = {} =>
           \A i \in dead' \ dead : ServersOf(manifest[i], i) = {}]_vars
  BY <1>1
<1> QED
  BY <1>2, InStepHolds, PTL DEF Spec, TombstoneWhenEmpty

-----------------------------------------------------------------------------
(***************************************************************************)
(* Teardowns of every kind.  What `reap` and several providers break is    *)
(* which provider is asked, and the garbage collection; what Down verified *)
(* stays verified in all of them.                                          *)
(***************************************************************************)
AllSteady == unguarded = {} => \A c \in Command : Steady(c)

LEMMA AllSteadyHolds ==
    ASSUME NamedByFile = FALSE
    PROVE  Spec => [](LifeInv /\ AllSteady)
<1>1. Init => AllSteady
  BY DEF Init, NoLocals, AllSteady, Steady
<1>2. ASSUME LifeInv, AllSteady, [Next]_vars PROVE AllSteady'
  <2>1. CASE UNCHANGED vars
    BY <1>2, <2>1 DEF AllSteady, Steady, ServersOf, vars
  <2>2. ASSUME NEW c \in Command, Steps(c) PROVE AllSteady'
    <3>1. CASE Start(c) /\ Quiet
      BY <1>2, <3>1, SteadyStart DEF AllSteady
    <3>2. CASE ~(Start(c) /\ Quiet)
      <4>1. unguarded' = {} => unguarded = {}
        BY <1>2, <2>2, <3>2, Remembered DEF LifeInv
      <4> QED
        BY <1>2, <2>2, <4>1, SteadyStep DEF AllSteady
    <3> QED
      BY <3>1, <3>2
  <2> QED
    BY <1>2, <2>1, <2>2 DEF Next, Steps
<1> QED
  BY <1>1, <1>2, LifeInvHolds, PTL DEF Spec

\* A teardown's last steps are taken on what it verified: when `down`, a rolled
\* back `up -f` or `reap` closes a journal, and when `down` marks the manifest, the
\* provider the teardown was sent to still has nothing under the id, however many
\* commands of every kind overlap, at however many providers.  The teardown of a
\* ^C is the exception, and no worse than this: what it closes on was created
\* after its verification, by the very `up -f` it was to undo.
THEOREM VerifiedUntilClosed ==
    ASSUME NamedByFile = FALSE
    PROVE  Spec => [][\A c \in Command : unguarded = {} =>
                        /\ Close(c) \/ Tombstone(c)
                             => ServersOf(loc[c].prov, loc[c].id) = {}
                        /\ AbortClose(c)
                             => \A s \in ServersOf(loc[c].prov, loc[c].id) :
                                   s \in stray /\ s[3] = c]_vars
<1>1. LifeInv /\ AllSteady /\ [Next]_vars =>
        [\A c \in Command : unguarded = {} =>
           /\ Close(c) \/ Tombstone(c) => ServersOf(loc[c].prov, loc[c].id) = {}
           /\ AbortClose(c) => \A s \in ServersOf(loc[c].prov, loc[c].id) :
                                  s \in stray /\ s[3] = c]_vars
  BY DEF AllSteady, Steady, Close, Tombstone, AbortClose
<1> QED
  BY <1>1, AllSteadyHolds, PTL DEF Spec
=============================================================================
