---------------------------- MODULE Orchestrator ----------------------------
(***************************************************************************)
(* One `pandion up -f` process and the teardowns of its cluster.           *)
(*                                                                         *)
(* UpCluster provisions the nodes with one goroutine each, bounded by a    *)
(* semaphore, fails fast through an errgroup, and journals every           *)
(* transition before it acts on it.  The caller rolls a failed provision   *)
(* back with Down; a ^C handler runs its own Down beside the provisioning  *)
(* goroutines; the process may be killed at any point; afterwards the      *)
(* operator runs `pandion down` as often as it takes.                      *)
(*                                                                         *)
(* The provider is external.  A server is named by its node and by the     *)
(* attempt that launched it.  A request has taken effect, or never will,   *)
(* by the time its caller has an answer or is dead.                        *)
(***************************************************************************)
EXTENDS Naturals, FiniteSets

CONSTANTS
    Node,            \* the nodes of the topology
    MaxConc,         \* maxConc: concurrent provisions allowed
    MaxAttempts,     \* maxProvisionAttempts
    DestroyAttempts, \* attempts of destroyWithRetry
    Interrupts,      \* may ^C arrive before streaming?
    SaveFailures     \* may a write of the journal fail?

ASSUME ConstantsAssumption ==
    /\ IsFiniteSet(Node) /\ Node # {}
    /\ MaxConc \in Nat \ {0}
    /\ MaxAttempts \in Nat \ {0}
    /\ DestroyAttempts \in Nat \ {0}
    /\ Interrupts \in BOOLEAN
    /\ SaveFailures \in BOOLEAN

VARIABLES
    \* the goroutines of UpCluster
    pc,        \* where each node's goroutine stands
    attempt,   \* createWithRetry's attempt, per node
    phase,     \* c.Nodes[i].Phase in memory
    free,      \* permits left in the semaphore
    cancelled, \* gctx is done
    groupErr,  \* the errgroup holds an error
    \* the process
    stage,     \* where the main goroutine stands
    proc,      \* how the process is doing, or how it ended
    handler,   \* the ^C goroutine
    \* the disk
    journal,   \* phase of each node in <id>.json; NoRecord when absent
    saveLost,  \* a save of UpCluster failed (saveWarned)
    \* the provider
    cloud,     \* the cluster's tagged servers
    aux,       \* its keys, firewalls and volumes
    \* the teardowns
    dpc,       \* where each Down stands
    todo,      \* servers it listed and has still to destroy
    tries,     \* failed attempts on the server being destroyed
    firstErr   \* some destroy failed for good

upVars    == <<pc, attempt, phase, free, cancelled, groupErr>>
procVars  == <<stage, proc, handler>>
diskVars  == <<journal, saveLost>>
cloudVars == <<cloud, aux>>
downVars  == <<dpc, todo, tries, firstErr>>
vars == <<upVars, procVars, diskVars, cloudVars, downVars>>

Server == Node \X (1..MaxAttempts)
Phase  == {"PLANNED", "PROVISIONING", "RUNNING", "TEARING_DOWN", "FAILED"}
Downer == {"rollback", "signal", "operator"}

GoPC == {"blocked", "acquired", "marked", "creating", "booting", "backoff",
         "created", "failed", "settled", "leaving", "erred", "done"}
DownPC == {"idle", "list", "load", "mark", "destroy", "verify", "aux", "close",
           "done", "failed"}
Stage == {"start", "waiting", "rollback", "barrier", "configuring", "streaming"}
Proc  == {"running", "crashed", "failed", "aborted", "degraded", "finished"}

\* No <id>.json on disk.
NoRecord == [n \in Node |-> "none"]

TypeOK ==
    /\ pc \in [Node -> GoPC]
    /\ attempt \in [Node -> 1..MaxAttempts]
    /\ phase \in [Node -> Phase]
    /\ free \in 0..MaxConc
    /\ cancelled \in BOOLEAN
    /\ groupErr \in BOOLEAN
    /\ stage \in Stage
    /\ proc \in Proc
    /\ handler \in {"idle", "rollback"}
    /\ journal \in [Node -> Phase \cup {"none"}]
    /\ saveLost \in BOOLEAN
    /\ cloud \subseteq Server
    /\ aux \in BOOLEAN
    /\ dpc \in [Downer -> DownPC]
    /\ todo \in [Downer -> SUBSET Server]
    /\ tries \in [Downer -> 0..(DestroyAttempts - 1)]
    /\ firstErr \in [Downer -> BOOLEAN]

Init ==
    /\ pc = [n \in Node |-> "blocked"]
    /\ attempt = [n \in Node |-> 1]
    /\ phase = [n \in Node |-> "PLANNED"]
    /\ free = MaxConc
    /\ cancelled = FALSE
    /\ groupErr = FALSE
    /\ stage = "start"
    /\ proc = "running"
    /\ handler = "idle"
    /\ journal = NoRecord
    /\ saveLost = FALSE
    /\ cloud = {}
    /\ aux = FALSE
    /\ dpc = [d \in Downer |-> "idle"]
    /\ todo = [d \in Downer |-> {}]
    /\ tries = [d \in Downer |-> 0]
    /\ firstErr = [d \in Downer |-> FALSE]

-----------------------------------------------------------------------------
(***************************************************************************)
(* The journal.  Save writes a temporary file and renames it over the      *)
(* record, so the record is the old one or the new one.  UpCluster's save  *)
(* warns about a failure and goes on.                                      *)
(***************************************************************************)
save ==
    \/ journal' = phase /\ UNCHANGED saveLost
    \/ SaveFailures /\ saveLost' = TRUE /\ UNCHANGED journal

-----------------------------------------------------------------------------
(***************************************************************************)
(* The goroutine of node n.                                                *)
(***************************************************************************)
Provisioning(n, from) == proc = "running" /\ stage # "start" /\ pc[n] = from

Goto(n, to) == pc' = [pc EXCEPT ![n] = to]

setPhase(n, p) == phase' = [phase EXCEPT ![n] = p]

\* mutant: the permit is not waited for
PermitIgnored == TRUE
PermitAvailable == free > 0

\* sem.Acquire succeeds: a permit is free and gctx is still alive.
Acquire(n) ==
    /\ Provisioning(n, "blocked")
    /\ PermitAvailable
    /\ ~cancelled
    /\ free' = free - 1
    /\ Goto(n, "acquired")
    /\ UNCHANGED <<attempt, phase, cancelled, groupErr, procVars, diskVars,
                   cloudVars, downVars>>

\* sem.Acquire returns gctx's error: the node is never provisioned.
AcquireFails(n) ==
    /\ Provisioning(n, "blocked")
    /\ cancelled
    /\ Goto(n, "erred")
    /\ UNCHANGED <<attempt, phase, free, cancelled, groupErr, procVars,
                   diskVars, cloudVars, downVars>>

\* setPhase(i, PROVISIONING)
MarkProvisioning(n) ==
    /\ Provisioning(n, "acquired")
    /\ setPhase(n, "PROVISIONING")
    /\ Goto(n, "marked")
    /\ UNCHANGED <<attempt, free, cancelled, groupErr, procVars, diskVars,
                   cloudVars, downVars>>

\* mutant: the server is requested before the intent is on disk
UnjournaledIntent(n) ==
    /\ Provisioning(n, "marked")
    /\ Goto(n, "creating")
    /\ UNCHANGED <<attempt, phase, free, cancelled, groupErr, procVars,
                   diskVars, cloudVars, downVars>>
\* save() before the create
JournalIntent(n) ==
    /\ Provisioning(n, "marked")
    /\ save
    /\ Goto(n, "creating")
    /\ UNCHANGED <<attempt, phase, free, cancelled, groupErr, procVars,
                   cloudVars, downVars>>

\* The provider takes the request: the login key is registered and the server
\* exists, tagged, and boots.
RequestAccepted(n) ==
    /\ Provisioning(n, "creating")
    /\ cloud' = cloud \cup {<<n, attempt[n]>>}
    /\ aux' = TRUE
    /\ Goto(n, "booting")
    /\ UNCHANGED <<attempt, phase, free, cancelled, groupErr, procVars,
                   diskVars, downVars>>

\* CreateServer fails for good before a server exists (quota, no capacity,
\* authentication, gctx done); the login key may have been registered.
RequestRejected(n) ==
    /\ Provisioning(n, "creating")
    /\ aux' \in {aux, TRUE}
    /\ Goto(n, "failed")
    /\ UNCHANGED <<attempt, phase, free, cancelled, groupErr, procVars,
                   diskVars, cloud, downVars>>

\* waitRunning sees the server running and CreateServer returns it.
BootSucceeds(n) ==
    /\ Provisioning(n, "booting")
    /\ <<n, attempt[n]>> \in cloud
    /\ Goto(n, "created")
    /\ UNCHANGED <<attempt, phase, free, cancelled, groupErr, procVars,
                   diskVars, cloudVars, downVars>>

\* waitRunning gives up (its deadline, gctx done, an API error, the server
\* vanished).  The server, if it is there, stays behind.
BootFails(n) ==
    /\ Provisioning(n, "booting")
    /\ Goto(n, "failed")
    /\ UNCHANGED <<attempt, phase, free, cancelled, groupErr, procVars,
                   diskVars, cloudVars, downVars>>

\* The instance died while booting: the driver tries to destroy it and
\* returns a TransientProvisionError; the last attempt's is final.
BootDies(n) ==
    /\ Provisioning(n, "booting")
    /\ cloud' \in {cloud, cloud \ {<<n, attempt[n]>>}}
    /\ Goto(n, IF attempt[n] < MaxAttempts THEN "backoff" ELSE "failed")
    /\ UNCHANGED <<attempt, phase, free, cancelled, groupErr, procVars,
                   diskVars, aux, downVars>>

\* The pause between two attempts ends: a fresh instance is launched.
Relaunch(n) ==
    /\ Provisioning(n, "backoff")
    /\ attempt' = [attempt EXCEPT ![n] = @ + 1]
    /\ Goto(n, "creating")
    /\ UNCHANGED <<phase, free, cancelled, groupErr, procVars, diskVars,
                   cloudVars, downVars>>

\* gctx is done during the pause.
RelaunchCancelled(n) ==
    /\ Provisioning(n, "backoff")
    /\ cancelled
    /\ Goto(n, "failed")
    /\ UNCHANGED <<attempt, phase, free, cancelled, groupErr, procVars,
                   diskVars, cloudVars, downVars>>

\* The node's outcome goes into memory: RUNNING with its server, or FAILED.
Settle(n) ==
    /\ \/ Provisioning(n, "created") /\ setPhase(n, "RUNNING")
       \/ Provisioning(n, "failed") /\ setPhase(n, "FAILED")
    /\ Goto(n, "settled")
    /\ UNCHANGED <<attempt, free, cancelled, groupErr, procVars, diskVars,
                   cloudVars, downVars>>

\* save() of the outcome
JournalOutcome(n) ==
    /\ Provisioning(n, "settled")
    /\ save
    /\ Goto(n, "leaving")
    /\ UNCHANGED <<attempt, phase, free, cancelled, groupErr, procVars,
                   cloudVars, downVars>>

\* mutant: only the error path releases
ReleaseOnFailure(n) ==
    free' = IF phase[n] = "FAILED" THEN free + 1 ELSE free
ReleasePermit(n) == free' = free + 1

\* The deferred sem.Release runs before the errgroup learns of the error, so
\* a waiter may still start a provision that is about to be cancelled.
Release(n) ==
    /\ Provisioning(n, "leaving")
    /\ ReleasePermit(n)
    /\ Goto(n, IF phase[n] = "FAILED" THEN "erred" ELSE "done")
    /\ UNCHANGED <<attempt, phase, cancelled, groupErr, procVars, diskVars,
                   cloudVars, downVars>>

RecordError == groupErr' = TRUE

\* The goroutine returns its error: the errgroup keeps it and cancels gctx.
ReturnError(n) ==
    /\ Provisioning(n, "erred")
    /\ RecordError
    /\ cancelled' = TRUE
    /\ Goto(n, "done")
    /\ UNCHANGED <<attempt, phase, free, procVars, diskVars, cloudVars,
                   downVars>>

Goroutine(n) ==
    \/ Acquire(n) \/ AcquireFails(n) \/ MarkProvisioning(n) \/ JournalIntent(n)
    \/ RequestAccepted(n) \/ RequestRejected(n)
    \/ BootSucceeds(n) \/ BootFails(n) \/ BootDies(n)
    \/ Relaunch(n) \/ RelaunchCancelled(n)
    \/ Settle(n) \/ JournalOutcome(n) \/ Release(n) \/ ReturnError(n)

-----------------------------------------------------------------------------
(***************************************************************************)
(* Down, run by caller d: the rollback of a failed provision, the ^C       *)
(* handler, or the operator's later `pandion down`.  The first two die     *)
(* with the process; the per-cluster lock keeps the third away from it.    *)
(***************************************************************************)
DownRuns(d, at) ==
    /\ dpc[d] = at
    /\ (proc = "running") <=> (d # "operator")

DownGoto(d, to) == dpc' = [dpc EXCEPT ![d] = to]

DownBegins(d) == DownGoto(d, "list") /\ UNCHANGED <<todo, tries, firstErr>>

\* mutant: an empty listing is taken for a cluster already torn down
NothingToDo(d) ==
    /\ DownRuns(d, "list")
    /\ todo' = [todo EXCEPT ![d] = cloud]
    /\ DownGoto(d, IF cloud = {} THEN "done" ELSE "load")
    /\ UNCHANGED <<upVars, procVars, diskVars, cloudVars, tries, firstErr>>
\* ListByTag: the servers to destroy, as of now.
DownList(d) ==
    /\ DownRuns(d, "list")
    /\ todo' = [todo EXCEPT ![d] = cloud]
    /\ DownGoto(d, "load")
    /\ UNCHANGED <<upVars, procVars, diskVars, cloudVars, tries, firstErr>>

\* A listing fails, at the start or at the verification.
DownListFails(d) ==
    /\ DownRuns(d, "list") \/ DownRuns(d, "verify")
    /\ DownGoto(d, "failed")
    /\ UNCHANGED <<upVars, procVars, diskVars, cloudVars, todo, tries, firstErr>>

\* S.Load: without a record there is nothing to mark.
DownLoad(d) ==
    /\ DownRuns(d, "load")
    /\ DownGoto(d, IF journal = NoRecord THEN "destroy" ELSE "mark")
    /\ UNCHANGED <<upVars, procVars, diskVars, cloudVars, todo, tries, firstErr>>

\* S.Save of the loaded record with every node TEARING_DOWN; best effort.
DownMark(d) ==
    /\ DownRuns(d, "mark")
    /\ \/ journal' = [n \in Node |-> "TEARING_DOWN"]
       \/ SaveFailures /\ UNCHANGED journal
    /\ DownGoto(d, "destroy")
    /\ UNCHANGED <<upVars, procVars, saveLost, cloudVars, todo, tries, firstErr>>

\* DestroyServer succeeds; an absent server is a success too.
DownDestroy(d) ==
    /\ DownRuns(d, "destroy")
    /\ \E s \in todo[d] :
         /\ cloud' = cloud \ {s}
         /\ todo' = [todo EXCEPT ![d] = @ \ {s}]
    /\ tries' = [tries EXCEPT ![d] = 0]
    /\ UNCHANGED <<upVars, procVars, diskVars, aux, dpc, firstErr>>

\* DestroyServer reports success for a server that is still there: the
\* Scaleway driver takes any failure to look a server up for "not found".
DownDestroyMissed(d) ==
    /\ DownRuns(d, "destroy")
    /\ \E s \in todo[d] : todo' = [todo EXCEPT ![d] = @ \ {s}]
    /\ tries' = [tries EXCEPT ![d] = 0]
    /\ UNCHANGED <<upVars, procVars, diskVars, cloudVars, dpc, firstErr>>

\* DestroyServer fails (whether or not the server went): retried up to the
\* bound, then recorded, and the loop goes on with the next server.
DownDestroyFails(d) ==
    /\ DownRuns(d, "destroy")
    /\ \E s \in todo[d] :
         /\ cloud' \in {cloud, cloud \ {s}}
         /\ IF tries[d] + 1 < DestroyAttempts
            THEN /\ tries' = [tries EXCEPT ![d] = @ + 1]
                 /\ UNCHANGED <<todo, firstErr>>
            ELSE /\ tries' = [tries EXCEPT ![d] = 0]
                 /\ todo' = [todo EXCEPT ![d] = @ \ {s}]
                 /\ firstErr' = [firstErr EXCEPT ![d] = TRUE]
    /\ UNCHANGED <<upVars, procVars, diskVars, aux, dpc>>

\* The loop is over: any error ends the teardown.
DownDestroyed(d) ==
    /\ DownRuns(d, "destroy")
    /\ todo[d] = {}
    /\ DownGoto(d, IF firstErr[d] THEN "failed" ELSE "verify")
    /\ firstErr' = [firstErr EXCEPT ![d] = FALSE]
    /\ UNCHANGED <<upVars, procVars, diskVars, cloudVars, todo, tries>>

\* mutant: the second listing is not looked at
VerifyBlindly(d) == DownGoto(d, "aux")
VerifyGone(d) == DownGoto(d, IF cloud = {} THEN "aux" ELSE "failed")

\* The second ListByTag: the provider must have nothing left.
DownVerify(d) ==
    /\ DownRuns(d, "verify")
    /\ VerifyGone(d)
    /\ UNCHANGED <<upVars, procVars, diskVars, cloudVars, todo, tries, firstErr>>

\* mutant: a failure to reap the keys and firewalls is only a warning
AuxFailureIgnored(d) == DownGoto(d, "close")
AuxFailureStops(d) == DownGoto(d, "failed")

\* ReapAux
DownReapAux(d) ==
    /\ DownRuns(d, "aux")
    /\ \/ aux' = FALSE /\ DownGoto(d, "close")
       \/ UNCHANGED aux /\ AuxFailureStops(d)
    /\ UNCHANGED <<upVars, procVars, diskVars, cloud, todo, tries, firstErr>>

\* S.Close: an absent record is a success.
DownClose(d) ==
    /\ DownRuns(d, "close")
    /\ \/ journal' = NoRecord /\ DownGoto(d, "done")
       \/ SaveFailures /\ UNCHANGED journal /\ DownGoto(d, "failed")
    /\ UNCHANGED <<upVars, procVars, saveLost, cloudVars, todo, tries, firstErr>>

Down(d) ==
    \/ DownList(d) \/ DownListFails(d) \/ DownLoad(d) \/ DownMark(d)
    \/ DownDestroy(d) \/ DownDestroyMissed(d) \/ DownDestroyFails(d)
    \/ DownDestroyed(d) \/ DownVerify(d) \/ DownReapAux(d) \/ DownClose(d)

-----------------------------------------------------------------------------
(***************************************************************************)
(* The main goroutine of upClusterHetzner, its ^C handler, and the world   *)
(* around the process.                                                     *)
(***************************************************************************)
MainAt(s) == proc = "running" /\ stage = s

\* The process ends and its memory is gone, goroutines and teardowns with it.
\* Whether a teardown had completed is remembered for the properties.
ProcessEnds(how) ==
    /\ proc' = how
    /\ stage' = "start"
    /\ pc' = [n \in Node |-> "done"]
    /\ attempt' = [n \in Node |-> 1]
    /\ phase' = [n \in Node |-> "PLANNED"]
    /\ free' = MaxConc
    /\ cancelled' = FALSE
    /\ groupErr' = FALSE
    /\ dpc' = [d \in Downer |-> IF dpc[d] = "done" THEN "done" ELSE "idle"]
    /\ todo' = [d \in Downer |-> {}]
    /\ tries' = [d \in Downer |-> 0]
    /\ firstErr' = [d \in Downer |-> FALSE]
    /\ UNCHANGED <<handler, diskVars, cloudVars>>

\* save() of all PLANNED, then the goroutines start.
StartGroup ==
    /\ MainAt("start")
    /\ save
    /\ stage' = "waiting"
    /\ UNCHANGED <<upVars, proc, handler, cloudVars, downVars>>

\* mutant: the first outcome ends the wait
WaitForAny == \E n \in Node : pc[n] = "done"
AllReturned == \A n \in Node : pc[n] = "done"

\* g.Wait returns nil: the provisioning barrier is passed.
WaitSucceeds ==
    /\ MainAt("waiting")
    /\ AllReturned
    /\ ~groupErr
    /\ stage' = "barrier"
    /\ UNCHANGED <<upVars, proc, handler, diskVars, cloudVars, downVars>>

\* g.Wait returns the first error: the caller rolls back.
WaitFails ==
    /\ MainAt("waiting")
    /\ AllReturned
    /\ groupErr
    /\ stage' = "rollback"
    /\ DownBegins("rollback")
    /\ UNCHANGED <<upVars, proc, handler, diskVars, cloudVars>>

\* The rollback's own error is dropped; the process exits with code 5.
RollbackExit ==
    /\ MainAt("rollback")
    /\ dpc["rollback"] \in {"done", "failed"}
    /\ ProcessEnds("failed")

\* ensureCloudFirewall, best effort
EnsureFirewall ==
    /\ MainAt("barrier")
    /\ aux' \in {aux, TRUE}
    /\ stage' = "configuring"
    /\ UNCHANGED <<upVars, proc, handler, diskVars, cloud, downVars>>

\* A node never becomes ready, or a setup or build step fails: the cluster is
\* left up for debugging.
Degrade ==
    /\ MainAt("configuring")
    /\ ProcessEnds("degraded")

\* The mesh is up and the manifest saved; from here ^C only detaches.
StartStreaming ==
    /\ MainAt("configuring")
    /\ stage' = "streaming"
    /\ UNCHANGED <<upVars, proc, handler, diskVars, cloudVars, downVars>>

\* The workloads end, ^C detaches, or there was nothing to run.
Finish ==
    /\ MainAt("streaming")
    /\ ProcessEnds("finished")

Main == StartGroup \/ WaitSucceeds \/ WaitFails \/ RollbackExit
        \/ EnsureFirewall \/ Degrade \/ StartStreaming \/ Finish

\* ^C before streaming: the handler starts a Down of its own and cancels
\* nothing.
Interrupt ==
    /\ Interrupts
    /\ proc = "running"
    /\ stage # "streaming"
    /\ handler = "idle"
    /\ handler' = "rollback"
    /\ DownBegins("signal")
    /\ UNCHANGED <<upVars, stage, proc, diskVars, cloudVars>>

\* The handler drops Down's error, says that no resources are left, and ends
\* the process with code 5.
HandlerExit ==
    /\ proc = "running"
    /\ handler = "rollback"
    /\ dpc["signal"] \in {"done", "failed"}
    /\ ProcessEnds("aborted")

\* The 25-minute deadline of `up` passes.
Deadline ==
    /\ MainAt("waiting")
    /\ ~cancelled
    /\ cancelled' = TRUE
    /\ UNCHANGED <<pc, attempt, phase, free, groupErr, procVars, diskVars,
                   cloudVars, downVars>>

\* The process is killed, or the laptop dies.
Crash ==
    /\ proc = "running"
    /\ ProcessEnds("crashed")

\* The operator runs `pandion down`, for the first time or again.
OperatorDown ==
    /\ proc # "running"
    /\ dpc["operator"] \in {"idle", "done", "failed"}
    /\ DownBegins("operator")
    /\ UNCHANGED <<upVars, procVars, diskVars, cloudVars>>

Next ==
    \/ \E n \in Node : Goroutine(n)
    \/ \E d \in Downer : Down(d)
    \/ Main \/ Interrupt \/ HandlerExit \/ Deadline \/ Crash \/ OperatorDown

Spec == Init /\ [][Next]_vars

(***************************************************************************)
(* Fairness.  The Go scheduler runs every goroutine that can run, and      *)
(* every provider call returns: they carry the deadline of `up` or a       *)
(* client timeout.  An operator with something left at the provider runs   *)
(* `pandion down` again; a provider that is asked again and again          *)
(* eventually answers, and destroys what it is told to.                    *)
(***************************************************************************)
UpFairness ==
    /\ \A n \in Node : WF_vars(Goroutine(n))
    /\ WF_vars(Main)
    /\ WF_vars(HandlerExit)
    /\ \A d \in {"rollback", "signal"} : WF_vars(Down(d))

DownFairness ==
    /\ WF_vars(OperatorDown)
    /\ WF_vars(Down("operator"))
    /\ SF_vars(DownList("operator"))
    /\ SF_vars(DownDestroy("operator"))
    /\ SF_vars(DownVerify("operator"))
    /\ SF_vars(DownReapAux("operator") /\ dpc'["operator"] = "close")
    /\ SF_vars(DownClose("operator") /\ dpc'["operator"] = "done")

FairSpec == Spec /\ UpFairness /\ DownFairness

-----------------------------------------------------------------------------
(***************************************************************************)
(* Properties.                                                             *)
(***************************************************************************)

\* What the cluster still has at the provider.
Residue == cloud # {} \/ aux

\* The goroutines that hold a permit of the semaphore.
Holding(n) == pc[n] \notin {"blocked", "erred", "done"}
Holders == {n \in Node : Holding(n)}

\* UpCluster never has more than MaxConc provisions under way, whatever the
\* retries, failures and cancellations.
BoundedConcurrency == Cardinality(Holders) <= MaxConc

\* The provisioning barrier: once UpCluster has returned without an error,
\* every node is RUNNING in the record it returns and the server of its last
\* attempt exists (unless a ^C handler is tearing it down already).
Barrier ==
    stage \in {"barrier", "configuring", "streaming"} /\ proc = "running" =>
        \A n \in Node : /\ phase[n] = "RUNNING"
                        /\ handler = "idle" => <<n, attempt[n]>> \in cloud

\* Journal before create: as long as no save failed and no ^C handler ran
\* beside the provisioning, a server at the provider belongs to a node the
\* journal shows as started, and no key or firewall is left without a record,
\* so a crash at any point is recoverable from the journal.
WriteAhead ==
    ~saveLost /\ handler = "idle" =>
        /\ \A s \in cloud : journal[s[1]] \notin {"none", "PLANNED"}
        /\ aux => journal # NoRecord

\* When the rollback of a failed provision reports success, no server, key,
\* firewall or record is left: no goroutine creates anything behind it.
RollbackComplete ==
    proc = "failed" /\ dpc["rollback"] = "done" /\ handler = "idle" =>
        ~Residue /\ journal = NoRecord

\* Down removes the record last: only with nothing left at the provider,
\* even when a driver took a server for destroyed that is not.
CloseLast ==
    [][journal # NoRecord /\ journal' = NoRecord /\ handler = "idle"
         => ~Residue]_vars

\* Every provision ends: the barrier is passed, the rollback starts, or the
\* process is gone.  No goroutine waits for a permit that never comes.
UpTerminates == stage = "waiting" ~> (stage # "waiting" \/ proc # "running")

\* "teardown is idempotent and converges": however the process ended, the
\* operator's repeated `pandion down` ends with nothing left and no record.
Converges == proc # "running" ~> (~Residue /\ journal = NoRecord)

\* After ^C during set-up, a rollback that went through without an error
\* leaves no billing node.
AbortLeavesNothing == proc = "aborted" /\ dpc["signal"] = "done" => cloud = {}

-----------------------------------------------------------------------------
(***************************************************************************)
(* What the orchestrator promises, as a specification of its own.          *)
(***************************************************************************)
IL == INSTANCE IntentLog WITH record <- journal # NoRecord, residue <- Residue

IntentLogSpec == IL!Spec
=============================================================================
