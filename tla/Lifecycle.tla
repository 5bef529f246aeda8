----------------------------- MODULE Lifecycle -----------------------------
(***************************************************************************)
(* The commands of one operator, side by side: `pandion up`, `down` and    *)
(* `reap` as processes that share ~/.pandion (the journals, the manifests  *)
(* and the per-cluster lock files) and the providers.                      *)
(*                                                                         *)
(* A cluster's servers are one element of cloud per `up` that created      *)
(* them, there while at least one of them is; Orchestrator has the nodes   *)
(* and the retries.  Command bounds how many commands run at a time, not   *)
(* how many are run in all: one that has ended makes room for the next.    *)
(***************************************************************************)
EXTENDS Naturals, FiniteSets

CONSTANTS
    Command,         \* the processes that may run at a time
    Id,              \* cluster ids
    Provider,        \* provider names
    DefaultProvider, \* what resolveProvider("") yields
    DemoId,          \* the default of up's --id flag
    Kinds,           \* the commands the operator uses
    NamedByFile,     \* may `up -f` run without --id?
    Fallible,        \* commands whose lock file, saves or preflight listing may fail
    NoCommand,       \* a free lock
    NoProvider       \* an absent journal or manifest

Kind == {"up", "up -f", "down", "reap"}

ASSUME LifecycleAssumption ==
    /\ DefaultProvider \in Provider
    /\ DemoId \in Id
    /\ Kinds \subseteq Kind
    /\ NamedByFile \in BOOLEAN
    /\ Fallible \subseteq Command
    /\ NoCommand \notin Command
    /\ NoProvider \notin Provider

VARIABLES
    pc,        \* where each command stands
    loc,       \* its local variables
    lock,      \* holder of <id>.lock
    journal,   \* provider named by <id>.json
    manifest,  \* provider named by keys/<id>/manifest.json
    dead,      \* ids whose manifest carries destroyed_at
    cloud,     \* the servers: <<provider, id, the up that created them>>
    \* What the properties have to remember:
    unguarded, \* commands that went on although a guard could not be evaluated
    stray      \* servers an `up -f` created although it could not write the journal,
               \* or while its own ^C was tearing the cluster down

history == <<unguarded, stray>>
vars == <<pc, loc, lock, journal, manifest, dead, cloud, history>>

PC == {"idle", "preview", "lock", "preflight", "journal", "create", "record",
       "configure", "attached", "reaping", "destroy", "verify", "close",
       "tombstone", "gclist", "gcdir", "gc", "gclock", "gcclose", "gctomb"}

\* The goroutine that waits for ^C.
Abort == {"no", "destroy", "verify", "close", "exit"}

\* kind: the command; prov: its provider; id: the cluster it works on now;
\* plan: the ids it locks; todo: those still to be visited; live: gc's snapshot;
\* unsaved: its last save failed and there is no journal; abort: where its ^C
\* handler stands, beside pc
Local == [kind : Kind, prov : Provider, id : Id, plan : SUBSET Id,
          todo : SUBSET Id, live : SUBSET Id, unsaved : BOOLEAN, abort : Abort]

NoLocals == [kind |-> "up", prov |-> DefaultProvider, id |-> DemoId,
             plan |-> {}, todo |-> {}, live |-> {}, unsaved |-> FALSE, abort |-> "no"]

\* A tombstone is written into a manifest that exists.
TypeOK ==
    /\ pc \in [Command -> PC]
    /\ loc \in [Command -> Local]
    /\ lock \in [Id -> Command \cup {NoCommand}]
    /\ journal \in [Id -> Provider \cup {NoProvider}]
    /\ manifest \in [Id -> Provider \cup {NoProvider}]
    /\ dead \subseteq {i \in Id : manifest[i] # NoProvider}
    /\ cloud \subseteq Provider \X Id \X Command
    /\ unguarded \subseteq Command
    /\ stray \subseteq cloud

Init ==
    /\ pc = [c \in Command |-> "idle"]
    /\ loc = [c \in Command |-> NoLocals]
    /\ lock = [i \in Id |-> NoCommand]
    /\ journal = [i \in Id |-> NoProvider]
    /\ manifest = [i \in Id |-> NoProvider]
    /\ dead = {}
    /\ cloud = {}
    /\ unguarded = {}
    /\ stray = {}

-----------------------------------------------------------------------------
(***************************************************************************)
(* What the commands share.                                                *)
(***************************************************************************)
Goto(c, to) == pc' = [pc EXCEPT ![c] = to]

\* The servers a command creates.
Mine(c) == <<loc[c].prov, loc[c].id, c>>

\* ListByTag
ServersOf(p, i) == {s \in cloud : s[1] = p /\ s[2] = i}

\* ListAllTagged, as the set of cluster ids
LiveAt(p) == {i \in Id : ServersOf(p, i) # {}}

\* loadManifest fails for an absent or a tombstoned manifest.
manifestProvider(i) == IF i \in dead THEN NoProvider ELSE manifest[i]

\* mutant: an absent manifest is tombstoned too
TombstoneAnyway(I) == dead' = dead \cup I
tombstoneManifest(I) == dead' = dead \cup {i \in I : manifest[i] # NoProvider}

\* mutant: the lock's holder is not looked at
LockIgnored(i) == TRUE
LockFree(i) == lock[i] = NoCommand

\* The process ends; the operating system releases what it held.
Exit(c) ==
    /\ Goto(c, "idle")
    /\ loc' = [loc EXCEPT ![c] = NoLocals]
    /\ lock' = [i \in Id |-> IF lock[i] = c THEN NoCommand ELSE lock[i]]

\* What went wrong is forgotten once nothing runs and nothing is left.
Quiet == cloud = {} /\ \A c \in Command : pc[c] = "idle"

Remember ==
    IF Quiet
    THEN unguarded' = {} /\ stray' = {}
    ELSE UNCHANGED history

\* lockClusterOrExit, once per id of the plan: reap takes every lock before it
\* touches anything.
TakeLock(c) ==
    /\ pc[c] = "lock"
    /\ \E i \in loc[c].todo :
         /\ LockFree(i)
         /\ lock' = [lock EXCEPT ![i] = c]
         /\ loc' = [loc EXCEPT ![c].todo = @ \ {i}]
    /\ UNCHANGED <<pc, history, journal, manifest, dead, cloud>>

\* mutant: a busy lock is waited for
WaitWhileBusy(c) == FALSE
RefuseWhenBusy(c) ==
    /\ \E i \in loc[c].todo : lock[i] # NoCommand
    /\ Exit(c)

LockBusy(c) ==
    /\ pc[c] = "lock"
    /\ RefuseWhenBusy(c)
    /\ UNCHANGED <<history, journal, manifest, dead, cloud>>

\* The lock file cannot be opened: a warning, and the command proceeds.
LockError(c) ==
    /\ pc[c] = "lock"
    /\ c \in Fallible
    /\ \E i \in loc[c].todo : loc' = [loc EXCEPT ![c].todo = @ \ {i}]
    /\ unguarded' = unguarded \cup {c}
    /\ UNCHANGED <<pc, lock, journal, manifest, dead, cloud, stray>>

AllLocked(c) ==
    /\ pc[c] = "lock"
    /\ loc[c].todo = {}
    /\ \/ loc[c].kind \in {"up", "up -f"} /\ Goto(c, "preflight") /\ UNCHANGED loc
       \/ loc[c].kind = "down" /\ Goto(c, "destroy") /\ UNCHANGED loc
       \/ /\ loc[c].kind = "reap" /\ Goto(c, "reaping")
          /\ loc' = [loc EXCEPT ![c].todo = loc[c].plan]
    /\ UNCHANGED <<history, lock, journal, manifest, dead, cloud>>

-----------------------------------------------------------------------------
(***************************************************************************)
(* up.  The id it locks and checks is the --id flag; with -f and the       *)
(* flag's default, the id it provisions is the topology's name.            *)
(***************************************************************************)
StartUp(c) ==
    /\ pc[c] = "idle"
    /\ \E k \in Kinds \cap {"up", "up -f"}, p \in Provider, flag \in Id, id \in Id :
         /\ id # flag => NamedByFile /\ k = "up -f" /\ flag = DemoId
         /\ loc' = [loc EXCEPT ![c] = [NoLocals EXCEPT
                       !.kind = k, !.prov = p, !.id = id,
                       !.plan = {flag}, !.todo = {flag}]]
    /\ Goto(c, "lock")
    /\ Remember
    /\ UNCHANGED <<lock, journal, manifest, dead, cloud>>

\* mutant: only the local manifest is consulted
NotAsked(c) == TRUE
NothingRunning(c) == \A i \in loc[c].plan : ServersOf(loc[c].prov, i) = {}

\* upPreflight lets the command proceed: no live manifest names another
\* provider, and the provider has nothing under this id.
PreflightPasses(c) ==
    /\ pc[c] = "preflight"
    /\ \A i \in loc[c].plan : manifestProvider(i) \in {NoProvider, loc[c].prov}
    /\ \/ NothingRunning(c) /\ UNCHANGED unguarded
       \/ c \in Fallible /\ unguarded' = unguarded \cup {c}  \* listing failed
    /\ Goto(c, "journal")
    /\ UNCHANGED <<loc, lock, journal, manifest, dead, cloud, stray>>

\* The id is taken, or the budget or the topology is refused.
UpRefused(c) ==
    /\ pc[c] = "preflight"
    /\ Exit(c)
    /\ UNCHANGED <<history, journal, manifest, dead, cloud>>

\* S.Save, whatever the journal held before.  A single node that cannot be
\* journaled is an error (UpFails); a cluster goes on with a warning.
Save(c) ==
    \/ /\ journal' = [journal EXCEPT ![loc[c].id] = loc[c].prov]
       /\ loc' = [loc EXCEPT ![c].unsaved = FALSE]
       /\ stray' = IF loc[c].abort = "no" THEN stray \ {Mine(c)} ELSE stray
    \/ /\ loc[c].kind = "up -f" /\ c \in Fallible
       /\ loc' = [loc EXCEPT ![c].unsaved = journal[loc[c].id] = NoProvider]
       /\ UNCHANGED <<journal, stray>>

\* mutant: the server is journaled after it was created, and not before
CreateFirst(c) ==
    /\ pc[c] = "journal"
    /\ Goto(c, "create")
    /\ UNCHANGED <<loc, history, lock, journal, manifest, dead, cloud>>
\* The journal names the provider before anything is created.
UpJournal(c) ==
    /\ pc[c] = "journal"
    /\ Save(c)
    /\ Goto(c, "create")
    /\ UNCHANGED <<lock, manifest, dead, cloud, unguarded>>

\* A create takes effect.  A ^C does not stop it: the handler cancels nothing.
UpCreate(c) ==
    /\ pc[c] = "create"
    /\ cloud' = cloud \cup {Mine(c)}
    /\ stray' = IF loc[c].unsaved \/ loc[c].abort # "no"
                THEN stray \cup {Mine(c)} ELSE stray
    /\ Goto(c, "record")
    /\ UNCHANGED <<loc, lock, journal, manifest, dead, unguarded>>

\* Its answer is journaled; a cluster may have further nodes to create.
UpRecord(c) ==
    /\ pc[c] = "record"
    /\ Save(c)
    /\ \/ Goto(c, "configure")
       \/ loc[c].kind = "up -f" /\ Goto(c, "journal")
    /\ UNCHANGED <<lock, manifest, dead, cloud, unguarded>>

\* A single node that cannot be journaled or provisioned is an error and no
\* more: no rollback.
UpFails(c) ==
    /\ pc[c] \in {"journal", "create", "record"}
    /\ loc[c].kind = "up"
    /\ Exit(c)
    /\ UNCHANGED <<history, journal, manifest, dead, cloud>>

\* A node of a cluster cannot be provisioned (the driver may have left a server
\* behind): once every create has returned, the cluster is rolled back.
UpRollsBack(c) ==
    /\ pc[c] \in {"create", "record"}
    /\ loc[c].kind = "up -f"
    /\ Save(c)
    /\ Goto(c, "destroy")
    /\ UNCHANGED <<lock, manifest, dead, cloud, unguarded>>

\* Set-up fails after the servers exist: exit code 7, everything left as it is.
UpStops(c) ==
    /\ pc[c] = "configure"
    /\ Exit(c)
    /\ UNCHANGED <<history, journal, manifest, dead, cloud>>

\* The manifest is written afresh, without destroyed_at; failing that, a
\* warning.  Streaming starts right after.
UpManifest(c) ==
    /\ pc[c] = "configure"
    /\ \/ /\ manifest' = [manifest EXCEPT ![loc[c].id] = loc[c].prov]
          /\ dead' = dead \ {loc[c].id}
       \/ UNCHANGED <<manifest, dead>>
    /\ Goto(c, "attached")
    /\ UNCHANGED <<loc, history, lock, journal, cloud>>

\* The workload ends, ^C detaches, or there was nothing to run.
UpDetaches(c) ==
    /\ pc[c] = "attached"
    /\ Exit(c)
    /\ UNCHANGED <<history, journal, manifest, dead, cloud>>

-----------------------------------------------------------------------------
(***************************************************************************)
(* down.  The provider is settled before the lock is taken: the flag, else *)
(* the live manifest's, else the default.  The journal's is not consulted. *)
(***************************************************************************)
StartDown(c) ==
    /\ pc[c] = "idle"
    /\ "down" \in Kinds
    /\ \E i \in Id, flag \in Provider \cup {NoProvider} :
         LET recorded == manifestProvider(i)
             p == IF flag # NoProvider THEN flag
                  ELSE IF recorded # NoProvider THEN recorded
                  ELSE DefaultProvider
         IN loc' = [loc EXCEPT ![c] = [NoLocals EXCEPT
                       !.kind = "down", !.prov = p, !.id = i,
                       !.plan = {i}, !.todo = {i}]]
    /\ Goto(c, "preview")
    /\ Remember
    /\ UNCHANGED <<lock, journal, manifest, dead, cloud>>

\* The listing for the preview: an error or --dry-run ends the command.
Preview(c) ==
    /\ pc[c] = "preview"
    /\ \/ Goto(c, "lock") /\ UNCHANGED <<loc, lock>>
       \/ Exit(c)
    /\ UNCHANGED <<history, journal, manifest, dead, cloud>>

\* Down destroys what it can of the servers its listing showed.
DestroySome(c) ==
    \E gone \in SUBSET ServersOf(loc[c].prov, loc[c].id) :
        /\ cloud' = cloud \ gone
        /\ stray' = stray \ gone

Destroy(c) ==
    /\ pc[c] = "destroy"
    /\ DestroySome(c)
    /\ Goto(c, "verify")
    /\ UNCHANGED <<loc, lock, journal, manifest, dead, unguarded>>

\* mutant: what is left is not counted
VerifyBlindly(c) == TRUE
VerifyGone(c) == ServersOf(loc[c].prov, loc[c].id) = {}

Verify(c) ==
    /\ pc[c] = "verify"
    /\ VerifyGone(c)
    /\ Goto(c, "close")
    /\ UNCHANGED <<loc, history, lock, journal, manifest, dead, cloud>>

\* mutant: down marks the manifest although the teardown failed
TombstoneOnFailure(c) == Goto(c, "tombstone") /\ UNCHANGED <<loc, lock>>
\* `down` gives up (must) and a rollback's error is dropped.
StopOnFailure(c) == Exit(c)

\* A listing, a destroy, the aux reap or the close failed, or the operator
\* declined; reap goes on with the next cluster.
DownFails(c) ==
    /\ pc[c] \in {"destroy", "verify", "close"}
    /\ \/ loc[c].kind = "reap" /\ Goto(c, "reaping") /\ UNCHANGED <<loc, lock>>
       \/ loc[c].kind # "reap" /\ StopOnFailure(c)
    /\ UNCHANGED <<history, journal, manifest, dead, cloud>>

\* S.Close ends the teardown.
Close(c) ==
    /\ pc[c] = "close"
    /\ journal' = [journal EXCEPT ![loc[c].id] = NoProvider]
    /\ \/ loc[c].kind = "reap" /\ Goto(c, "reaping") /\ UNCHANGED <<loc, lock>>
       \/ loc[c].kind = "down" /\ Goto(c, "tombstone") /\ UNCHANGED <<loc, lock>>
       \/ loc[c].kind \in {"up", "up -f"} /\ Exit(c)
    /\ UNCHANGED <<history, manifest, dead, cloud>>

Tombstone(c) ==
    /\ pc[c] = "tombstone"
    /\ tombstoneManifest({loc[c].id})
    /\ Exit(c)
    /\ UNCHANGED <<history, journal, manifest, cloud>>

-----------------------------------------------------------------------------
(***************************************************************************)
(* ^C during the set-up of `up -f`: a goroutine of the same process runs   *)
(* Down beside the creates, the saves, the rollback and the set-up, which  *)
(* go on, and then ends the process whatever Down came to.                 *)
(***************************************************************************)
HandlerTo(c, to) == loc' = [loc EXCEPT ![c].abort = to]

Interrupt(c) ==
    /\ pc[c] \in {"journal", "create", "record", "configure",
                  "destroy", "verify", "close"}
    /\ loc[c].kind = "up -f" /\ loc[c].abort = "no"
    /\ HandlerTo(c, "destroy")
    /\ UNCHANGED <<pc, history, lock, journal, manifest, dead, cloud>>

AbortDestroy(c) ==
    /\ loc[c].abort = "destroy"
    /\ DestroySome(c)
    /\ HandlerTo(c, "verify")
    /\ UNCHANGED <<pc, lock, journal, manifest, dead, unguarded>>

AbortVerify(c) ==
    /\ loc[c].abort = "verify"
    /\ VerifyGone(c)
    /\ HandlerTo(c, "close")
    /\ UNCHANGED <<pc, history, lock, journal, manifest, dead, cloud>>

AbortClose(c) ==
    /\ loc[c].abort = "close"
    /\ journal' = [journal EXCEPT ![loc[c].id] = NoProvider]
    /\ HandlerTo(c, "exit")
    /\ UNCHANGED <<pc, history, lock, manifest, dead, cloud>>

AbortFails(c) ==
    /\ loc[c].abort \in {"destroy", "verify", "close"}
    /\ HandlerTo(c, "exit")
    /\ UNCHANGED <<pc, history, lock, journal, manifest, dead, cloud>>

AbortExit(c) ==
    /\ loc[c].abort = "exit"
    /\ Exit(c)
    /\ UNCHANGED <<history, journal, manifest, dead, cloud>>

-----------------------------------------------------------------------------
(***************************************************************************)
(* reap: a teardown of every cluster the provider knows of, old enough,    *)
(* and then a garbage collection of the journals without a cluster.        *)
(***************************************************************************)
StartReap(c) ==
    /\ pc[c] = "idle"
    /\ "reap" \in Kinds
    /\ \E p \in Provider : \E plan \in SUBSET LiveAt(p) :
         /\ loc' = [loc EXCEPT ![c] = [NoLocals EXCEPT
                       !.kind = "reap", !.prov = p, !.plan = plan, !.todo = plan]]
         /\ Goto(c, IF plan = {} THEN "gclist" ELSE "lock")
    /\ Remember
    /\ UNCHANGED <<lock, journal, manifest, dead, cloud>>

ReapNext(c) ==
    /\ pc[c] = "reaping"
    /\ \E i \in loc[c].todo :
         loc' = [loc EXCEPT ![c].id = i, ![c].todo = @ \ {i}]
    /\ Goto(c, "destroy")
    /\ UNCHANGED <<history, lock, journal, manifest, dead, cloud>>

\* Every planned manifest is tombstoned, whatever its teardown came to; the
\* plan is of no use after that.
ReapTombstones(c) ==
    /\ pc[c] = "reaping"
    /\ loc[c].todo = {}
    /\ tombstoneManifest(loc[c].plan)
    /\ loc' = [loc EXCEPT ![c].plan = {}, ![c].id = DemoId]
    /\ Goto(c, "gclist")
    /\ UNCHANGED <<history, lock, journal, manifest, cloud>>

\* gcOrphanJournals: the snapshot of what the provider has; an error ends it.
GcList(c) ==
    /\ pc[c] = "gclist"
    /\ \/ /\ loc' = [loc EXCEPT ![c].live = LiveAt(loc[c].prov)]
          /\ Goto(c, "gcdir")
          /\ UNCHANGED lock
       \/ Exit(c)
    /\ UNCHANGED <<history, journal, manifest, dead, cloud>>

\* localClusterIDs
GcReadDir(c) ==
    /\ pc[c] = "gcdir"
    /\ loc' = [loc EXCEPT ![c].todo = {i \in Id : journal[i] # NoProvider}]
    /\ Goto(c, "gc")
    /\ UNCHANGED <<history, lock, journal, manifest, dead, cloud>>

\* st.Load: another provider's journal, or a cluster of the snapshot, is
\* passed over.
GcVisit(c) ==
    /\ pc[c] = "gc"
    /\ \E i \in loc[c].todo :
         \/ /\ journal[i] = loc[c].prov /\ i \notin loc[c].live
            /\ loc' = [loc EXCEPT ![c].id = i, ![c].todo = @ \ {i}]
            /\ Goto(c, "gclock")
         \/ /\ journal[i] # loc[c].prov \/ i \in loc[c].live
            /\ loc' = [loc EXCEPT ![c].todo = @ \ {i}]
            /\ UNCHANGED pc
    /\ UNCHANGED <<history, lock, journal, manifest, dead, cloud>>

GcDone(c) ==
    /\ pc[c] = "gc"
    /\ loc[c].todo = {}
    /\ Exit(c)
    /\ UNCHANGED <<history, journal, manifest, dead, cloud>>

\* TryLock; a lock held, or one that cannot be opened, passes the id over.
GcLock(c) ==
    /\ pc[c] = "gclock"
    /\ \/ /\ LockFree(loc[c].id)
          /\ lock' = [lock EXCEPT ![loc[c].id] = c]
          /\ Goto(c, "gcclose")
       \/ UNCHANGED lock /\ Goto(c, "gc")
    /\ UNCHANGED <<loc, history, journal, manifest, dead, cloud>>

GcUnlock(c) ==
    /\ lock' = [lock EXCEPT ![loc[c].id] = NoCommand]
    /\ Goto(c, "gc")

\* st.Close
GcClose(c) ==
    /\ pc[c] = "gcclose"
    /\ \/ /\ journal' = [journal EXCEPT ![loc[c].id] = NoProvider]
          /\ Goto(c, "gctomb")
          /\ UNCHANGED lock
       \/ UNCHANGED journal /\ GcUnlock(c)
    /\ UNCHANGED <<loc, history, manifest, dead, cloud>>

GcTombstone(c) ==
    /\ pc[c] = "gctomb"
    /\ tombstoneManifest({loc[c].id})
    /\ GcUnlock(c)
    /\ UNCHANGED <<loc, history, journal, manifest, cloud>>

-----------------------------------------------------------------------------
\* The process is killed; its flocks go with it.
Crash(c) ==
    /\ pc[c] # "idle"
    /\ Exit(c)
    /\ UNCHANGED <<history, journal, manifest, dead, cloud>>

Start(c) == StartUp(c) \/ StartDown(c) \/ StartReap(c)

\* The steps a started command takes by itself.
Proceed(c) ==
    \/ TakeLock(c) \/ LockBusy(c) \/ LockError(c) \/ AllLocked(c)
    \/ PreflightPasses(c) \/ UpRefused(c) \/ UpJournal(c) \/ UpCreate(c)
    \/ UpRecord(c) \/ UpFails(c) \/ UpRollsBack(c) \/ UpStops(c) \/ UpManifest(c)
    \/ AbortDestroy(c) \/ AbortVerify(c) \/ AbortClose(c) \/ AbortFails(c)
    \/ AbortExit(c)
    \/ Preview(c) \/ Destroy(c) \/ Verify(c) \/ DownFails(c) \/ Close(c)
    \/ Tombstone(c)
    \/ ReapNext(c) \/ ReapTombstones(c)
    \/ GcList(c) \/ GcReadDir(c) \/ GcVisit(c) \/ GcDone(c) \/ GcLock(c)
    \/ GcClose(c) \/ GcTombstone(c)

Next ==
    \E c \in Command :
        Start(c) \/ Proceed(c) \/ UpDetaches(c) \/ Interrupt(c) \/ Crash(c)

Spec == Init /\ [][Next]_vars

-----------------------------------------------------------------------------
(***************************************************************************)
(* Properties.                                                             *)
(***************************************************************************)

\* The existence guard: two runs of `up` never have servers under one id at
\* one provider, however they overlap with each other, with teardowns and with
\* crashes, unless a guard could not be evaluated (lock file, listing).
OneUp ==
    \A s, t \in cloud :
        s[1] = t[1] /\ s[2] = t[2] /\ s[3] # t[3]
            => {s[3], t[3]} \cap unguarded # {}

\* A cluster with servers at the provider has a journal, whatever was
\* interrupted, so `doctor`, `down` and the operator can find it.  The code
\* leaves two gaps: an `up -f` whose journal could not be saved, and a create
\* that takes effect while the ^C of its own `up -f` tears the cluster down.
Journaled ==
    unguarded = {} =>
        \A s \in cloud \ stray : journal[s[2]] # NoProvider

\* A cluster's servers, journal and manifest are only ever touched by the
\* command that holds the cluster's lock at that moment, its ^C handler included.
OwnersOnly ==
    [][unguarded' = {} =>
         \A i \in Id :
            \/ \E c \in Command :
                  lock[i] = c /\ (pc'[c] # pc[c] \/ loc'[c] # loc[c])
            \/ /\ {s \in cloud : s[2] = i} = {s \in cloud' : s[2] = i}
               /\ journal'[i] = journal[i]
               /\ manifest'[i] = manifest[i]
               /\ (i \in dead') <=> (i \in dead)]_vars

\* Down "VERIFIES nothing remains before closing the state record", and gc
\* removes journals "whose cluster no longer exists at the provider": a journal
\* is removed only when the provider it names has no servers under its id, or
\* has those alone that the `up -f` whose ^C removes it was still creating.
CloseWhenEmpty ==
    [][unguarded = {} =>
         \A i \in Id :
            journal[i] # NoProvider /\ journal'[i] = NoProvider
              => \A s \in ServersOf(journal[i], i) :
                    s \in stray /\ loc[s[3]].abort = "close"]_vars

\* A manifest is marked as torn down only when the provider it names has no
\* servers under its id ("Called on a successful down/reap").
TombstoneWhenEmpty ==
    [][unguarded = {} =>
         \A i \in dead' \ dead : ServersOf(manifest[i], i) = {}]_vars

\* No command ever waits for another one: two reaps that each hold a lock the
\* other wants, or a reap that meets an `up` watching its workload, can always
\* take their next step by themselves.
NeverStuck ==
    \A c \in Command : pc[c] \notin {"idle", "attached"} => ENABLED Proceed(c)

=============================================================================
