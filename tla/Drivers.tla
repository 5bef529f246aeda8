------------------------------ MODULE Drivers ------------------------------
(***************************************************************************)
(* What the six cloud drivers do to one cluster's resources: servers, block *)
(* volumes, the login key and the edge firewall, over several lives of the *)
(* same cluster id.  A life is one `up`: it generates a fresh login key,   *)
(* creates the nodes concurrently and rolls back with Down when one fails. *)
(*                                                                         *)
(* The provider's API is external: an answer may be an error although the  *)
(* request had its effect.  Which machine type is asked for, and where, is *)
(* Placement's subject; journals and locks are Orchestrator's and          *)
(* Lifecycle's.  Here the lock is held: one command at a time.             *)
(***************************************************************************)
EXTENDS Naturals, FiniteSets

CONSTANTS
    Driver,          \* the drivers checked
    Node,            \* the nodes of the topology
    MaxLife,         \* bound: lives of the cluster id
    MaxServer,       \* bound: servers ever launched
    MaxFault,        \* bound: calls that fail
    MaxAttempts,     \* maxProvisionAttempts
    DestroyAttempts  \* attempts of destroyWithRetry

ASSUME DriversAssumption ==
    /\ Driver \subseteq {"hetzner", "scaleway", "lambda", "vultr", "linode", "digitalocean"}
    /\ IsFiniteSet(Node)
    /\ {MaxLife, MaxServer, MaxFault} \subseteq Nat
    /\ {MaxAttempts, DestroyAttempts} \subseteq Nat \ {0}

VARIABLES
    drv,       \* the driver in use
    life,      \* lives begun
    cmd,       \* where the command that holds the lock stands
    pc,        \* CreateServer of each node
    attempt,   \* createWithRetry's attempt
    mine,      \* the server CreateServer waits for
    key,       \* the login key the node will be launched with
    srv,       \* every server ever launched
    vol,       \* servers whose block volume exists
    keys,      \* material of the login keys registered under the cluster's name
    fw,        \* the edge firewall
    todo, target, tries, firstErr,  \* Down
    faults,    \* failed calls so far
    \* history
    slipped,   \* servers whose teardown failed after they were terminated
    doubled,   \* servers whose launch was answered with an error and asked for again
    blind,     \* lives begun although the preflight's listing had failed
    dirty      \* lives begun with the key of an earlier one still registered

upVars == <<pc, attempt, mine, key>>
cloudVars == <<srv, vol, keys, fw>>
downVars == <<todo, target, tries, firstErr>>
histVars == <<slipped, doubled, blind, dirty>>
vars == <<drv, life, cmd, upVars, cloudVars, downVars, faults, histVars>>

Sid == 1..MaxServer
None == 0

\* Drivers that register the login key under a name made of the cluster id, and
\* delete it in ReapAux; lambda names it by its fingerprint, linode passes it
\* with the request.
KeyByName == {"hetzner", "scaleway", "vultr", "digitalocean"}

TypeOK ==
    /\ drv \in Driver /\ life \in 0..MaxLife /\ faults \in 0..MaxFault
    /\ cmd \in {"idle", "up", "firewall", "list", "destroy", "volumes", "verify", "aux", "done"}
    /\ pc \in [Node -> {"idle", "key", "register", "launch", "boot", "ok", "failed"}]
    /\ attempt \in [Node -> 1..MaxAttempts]
    /\ mine \in [Node -> Sid \cup {None}] /\ key \in [Node -> 0..MaxLife]
    /\ srv \in [Sid -> [st : {"none", "stopped", "booting", "running", "error", "terminating", "gone"},
                        node : Node \cup {None}, of : 0..MaxLife, key : 0..MaxLife]]
    /\ vol \subseteq Sid /\ keys \subseteq 1..MaxLife
    /\ fw \in {"none", "cluster", "account"}
    /\ todo \subseteq Sid /\ target \in Sid \cup {None}
    /\ tries \in 0..(DestroyAttempts - 1) /\ firstErr \in BOOLEAN
    /\ slipped \subseteq Sid /\ doubled \subseteq Sid
    /\ blind \subseteq 1..MaxLife /\ dirty \subseteq 1..MaxLife

NoServer == [st |-> "none", node |-> None, of |-> 0, key |-> 0]

Init ==
    /\ drv \in Driver /\ life = 0 /\ cmd = "idle" /\ faults = 0
    /\ pc = [n \in Node |-> "idle"] /\ attempt = [n \in Node |-> 1]
    /\ mine = [n \in Node |-> None] /\ key = [n \in Node |-> 0]
    /\ srv = [s \in Sid |-> NoServer] /\ vol = {} /\ keys = {} /\ fw = "none"
    /\ todo = {} /\ target = None /\ tries = 0 /\ firstErr = FALSE
    /\ slipped = {} /\ doubled = {} /\ blind = {} /\ dirty = {}

\* Servers that work, or are about to.
Working == {s \in Sid : srv[s].st \in {"stopped", "booting", "running"}}

\* The listings by tag or name.  Lambda's leaves out what is terminating.
instancesByTag == {s \in Sid : srv[s].st \notin {"none", "gone"}}
listInstances == {s \in instancesByTag : srv[s].st # "terminating"}
ListByTag == IF drv = "lambda" THEN listInstances ELSE instancesByTag

Fault == faults < MaxFault /\ faults' = faults + 1
NoFault == UNCHANGED faults

Goto(n, at) == pc' = [pc EXCEPT ![n] = at]

-----------------------------------------------------------------------------
(***************************************************************************)
(* up: CreateServer of each node                                           *)
(***************************************************************************)
\* The preflight refuses an id that has servers; a listing that fails lets `up`
\* proceed.
upPreflight ==
    \/ ListByTag = {} /\ NoFault /\ UNCHANGED blind
    \/ Fault /\ blind' = blind \cup {life + 1}

upBegins ==
    /\ cmd \in {"idle", "done"} /\ life < MaxLife /\ upPreflight
    /\ cmd' = "up" /\ life' = life + 1
    /\ dirty' = IF drv \in KeyByName /\ keys # {} THEN dirty \cup {life + 1} ELSE dirty
    /\ pc' = [n \in Node |-> "key"] /\ attempt' = [n \in Node |-> 1]
    /\ mine' = [n \in Node |-> None] /\ key' = [n \in Node |-> 0]
    /\ UNCHANGED <<drv, cloudVars, downVars, slipped, doubled>>

KeyFrame ==
    UNCHANGED <<drv, life, cmd, attempt, mine, srv, vol, fw, downVars, histVars>>

\* The key found, or registered, for node n; the request comes next.
Using(n, k) == key' = [key EXCEPT ![n] = k] /\ Goto(n, "launch")
Register == keys' = keys \cup {life}
NoKey(n) == Goto(n, "failed") /\ UNCHANGED key

\* hetzner, under keyMu: by name, whatever its material.  A lookup that fails is
\* an error; so is a create that fails, unless the key is there by then.
keyHetzner(n) ==
    \/ /\ keys # {} /\ NoFault /\ UNCHANGED keys
       /\ \E k \in keys : Using(n, k)
    \/ keys = {} /\ Register /\ Using(n, life) /\ (NoFault \/ Fault)
    \/ NoKey(n) /\ Fault /\ UNCHANGED keys
    \/ keys = {} /\ NoKey(n) /\ Fault /\ Register

\* vultr, digitalocean, under keyMu: by name or material.  A list that fails
\* counts as nothing found: the create then registers a second key of the name,
\* or is refused as a duplicate and the second look decides.
keyByName(n) ==
    \/ /\ keys # {} /\ NoFault /\ UNCHANGED keys
       /\ \E k \in keys : Using(n, k)
    \/ keys = {} /\ Register /\ Using(n, life) /\ NoFault
    \/ Register /\ Fault
         /\ \E k \in {life} \cup (IF life \in keys THEN keys ELSE {}) : Using(n, k)
    \/ NoKey(n) /\ Fault /\ (Register \/ UNCHANGED keys)

\* scaleway: the same, but the image takes every key of the project at boot, so
\* the newest of them decides whether this life can log in.
keyScaleway(n) ==
    \/ /\ keys # {} /\ NoFault /\ UNCHANGED keys
       /\ \E k \in keys : (life \in keys => k = life) /\ Using(n, k)
    \/ Register /\ Using(n, life) /\ (Fault \/ (keys = {} /\ NoFault))
    \/ NoKey(n) /\ Fault /\ (Register \/ UNCHANGED keys)

\* linode: the key is part of the request.
keyLinode(n) == Using(n, life) /\ NoFault /\ UNCHANGED keys

\* mutant: lambda takes any key of the cluster
AnyKey == keys
\* sameKey: by material
findKey == keys \cap {life}

\* lambda: listed here, registered in a step of its own, without a lock.
keyLambda(n) ==
    \/ \E k \in findKey : Using(n, k) /\ NoFault /\ UNCHANGED keys
    \/ findKey = {} /\ Goto(n, "register") /\ NoFault /\ UNCHANGED <<keys, key>>
    \/ NoKey(n) /\ Fault /\ UNCHANGED keys

ensureLoginKey(n) ==
    /\ cmd = "up" /\ pc[n] = "key"
    /\ \/ drv = "hetzner" /\ keyHetzner(n)
       \/ drv \in {"vultr", "digitalocean"} /\ keyByName(n)
       \/ drv = "scaleway" /\ keyScaleway(n)
       \/ drv = "linode" /\ keyLinode(n)
       \/ drv = "lambda" /\ keyLambda(n)
    /\ KeyFrame

\* POST /ssh-keys.  When another node was faster the API takes the second
\* registration or refuses it.
registerKey(n) ==
    /\ cmd = "up" /\ pc[n] = "register"
    /\ \/ Register /\ Using(n, life) /\ NoFault
       \/ life \in keys /\ NoKey(n) /\ NoFault /\ UNCHANGED keys
       \/ NoKey(n) /\ Fault /\ (Register \/ UNCHANGED keys)
    /\ KeyFrame

\* The server a request makes: scaleway's is stopped, with a block volume.
Launched(s, n) ==
    /\ srv[s].st = "none" /\ \A t \in Sid : t < s => srv[t].st # "none"
    /\ srv' = [srv EXCEPT ![s] =
                 [st |-> IF drv = "scaleway" THEN "stopped" ELSE "booting",
                  node |-> n, of |-> life, key |-> key[n]]]
    /\ vol' = IF drv = "scaleway" THEN vol \cup {s} ELSE vol

LaunchFrame ==
    UNCHANGED <<drv, life, cmd, attempt, key, keys, fw, downVars, slipped, blind, dirty>>

\* The create request is answered with a server.
Accepted(n) ==
    /\ \E s \in Sid : Launched(s, n) /\ mine' = [mine EXCEPT ![n] = s]
    /\ Goto(n, "boot") /\ NoFault /\ UNCHANGED doubled

\* It is refused: no capacity anywhere, a quota, a bad request.
Refused(n) == Goto(n, "failed") /\ NoFault /\ UNCHANGED <<srv, vol, mine, doubled>>

\* Its answer is lost although the server exists.
Unanswered(n) ==
    /\ \E s \in Sid : Launched(s, n)
    /\ Goto(n, "failed") /\ Fault /\ UNCHANGED <<mine, doubled>>

\* The server exists, and the error that hides it makes the driver ask again.
AskedAgain(n) ==
    /\ \E s \in Sid : Launched(s, n) /\ doubled' = doubled \cup {s}
    /\ Fault /\ UNCHANGED <<pc, mine>>

\* The error's text says "unavailable", as a gateway's 503 does: five drivers take
\* it for a want of capacity and go on with the next type or region.
isAvailabilityErr(n) == drv # "lambda" /\ AskedAgain(n)

\* lambda's do() repeats the same request after a 5xx, like after a 429.
Relaunched(n) == drv = "lambda" /\ AskedAgain(n)

launch(n) ==
    /\ cmd = "up" /\ pc[n] = "launch"
    /\ Accepted(n) \/ Refused(n) \/ Unanswered(n) \/ isAvailabilityErr(n) \/ Relaunched(n)
    /\ LaunchFrame

BootFrame ==
    UNCHANGED <<drv, life, cmd, mine, key, vol, keys, fw, downVars, histVars>>

\* Scaleway: the user-data is set and the server powered on.
finishBoot(n) ==
    /\ cmd = "up" /\ pc[n] = "boot" /\ srv[mine[n]].st = "stopped"
    /\ \/ srv' = [srv EXCEPT ![mine[n]].st = "booting"] /\ UNCHANGED pc /\ NoFault
       \/ Goto(n, "failed") /\ Fault /\ srv' \in {srv, [srv EXCEPT ![mine[n]].st = "booting"]}
    /\ UNCHANGED attempt /\ BootFrame

\* The provider boots a server, or kills it (lambda, for want of capacity).
Boots(s) ==
    /\ srv[s].st = "booting"
    /\ srv' = [srv EXCEPT ![s].st = "running"]
    /\ UNCHANGED <<pc, attempt, faults>> /\ BootFrame

Reclaims(s) ==
    /\ drv = "lambda" /\ srv[s].st = "booting"
    /\ \E st \in {"terminating", "error"} : srv' = [srv EXCEPT ![s].st = st]
    /\ UNCHANGED <<pc, attempt, faults>> /\ BootFrame

\* mutant: a boot that times out counts as transient too
AnyBootFailure(n) == TRUE
\* TransientProvisionError: only lambda's, and only for an instance that died.
Transient(n) == drv = "lambda" /\ srv[mine[n]].st \in {"error", "terminating"}

\* The create's poll finds the server running, with an address.
bootDone(n) ==
    /\ srv[mine[n]].st = "running" /\ Goto(n, "ok")
    /\ NoFault /\ UNCHANGED <<attempt, srv>>

\* The instance died: after a best-effort destroy createWithRetry asks for a
\* fresh one, while attempts are left.
bootDied(n) ==
    /\ Transient(n)
    /\ IF attempt[n] < MaxAttempts
       THEN Goto(n, "key") /\ attempt' = [attempt EXCEPT ![n] = @ + 1]
       ELSE Goto(n, "failed") /\ UNCHANGED attempt
    /\ srv' \in {srv} \cup (IF drv = "lambda" /\ srv[mine[n]].st = "error"
                           THEN {[srv EXCEPT ![mine[n]].st = "terminating"]} ELSE {})
    /\ NoFault

\* The deadline passes, or a poll fails.  The server stays.
bootGivenUp(n) ==
    /\ Goto(n, "failed") /\ UNCHANGED <<attempt, srv>>
    /\ IF srv[mine[n]].st = "running" THEN Fault ELSE NoFault

waitRunning(n) ==
    /\ cmd = "up" /\ pc[n] = "boot" /\ srv[mine[n]].st # "stopped"
    /\ bootDone(n) \/ bootDied(n) \/ bootGivenUp(n)
    /\ BootFrame

\* g.Wait: every node is up, and the edge firewall is next; or one failed and the
\* cluster is rolled back.
upSettles ==
    /\ cmd = "up" /\ \A n \in Node : pc[n] \in {"ok", "failed"}
    /\ cmd' = IF \A n \in Node : pc[n] = "ok" THEN "firewall" ELSE "list"
    /\ UNCHANGED <<drv, life, upVars, cloudVars, downVars, faults, histVars>>

\* hetzner: created for the cluster unless one is there
EnsureClusterFirewall == fw' = "cluster"
\* lambda: the port is added to the account's rules, once
openAccountPort == fw' = "account"

\* The other drivers have none.  A failure is a warning.
ensureCloudFirewall ==
    /\ cmd = "firewall" /\ cmd' = "idle"
    /\ \/ drv = "hetzner" /\ EnsureClusterFirewall /\ NoFault
       \/ drv = "lambda" /\ openAccountPort /\ NoFault
       \/ drv \notin {"hetzner", "lambda"} /\ UNCHANGED fw /\ NoFault
       \/ Fault /\ UNCHANGED fw
    /\ UNCHANGED <<drv, life, upVars, srv, vol, keys, downVars, histVars>>

-----------------------------------------------------------------------------
(***************************************************************************)
(* Down                                                                    *)
(***************************************************************************)
DownFrame == UNCHANGED <<drv, life, upVars, doubled, blind, dirty>>

downBegins ==
    /\ cmd \in {"idle", "done"} /\ life > 0 /\ cmd' = "list"
    /\ UNCHANGED <<cloudVars, downVars, faults, slipped>> /\ DownFrame

Next1(rest) == IF rest = {} THEN None ELSE CHOOSE s \in rest : \A t \in rest : s <= t

downLists ==
    /\ cmd = "list"
    /\ \/ /\ cmd' = "destroy" /\ todo' = ListByTag /\ target' = Next1(ListByTag) /\ NoFault
       \/ cmd' = "idle" /\ todo' = {} /\ target' = None /\ Fault
    /\ tries' = 0 /\ firstErr' = FALSE
    /\ UNCHANGED <<cloudVars, slipped>> /\ DownFrame

\* destroyWithRetry goes on to the next server after a success or its last attempt.
Done1 == todo' = todo \ {target} /\ target' = Next1(todo \ {target}) /\ tries' = 0
DestroyOk == Done1 /\ UNCHANGED firstErr /\ cmd' = "destroy"
\* mutant: one attempt more than there are
OnceMore ==
    /\ cmd' = "destroy"
    /\ \/ tries < DestroyAttempts /\ tries' = tries + 1 /\ UNCHANGED <<todo, target, firstErr>>
       \/ tries >= DestroyAttempts /\ Done1 /\ firstErr' = TRUE
DestroyErr ==
    /\ cmd' = "destroy"
    /\ \/ tries + 1 < DestroyAttempts /\ tries' = tries + 1 /\ UNCHANGED <<todo, target, firstErr>>
       \/ tries + 1 >= DestroyAttempts /\ Done1 /\ firstErr' = TRUE

\* The state a delete leads to; lambda's is asynchronous.
Deleted == [srv EXCEPT ![target].st = "gone"]
Terminated == [srv EXCEPT ![target].st = IF @ = "gone" THEN @ ELSE "terminating"]

\* DestroyServer of every driver but scaleway.  A missing server is a success; a
\* failed call may have had its effect.
DestroyServer ==
    /\ cmd = "destroy" /\ target # None /\ drv # "scaleway"
    /\ LET after == IF drv = "lambda" THEN Terminated ELSE Deleted
       IN \/ srv' = after /\ DestroyOk /\ NoFault
          \/ srv' \in {srv, after} /\ DestroyErr /\ Fault
    /\ UNCHANGED <<vol, keys, fw, slipped>> /\ DownFrame

\* mutant: the volumes are read from a server that is no longer there
ReadAfter == {}
\* blockVolumeIDs, from what locate returned, before the termination
blockVolumeIDs == vol \cap {target}

\* Scaleway: locate takes any error for "not in this zone", so one that hits the
\* server's zone is a success; then the server is terminated.
terminate ==
    /\ cmd = "destroy" /\ target # None /\ drv = "scaleway"
    /\ \/ srv[target].st = "gone" /\ DestroyOk /\ NoFault /\ UNCHANGED <<srv, slipped>>
       \/ DestroyOk /\ Fault /\ UNCHANGED <<srv, slipped>>
       \/ /\ srv[target].st # "gone"
          /\ srv' = Deleted /\ cmd' = IF blockVolumeIDs = {} THEN "destroy" ELSE "volumes"
          /\ IF blockVolumeIDs = {} THEN Done1 ELSE UNCHANGED <<todo, target, tries>>
          /\ NoFault /\ UNCHANGED <<slipped, firstErr>>
       \/ /\ srv[target].st # "gone" /\ DestroyErr /\ Fault
          /\ \/ UNCHANGED <<srv, slipped>>
             \/ srv' = Deleted /\ slipped' = slipped \cup {target}
    /\ UNCHANGED <<vol, keys, fw>> /\ DownFrame

\* Scaleway: the leftovers are deleted; an error makes the call fail, and its
\* retry will find no server.
DeleteVolume ==
    /\ cmd = "volumes"
    /\ \/ vol' = vol \ {target} /\ DestroyOk /\ NoFault /\ UNCHANGED slipped
       \/ DestroyErr /\ Fault /\ slipped' = slipped \cup {target} /\ UNCHANGED vol
    /\ UNCHANGED <<srv, keys, fw>> /\ DownFrame

\* A destroy that failed for good ends Down; else nothing may be listed any more.
verifyEmpty ==
    /\ cmd \in {"destroy", "verify"} /\ target = None
    /\ \/ cmd = "destroy" /\ cmd' = (IF firstErr THEN "idle" ELSE "verify") /\ NoFault
       \/ cmd = "verify" /\ cmd' = (IF ListByTag = {} THEN "aux" ELSE "idle") /\ NoFault
       \/ cmd = "verify" /\ cmd' = "idle" /\ Fault
    /\ UNCHANGED <<cloudVars, downVars, slipped>> /\ DownFrame

\* hetzner's firewall is detached and deleted, in up to ten attempts.
deleteFirewall == fw' = IF fw = "cluster" THEN "none" ELSE fw

\* mutant: the reaper stops at the keys
KeysOnly == keys' = {} /\ UNCHANGED fw
\* hetzner: the cluster's keys, then its firewall, whatever came of the keys
reapHetzner == keys' = {} /\ deleteFirewall
\* scaleway, vultr, digitalocean: the keys of the cluster's name
reapKeys == keys' = {} /\ UNCHANGED fw

\* lambda and linode have no reaper.  A failure ends the command with the servers
\* gone.
ReapAux ==
    /\ cmd = "aux"
    /\ \/ drv = "hetzner" /\ reapHetzner /\ cmd' = "done" /\ NoFault
       \/ drv \in KeyByName \ {"hetzner"} /\ reapKeys /\ cmd' = "done" /\ NoFault
       \/ drv \notin KeyByName /\ cmd' = "done" /\ UNCHANGED <<keys, fw>> /\ NoFault
       \/ /\ drv = "hetzner" /\ cmd' = "idle" /\ Fault
          /\ keys' \in {keys, {}} /\ (deleteFirewall \/ UNCHANGED fw)
       \/ /\ drv \in KeyByName \ {"hetzner"} /\ cmd' = "idle" /\ Fault
          /\ keys' \in {keys, {}} /\ UNCHANGED fw
    /\ UNCHANGED <<srv, vol, downVars, slipped>> /\ DownFrame

\* Lambda's terminations complete.
Vanishes(s) ==
    /\ srv[s].st = "terminating" /\ srv' = [srv EXCEPT ![s].st = "gone"]
    /\ UNCHANGED <<cmd, vol, keys, fw, downVars, faults, slipped>> /\ DownFrame

\* The command dies.
Crash ==
    /\ cmd \notin {"idle", "done"} /\ Fault /\ cmd' = "idle"
    /\ pc' = [n \in Node |-> "idle"]
    /\ slipped' = IF cmd = "volumes" THEN slipped \cup {target} ELSE slipped
    /\ todo' = {} /\ target' = None /\ tries' = 0 /\ firstErr' = FALSE
    /\ UNCHANGED <<drv, life, attempt, mine, key, cloudVars, doubled, blind, dirty>>

Next ==
    \/ upBegins \/ upSettles \/ ensureCloudFirewall
    \/ \E n \in Node : \/ ensureLoginKey(n) \/ registerKey(n) \/ launch(n)
                       \/ finishBoot(n) \/ waitRunning(n)
    \/ \E s \in Sid : Boots(s) \/ Reclaims(s) \/ Vanishes(s)
    \/ downBegins \/ downLists \/ DestroyServer \/ terminate \/ DeleteVolume
    \/ verifyEmpty \/ ReapAux \/ Crash

Spec == Init /\ [][Next]_vars

-----------------------------------------------------------------------------
(***************************************************************************)
(* Properties                                                              *)
(***************************************************************************)
\* A Down that reports success left no server that bills, whatever a driver's
\* destroy said; no login key under the cluster's name and no edge firewall; and
\* no block volume but those whose own teardown had failed before.
DownLeavesNothing ==
    cmd = "done" =>
        /\ \A s \in Sid : srv[s].st \in {"none", "terminating", "gone"}
        /\ drv \in KeyByName => keys = {}
        /\ fw # "cluster"
        /\ vol \subseteq slipped

\* A block volume without its server is about to be deleted, or its deletion
\* failed: no other order of calls, retries and crashes detaches one for good.
LeftoverExplained ==
    \A s \in vol : srv[s].st = "gone" => s \in slipped \/ (cmd = "volumes" /\ target = s)

\* A node has two servers at work only in the ways the code lets happen: all but
\* one of those of a life are servers whose launch was answered with an error that
\* made the driver ask again, and a server of an earlier life is still there only
\* beside a life whose preflight could not list.
OneServerPerNode ==
    \A s, t \in Working \ doubled :
        srv[s].node = srv[t].node /\ srv[s].of <= srv[t].of =>
            s = t \/ (srv[s].of < srv[t].of /\ srv[t].of \in blind)

\* The servers of a life are launched with the login key of that life, unless it
\* began with an earlier one's key still registered under the cluster's name.
LoginKeyCurrent ==
    \A s \in Sid : srv[s].st # "none" /\ srv[s].of \notin dirty => srv[s].key = srv[s].of

\* "deletes any leftover block volumes so nothing bills after teardown": a Down
\* that reports success leaves no volume.
NothingBills == cmd = "done" => vol = {}

=============================================================================
